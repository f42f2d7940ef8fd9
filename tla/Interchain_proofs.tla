--------------------------- MODULE Interchain_proofs ---------------------------
(***************************************************************************)
(* Proofs about the helpers for interchain queries and transactions, and    *)
(* the tests that wait with them.                                           *)
(*                                                                          *)
(* KvQueries: whatever the relayer fetches, loses or submits late, a wait   *)
(* that returns has a result that is newer than the call.                   *)
(*                                                                          *)
(* TxQueries: with any periods, a relayer as late as assumed and a test as  *)
(* slow as assumed, what the three files wait for is there when they look.  *)
(* What was sent before a step began is submitted within a period and the   *)
(* relayer's delay (Due), for the relayer handles a query at least as often *)
(* (Handling); a wait has looked in every block since it began (Looks).     *)
(*                                                                          *)
(* InterchainTx: however hermes, the two chains and the test interleave,    *)
(* what a step has waited for tells which packets were handled (SendInv,    *)
(* SudoFailureInv, UnorderedInv), and that tells what has been delegated    *)
(* (Added) and which results were stored or have failed.                    *)
(***************************************************************************)
EXTENDS KvQueries, TxQueries, InterchainTx, FiniteSetTheorems, SequenceTheorems, TLAPS

-------------------------------------------------------------------------------
(* KvQueries                                                                *)

(* What is known on Neutron of the remote chain is behind it by a header.   *)
Heights ==
  \A q \in Query :
    /\ result[q] < remote /\ fetched[q] < remote
    /\ changed[q] <= remote
    /\ callback[q] <= local

(* What has been read before the wait is not from the future.               *)
PrevInv == \A q \in readPrev : statusPrev[q] <= callback[q]

(* Nothing is read of statuses before the place it is read at.              *)
PlaceInv ==
  /\ pc \in {"idle", "prev", "height", "wait"} => read = {}
  /\ pc \in {"idle", "height"} => readPrev = {}
  /\ pc = "status" => readPrev = queryIds

(* A result of the height that is waited for comes with a new callback and  *)
(* has the last change.                                                     *)
TargetInv ==
  pc \in {"wait", "status", "validate"} =>
    /\ \A q \in queryIds : changed[q] <= targetHeight
    /\ \A q \in readPrev : result[q] >= targetHeight => statusPrev[q] < callback[q]

(* The result that ended a wait is not lost again.                          *)
ReadyInv ==
  /\ pc = "wait" =>
       \A q \in queryIds : wait[q] = "ready" => result[q] >= targetHeight
  /\ pc \in {"status", "validate"} => \A q \in queryIds : result[q] >= targetHeight

StatusInv == pc = "status" => \A q \in read : statusPrev[q] < status[q]

(* Who looks has an attempt left.                                           *)
AttemptsInv ==
  pc = "wait" => \A q \in queryIds : wait[q] = "look" => attempts[q] > 0

IInv ==
  /\ TypeOK
  /\ AttemptsInv
  /\ Heights
  /\ PrevInv
  /\ PlaceInv
  /\ TargetInv
  /\ ReadyInv
  /\ StatusInv
  /\ CallbacksNewer
  /\ BalancesEqual

USE DEF PC, Verdict, getKvCallbackStatus, getRegisteredQuery, getQueryBalanceResult

LEMMA InitIInv == Init => IInv
BY HeightsAssumption, AttemptsAssumption
   DEF Init, Zero, Looking, IInv, TypeOK, AttemptsInv, Heights, PrevInv, PlaceInv, TargetInv,
       ReadyInv, StatusInv, CallbacksNewer, BalancesEqual

-------------------------------------------------------------------------------
(* The relayer and the chains                                               *)

(* A step that changes neither the test nor what Neutron has, and takes no  *)
(* height back.                                                             *)
LEMMA NothingSubmitted ==
  ASSUME IInv, UNCHANGED <<testVars, waitVars, changed, localVars>>,
         remote' \in Nat, remote' >= remote, fetched' \in [Query -> Nat],
         \A q \in Query : fetched'[q] < remote'
  PROVE  IInv'
<1> USE DEF testVars, statusVars, waitVars, localVars
<1>1. TypeOK'
  BY DEF IInv, TypeOK
<1>2. Heights'
  BY DEF IInv, TypeOK, Heights
<1>3. PrevInv' /\ PlaceInv' /\ StatusInv'
  BY DEF IInv, PrevInv, PlaceInv, StatusInv
<1>4. TargetInv' /\ ReadyInv' /\ AttemptsInv'
  BY DEF IInv, TargetInv, ReadyInv, AttemptsInv
<1>5. CallbacksNewer' /\ BalancesEqual'
  BY DEF IInv, CallbacksNewer, BalancesEqual
<1> QED BY <1>1, <1>2, <1>3, <1>4, <1>5 DEF IInv

(* Results are submitted: each is newer, and so is its callback.            *)
LEMMA Submitted ==
  ASSUME IInv, NEW ids \in SUBSET Query, LocalBlock(ids)
  PROVE  IInv'
<1> USE DEF LocalBlock, testVars, statusVars, waitVars, remoteVars
<1>1. /\ local' \in Nat /\ local' = local + 1
      /\ result' \in [Query -> Nat] /\ callback' \in [Query -> Nat]
      /\ fetched' \in [Query -> Nat]
  BY DEF IInv, TypeOK
<1>2. \A q \in Query :
        \/ result'[q] = result[q] /\ callback'[q] = callback[q]
        \/ /\ result'[q] = fetched[q] /\ fetched[q] > result[q]
           /\ callback'[q] = local + 1
  BY DEF Accepted
<1>3. TypeOK'
  BY <1>1 DEF IInv, TypeOK
<1>4. \A q \in Query : fetched'[q] = 0 \/ fetched'[q] = fetched[q]
  OBVIOUS
<1>5. \A q \in Query :
        /\ result[q] \in Nat /\ fetched[q] \in Nat /\ callback[q] \in Nat
        /\ changed[q] \in Nat /\ result[q] < remote /\ fetched[q] < remote
        /\ changed[q] <= remote /\ callback[q] <= local
        /\ remote \in Nat /\ local \in Nat
  BY DEF IInv, TypeOK, Heights
<1>6. Heights'
  BY <1>1, <1>2, <1>4, <1>5 DEF Heights
<1>7. \A q \in Query : result'[q] >= result[q] /\ callback'[q] >= callback[q]
  BY <1>2, <1>5
<1>8. readPrev \subseteq Query /\ queryIds \subseteq Query /\ targetHeight \in Nat
      /\ \A q \in Query : statusPrev[q] \in Nat
  BY DEF IInv, TypeOK
<1>9. \A q \in readPrev : statusPrev[q] <= callback[q]
  BY DEF IInv, PrevInv
<1>10. PrevInv'
  BY <1>1, <1>5, <1>7, <1>8, <1>9 DEF PrevInv
<1>11. PlaceInv' /\ StatusInv' /\ AttemptsInv'
  BY DEF IInv, PlaceInv, StatusInv, AttemptsInv
<1>12. TargetInv'
  <2> SUFFICES ASSUME pc \in {"wait", "status", "validate"}, NEW q \in readPrev,
                      result'[q] >= targetHeight
               PROVE  statusPrev[q] < callback'[q]
    BY DEF IInv, TargetInv
  <2>1. CASE result'[q] = result[q] /\ callback'[q] = callback[q]
    BY <2>1 DEF IInv, TargetInv
  <2>2. CASE callback'[q] = local + 1
    BY <2>2, <1>5, <1>8, <1>9
  <2> QED BY <1>2, <1>8, <2>1, <2>2
<1>13. ReadyInv'
  <2>1. \A q \in queryIds : result[q] >= targetHeight => result'[q] >= targetHeight
    BY <1>1, <1>5, <1>7, <1>8
  <2> QED BY <2>1 DEF IInv, ReadyInv
<1>14. CallbacksNewer' /\ BalancesEqual'
  BY DEF IInv, CallbacksNewer, BalancesEqual
<1> QED BY <1>3, <1>6, <1>10, <1>11, <1>12, <1>13, <1>14 DEF IInv

LEMMA EnvironmentKeeps == IInv /\ Environment => IInv'
<1> SUFFICES ASSUME IInv, Environment PROVE IInv'
  OBVIOUS
<1>0. /\ remote \in Nat /\ fetched \in [Query -> Nat]
      /\ \A q \in Query : fetched[q] < remote
      /\ remote > 0 \/ Query = {}
  BY DEF IInv, TypeOK, Heights
<1>1. CASE RemoteBlock
  BY <1>0, <1>1, NothingSubmitted DEF RemoteBlock
<1>2. ASSUME NEW q \in Query, Fetch(q) PROVE IInv'
  <2>1. PICK h \in 1 .. MaxRemote :
          h < remote /\ fetched' = [fetched EXCEPT ![q] = h]
    BY <1>2 DEF Fetch
  <2>2. h \in Nat
    BY HeightsAssumption
  <2>3. fetched' \in [Query -> Nat] /\ \A r \in Query : fetched'[r] < remote
    BY <1>0, <2>1, <2>2
  <2> QED BY <1>0, <1>2, <2>3, NothingSubmitted DEF Fetch, remoteVars
<1>3. ASSUME NEW q \in Query, Lose(q) PROVE IInv'
  <2>1. fetched' \in [Query -> Nat] /\ \A r \in Query : fetched'[r] < remote
    BY <1>0, <1>3 DEF Lose
  <2> QED BY <1>0, <1>3, <2>1, NothingSubmitted DEF Lose, remoteVars
<1>4. ASSUME NEW ids \in SUBSET Query, LocalBlock(ids) PROVE IInv'
  BY <1>4, Submitted
<1> QED BY <1>1, <1>2, <1>3, <1>4 DEF Environment

-------------------------------------------------------------------------------
(* The wait                                                                 *)

(* A step to an end of the call keeps everything.                           *)
LEMMA CallEnded ==
  ASSUME IInv, pc' \in {"returned", "rejected"},
         UNCHANGED <<queryIds, statusVars, targetHeight, remoteVars, localVars, fetched>>,
         wait' \in [Query -> {"look", "block", "ready"}],
         attempts' \in [Query -> 0 .. numAttempts], since' \in [Query -> Nat]
  PROVE  IInv'
<1> USE DEF statusVars, remoteVars, localVars
<1>1. TypeOK'
  BY DEF IInv, TypeOK
<1>2. Heights' /\ PrevInv'
  BY DEF IInv, Heights, PrevInv
<1>3. PlaceInv' /\ TargetInv' /\ ReadyInv' /\ StatusInv' /\ CallbacksNewer'
      /\ BalancesEqual' /\ AttemptsInv'
  BY DEF AttemptsInv, PlaceInv, TargetInv, ReadyInv, StatusInv, CallbacksNewer, BalancesEqual
<1> QED BY <1>1, <1>2, <1>3 DEF IInv

(* The statuses before are read: a callback that is there now is not new.   *)
LEMMA PrevRead ==
  ASSUME IInv, NEW q \in Query, ReadPrev(q)
  PROVE  IInv'
<1> USE DEF ReadPrev, statusVars, remoteVars, localVars
<1>1. CASE pc' = "rejected" /\ UNCHANGED <<statusPrev, readPrev>>
  BY <1>1, CallEnded DEF IInv, TypeOK, waitVars
<1>2. CASE /\ statusPrev' = [statusPrev EXCEPT ![q] = callback[q]]
           /\ readPrev' = readPrev \union {q}
           /\ UNCHANGED pc
  <2>1. TypeOK'
    BY <1>2 DEF IInv, TypeOK, waitVars
  <2>2. Heights' /\ PlaceInv'
    BY <1>2 DEF IInv, Heights, PlaceInv
  <2>3. \A r \in readPrev' :
          \/ r # q /\ r \in readPrev /\ statusPrev'[r] = statusPrev[r]
          \/ r = q /\ statusPrev'[r] = callback[r]
    BY <1>2 DEF IInv, TypeOK
  <2>4. PrevInv'
    BY <2>3 DEF IInv, TypeOK, PrevInv
  <2>5. TargetInv' /\ ReadyInv' /\ StatusInv' /\ CallbacksNewer' /\ BalancesEqual'
        /\ AttemptsInv'
    BY <1>2 DEF AttemptsInv, TargetInv, ReadyInv, StatusInv, CallbacksNewer, BalancesEqual
  <2> QED BY <2>1, <2>2, <2>4, <2>5 DEF IInv
<1> QED BY <1>1, <1>2

(* The height is read: a result of that height cannot be there yet, for the *)
(* header that proves it is not, and all changes of the state are below.    *)
LEMMA TargetRead ==
  ASSUME IInv, ReadTarget
  PROVE  IInv'
<1> USE DEF ReadTarget, StartWaits, statusVars, remoteVars, localVars
<1>1. TypeOK'
  BY AttemptsAssumption DEF IInv, TypeOK, Looking
<1>2. Heights' /\ PrevInv' /\ PlaceInv'
  BY DEF IInv, TypeOK, Heights, PrevInv, PlaceInv
<1>3. \A q \in Query : changed[q] <= targetHeight' /\ ~(result[q] >= targetHeight')
  BY DEF IInv, TypeOK, Heights
<1>4. TargetInv'
  BY <1>3 DEF IInv, TypeOK, TargetInv
<1>5. ReadyInv' /\ AttemptsInv'
  BY AttemptsAssumption DEF IInv, TypeOK, ReadyInv, AttemptsInv, Looking
<1>6. StatusInv' /\ CallbacksNewer' /\ BalancesEqual'
  BY DEF StatusInv, CallbacksNewer, BalancesEqual
<1> QED BY <1>1, <1>2, <1>4, <1>5, <1>6 DEF IInv

(* A step of a wait that goes on.                                           *)
LEMMA WaitGoesOn ==
  ASSUME IInv, pc = "wait",
         UNCHANGED <<pc, queryIds, statusVars, targetHeight, remoteVars, localVars,
                     fetched>>,
         wait' \in [Query -> {"look", "block", "ready"}],
         attempts' \in [Query -> 0 .. numAttempts], since' \in [Query -> Nat],
         \A q \in queryIds :
           /\ wait'[q] = "ready" => result[q] >= targetHeight
           /\ wait'[q] = "look" => attempts'[q] > 0
  PROVE  IInv'
<1> USE DEF statusVars, remoteVars, localVars
<1>1. TypeOK'
  BY DEF IInv, TypeOK
<1>2. Heights' /\ PrevInv' /\ PlaceInv'
  BY DEF IInv, Heights, PrevInv, PlaceInv
<1>3. TargetInv' /\ ReadyInv' /\ StatusInv' /\ CallbacksNewer' /\ BalancesEqual'
      /\ AttemptsInv'
  BY DEF IInv, AttemptsInv, TargetInv, ReadyInv, StatusInv, CallbacksNewer,
         BalancesEqual
<1> QED BY <1>1, <1>2, <1>3 DEF IInv

(* A look of getWithAttempts finds a result ready only if it is there.      *)
LEMMA Looked ==
  ASSUME IInv, NEW q \in Query, Look(q)
  PROVE  IInv'
<1> USE DEF Look, Waiting
<1>1. /\ wait \in [Query -> {"look", "block", "ready"}]
      /\ attempts \in [Query -> 0 .. numAttempts] /\ since \in [Query -> Nat]
      /\ local \in Nat /\ numAttempts \in Nat /\ queryIds \subseteq Query
      /\ pc = "wait"
      /\ \A r \in queryIds :
           /\ wait[r] = "ready" => result[r] >= targetHeight
           /\ wait[r] = "look" => attempts[r] > 0
  BY AttemptsAssumption DEF IInv, TypeOK, ReadyInv, AttemptsInv
<1>2. attempts[q] - 1 \in 0 .. numAttempts
  BY <1>1
<1>3. attempts' \in [Query -> 0 .. numAttempts]
  BY <1>1, <1>2
<1>4. since' \in [Query -> Nat] /\ wait' \in [Query -> {"look", "block", "ready"}]
  BY <1>1
<1>5. \A r \in queryIds : wait'[r] = "ready" => result[r] >= targetHeight
  BY <1>1
<1>6. \A r \in queryIds : wait'[r] = "look" => attempts'[r] > 0
  BY <1>1
<1> QED BY <1>1, <1>3, <1>4, <1>5, <1>6, WaitGoesOn

(* The next attempt, or the end of the wait: never a look without one left. *)
LEMMA Attempted ==
  ASSUME IInv, NEW q \in Query, NextAttempt(q)
  PROVE  IInv'
<1> USE DEF NextAttempt, Waiting
<1>1. /\ wait \in [Query -> {"look", "block", "ready"}]
      /\ attempts \in [Query -> 0 .. numAttempts] /\ since \in [Query -> Nat]
      /\ queryIds \subseteq Query /\ pc = "wait"
      /\ \A r \in queryIds :
           /\ wait[r] = "ready" => result[r] >= targetHeight
           /\ wait[r] = "look" => attempts[r] > 0
  BY DEF IInv, TypeOK, ReadyInv, AttemptsInv
<1>2. CASE attempts[q] > 0
  <2>1. wait' \in [Query -> {"look", "block", "ready"}]
    BY <1>1, <1>2
  <2>2. \A r \in queryIds :
          /\ wait'[r] = "ready" => result[r] >= targetHeight
          /\ wait'[r] = "look" => attempts'[r] > 0
    BY <1>1, <1>2
  <2> QED BY <1>1, <1>2, <2>1, <2>2, WaitGoesOn
<1>3. CASE ~(attempts[q] > 0)
  BY <1>1, <1>3, CallEnded
<1> QED BY <1>2, <1>3

(* All waits are over: what ended them is still there.                      *)
LEMMA WaitOver ==
  ASSUME IInv, AllReady
  PROVE  IInv'
<1> USE DEF AllReady, Goto, waitVars, statusVars, remoteVars, localVars
<1>1. TypeOK'
  BY DEF IInv, TypeOK
<1>2. Heights' /\ PrevInv' /\ PlaceInv'
  BY DEF IInv, Heights, PrevInv, PlaceInv
<1>3. TargetInv' /\ ReadyInv' /\ AttemptsInv'
  BY DEF IInv, TargetInv, ReadyInv, AttemptsInv
<1>4. StatusInv' /\ CallbacksNewer' /\ BalancesEqual'
  BY DEF IInv, PlaceInv, StatusInv, CallbacksNewer, BalancesEqual
<1> QED BY <1>1, <1>2, <1>3, <1>4 DEF IInv

(* The statuses after are read: each is newer than the one before.          *)
LEMMA StatusRead ==
  ASSUME IInv, NEW q \in Query, ReadStatus(q)
  PROVE  IInv'
<1> USE DEF ReadStatus, statusVars, waitVars, remoteVars, localVars
<1>1. CASE pc' = "rejected" /\ UNCHANGED <<status, read>>
  BY <1>1, CallEnded DEF IInv, TypeOK
<1>2. CASE /\ status' = [status EXCEPT ![q] = callback[q]]
           /\ read' = read \union {q}
           /\ UNCHANGED pc
  <2>1. TypeOK'
    BY <1>2 DEF IInv, TypeOK
  <2>2. Heights' /\ PrevInv' /\ PlaceInv'
    BY <1>2 DEF IInv, Heights, PrevInv, PlaceInv
  <2>3. TargetInv' /\ ReadyInv' /\ AttemptsInv'
    BY <1>2 DEF IInv, TargetInv, ReadyInv, AttemptsInv
  <2>4. statusPrev[q] < callback[q]
    BY DEF IInv, PlaceInv, TargetInv, ReadyInv
  <2>5. StatusInv'
    BY <1>2, <2>4 DEF IInv, TypeOK, StatusInv
  <2>6. CallbacksNewer' /\ BalancesEqual'
    BY <1>2 DEF IInv, CallbacksNewer, BalancesEqual
  <2> QED BY <2>1, <2>2, <2>3, <2>5, <2>6 DEF IInv
<1> QED BY <1>1, <1>2

LEMMA WaitKeeps == IInv /\ WaitStep => IInv'
<1> SUFFICES ASSUME IInv, WaitStep PROVE IInv'
  OBVIOUS
<1>1. /\ wait \in [Query -> {"look", "block", "ready"}]
      /\ attempts \in [Query -> 0 .. numAttempts] /\ since \in [Query -> Nat]
  BY DEF IInv, TypeOK
<1>2. ASSUME NEW q \in Query, NoBlock(q) PROVE IInv'
  BY <1>1, <1>2, CallEnded DEF NoBlock, Waiting, waitVars
<1>3. ASSUME ExpectNewer PROVE IInv'
  <2>1. \A q \in queryIds : statusPrev[q] < status[q]
    BY <1>3 DEF ExpectNewer, IInv, StatusInv
  <2> QED BY <1>1, <1>3, <2>1, CallEnded DEF ExpectNewer, Goto, waitVars
<1>4. ASSUME Validate PROVE IInv'
  <2>1. \A q \in queryIds : UpToDate(q)
    <3> SUFFICES ASSUME NEW q \in queryIds PROVE changed[q] <= result[q]
      BY DEF UpToDate
    <3>1. changed[q] <= targetHeight /\ result[q] >= targetHeight
      BY <1>4 DEF Validate, IInv, TargetInv, ReadyInv
    <3>2. changed[q] \in Nat /\ targetHeight \in Nat /\ result[q] \in Nat
      BY DEF IInv, TypeOK
    <3> QED BY <3>1, <3>2
  <2> QED BY <1>1, <1>4, <2>1, CallEnded DEF Validate, Goto, waitVars
<1> QED BY <1>2, <1>3, <1>4, PrevRead, TargetRead, Looked, Attempted, WaitOver,
           StatusRead DEF WaitStep

-------------------------------------------------------------------------------
(* The test between two waits                                               *)

(* A call begins, of queries that are registered.                           *)
LEMMA Begun ==
  ASSUME IInv, NEW ids \in SUBSET Query, NEW place \in {"prev", "height"},
         Begin(ids, place), remote' \in Nat, remote' >= remote,
         changed' \in [Query -> Nat], \A q \in Query : changed'[q] <= remote'
  PROVE  IInv'
<1> USE DEF Begin, statusVars, waitVars, localVars
<1>0. readPrev = {} /\ read = {} /\ pc' = place /\ queryIds' = ids
  BY DEF IInv, PlaceInv
<1>1. TypeOK'
  BY <1>0 DEF IInv, TypeOK
<1>2. Heights'
  BY DEF IInv, TypeOK, Heights
<1>3. PrevInv' /\ PlaceInv' /\ StatusInv'
  BY <1>0 DEF PrevInv, PlaceInv, StatusInv
<1>4. TargetInv' /\ ReadyInv' /\ AttemptsInv' /\ CallbacksNewer' /\ BalancesEqual'
  BY <1>0 DEF TargetInv, ReadyInv, AttemptsInv, CallbacksNewer, BalancesEqual
<1> QED BY <1>1, <1>2, <1>3, <1>4 DEF IInv

(* A query is registered or removed while no call waits for it.             *)
LEMMA Registration ==
  ASSUME IInv, registered' \in [Query -> {"no", "yes", "removed"}],
         UNCHANGED <<testVars, waitVars, remoteVars, local, result, callback, fetched>>
  PROVE  IInv'
<1> USE DEF testVars, statusVars, waitVars, remoteVars
<1>1. TypeOK'
  BY DEF IInv, TypeOK
<1>2. Heights' /\ PrevInv' /\ PlaceInv' /\ StatusInv' /\ AttemptsInv'
  BY DEF IInv, Heights, PrevInv, PlaceInv, StatusInv, AttemptsInv
<1>3. TargetInv' /\ ReadyInv' /\ CallbacksNewer' /\ BalancesEqual'
  BY DEF IInv, TargetInv, ReadyInv, CallbacksNewer, BalancesEqual
<1> QED BY <1>1, <1>2, <1>3 DEF IInv

LEMMA TestKeeps == IInv /\ TestStep => IInv'
<1> SUFFICES ASSUME IInv, TestStep PROVE IInv'
  OBVIOUS
<1>0. /\ remote \in Nat /\ changed \in [Query -> Nat]
      /\ registered \in [Query -> {"no", "yes", "removed"}]
      /\ \A q \in Query : changed[q] <= remote
  BY DEF IInv, TypeOK, Heights
<1>1. ASSUME NEW q \in Query, RegisterQuery(q) PROVE IInv'
  BY <1>0, <1>1, Registration DEF RegisterQuery
<1>2. ASSUME NEW q \in Query, RemoveQuery(q) PROVE IInv'
  BY <1>0, <1>2, Registration DEF RemoveQuery
<1>3. ASSUME NEW q \in Query, Perform(q) PROVE IInv'
  <2>1. /\ remote' \in Nat /\ remote' >= remote /\ changed' \in [Query -> Nat]
        /\ \A r \in Query : changed'[r] <= remote'
    BY <1>0, <1>3 DEF Perform
  <2> QED BY <1>3, <2>1, Begun DEF Perform
<1>4. CASE Watch
  <2>1. PICK ids \in SUBSET Query : Begin(ids, "prev")
    BY <1>4 DEF Watch
  <2> QED BY <1>0, <1>4, <2>1, Begun DEF Watch, remoteVars
<1>5. CASE NextTest
  <2> USE <1>5 DEF NextTest, Zero, Looking, remoteVars, localVars
  <2>1. TypeOK'
    BY AttemptsAssumption DEF IInv, TypeOK
  <2>2. Heights'
    BY DEF IInv, Heights
  <2>3. PrevInv' /\ PlaceInv' /\ StatusInv' /\ AttemptsInv'
    BY DEF PrevInv, PlaceInv, StatusInv, AttemptsInv
  <2>4. TargetInv' /\ ReadyInv' /\ CallbacksNewer' /\ BalancesEqual'
    BY DEF TargetInv, ReadyInv, CallbacksNewer, BalancesEqual
  <2> QED BY <2>1, <2>2, <2>3, <2>4 DEF IInv
<1> QED BY <1>1, <1>2, <1>3, <1>4, <1>5 DEF TestStep

-------------------------------------------------------------------------------
LEMMA Unchanged == IInv /\ UNCHANGED vars => IInv'
BY DEF vars, testVars, statusVars, waitVars, remoteVars, localVars, IInv, TypeOK,
       AttemptsInv, Heights, PrevInv, PlaceInv, TargetInv, ReadyInv, StatusInv,
       CallbacksNewer, BalancesEqual

(* The invariant holds in every state.                                      *)
THEOREM Invariance == Spec => []IInv
<1>1. IInv /\ [Next]_vars => IInv'
  BY WaitKeeps, TestKeeps, EnvironmentKeeps, Unchanged DEF Next
<1> QED BY <1>1, InitIInv, PTL DEF Spec

(* Types, for any queries, attempts and heights: among them that            *)
(* getWithAttempts never looks more often than it may.                      *)
THEOREM TypeCorrect == Spec => []TypeOK
<1>1. IInv => TypeOK
  BY DEF IInv
<1> QED BY <1>1, Invariance, PTL

(* The `expect` of watchForKvCallbackUpdates never fails, whatever the      *)
(* relayer does.                                                            *)
THEOREM NewerOnReturn == Spec => []CallbacksNewer
<1>1. IInv => CallbacksNewer
  BY DEF IInv
<1> QED BY <1>1, Invariance, PTL

(* A validated balance is never compared with an older state of the remote  *)
(* chain.                                                                   *)
THEOREM EqualAfterWait == Spec => []BalancesEqual
<1>1. IInv => BalancesEqual
  BY DEF IInv
<1> QED BY <1>1, Invariance, PTL

-------------------------------------------------------------------------------
(* TxQueries: the invariant                                                 *)

Transfer ==
  [query : Queries, state : {"sent", "submitted", "recorded", "failed"}, at : Nat]

(* The variables have their types.                                          *)
TxScript ==
  /\ file \in {"order", "past", "resubmit"} /\ tests = TxFiles[file]
  /\ step \in 1 .. Len(tests) + 1 /\ height \in Nat \ {0} /\ begun \in 1 .. height

TxTypes ==
  /\ lag \in 0 .. MaxLag
  /\ registeredAt \in [Queries -> Nat] /\ handledAt \in [Queries -> Nat]
  /\ transfers \in Seq(Transfer) /\ \A i \in DOMAIN transfers : transfers[i].at \in 1 .. height
  /\ looksLeft \in 0 .. 2 * LongPeriod /\ lookedAt \in Nat

(* What each file has registered and sent                                   *)
OrderSent ==
  file = "order" =>
    /\ step <= 4 => Len(transfers) = 0
    /\ step = 5 => Len(transfers) = 1
    /\ step >= 6 => Len(transfers) = 2 /\ transfers[2].query = 1
    /\ step >= 5 => transfers[1].query = 2
    /\ registeredAt[1] > 0 <=> step >= 2
    /\ registeredAt[2] > 0 <=> step >= 3

PastSent ==
  file = "past" =>
    /\ step <= 2 => Len(transfers) = 0
    /\ step \in {3, 4} => Len(transfers) = 1
    /\ step >= 5 => Len(transfers) = 2 /\ transfers[2].query = 2
    /\ step >= 3 => transfers[1].query = 1
    /\ registeredAt[1] > 0 <=> step >= 2
    /\ registeredAt[2] > 0 <=> step >= 8

ResubmitSent ==
  file = "resubmit" =>
    /\ step <= 3 => Len(transfers) = 0
    /\ step = 4 => Len(transfers) = 1
    /\ step >= 5 => Len(transfers) = 2 /\ transfers[2].query = 1
    /\ step >= 4 => transfers[1].query = 1
    /\ registeredAt[1] > 0 <=> step >= 3
    /\ registeredAt[2] = 0

(* The contract's callback fails when it is to.                             *)
MockOn == file = "resubmit" /\ step \in 2 .. 7

Failures ==
  /\ file # "resubmit" \/ step >= 9 => \A i \in DOMAIN transfers : transfers[i].state # "failed"
  /\ file = "resubmit" /\ step <= 6 => \A i \in DOMAIN transfers : transfers[i].state # "recorded"
  /\ file = "resubmit" /\ (step \in {7, 8} \/ (step = 6 /\ CountInTime)) =>
       \A i \in DOMAIN transfers : transfers[i].state = "failed"
  /\ file = "resubmit" /\ step >= 9 => \A i \in DOMAIN transfers : transfers[i].state # "sent"

(* The relayer is not later than it may be.                                 *)
Handling ==
  \A q \in Queries :
    /\ registeredAt[q] <= begun /\ handledAt[q] <= height
    /\ registeredAt[q] = 0 => handledAt[q] = 0
    /\ handledAt[q] > 0 => handledAt[q] >= registeredAt[q]
    /\ registeredAt[q] > 0 => height <= DueAt(q) + lag

(* What was there when the step began is handled within a period and the    *)
(* relayer's delay.                                                         *)
Due ==
  \A i \in DOMAIN transfers :
    LET q == transfers[i].query
    IN  registeredAt[q] > 0 =>
          /\ transfers[i].state = "sent" => handledAt[q] <= begun
          /\ transfers[i].state \in {"sent", "submitted"} => height <= begun + Period(q) + lag

(* A wait looks once in every block, from its first one on.                 *)
WaitOfShort == \/ file = "order" /\ step = 6
               \/ file = "past" /\ step = 3
               \/ file = "resubmit" /\ step = 10
WaitOfLong == \/ file = "order" /\ step = 9
              \/ file = "past" /\ step = 8

Looks ==
  /\ looksLeft > 0 =>
       /\ verdict = "running" /\ (WaitOfShort \/ WaitOfLong)
       /\ WaitOfShort => lookedAt + looksLeft = begun - 1 + 2 * ShortPeriod
       /\ WaitOfLong => lookedAt + looksLeft = begun - 1 + 2 * LongPeriod
       /\ height \in {lookedAt, lookedAt + 1}
  /\ verdict = "running" /\ (WaitOfShort \/ WaitOfLong) /\ looksLeft = 0 => height = begun

(* With a relayer that handles the queries on init in the two blocks it is  *)
(* given, the older transfer is handled no earlier than the period after.   *)
OrderHandled ==
  file = "order" /\ lag <= 1 =>
    /\ step = 3 => begun = registeredAt[2]
    /\ step >= 4 => handledAt[2] > 0
    /\ step >= 5 /\ transfers[1].state # "sent" => height >= registeredAt[2] + LongPeriod
    /\ step >= 5 /\ transfers[1].state = "recorded" => height > registeredAt[2] + LongPeriod

(* The test is in time for the younger one.                                 *)
Early == transfers[2].at + ShortPeriod + lag + 2 * MaxSlow < registeredAt[2] + LongPeriod

OrderKept ==
  file = "order" /\ lag <= 1 /\ step >= 6 /\ Early =>
    /\ step = 6 =>
         /\ begun = transfers[2].at
         /\ verdict = "running" /\ transfers[2].state = "recorded" =>
              /\ looksLeft > 0 /\ lookedAt < height
              /\ height <= begun + ShortPeriod + lag + 1
    /\ step = 7 =>
         /\ transfers[2].state = "recorded"
         /\ height <= transfers[2].at + ShortPeriod + lag + 1 + MaxSlow
         /\ begun <= transfers[2].at + ShortPeriod + lag + 1
         /\ height <= begun + MaxSlow
    /\ step = 8 =>
         /\ begun <= transfers[2].at + ShortPeriod + lag + 1 + MaxSlow
         /\ height <= begun + MaxSlow

OrderBoth ==
  file = "order" /\ step >= 10 => \A i \in {1, 2} : transfers[i].state = "recorded"

InOrder == file = "order" /\ lag <= 1 /\ InTime => verdict # "transfers_differ"

TxInv ==
  /\ TxScript /\ TxTypes
  /\ mocked \in BOOLEAN /\ (mocked <=> MockOn)
  /\ OrderSent /\ PastSent /\ ResubmitSent
  /\ Failures /\ Handling /\ Due /\ Looks
  /\ OrderHandled /\ OrderKept /\ OrderBoth
  /\ InOrder /\ WaitSuffices /\ FailuresCounted
-------------------------------------------------------------------------------
(* The steps of the three files                                             *)
LEMMA OrderSteps ==
  /\ Len(OrderTests) = 10
  /\ OrderTests[1] = Do("registerTransfersQuery", 1)
  /\ OrderTests[2] = Do("registerTransfersQuery", 2)
  /\ OrderTests[3] = Do("waitBlocks", 2)
  /\ OrderTests[4] = Do("sendTokens", 2) /\ OrderTests[5] = Do("sendTokens", 1)
  /\ OrderTests[6] = WaitFor(1, 1)
  /\ OrderTests[7] = ExpectTransfers(1, 1) /\ OrderTests[8] = ExpectTransfers(0, 2)
  /\ OrderTests[9] = WaitFor(2, 2) /\ OrderTests[10] = ExpectTransfers(1, 2)
BY DEF OrderTests

LEMMA PastSteps ==
  /\ Len(PastTests) = 9
  /\ PastTests[1] = Do("registerTransfersQuery", 1)
  /\ PastTests[2] = Do("sendTokens", 1) /\ PastTests[3] = WaitFor(1, 1)
  /\ PastTests[4] = Do("sendTokens", 2) /\ PastTests[5] = Do("waitBlocks", Attempts(1))
  /\ PastTests[6] = ExpectTransfers(0, 2)
  /\ PastTests[7] = Do("registerTransfersQuery", 2)
  /\ PastTests[8] = WaitFor(2, 2) /\ PastTests[9] = ExpectTransfers(1, 2)
BY DEF PastTests

LEMMA ResubmitSteps ==
  /\ Len(ResubmitTests) = 12
  /\ ResubmitTests[1] = Do("mock", TRUE)
  /\ ResubmitTests[2] = Do("registerTransfersQuery", 1)
  /\ ResubmitTests[3] = Do("sendTokens", 1) /\ ResubmitTests[4] = Do("sendTokens", 1)
  /\ ResubmitTests[5] = Do("waitBlocks", CheckBlocks)
  /\ ResubmitTests[6] = Do("expectUnsuccessful", 2)
  /\ ResubmitTests[7] = Do("mock", FALSE) /\ ResubmitTests[8] = Do("postResubmitTxs", 0)
  /\ ResubmitTests[9] = Do("waitBlocks", 20) /\ ResubmitTests[10] = WaitFor(2, 1)
  /\ ResubmitTests[11] = Do("expectUnsuccessful", 0)
  /\ ResubmitTests[12] = ExpectTransfers(2, 1)
BY DEF ResubmitTests

LEMMA TxTests ==
  ASSUME TxScript
  PROVE  /\ file = "order" => tests = OrderTests /\ step \in 1 .. 11
         /\ file = "past" => tests = PastTests /\ step \in 1 .. 10
         /\ file = "resubmit" => tests = ResubmitTests /\ step \in 1 .. 13
         /\ step \in Nat
<1>1. TxFiles["order"] = OrderTests /\ TxFiles["past"] = PastTests
      /\ TxFiles["resubmit"] = ResubmitTests
  BY DEF TxFiles
<1>2. CASE file = "order"
  <2>1. tests = OrderTests /\ step \in 1 .. Len(tests) + 1
    BY <1>1, <1>2 DEF TxScript
  <2>2. Len(tests) = 10
    BY <2>1, OrderSteps
  <2> QED BY <1>2, <2>1, <2>2
<1>3. CASE file = "past"
  <2>1. tests = PastTests /\ step \in 1 .. Len(tests) + 1
    BY <1>1, <1>3 DEF TxScript
  <2>2. Len(tests) = 9
    BY <2>1, PastSteps
  <2> QED BY <1>3, <2>1, <2>2
<1>4. CASE file = "resubmit"
  <2>1. tests = ResubmitTests /\ step \in 1 .. Len(tests) + 1
    BY <1>1, <1>4 DEF TxScript
  <2>2. Len(tests) = 12
    BY <2>1, ResubmitSteps
  <2> QED BY <1>4, <2>1, <2>2
<1> QED BY <1>2, <1>3, <1>4 DEF TxScript

LEMMA OrderOps ==
  ASSUME TxScript, file = "order"
  PROVE  /\ Running("registerTransfersQuery") => step \in {1, 2} /\ Arg = step
         /\ Running("sendTokens") => step \in {4, 5} /\ Arg = IF step = 4 THEN 2 ELSE 1
         /\ Running("waitBlocks") => step = 3 /\ Arg = 2
         /\ Running("waitForTransfersAmount") <=> verdict = "running" /\ step \in {6, 9}
         /\ step = 6 => Arg.number = 1 /\ Arg.query = 1
         /\ step = 9 => Arg.number = 2 /\ Arg.query = 2
         /\ Running("expectTransfers") => step \in {7, 8, 10}
         /\ step = 7 => Arg.number = 1 /\ Arg.query = 1
         /\ step = 8 => Arg.number = 0 /\ Arg.query = 2
         /\ step = 10 => Arg.number = 1 /\ Arg.query = 2
         /\ ~ Running("mock") /\ ~ Running("postResubmitTxs") /\ ~ Running("expectUnsuccessful")
<1>1. tests = OrderTests /\ step \in 1 .. 11 /\ Len(tests) = 10
  BY TxTests, OrderSteps
<1> QED BY <1>1, OrderSteps DEF Running, Do, Arg, WaitFor, ExpectTransfers

LEMMA PastOps ==
  ASSUME TxScript, file = "past"
  PROVE  /\ Running("registerTransfersQuery") => step \in {1, 7} /\ Arg = IF step = 1 THEN 1 ELSE 2
         /\ Running("sendTokens") => step \in {2, 4} /\ Arg = IF step = 2 THEN 1 ELSE 2
         /\ Running("waitBlocks") => step = 5 /\ Arg = Attempts(1)
         /\ Running("waitForTransfersAmount") <=> verdict = "running" /\ step \in {3, 8}
         /\ step = 3 => Arg.number = 1 /\ Arg.query = 1
         /\ step = 8 => Arg.number = 2 /\ Arg.query = 2
         /\ Running("expectTransfers") => step \in {6, 9}
         /\ ~ Running("mock") /\ ~ Running("postResubmitTxs") /\ ~ Running("expectUnsuccessful")
<1>1. tests = PastTests /\ step \in 1 .. 10 /\ Len(tests) = 9
  BY TxTests, PastSteps
<1> QED BY <1>1, PastSteps DEF Running, Do, Arg, WaitFor, ExpectTransfers

LEMMA ResubmitOps ==
  ASSUME TxScript, file = "resubmit"
  PROVE  /\ Running("registerTransfersQuery") => step = 2 /\ Arg = 1
         /\ Running("sendTokens") => step \in {3, 4} /\ Arg = 1
         /\ Running("waitBlocks") => step \in {5, 9} /\ (step = 5 => Arg = CheckBlocks) /\ (step = 9 => Arg = 20)
         /\ Running("waitForTransfersAmount") <=> verdict = "running" /\ step = 10
         /\ step = 10 => Arg.number = 2 /\ Arg.query = 1
         /\ Running("expectTransfers") => step = 12
         /\ Running("expectUnsuccessful") => step \in {6, 11} /\ Arg = IF step = 6 THEN 2 ELSE 0
         /\ Running("mock") => step \in {1, 7} /\ (step = 1 => Arg = TRUE) /\ (step = 7 => Arg = FALSE)
         /\ Running("postResubmitTxs") => step = 8
<1>1. tests = ResubmitTests /\ step \in 1 .. 13 /\ Len(tests) = 12
  BY TxTests, ResubmitSteps
<1>2. /\ Running("registerTransfersQuery") => step = 2
      /\ Running("sendTokens") => step \in {3, 4}
      /\ Running("waitBlocks") => step \in {5, 9}
      /\ Running("waitForTransfersAmount") <=> verdict = "running" /\ step = 10
      /\ Running("expectTransfers") => step = 12
      /\ Running("expectUnsuccessful") => step \in {6, 11}
      /\ Running("mock") => step \in {1, 7}
      /\ Running("postResubmitTxs") => step = 8
  BY <1>1, ResubmitSteps DEF Running, Do, WaitFor, ExpectTransfers
<1>3. /\ step \in {2, 3, 4} => Arg = 1
      /\ (step = 5 => Arg = CheckBlocks) /\ (step = 9 => Arg = 20)
      /\ step = 10 => Arg.number = 2 /\ Arg.query = 1
      /\ (step = 6 => Arg = 2) /\ (step = 11 => Arg = 0)
  BY <1>1, ResubmitSteps DEF Do, Arg, WaitFor
<1>4. (step = 1 => Arg = TRUE) /\ (step = 7 => Arg = FALSE)
  BY <1>1, ResubmitSteps DEF Do, Arg
<1> QED BY <1>2, <1>3, <1>4

(* How many of two transfers                                                *)
LEMMA CardOfTwo ==
  ASSUME NEW S, S \subseteq {1, 2}
  PROVE  Cardinality(S) = (IF 1 \in S THEN 1 ELSE 0) + (IF 2 \in S THEN 1 ELSE 0)
<1>1. S = {} \/ S = {1} \/ S = {2} \/ S = {1, 2}
  OBVIOUS
<1>2. Cardinality({}) = 0 /\ Cardinality({1}) = 1 /\ Cardinality({2}) = 1
  BY FS_EmptySet, FS_Singleton
<1>3. Cardinality({1, 2}) = 2
  <2>1. {1, 2} = {1} \cup {2} /\ 2 \notin {1}
    OBVIOUS
  <2>2. IsFiniteSet({1})
    BY FS_Singleton
  <2>3. Cardinality({1} \cup {2}) = Cardinality({1}) + 1
    BY <2>1, <2>2, FS_AddElement
  <2> QED BY <1>2, <2>1, <2>3
<1>4. CASE S = {}
  BY <1>2, <1>4
<1>5. CASE S = {1}
  BY <1>2, <1>5
<1>6. CASE S = {2}
  BY <1>2, <1>6
<1>7. CASE S = {1, 2}
  BY <1>3, <1>7
<1> QED BY <1>1, <1>4, <1>5, <1>6, <1>7

LEMMA TxInitInv ==
  ASSUME ScriptInit(TxFiles), TxInit
  PROVE  TxInv
<1>1. /\ file \in {"order", "past", "resubmit"} /\ tests = TxFiles[file] /\ step = 1
      /\ verdict = "running" /\ height = 1 /\ begun = 1
  BY DEF TxFiles, ScriptInit
<1>2. /\ lag \in 0 .. MaxLag
      /\ registeredAt = [q \in Queries |-> 0] /\ handledAt = [q \in Queries |-> 0]
      /\ transfers = <<>> /\ mocked = FALSE /\ looksLeft = 0 /\ lookedAt = 0
  BY DEF TxInit
<1>3. TxScript
  BY <1>1, OrderSteps, PastSteps, ResubmitSteps DEF TxScript, TxFiles
<1>4. TxTypes
  BY <1>1, <1>2, PeriodAssumption DEF TxTypes
<1>5. mocked \in BOOLEAN /\ (mocked <=> MockOn)
  <2>1. ~ MockOn
    BY <1>1 DEF MockOn
  <2>2. mocked = FALSE
    BY <1>2
  <2> QED BY <2>1, <2>2
<1>6. OrderSent /\ PastSent /\ ResubmitSent
  BY <1>1, <1>2 DEF OrderSent, PastSent, ResubmitSent, Queries
<1>7. Failures /\ Handling /\ Due /\ Looks
  BY <1>1, <1>2 DEF Failures, CountInTime, Handling, Due, Looks, WaitOfShort, WaitOfLong, Queries
<1>8. OrderHandled /\ OrderKept /\ OrderBoth
  BY <1>1, <1>2 DEF OrderHandled, OrderKept, OrderBoth
<1>9. InOrder /\ WaitSuffices /\ FailuresCounted
  BY <1>1, <1>2 DEF InOrder, WaitSuffices, FailuresCounted, CountInTime
<1> QED BY <1>3, <1>4, <1>5, <1>6, <1>7, <1>8, <1>9 DEF TxInv

-------------------------------------------------------------------------------
(* Steps of the test                                                        *)

LEMMA TransferTypes ==
  ASSUME TxTypes, NEW i \in DOMAIN transfers
  PROVE  /\ transfers[i] \in Transfer /\ transfers[i].query \in Queries
         /\ transfers[i].at \in 1 .. height
         /\ transfers[i].state \in {"sent", "submitted", "recorded", "failed"}
<1>1. transfers[i] \in Transfer
  BY DEF TxTypes
<1>2. transfers[i].at \in 1 .. height
  BY DEF TxTypes
<1> QED BY <1>1, <1>2 DEF Transfer

(* What a state says of the number of recorded transfers is about them.     *)
LEMMA SameTransfers ==
  ASSUME UNCHANGED <<transfers, registeredAt, handledAt, lag, file, tests>>
  PROVE  /\ queryTransfersNumber' = queryTransfersNumber /\ (InTime' <=> InTime)
         /\ (Early' <=> Early) /\ \A q \in Queries : DueAt(q)' = DueAt(q)
BY DEF queryTransfersNumber, Transfers, InTime, Early, DueAt, Period

(* A step is over that has sent and registered nothing.                     *)
LEMMA TxStepOver ==
  ASSUME TxInv, verdict = "running", step <= Len(tests), StepDone,
         UNCHANGED <<lag, registeredAt, handledAt, transfers>>,
         looksLeft' = 0, lookedAt' \in Nat,
         mocked' \in BOOLEAN /\ (mocked' <=> MockOn'),
         OrderSent', PastSent', ResubmitSent', Failures',
         OrderHandled', OrderKept', OrderBoth'
  PROVE  TxInv'
<1>1. /\ step' = step + 1 /\ begun' = height /\ UNCHANGED <<file, tests, verdict, height>>
  BY DEF StepDone
<1>2. TxScript'
  BY <1>1, TxTests DEF TxInv, TxScript
<1>3. TxTypes'
  BY <1>1, PeriodAssumption DEF TxInv, TxTypes
<1>4. Handling'
  BY <1>1, SameTransfers DEF TxInv, TxScript, TxTypes, Handling
<1>5. Due'
  <2>1. ASSUME NEW i \in DOMAIN transfers
        PROVE  transfers[i].query \in Queries
    BY <2>1, TransferTypes DEF TxInv
  <2>2. \A q \in Queries : Period(q) \in Nat /\ handledAt[q] <= height
    BY PeriodAssumption DEF Period, TxInv, Handling
  <2>3. lag \in Nat /\ height \in Nat
    BY TxBoundAssumption DEF TxInv, TxTypes, TxScript
  <2> QED BY <1>1, <2>1, <2>2, <2>3 DEF Due, Period
<1>6. Looks'
  BY <1>1 DEF Looks
<1>7. InOrder'
  BY <1>1 DEF InOrder
<1>8. WaitSuffices' /\ FailuresCounted'
  BY <1>1 DEF WaitSuffices, FailuresCounted, CountInTime
<1> QED BY <1>2, <1>3, <1>4, <1>5, <1>6, <1>7, <1>8 DEF TxInv

(* The file ends.                                                           *)
LEMMA TxEnds ==
  ASSUME TxInv, verdict = "running", NEW how, Ends(how),
         how \in {"transfers_differ", "count_differs", "used_up"},
         UNCHANGED <<lag, registeredAt, handledAt, transfers, mocked>>,
         looksLeft' = 0, lookedAt' \in Nat,
         how = "transfers_differ" => ~ (file = "order" /\ lag <= 1 /\ InTime),
         how = "count_differs" => ~ CountInTime,
         how = "used_up" /\ lag + 2 <= ShortPeriod => queryTransfersNumber > tests[step].arg.number
  PROVE  TxInv'
<1>1. /\ verdict' = how /\ UNCHANGED <<file, tests, step, height, begun>>
  BY DEF Ends
<1>2. TxScript'
  BY <1>1 DEF TxInv, TxScript
<1>3. TxTypes'
  BY <1>1, PeriodAssumption DEF TxInv, TxTypes
<1>4. mocked' \in BOOLEAN /\ (mocked' <=> MockOn')
  BY <1>1 DEF TxInv, MockOn
<1>5. OrderSent' /\ PastSent' /\ ResubmitSent' /\ Failures'
  BY <1>1 DEF TxInv, OrderSent, PastSent, ResubmitSent, Failures, CountInTime
<1>6. Handling'
  BY <1>1, SameTransfers DEF TxInv, Handling
<1>7. Due'
  BY <1>1 DEF TxInv, Due, Period
<1>8. Looks'
  BY <1>1 DEF Looks
<1>9. OrderHandled' /\ OrderBoth'
  BY <1>1 DEF TxInv, OrderHandled, OrderBoth
<1>10. OrderKept'
  BY <1>1, SameTransfers DEF TxInv, OrderKept
<1>11. InOrder'
  BY <1>1, SameTransfers DEF InOrder
<1>12. WaitSuffices' /\ FailuresCounted'
  BY <1>1, SameTransfers DEF WaitSuffices, FailuresCounted, CountInTime
<1> QED BY <1>2, <1>3, <1>4, <1>5, <1>6, <1>7, <1>8, <1>9, <1>10, <1>11, <1>12 DEF TxInv

(* A query is registered, each of them once.                                *)
LEMMA RegisterQueryInv ==
  ASSUME TxInv, registerTransfersQuery
  PROVE  TxInv'
<1>1. /\ \/ file = "order" /\ step \in {1, 2} /\ Arg = step
         \/ file = "past" /\ step \in {1, 7} /\ Arg = (IF step = 1 THEN 1 ELSE 2)
         \/ file = "resubmit" /\ step = 2 /\ Arg = 1
      /\ step <= Len(tests) /\ verdict = "running"
  BY OrderOps, PastOps, ResubmitOps DEF TxInv, TxScript, registerTransfersQuery, Running
<1>2. /\ step' = step + 1 /\ begun' = height
      /\ registeredAt' = [registeredAt EXCEPT ![Arg] = height]
      /\ UNCHANGED <<file, tests, verdict, height, lag, handledAt, transfers, mocked, looksLeft,
                     lookedAt>>
  BY DEF registerTransfersQuery, StepDone
<1>3. /\ Arg \in Queries /\ registeredAt \in [Queries -> Nat] /\ height \in Nat \ {0}
      /\ registeredAt[Arg] = 0 /\ lag \in Nat
  BY <1>1, TxBoundAssumption
     DEF TxInv, TxScript, TxTypes, OrderSent, PastSent, ResubmitSent, Queries
<1>4. TxScript' /\ TxTypes'
  BY <1>1, <1>2, <1>3, TxTests DEF TxInv, TxScript, TxTypes
<1>5. mocked' \in BOOLEAN /\ (mocked' <=> MockOn')
  BY <1>1, <1>2 DEF TxInv, MockOn
<1>6. OrderSent' /\ PastSent' /\ ResubmitSent'
  BY <1>1, <1>2, <1>3 DEF TxInv, OrderSent, PastSent, ResubmitSent, Queries
<1>7. Failures'
  BY <1>1, <1>2 DEF TxInv, Failures, CountInTime
<1>8. Handling'
  BY <1>1, <1>2, <1>3 DEF TxInv, TxScript, TxTypes, Handling, DueAt, Period
<1>9. Due'
  <2>1. ASSUME NEW i \in DOMAIN transfers
        PROVE  transfers[i].query \in Queries
    BY <2>1, TransferTypes DEF TxInv
  <2>2. \A q \in Queries : Period(q) \in Nat /\ handledAt[q] <= height
    BY PeriodAssumption DEF Period, TxInv, Handling
  <2> QED BY <1>2, <1>3, <2>1, <2>2 DEF Due, Period
<1>10. Looks'
  BY <1>1, <1>2 DEF TxInv, TxScript, Looks, WaitOfShort, WaitOfLong
<1>11. OrderHandled' /\ OrderKept' /\ OrderBoth'
  BY <1>1, <1>2, <1>3 DEF OrderHandled, OrderKept, OrderBoth
<1>12. InOrder'
  BY <1>1, <1>2 DEF InOrder
<1>13. WaitSuffices' /\ FailuresCounted'
  BY <1>1, <1>2 DEF WaitSuffices, FailuresCounted, CountInTime
<1> QED BY <1>4, <1>5, <1>6, <1>7, <1>8, <1>9, <1>10, <1>11, <1>12, <1>13 DEF TxInv

LEMMA SendTokensInv ==
  ASSUME TxInv, SendTokens
  PROVE  TxInv'
<1>1. /\ \/ file = "order" /\ step \in {4, 5} /\ Arg = (IF step = 4 THEN 2 ELSE 1)
         \/ file = "past" /\ step \in {2, 4} /\ Arg = (IF step = 2 THEN 1 ELSE 2)
         \/ file = "resubmit" /\ step \in {3, 4} /\ Arg = 1
      /\ step <= Len(tests) /\ verdict = "running"
  BY OrderOps, PastOps, ResubmitOps DEF TxInv, TxScript, SendTokens, Running
<1> DEFINE sent == [query |-> Arg, state |-> "sent", at |-> height]
<1>2. /\ step' = step + 1 /\ begun' = height /\ transfers' = Append(transfers, sent)
      /\ UNCHANGED <<file, tests, verdict, height, lag, registeredAt, handledAt, mocked,
                     looksLeft, lookedAt>>
  BY DEF SendTokens, StepDone
<1>3. /\ sent \in Transfer /\ sent.state = "sent" /\ sent.query = Arg /\ sent.at = height
      /\ Arg \in Queries /\ height \in Nat \ {0}
  BY <1>1 DEF TxInv, TxScript, Transfer, Queries
<1> HIDE DEF sent
<1>4. /\ transfers \in Seq(Transfer)
      /\ file = "order" => Len(transfers) = step - 4
      /\ file = "past" => Len(transfers) = (IF step = 2 THEN 0 ELSE 1)
      /\ file = "resubmit" => Len(transfers) = step - 3
  BY <1>1 DEF TxInv, TxTypes, OrderSent, PastSent, ResubmitSent
<1>5. /\ transfers' \in Seq(Transfer) /\ Len(transfers') = Len(transfers) + 1
      /\ transfers'[Len(transfers) + 1] = sent
      /\ \A i \in DOMAIN transfers : transfers'[i] = transfers[i]
      /\ DOMAIN transfers' = DOMAIN transfers \union {Len(transfers) + 1}
      /\ DOMAIN transfers = 1 .. Len(transfers)
  BY <1>2, <1>3, <1>4
<1>6. TxScript'
  BY <1>1, <1>2, TxTests DEF TxInv, TxScript
<1>7. TxTypes'
  BY <1>2, <1>3, <1>5 DEF TxInv, TxTypes
<1>8. mocked' \in BOOLEAN /\ (mocked' <=> MockOn')
  BY <1>1, <1>2 DEF TxInv, MockOn
<1>9. OrderSent' /\ PastSent' /\ ResubmitSent'
  <2>1. OrderSent'
    BY <1>1, <1>2, <1>3, <1>4, <1>5 DEF TxInv, OrderSent
  <2>2. PastSent'
    BY <1>1, <1>2, <1>3, <1>4, <1>5 DEF TxInv, PastSent
  <2>3. ResubmitSent'
    BY <1>1, <1>2, <1>3, <1>4, <1>5 DEF TxInv, ResubmitSent
  <2> QED BY <2>1, <2>2, <2>3
<1>10. Failures'
  BY <1>1, <1>2, <1>3, <1>5 DEF TxInv, Failures, CountInTime
<1>11. Handling'
  BY <1>2 DEF TxInv, TxScript, TxTypes, Handling, DueAt, Period
<1>12. Due'
  <2>1. ASSUME NEW i \in DOMAIN transfers
        PROVE  transfers[i].query \in Queries
    BY <2>1, TransferTypes DEF TxInv
  <2>2. \A q \in Queries : Period(q) \in Nat /\ handledAt[q] <= height
    BY PeriodAssumption DEF Period, TxInv, Handling
  <2>3. lag \in Nat
    BY TxBoundAssumption DEF TxInv, TxTypes
  <2> QED BY <1>2, <1>3, <1>5, <2>1, <2>2, <2>3 DEF Due, Period
<1>13. Looks'
  BY <1>1, <1>2 DEF TxInv, TxScript, Looks, WaitOfShort, WaitOfLong
<1>14. OrderHandled' /\ OrderBoth'
  BY <1>1, <1>2, <1>3, <1>4, <1>5 DEF TxInv, OrderHandled, OrderBoth
<1>15. OrderKept'
  BY <1>1, <1>2, <1>3, <1>4, <1>5 DEF OrderKept
<1>16. InOrder'
  BY <1>1, <1>2 DEF InOrder
<1>17. WaitSuffices' /\ FailuresCounted'
  BY <1>1, <1>2 DEF WaitSuffices, FailuresCounted, CountInTime
<1> QED BY <1>6, <1>7, <1>8, <1>9, <1>10, <1>11, <1>12, <1>13, <1>14, <1>15, <1>16, <1>17
        DEF TxInv

LEMMA SetQueryMockInv ==
  ASSUME TxInv, SetQueryMock
  PROVE  TxInv'
<1>1. /\ file = "resubmit" /\ step \in {1, 7} /\ step <= Len(tests) /\ verdict = "running"
      /\ (step = 1 => Arg = TRUE) /\ (step = 7 => Arg = FALSE)
  BY OrderOps, PastOps, ResubmitOps DEF TxInv, TxScript, SetQueryMock, Running
<1>2. /\ StepDone /\ step' = step + 1
      /\ UNCHANGED <<file, lag, registeredAt, handledAt, transfers, looksLeft, lookedAt>>
  BY DEF SetQueryMock, StepDone
<1>3. mocked' \in BOOLEAN /\ (mocked' <=> MockOn')
  <2>1. step' \in 2 .. 7 <=> step = 1
    BY <1>1, <1>2
  <2>2. MockOn' <=> step = 1
    BY <1>1, <1>2, <2>1 DEF MockOn
  <2>3. mocked' = Arg
    BY DEF SetQueryMock
  <2>4. CASE step = 1
    BY <1>1, <2>2, <2>3, <2>4
  <2>5. CASE step = 7
    <3>1. Arg = FALSE /\ ~ MockOn'
      BY <1>1, <2>2, <2>5
    <3> QED BY <2>3, <3>1
  <2> QED BY <1>1, <2>4, <2>5
<1>4. OrderSent' /\ PastSent' /\ ResubmitSent'
  BY <1>1, <1>2 DEF TxInv, OrderSent, PastSent, ResubmitSent
<1>5. Failures'
  BY <1>1, <1>2 DEF TxInv, Failures, CountInTime
<1>6. OrderHandled' /\ OrderKept' /\ OrderBoth'
  BY <1>1, <1>2 DEF OrderHandled, OrderKept, OrderBoth
<1>7. looksLeft' = 0 /\ lookedAt' \in Nat
  BY <1>1, <1>2 DEF TxInv, TxTypes, Looks, WaitOfShort, WaitOfLong
<1> QED BY <1>1, <1>2, <1>3, <1>4, <1>5, <1>6, <1>7, TxStepOver

(* What failed is submitted, as if it had just been handled.                *)
LEMMA ResubmitInv ==
  ASSUME TxInv, postResubmitTxs
  PROVE  TxInv'
<1>1. file = "resubmit" /\ step = 8 /\ step <= Len(tests) /\ verdict = "running"
  BY OrderOps, PastOps, ResubmitOps DEF TxInv, TxScript, postResubmitTxs, Running
<1>2. /\ step' = step + 1 /\ begun' = height
      /\ UNCHANGED <<file, tests, verdict, height, lag, registeredAt, handledAt, mocked,
                     looksLeft, lookedAt>>
  BY DEF postResubmitTxs, StepDone
<1>3. /\ DOMAIN transfers' = DOMAIN transfers
      /\ \A i \in DOMAIN transfers :
           transfers'[i] = [transfers[i] EXCEPT !.state = "submitted"]
  <2>1. \A i \in DOMAIN transfers : i \in getUnsuccessfulTxs
    BY <1>1 DEF TxInv, Failures, CountInTime, getUnsuccessfulTxs, Transfers
  <2> QED BY <2>1 DEF postResubmitTxs
<1>4. \A i \in DOMAIN transfers :
        /\ transfers'[i] \in Transfer /\ transfers'[i].query = transfers[i].query
        /\ transfers'[i].at = transfers[i].at /\ transfers'[i].state = "submitted"
  <2> SUFFICES ASSUME NEW i \in DOMAIN transfers
               PROVE  /\ transfers'[i] \in Transfer /\ transfers'[i].query = transfers[i].query
                      /\ transfers'[i].at = transfers[i].at /\ transfers'[i].state = "submitted"
    OBVIOUS
  <2>1. transfers[i] \in Transfer
    BY TransferTypes DEF TxInv
  <2> QED BY <1>3, <2>1 DEF Transfer
<1>5. transfers' \in Seq(Transfer) /\ Len(transfers') = Len(transfers)
  <2>1. transfers \in Seq(Transfer)
    BY DEF TxInv, TxTypes
  <2>2. transfers' = [i \in 1 .. Len(transfers) |-> transfers'[i]]
    BY <1>3, <2>1 DEF postResubmitTxs
  <2> QED BY <1>4, <2>1, <2>2
<1>6. TxScript'
  BY <1>1, <1>2, TxTests DEF TxInv, TxScript
<1>7. TxTypes'
  BY <1>2, <1>3, <1>4, <1>5 DEF TxInv, TxTypes
<1>8. mocked' \in BOOLEAN /\ (mocked' <=> MockOn')
  BY <1>1, <1>2 DEF TxInv, MockOn
<1>9. OrderSent' /\ PastSent' /\ ResubmitSent'
  <2>1. Len(transfers) = 2 /\ DOMAIN transfers = 1 .. 2
    BY <1>1 DEF TxInv, TxTypes, ResubmitSent
  <2> QED BY <1>1, <1>2, <1>4, <1>5, <2>1 DEF TxInv, OrderSent, PastSent, ResubmitSent
<1>10. Failures'
  BY <1>1, <1>2, <1>3, <1>4 DEF Failures, CountInTime
<1>11. Handling'
  BY <1>2 DEF TxInv, TxScript, TxTypes, Handling, DueAt, Period
<1>12. Due'
  <2>1. ASSUME NEW i \in DOMAIN transfers
        PROVE  transfers[i].query \in Queries
    BY <2>1, TransferTypes DEF TxInv
  <2>2. \A q \in Queries : Period(q) \in Nat
    BY PeriodAssumption DEF Period
  <2>3. lag \in Nat /\ height \in Nat
    BY TxBoundAssumption DEF TxInv, TxTypes, TxScript
  <2> QED BY <1>2, <1>3, <1>4, <2>1, <2>2, <2>3 DEF Due, Period
<1>13. Looks'
  BY <1>1, <1>2 DEF TxInv, TxScript, Looks, WaitOfShort, WaitOfLong
<1>14. OrderHandled' /\ OrderBoth' /\ OrderKept'
  BY <1>1, <1>2 DEF OrderHandled, OrderBoth, OrderKept
<1>15. InOrder'
  BY <1>1, <1>2 DEF InOrder
<1>16. WaitSuffices' /\ FailuresCounted'
  BY <1>1, <1>2 DEF WaitSuffices, FailuresCounted, CountInTime
<1> QED BY <1>6, <1>7, <1>8, <1>9, <1>10, <1>11, <1>12, <1>13, <1>14, <1>15, <1>16 DEF TxInv

(* What the wait of a step waits for                                        *)
LEMMA WaitArg ==
  ASSUME TxScript
  PROVE  /\ Running("waitForTransfersAmount") <=>
              verdict = "running" /\ (WaitOfShort \/ WaitOfLong)
         /\ WaitOfShort \/ WaitOfLong => step <= Len(tests)
         /\ ~ (WaitOfShort /\ WaitOfLong)
         /\ WaitOfShort => Arg.query = 1 /\ Arg.number = IF file = "resubmit" THEN 2 ELSE 1
         /\ WaitOfLong => Arg.query = 2 /\ Arg.number = 2
<1>1. CASE file = "order"
  <2>1. (WaitOfShort <=> step = 6) /\ (WaitOfLong <=> step = 9)
    BY <1>1 DEF WaitOfShort, WaitOfLong
  <2>2. Len(tests) = 10
    BY <1>1, OrderSteps, TxTests
  <2> QED BY <1>1, <2>1, <2>2, OrderOps
<1>2. CASE file = "past"
  <2>1. (WaitOfShort <=> step = 3) /\ (WaitOfLong <=> step = 8)
    BY <1>2 DEF WaitOfShort, WaitOfLong
  <2>2. Len(tests) = 9
    BY <1>2, PastSteps, TxTests
  <2> QED BY <1>2, <2>1, <2>2, PastOps
<1>3. CASE file = "resubmit"
  <2>1. (WaitOfShort <=> step = 10) /\ ~ WaitOfLong
    BY <1>3 DEF WaitOfShort, WaitOfLong
  <2>2. Len(tests) = 12
    BY <1>3, ResubmitSteps, TxTests
  <2> QED BY <1>3, <2>1, <2>2, ResubmitOps
<1> QED BY <1>1, <1>2, <1>3 DEF TxScript

LEMMA BeginWaitInv ==
  ASSUME TxInv, BeginWait
  PROVE  TxInv'
<1>1. /\ verdict = "running" /\ (WaitOfShort \/ WaitOfLong) /\ ~ (WaitOfShort /\ WaitOfLong)
      /\ looksLeft = 0
      /\ WaitOfShort => Arg.query = 1
      /\ WaitOfLong => Arg.query = 2
  BY WaitArg DEF TxInv, BeginWait
<1>2. /\ looksLeft' = Attempts(Arg.query) /\ lookedAt' = height - 1
      /\ UNCHANGED <<file, tests, step, verdict, height, begun, lag, registeredAt, handledAt,
                     transfers, mocked>>
  BY DEF BeginWait, scriptVars
<1>3. /\ height \in Nat \ {0} /\ begun = height
  BY <1>1 DEF TxInv, TxScript, Looks
<1>4. /\ {ShortPeriod, LongPeriod} \subseteq Nat \ {0} /\ ShortPeriod <= LongPeriod
      /\ WaitOfShort => looksLeft' = 2 * ShortPeriod
      /\ WaitOfLong => looksLeft' = 2 * LongPeriod
  BY <1>1, <1>2, PeriodAssumption DEF Attempts, Period
<1>5. TxScript' /\ TxTypes'
  BY <1>1, <1>2, <1>3, <1>4 DEF TxInv, TxScript, TxTypes
<1>6. mocked' \in BOOLEAN /\ (mocked' <=> MockOn')
  BY <1>2 DEF TxInv, MockOn
<1>7. OrderSent' /\ PastSent' /\ ResubmitSent' /\ Failures'
  BY <1>2 DEF TxInv, OrderSent, PastSent, ResubmitSent, Failures, CountInTime
<1>8. Handling' /\ Due'
  BY <1>2, SameTransfers DEF TxInv, Handling, Due, Period
<1>9. Looks'
  BY <1>1, <1>2, <1>3, <1>4 DEF Looks, WaitOfShort, WaitOfLong
<1>10. OrderHandled' /\ OrderBoth'
  BY <1>2 DEF TxInv, OrderHandled, OrderBoth
<1>11. OrderKept'
  BY <1>1, <1>2, SameTransfers DEF TxInv, OrderKept
<1>12. InOrder'
  BY <1>1, <1>2 DEF InOrder
<1>13. WaitSuffices' /\ FailuresCounted'
  BY <1>1, <1>2 DEF WaitSuffices, FailuresCounted, CountInTime
<1> QED BY <1>5, <1>6, <1>7, <1>8, <1>9, <1>10, <1>11, <1>12, <1>13 DEF TxInv

(* The numbers that are asked for, of one transfer or two                   *)
LEMMA NumberOfTwo ==
  ASSUME Len(transfers) \in {1, 2}, transfers \in Seq(Transfer)
  PROVE  queryTransfersNumber =
           (IF transfers[1].state = "recorded" THEN 1 ELSE 0)
           + (IF Len(transfers) = 2 /\ transfers[2].state = "recorded" THEN 1 ELSE 0)
<1>1. DOMAIN transfers = 1 .. Len(transfers)
  OBVIOUS
<1>2. /\ Transfers("recorded") \subseteq {1, 2}
      /\ 1 \in Transfers("recorded") <=> transfers[1].state = "recorded"
      /\ 2 \in Transfers("recorded") <=> Len(transfers) = 2 /\ transfers[2].state = "recorded"
  BY <1>1 DEF Transfers
<1> QED BY <1>2, CardOfTwo DEF queryTransfersNumber

LEMMA RecordedOfTwo ==
  ASSUME Len(transfers) = 2, transfers \in Seq(Transfer), NEW q \in Queries
  PROVE  queryRecipientTxs(q) =
           (IF transfers[1].state = "recorded" /\ transfers[1].query = q THEN 1 ELSE 0)
           + (IF transfers[2].state = "recorded" /\ transfers[2].query = q THEN 1 ELSE 0)
<1>1. DOMAIN transfers = 1 .. 2
  OBVIOUS
<1>2. /\ Recorded(q) \subseteq {1, 2}
      /\ 1 \in Recorded(q) <=> transfers[1].state = "recorded" /\ transfers[1].query = q
      /\ 2 \in Recorded(q) <=> transfers[2].state = "recorded" /\ transfers[2].query = q
  BY <1>1 DEF Recorded, Transfers
<1> QED BY <1>2, CardOfTwo DEF queryRecipientTxs

LEMMA FailedOfTwo ==
  ASSUME Len(transfers) = 2, transfers \in Seq(Transfer)
  PROVE  Cardinality(getUnsuccessfulTxs) =
           (IF transfers[1].state = "failed" THEN 1 ELSE 0)
           + (IF transfers[2].state = "failed" THEN 1 ELSE 0)
<1>1. DOMAIN transfers = 1 .. 2
  OBVIOUS
<1>2. /\ getUnsuccessfulTxs \subseteq {1, 2}
      /\ 1 \in getUnsuccessfulTxs <=> transfers[1].state = "failed"
      /\ 2 \in getUnsuccessfulTxs <=> transfers[2].state = "failed"
  BY <1>1 DEF getUnsuccessfulTxs, Transfers
<1> QED BY <1>2, CardOfTwo

(* The transfers of a file                                                  *)
LEMMA SentInWait ==
  ASSUME TxInv, WaitOfShort \/ WaitOfLong
  PROVE  /\ transfers \in Seq(Transfer) /\ DOMAIN transfers = 1 .. Len(transfers)
         /\ Len(transfers) = IF file = "past" /\ step = 3 THEN 1 ELSE 2
         /\ file = "order" => transfers[1].query = 2 /\ transfers[2].query = 1
         /\ file = "past" => transfers[1].query = 1
         /\ file = "past" /\ step = 8 => transfers[2].query = 2
         /\ file = "resubmit" => transfers[1].query = 1 /\ transfers[2].query = 1
         /\ \A i \in DOMAIN transfers :
              registeredAt[transfers[i].query] > 0 /\ transfers[i].state # "failed"
<1>1. transfers \in Seq(Transfer) /\ DOMAIN transfers = 1 .. Len(transfers)
  BY DEF TxInv, TxTypes
<1>2. CASE file = "order"
  BY <1>1, <1>2 DEF TxInv, OrderSent, Failures, CountInTime, WaitOfShort, WaitOfLong
<1>3. CASE file = "past"
  BY <1>1, <1>3 DEF TxInv, PastSent, Failures, CountInTime, WaitOfShort, WaitOfLong
<1>4. CASE file = "resubmit"
  BY <1>1, <1>4 DEF TxInv, ResubmitSent, Failures, CountInTime, WaitOfShort, WaitOfLong
<1> QED BY <1>1, <1>2, <1>3, <1>4 DEF TxInv, TxScript

(* With the attempts of a wait used up, two periods are over: whatever was  *)
(* there when it began has been recorded.                                   *)
LEMMA WaitedEnough ==
  ASSUME TxInv, looksLeft = 1, height > lookedAt, lag + 2 <= ShortPeriod,
         NEW i \in DOMAIN transfers, WaitOfShort => transfers[i].query = 1
  PROVE  transfers[i].state = "recorded"
<1>1. /\ verdict = "running" /\ (WaitOfShort \/ WaitOfLong)
      /\ WaitOfShort => lookedAt + 1 = begun - 1 + 2 * ShortPeriod
      /\ WaitOfLong => lookedAt + 1 = begun - 1 + 2 * LongPeriod
      /\ height = lookedAt + 1
  BY DEF TxInv, TxScript, TxTypes, Looks
<1>2. /\ {ShortPeriod, LongPeriod} \subseteq Nat \ {0} /\ ShortPeriod <= LongPeriod
      /\ lag \in Nat /\ begun \in Nat /\ height \in Nat
  BY PeriodAssumption, TxBoundAssumption DEF TxInv, TxScript, TxTypes
<1>3. /\ transfers[i].query \in Queries
      /\ transfers[i].state \in {"sent", "submitted", "recorded", "failed"}
  BY TransferTypes DEF TxInv
<1>4. transfers[i].state # "failed" /\ registeredAt[transfers[i].query] > 0
  BY <1>1, SentInWait
<1>5. transfers[i].state \in {"sent", "submitted"} =>
        height <= begun + Period(transfers[i].query) + lag
  BY <1>4 DEF TxInv, Due
<1>6. /\ Period(transfers[i].query) \in {ShortPeriod, LongPeriod}
      /\ WaitOfShort => Period(transfers[i].query) = ShortPeriod
  BY <1>3 DEF Period, Queries
<1>7. ~ (height <= begun + Period(transfers[i].query) + lag)
  <2>1. CASE WaitOfShort
    BY <1>1, <1>2, <1>6, <2>1
  <2>2. CASE WaitOfLong
    BY <1>1, <1>2, <1>6, <2>2
  <2> QED BY <1>1, <2>1, <2>2
<1> QED BY <1>3, <1>4, <1>5, <1>7

LEMMA LookInv ==
  ASSUME TxInv, LookAtNumber
  PROVE  TxInv'
<1>1. /\ verdict = "running" /\ (WaitOfShort \/ WaitOfLong) /\ ~ (WaitOfShort /\ WaitOfLong)
      /\ step <= Len(tests) /\ looksLeft > 0 /\ height > lookedAt
      /\ WaitOfShort => Arg.number = IF file = "resubmit" THEN 2 ELSE 1
      /\ WaitOfLong => Arg.number = 2
  BY WaitArg DEF TxInv, LookAtNumber, InWait
<1>2. lookedAt' = height /\ UNCHANGED <<lag, registeredAt, handledAt, transfers, mocked>>
  BY DEF LookAtNumber
<1>3. height \in Nat /\ lookedAt' \in Nat /\ looksLeft \in Nat \ {0} /\ begun \in Nat
      /\ height = lookedAt + 1 /\ lookedAt \in Nat
  BY <1>1, <1>2 DEF TxInv, TxScript, TxTypes, Looks
<1>4. queryTransfersNumber =
        (IF transfers[1].state = "recorded" THEN 1 ELSE 0)
        + (IF Len(transfers) = 2 /\ transfers[2].state = "recorded" THEN 1 ELSE 0)
  BY <1>1, SentInWait, NumberOfTwo
(* the younger transfer is recorded first, in time for the next steps *)
<1>5. ASSUME file = "order", lag <= 1, step = 6, Early
      PROVE  /\ transfers[1].state # "recorded"
             /\ transfers[2].state = "recorded" <=> queryTransfersNumber = 1
             /\ transfers[2].state = "recorded" =>
                  height <= transfers[2].at + ShortPeriod + lag + 1
  <2>1. /\ transfers[2].query = 1 /\ 2 \in DOMAIN transfers /\ Len(transfers) = 2
        /\ registeredAt[1] > 0 /\ transfers[2].state # "failed"
    BY <1>1, <1>5, SentInWait
  <2>2. /\ begun = transfers[2].at /\ begun \in Nat
        /\ transfers[2].state = "recorded" => height <= begun + ShortPeriod + lag + 1
    BY <1>1, <1>3, <1>5 DEF TxInv, OrderKept
  <2>3. transfers[2].state # "recorded" => height <= begun + ShortPeriod + lag
    BY <2>1, TransferTypes DEF TxInv, Due, Period
  <2>4. {ShortPeriod, LongPeriod, lag, MaxSlow, registeredAt[2]} \subseteq Nat
    BY PeriodAssumption, TxBoundAssumption DEF TxInv, TxTypes, Queries
  <2>5. height <= registeredAt[2] + LongPeriod
    BY <1>3, <1>5, <2>2, <2>3, <2>4 DEF Early
  <2>6. transfers[1].state # "recorded"
    BY <1>3, <1>5, <2>4, <2>5 DEF TxInv, OrderHandled
  <2> QED BY <1>4, <2>1, <2>2, <2>6
<1>6. CASE queryTransfersNumber = Arg.number
  <2>1. StepDone /\ step' = step + 1 /\ UNCHANGED <<file, tests, height>> /\ begun' = height
        /\ looksLeft' = 0
    BY <1>6 DEF LookAtNumber, StepDone
  <2>2. mocked' \in BOOLEAN /\ (mocked' <=> MockOn')
    <3>1. ~ MockOn /\ ~ MockOn'
      BY <1>1, <2>1 DEF MockOn, WaitOfShort, WaitOfLong
    <3> QED BY <1>2, <3>1 DEF TxInv
  <2>3. OrderSent' /\ PastSent' /\ ResubmitSent' /\ Failures'
    BY <1>1, <1>2, <2>1
       DEF TxInv, OrderSent, PastSent, ResubmitSent, Failures, CountInTime, WaitOfShort, WaitOfLong
  <2>4. OrderHandled'
    BY <1>1, <1>2, <2>1 DEF TxInv, OrderHandled, WaitOfShort, WaitOfLong
  <2>5. OrderKept'
    <3>1. ASSUME file = "order", lag <= 1, step = 6, Early
          PROVE  /\ transfers[2].state = "recorded"
                 /\ height <= transfers[2].at + ShortPeriod + lag + 1
      BY <1>1, <1>5, <1>6, <3>1 DEF WaitOfShort
    <3>2. MaxSlow \in Nat /\ lag \in Nat /\ ShortPeriod \in Nat
      BY PeriodAssumption, TxBoundAssumption DEF TxInv, TxTypes
    <3>3. file = "order" /\ step = 6 => transfers[2].at \in Nat
      BY <1>1, SentInWait, TransferTypes DEF TxInv
    <3>4. CASE file = "order" /\ step = 6
      <4>1. /\ step' = 7 /\ (Early' <=> Early)
            /\ UNCHANGED <<transfers, lag, file, height>> /\ begun' = height
        BY <1>2, <2>1, <3>4, SameTransfers
      <4>2. ASSUME lag <= 1, Early
            PROVE  /\ transfers[2].state = "recorded"
                   /\ height <= transfers[2].at + ShortPeriod + lag + 1 + MaxSlow
                   /\ height <= transfers[2].at + ShortPeriod + lag + 1
                   /\ height <= height + MaxSlow
        BY <1>3, <3>1, <3>2, <3>3, <3>4, <4>2
      <4> QED BY <4>1, <4>2 DEF OrderKept
    <3>5. CASE ~ (file = "order" /\ step = 6)
      BY <1>1, <2>1, <3>5 DEF OrderKept, WaitOfShort, WaitOfLong
    <3> QED BY <3>4, <3>5
  <2>6. OrderBoth'
    <3>1. CASE file = "order" /\ step = 9
      <4>1. Arg.number = 2
        BY <1>1, <3>1 DEF WaitOfLong
      <4> QED BY <1>2, <1>4, <1>6, <4>1 DEF OrderBoth
    <3>2. CASE ~ (file = "order" /\ step = 9)
      BY <1>1, <2>1, <3>2 DEF OrderBoth, WaitOfShort, WaitOfLong
    <3> QED BY <3>1, <3>2
  <2> QED BY <1>1, <1>2, <1>3, <2>1, <2>2, <2>3, <2>4, <2>5, <2>6, TxStepOver
<1>7. CASE queryTransfersNumber # Arg.number /\ looksLeft = 1
  <2>1. Ends("used_up") /\ looksLeft' = 0
    BY <1>7 DEF LookAtNumber
  <2>2. ASSUME lag + 2 <= ShortPeriod
        PROVE  queryTransfersNumber > tests[step].arg.number
    <3>1. CASE WaitOfShort
      <4>0. \A i \in DOMAIN transfers :
              transfers[i].query = 1 => transfers[i].state = "recorded"
        BY <1>1, <1>7, <2>2, <3>1, WaitedEnough
      <4>1. file = "order" => transfers[2].state = "recorded" /\ Len(transfers) = 2
        <5>1. CASE file = "order"
          BY <1>1, <4>0, <5>1, SentInWait
        <5> QED BY <5>1
      <4>2. file = "past" => transfers[1].state = "recorded" /\ Len(transfers) = 1
        <5>1. CASE file = "past"
          <6>1. step = 3
            BY <3>1, <5>1 DEF WaitOfShort
          <6>2. Len(transfers) = 1 /\ 1 \in DOMAIN transfers /\ transfers[1].query = 1
            BY <1>1, <5>1, <6>1, SentInWait
          <6> QED BY <4>0, <6>2
        <5> QED BY <5>1
      <4>3. file = "resubmit" => /\ transfers[1].state = "recorded" /\ Len(transfers) = 2
                                 /\ transfers[2].state = "recorded"
        <5>1. CASE file = "resubmit"
          BY <1>1, <4>0, <5>1, SentInWait
        <5> QED BY <5>1
      <4> QED BY <1>1, <1>4, <1>7, <3>1, <4>1, <4>2, <4>3 DEF TxInv, TxScript, Arg
    <3>2. CASE WaitOfLong
      <4>1. transfers[1].state = "recorded" /\ Len(transfers) = 2 /\ transfers[2].state = "recorded"
        BY <1>1, <1>7, <2>2, <3>2, WaitedEnough, SentInWait DEF WaitOfLong
      <4> QED BY <1>1, <1>4, <1>7, <3>2, <4>1
    <3> QED BY <1>1, <3>1, <3>2
  <2> QED BY <1>1, <1>2, <1>3, <2>1, <2>2, TxEnds
<1>8. CASE queryTransfersNumber # Arg.number /\ looksLeft # 1
  <2>1. /\ looksLeft' = looksLeft - 1
        /\ UNCHANGED <<file, tests, step, verdict, height, begun>>
    BY <1>8 DEF LookAtNumber, scriptVars
  <2>2. TxScript' /\ TxTypes'
    BY <1>2, <1>3, <2>1, PeriodAssumption DEF TxInv, TxScript, TxTypes
  <2>3. mocked' \in BOOLEAN /\ (mocked' <=> MockOn')
    BY <1>2, <2>1 DEF TxInv, MockOn
  <2>4. OrderSent' /\ PastSent' /\ ResubmitSent' /\ Failures'
    BY <1>2, <2>1 DEF TxInv, OrderSent, PastSent, ResubmitSent, Failures, CountInTime
  <2>5. Handling' /\ Due'
    BY <1>2, <2>1, SameTransfers DEF TxInv, Handling, Due, Period
  <2>6. Looks'
    BY <1>1, <1>2, <1>3, <2>1, <1>8 DEF TxInv, Looks, WaitOfShort, WaitOfLong
  <2>7. OrderHandled' /\ OrderBoth'
    BY <1>2, <2>1 DEF TxInv, OrderHandled, OrderBoth
  <2>8. OrderKept'
    <3>1. file = "order" /\ step = 6 => Arg.number = 1
      BY <1>1 DEF WaitOfShort
    <3>2. file = "order" /\ lag <= 1 /\ step = 6 /\ Early => transfers[2].state # "recorded"
      BY <1>5, <1>8, <3>1
    <3> QED BY <1>2, <2>1, <3>2, SameTransfers DEF TxInv, OrderKept
  <2>9. InOrder' /\ WaitSuffices' /\ FailuresCounted'
    BY <1>1, <2>1 DEF InOrder, WaitSuffices, FailuresCounted, CountInTime
  <2> QED BY <2>2, <2>3, <2>4, <2>5, <2>6, <2>7, <2>8, <2>9 DEF TxInv
<1> QED BY <1>6, <1>7, <1>8

(* A wait for blocks is over.                                               *)
LEMMA TxWaitInv ==
  ASSUME TxInv, TxWaitBlocks
  PROVE  TxInv'
<1>1. /\ \/ file = "order" /\ step = 3 /\ Arg = 2
         \/ file = "past" /\ step = 5
         \/ file = "resubmit" /\ step = 5 /\ Arg = CheckBlocks
         \/ file = "resubmit" /\ step = 9
      /\ step <= Len(tests) /\ verdict = "running" /\ height >= begun + Arg
  BY OrderOps, PastOps, ResubmitOps DEF TxInv, TxScript, TxWaitBlocks, Running, BlocksPassed
<1>2. /\ StepDone /\ step' = step + 1 /\ begun' = height /\ UNCHANGED <<file, height>>
      /\ UNCHANGED <<lag, registeredAt, handledAt, transfers, mocked, looksLeft, lookedAt>>
  BY DEF TxWaitBlocks, StepDone
<1>3. mocked' \in BOOLEAN /\ (mocked' <=> MockOn')
  BY <1>1, <1>2 DEF TxInv, MockOn
<1>4. OrderSent' /\ PastSent' /\ ResubmitSent'
  BY <1>1, <1>2 DEF TxInv, OrderSent, PastSent, ResubmitSent
<1>5. Failures'
  <2>1. ASSUME file = "resubmit", step = 5, CountInTime, NEW i \in DOMAIN transfers
        PROVE  transfers[i].state = "failed"
    <3>1. transfers[i].query = 1 /\ registeredAt[1] > 0
      <4>1. Len(transfers) = 2 /\ transfers[1].query = 1 /\ transfers[2].query = 1
        BY <2>1 DEF TxInv, ResubmitSent
      <4>2. i \in {1, 2}
        BY <4>1 DEF TxInv, TxTypes
      <4> QED BY <2>1, <4>1, <4>2 DEF TxInv, ResubmitSent
    <3>2. transfers[i].state \in {"sent", "submitted"} => height <= begun + ShortPeriod + lag
      BY <2>1, <3>1, PeriodAssumption DEF TxInv, TxScript, Due, Period
    <3>3. height >= begun + CheckBlocks /\ begun \in Nat /\ height \in Nat
      BY <1>1, <2>1 DEF TxInv, TxScript
    <3>4. transfers[i].state \notin {"sent", "submitted"}
      <4>1. lag \in Nat /\ ShortPeriod \in Nat /\ CheckBlocks \in Nat
        BY PeriodAssumption, TxBoundAssumption DEF TxInv, TxTypes
      <4> QED BY <2>1, <3>2, <3>3, <4>1 DEF CountInTime
    <3> QED BY <2>1, <3>4, TransferTypes DEF TxInv, Failures, CountInTime
  <2> QED BY <1>1, <1>2, <2>1 DEF TxInv, Failures, CountInTime
<1>6. OrderHandled'
  <2>1. ASSUME file = "order", lag <= 1, step = 3
        PROVE  handledAt[2] > 0
    <3>1. /\ begun = registeredAt[2] /\ height >= begun + 2 /\ registeredAt[2] > 0
          /\ {begun, height, lag, handledAt[2]} \subseteq Nat
      BY <1>1, <2>1, TxBoundAssumption
         DEF TxInv, TxScript, TxTypes, OrderHandled, OrderSent, Queries
    <3>2. height <= DueAt(2) + lag
      BY <3>1 DEF TxInv, Handling, Queries
    <3> QED BY <2>1, <3>1, <3>2 DEF DueAt
  <2> QED BY <1>1, <1>2, <2>1 DEF OrderHandled
<1>7. OrderKept' /\ OrderBoth'
  BY <1>1, <1>2 DEF OrderKept, OrderBoth
<1>8. looksLeft' = 0 /\ lookedAt' \in Nat
  BY <1>1, <1>2 DEF TxInv, TxTypes, Looks, WaitOfShort, WaitOfLong
<1> QED BY <1>1, <1>2, <1>3, <1>4, <1>5, <1>6, <1>7, <1>8, TxStepOver

(* The answers are the ones expected, or a step of the relayer came late.   *)
LEMMA ExpectTransfersInv ==
  ASSUME TxInv, Running("expectTransfers"),
         Expect(queryRecipientTxs(Arg.query) = Arg.number, "transfers_differ"),
         UNCHANGED <<lag, registeredAt, handledAt, transfers, mocked, looksLeft, lookedAt>>
  PROVE  TxInv'
<1>1. /\ \/ file = "order" /\ step \in {7, 8, 10}
         \/ file = "past" /\ step \in {6, 9}
         \/ file = "resubmit" /\ step = 12
      /\ step <= Len(tests) /\ verdict = "running"
  BY OrderOps, PastOps, ResubmitOps DEF TxInv, TxScript, Running
<1>2. looksLeft' = 0 /\ lookedAt' \in Nat
  BY <1>1 DEF TxInv, TxTypes, Looks, WaitOfShort, WaitOfLong
<1>3. {height, begun, lag, ShortPeriod, LongPeriod, MaxSlow} \subseteq Nat
  BY PeriodAssumption, TxBoundAssumption DEF TxInv, TxScript, TxTypes
<1>4. file = "order" => /\ Len(transfers) = 2 /\ transfers \in Seq(Transfer)
                        /\ transfers[1].query = 2 /\ transfers[2].query = 1
                        /\ transfers[2].at \in Nat /\ registeredAt[2] \in Nat
  BY <1>1, TransferTypes DEF TxInv, TxTypes, OrderSent, Queries
<1>5. CASE StepDone
  <2>1. step' = step + 1 /\ begun' = height /\ UNCHANGED <<file, tests, height>>
    BY <1>5 DEF StepDone
  <2>2. mocked' \in BOOLEAN /\ (mocked' <=> MockOn')
    BY <1>1, <2>1 DEF TxInv, MockOn
  <2>3. OrderSent' /\ PastSent' /\ ResubmitSent' /\ Failures'
    BY <1>1, <2>1 DEF TxInv, OrderSent, PastSent, ResubmitSent, Failures, CountInTime
  <2>4. OrderHandled' /\ OrderBoth'
    BY <1>1, <2>1 DEF TxInv, OrderHandled, OrderBoth
  <2>5. OrderKept'
    <3>1. CASE file = "order" /\ step = 7
      <4>1. /\ step' = 8 /\ (Early' <=> Early)
            /\ UNCHANGED <<transfers, lag, file, height>> /\ begun' = height
        BY <2>1, <3>1, SameTransfers
      <4>2. lag <= 1 /\ Early =>
              height <= transfers[2].at + ShortPeriod + lag + 1 + MaxSlow
        BY <3>1 DEF TxInv, OrderKept
      <4>3. height <= height + MaxSlow
        BY <1>3
      <4> QED BY <4>1, <4>2, <4>3 DEF OrderKept
    <3>2. CASE ~ (file = "order" /\ step = 7)
      BY <1>1, <2>1, <3>2 DEF OrderKept
    <3> QED BY <3>1, <3>2
  <2> QED BY <1>1, <1>2, <1>5, <2>1, <2>2, <2>3, <2>4, <2>5, TxStepOver
<1>6. CASE Ends("transfers_differ") /\ queryRecipientTxs(Arg.query) # Arg.number
  <2>1. ASSUME file = "order", lag <= 1, InTime
        PROVE  FALSE
    <3>1. Early
      <4>1. 1 \in DOMAIN transfers /\ 2 \in DOMAIN transfers
        BY <1>4, <2>1
      <4> QED BY <1>4, <2>1, <4>1 DEF InTime, Early
    <3>2. queryRecipientTxs(Arg.query) =
            (IF transfers[1].state = "recorded" /\ Arg.query = 2 THEN 1 ELSE 0)
            + (IF transfers[2].state = "recorded" /\ Arg.query = 1 THEN 1 ELSE 0)
      BY <1>1, <1>4, <2>1, RecordedOfTwo, OrderOps DEF TxInv, Queries
    <3>3. step = 7 => transfers[2].state = "recorded" /\ Arg.query = 1 /\ Arg.number = 1
      BY <2>1, <3>1, OrderOps DEF TxInv, OrderKept
    <3>4. step = 8 => transfers[1].state # "recorded" /\ Arg.query = 2 /\ Arg.number = 0
      <4>1. CASE step = 8
        <5>1. /\ begun <= transfers[2].at + ShortPeriod + lag + 1 + MaxSlow
              /\ height <= begun + MaxSlow
          BY <2>1, <3>1, <4>1 DEF TxInv, OrderKept
        <5>2. height <= registeredAt[2] + LongPeriod
          <6> DEFINE t == transfers[2].at
          <6>1. t \in Nat /\ registeredAt[2] \in Nat
            BY <1>4, <2>1
          <6>2. t + ShortPeriod + lag + 2 * MaxSlow < registeredAt[2] + LongPeriod
            BY <3>1 DEF Early
          <6>3. begun <= t + ShortPeriod + lag + 1 + MaxSlow /\ height <= begun + MaxSlow
            BY <5>1
          <6> HIDE DEF t
          <6> QED BY <1>3, <6>1, <6>2, <6>3
        <5>3. transfers[1].state = "recorded" => height > registeredAt[2] + LongPeriod
          BY <2>1, <4>1 DEF TxInv, OrderHandled
        <5> QED BY <1>3, <1>4, <2>1, <4>1, <5>2, <5>3, OrderOps DEF TxInv
      <4> QED BY <4>1
    <3>5. step = 10 => transfers[1].state = "recorded" /\ Arg.query = 2 /\ Arg.number = 1
      BY <2>1, OrderOps DEF TxInv, OrderBoth
    <3> QED BY <1>1, <1>6, <2>1, <3>2, <3>3, <3>4, <3>5
  <2> QED BY <1>1, <1>2, <1>6, <2>1, TxEnds
<1> QED BY <1>5, <1>6 DEF Expect

LEMMA ExpectFailuresInv ==
  ASSUME TxInv, Running("expectUnsuccessful"),
         Expect(Cardinality(getUnsuccessfulTxs) = Arg, "count_differs"),
         UNCHANGED <<lag, registeredAt, handledAt, transfers, mocked, looksLeft, lookedAt>>
  PROVE  TxInv'
<1>1. /\ file = "resubmit" /\ step \in {6, 11} /\ step <= Len(tests) /\ verdict = "running"
      /\ Arg = IF step = 6 THEN 2 ELSE 0
  BY OrderOps, PastOps, ResubmitOps DEF TxInv, TxScript, Running
<1>2. looksLeft' = 0 /\ lookedAt' \in Nat
  BY <1>1 DEF TxInv, TxTypes, Looks, WaitOfShort, WaitOfLong
<1>3. Len(transfers) = 2 /\ transfers \in Seq(Transfer) /\ DOMAIN transfers = 1 .. 2
  BY <1>1 DEF TxInv, TxTypes, ResubmitSent
<1>4. Cardinality(getUnsuccessfulTxs) =
        (IF transfers[1].state = "failed" THEN 1 ELSE 0)
        + (IF transfers[2].state = "failed" THEN 1 ELSE 0)
  BY <1>3, FailedOfTwo
<1>5. CASE StepDone /\ Cardinality(getUnsuccessfulTxs) = Arg
  <2>1. step' = step + 1 /\ begun' = height /\ UNCHANGED <<file, tests, height>>
    BY <1>5 DEF StepDone
  <2>2. mocked' \in BOOLEAN /\ (mocked' <=> MockOn')
    BY <1>1, <2>1 DEF TxInv, MockOn
  <2>3. OrderSent' /\ PastSent' /\ ResubmitSent'
    BY <1>1, <2>1 DEF TxInv, OrderSent, PastSent, ResubmitSent
  <2>4. Failures'
    <3>1. CASE step = 6
      BY <1>1, <1>3, <1>4, <1>5, <2>1, <3>1 DEF Failures, CountInTime
    <3>2. CASE step = 11
      BY <1>1, <2>1, <3>2 DEF TxInv, Failures, CountInTime
    <3> QED BY <1>1, <3>1, <3>2
  <2>5. OrderHandled' /\ OrderBoth' /\ OrderKept'
    BY <1>1, <2>1 DEF OrderHandled, OrderBoth, OrderKept
  <2> QED BY <1>1, <1>2, <1>5, <2>1, <2>2, <2>3, <2>4, <2>5, TxStepOver
<1>6. CASE Ends("count_differs") /\ Cardinality(getUnsuccessfulTxs) # Arg
  <2>1. step = 6 /\ CountInTime => transfers[1].state = "failed" /\ transfers[2].state = "failed"
    BY <1>1, <1>3 DEF TxInv, Failures, CountInTime
  <2>2. step = 11 => transfers[1].state # "failed" /\ transfers[2].state # "failed"
    BY <1>1, <1>3 DEF TxInv, Failures, CountInTime
  <2>3. ~ CountInTime
    BY <1>1, <1>4, <1>6, <2>1, <2>2
  <2> QED BY <1>1, <1>2, <1>6, <2>3, TxEnds
<1> QED BY <1>5, <1>6 DEF Expect

LEMMA TxExpectInv ==
  ASSUME TxInv, TxExpect
  PROVE  TxInv'
BY ExpectTransfersInv, ExpectFailuresInv DEF TxExpect

-------------------------------------------------------------------------------
(* Steps of the relayer and of Neutron                                      *)

(* Only the states of the transfers change.                                 *)
LEMMA StatesChange ==
  ASSUME TxInv, NEW state \in [DOMAIN transfers -> {"sent", "submitted", "recorded", "failed"}],
         transfers' = [i \in DOMAIN transfers |-> [transfers[i] EXCEPT !.state = state[i]]]
  PROVE  /\ transfers' \in Seq(Transfer) /\ Len(transfers') = Len(transfers)
         /\ DOMAIN transfers' = DOMAIN transfers /\ DOMAIN transfers = 1 .. Len(transfers)
         /\ \A i \in DOMAIN transfers :
              /\ transfers'[i].query = transfers[i].query /\ transfers'[i].at = transfers[i].at
              /\ transfers'[i].state = state[i]
<1>1. transfers \in Seq(Transfer) /\ DOMAIN transfers = 1 .. Len(transfers)
  BY DEF TxInv, TxTypes
<1>2. ASSUME NEW i \in DOMAIN transfers
      PROVE  /\ transfers'[i] \in Transfer /\ transfers'[i].query = transfers[i].query
             /\ transfers'[i].at = transfers[i].at /\ transfers'[i].state = state[i]
  <2>1. transfers[i] \in Transfer
    BY TransferTypes DEF TxInv
  <2>2. transfers'[i] = [transfers[i] EXCEPT !.state = state[i]]
    OBVIOUS
  <2> QED BY <2>1, <2>2 DEF Transfer
<1>3. transfers' = [i \in 1 .. Len(transfers) |-> transfers'[i]]
  BY <1>1
<1> QED BY <1>1, <1>2, <1>3
(* What a step of the relayer or a block leaves alone                       *)
LEMMA StatesKept ==
  ASSUME TxInv, UNCHANGED <<file, tests, step, begun, verdict, lag, registeredAt, mocked, looksLeft, lookedAt>>,
         handledAt' \in [Queries -> Nat], height' \in {height, height + 1},
         transfers' \in Seq(Transfer), Len(transfers') = Len(transfers),
         DOMAIN transfers' = DOMAIN transfers,
         verdict = "running",
         \A i \in DOMAIN transfers :
           transfers'[i].query = transfers[i].query /\ transfers'[i].at = transfers[i].at
  PROVE  /\ TxScript' /\ TxTypes' /\ mocked' \in BOOLEAN /\ (mocked' <=> MockOn')
         /\ OrderSent' /\ PastSent' /\ ResubmitSent'
         /\ file = "order" /\ step >= 6 => (Early' <=> Early)
         /\ InOrder' /\ WaitSuffices' /\ FailuresCounted'
<1>1. height \in Nat \ {0} /\ begun \in 1 .. height
  BY DEF TxInv, TxScript
<1>2. TxScript'
  BY <1>1 DEF TxInv, TxScript
<1>3. TxTypes'
  <2>1. ASSUME NEW i \in DOMAIN transfers
        PROVE  transfers'[i].at \in 1 .. height'
    <3>1. transfers[i].at \in 1 .. height /\ transfers'[i].at = transfers[i].at
      BY DEF TxInv, TxTypes
    <3> QED BY <1>1, <3>1
  <2>2. /\ lag' \in 0 .. MaxLag /\ registeredAt' \in [Queries -> Nat]
        /\ looksLeft' \in 0 .. 2 * LongPeriod /\ lookedAt' \in Nat
    BY DEF TxInv, TxTypes
  <2> QED BY <2>1, <2>2 DEF TxTypes
<1>4. mocked' \in BOOLEAN /\ (mocked' <=> MockOn')
  BY DEF TxInv, MockOn
<1>5. transfers \in Seq(Transfer) /\ DOMAIN transfers = 1 .. Len(transfers)
  BY DEF TxInv, TxTypes
<1>6. OrderSent'
  BY <1>5 DEF TxInv, OrderSent
<1>7. PastSent'
  BY <1>5 DEF TxInv, PastSent
<1>8. ResubmitSent'
  BY <1>5 DEF TxInv, ResubmitSent
<1>9. file = "order" /\ step >= 6 => (Early' <=> Early)
  BY <1>5 DEF TxInv, OrderSent, Early
<1>10. InOrder' /\ WaitSuffices' /\ FailuresCounted'
  BY DEF InOrder, WaitSuffices, FailuresCounted, CountInTime
<1> QED BY <1>2, <1>3, <1>4, <1>6, <1>7, <1>8, <1>9, <1>10

LEMMA HandleInv ==
  ASSUME TxInv, NEW q \in Queries, Handle(q)
  PROVE  TxInv'
<1> DEFINE state == [i \in DOMAIN transfers |->
                        IF transfers[i].query = q /\ transfers[i].state = "sent"
                          THEN "submitted" ELSE transfers[i].state]
<1>1. /\ verdict = "running" /\ registeredAt[q] > 0 /\ height >= DueAt(q)
      /\ handledAt' = [handledAt EXCEPT ![q] = height]
      /\ UNCHANGED <<file, tests, step, begun, verdict, height, lag, registeredAt, mocked, looksLeft, lookedAt>>
  BY DEF Handle, scriptVars
<1>2. state \in [DOMAIN transfers -> {"sent", "submitted", "recorded", "failed"}]
  BY TransferTypes DEF TxInv
<1>3. transfers' = [i \in DOMAIN transfers |-> [transfers[i] EXCEPT !.state = state[i]]]
  <2>1. ASSUME NEW i \in DOMAIN transfers
        PROVE  transfers[i] = [transfers[i] EXCEPT !.state = transfers[i].state]
    BY TransferTypes DEF TxInv, Transfer
  <2> QED BY <2>1 DEF Handle
<1>4. /\ transfers' \in Seq(Transfer) /\ Len(transfers') = Len(transfers)
      /\ DOMAIN transfers' = DOMAIN transfers /\ DOMAIN transfers = 1 .. Len(transfers)
      /\ \A i \in DOMAIN transfers :
           /\ transfers'[i].query = transfers[i].query /\ transfers'[i].at = transfers[i].at
           /\ transfers'[i].state = state[i]
  <2> HIDE DEF state
  <2> QED BY <1>2, <1>3, StatesChange
<1>5. {height, begun, lag, ShortPeriod, LongPeriod} \subseteq Nat /\ height > 0 /\ begun <= height
  BY PeriodAssumption, TxBoundAssumption DEF TxInv, TxScript, TxTypes
<1>6. handledAt' \in [Queries -> Nat] /\ \A r \in Queries : registeredAt[r] \in Nat /\ handledAt[r] \in Nat
  BY <1>1, <1>5 DEF TxInv, TxTypes
<1>7. /\ TxScript' /\ TxTypes' /\ mocked' \in BOOLEAN /\ (mocked' <=> MockOn')
      /\ OrderSent' /\ PastSent' /\ ResubmitSent'
      /\ file = "order" /\ step >= 6 => (Early' <=> Early)
      /\ InOrder' /\ WaitSuffices' /\ FailuresCounted'
  BY <1>1, <1>4, <1>6, StatesKept
<1>8. Failures'
  BY <1>1, <1>4 DEF TxInv, Failures, CountInTime
<1>9. Handling'
  <2> SUFFICES ASSUME NEW r \in Queries
               PROVE  /\ registeredAt[r] <= begun /\ handledAt'[r] <= height
                      /\ registeredAt[r] = 0 => handledAt'[r] = 0
                      /\ handledAt'[r] > 0 => handledAt'[r] >= registeredAt[r]
                      /\ registeredAt[r] > 0 => height <= DueAt(r)' + lag
    BY <1>1 DEF Handling
  <2>1. CASE r = q
    <3>1. handledAt'[r] = height /\ DueAt(r)' = height + Period(r)
      BY <1>1, <1>5, <1>6, <2>1 DEF DueAt, Period
    <3>2. registeredAt[r] <= begun /\ Period(r) \in Nat
      BY <1>5 DEF TxInv, Handling, Period
    <3> QED BY <1>1, <1>5, <1>6, <2>1, <3>1, <3>2
  <2>2. CASE r # q
    <3>1. handledAt'[r] = handledAt[r] /\ DueAt(r)' = DueAt(r)
      BY <1>1, <1>6, <2>2 DEF DueAt, Period
    <3> QED BY <3>1 DEF TxInv, Handling
  <2> QED BY <2>1, <2>2
<1>10. Due'
  <2> SUFFICES ASSUME NEW i \in DOMAIN transfers, registeredAt[transfers[i].query] > 0
               PROVE  /\ transfers'[i].state = "sent" => handledAt'[transfers[i].query] <= begun
                      /\ transfers'[i].state \in {"sent", "submitted"} =>
                           height <= begun + Period(transfers[i].query) + lag
    BY <1>1, <1>4 DEF Due, Period
  <2>1. transfers[i].query \in Queries /\ transfers'[i].state = state[i]
    BY <1>4, TransferTypes DEF TxInv
  <2>2. /\ transfers[i].state = "sent" => handledAt[transfers[i].query] <= begun
        /\ transfers[i].state \in {"sent", "submitted"} =>
                           height <= begun + Period(transfers[i].query) + lag
    BY DEF TxInv, Due
  <2>3. transfers[i].query # q => handledAt'[transfers[i].query] = handledAt[transfers[i].query]
    BY <1>1, <1>6, <2>1
  <2> QED BY <2>1, <2>2, <2>3
<1>11. Looks'
  BY <1>1 DEF TxInv, Looks, WaitOfShort, WaitOfLong
<1>12. OrderHandled'
  <2> SUFFICES ASSUME file = "order", lag <= 1
               PROVE  /\ step = 3 => begun = registeredAt[2]
                      /\ step >= 4 => handledAt'[2] > 0
                      /\ step >= 5 /\ transfers'[1].state # "sent" =>
                           height >= registeredAt[2] + LongPeriod
                      /\ step >= 5 /\ transfers'[1].state = "recorded" =>
                           height > registeredAt[2] + LongPeriod
    BY <1>1 DEF OrderHandled
  <2>1. step >= 4 => handledAt[2] > 0
    BY DEF TxInv, OrderHandled
  <2>2. handledAt'[2] \in {handledAt[2], height}
    BY <1>1, <1>6 DEF Queries
  <2>3. ASSUME step >= 5
        PROVE  \/ transfers'[1].state = transfers[1].state
               \/ /\ transfers'[1].state = "submitted"
                  /\ transfers[1].state = "sent" /\ q = 2
    <3>1. transfers[1].query = 2 /\ 1 \in DOMAIN transfers
      BY <1>4, <2>3, TxTests DEF TxInv, OrderSent
    <3> QED BY <1>4, <3>1
  <2>4. ASSUME step >= 5, transfers[1].state = "sent", q = 2
        PROVE  height >= registeredAt[2] + LongPeriod
    <3>1. DueAt(2) = handledAt[2] + LongPeriod
      BY <2>1, <2>4, <1>6, TxTests DEF DueAt, Period, TxInv, Queries
    <3>2. handledAt[2] >= registeredAt[2]
      BY <2>1, <2>4, TxTests DEF TxInv, Handling, Queries
    <3> QED BY <1>1, <1>5, <1>6, <2>4, <3>1, <3>2 DEF Queries
  <2>5. /\ step = 3 => begun = registeredAt[2]
        /\ step >= 5 /\ transfers[1].state # "sent" => height >= registeredAt[2] + LongPeriod
        /\ step >= 5 /\ transfers[1].state = "recorded" => height > registeredAt[2] + LongPeriod
    BY DEF TxInv, OrderHandled
  <2> QED BY <1>5, <2>1, <2>2, <2>3, <2>4, <2>5
<1>13. OrderKept'
  <2>1. file = "order" /\ step >= 6 => (transfers'[2].at = transfers[2].at
                       /\ (transfers'[2].state = "recorded" <=> transfers[2].state = "recorded"))
    BY <1>4 DEF TxInv, OrderSent
  <2> QED BY <1>1, <1>7, <2>1 DEF TxInv, OrderKept
<1>14. OrderBoth'
  <2>1. file = "order" /\ step >= 10 => 1 \in DOMAIN transfers /\ 2 \in DOMAIN transfers
    BY <1>4, TxTests DEF TxInv, OrderSent
  <2> QED BY <1>1, <1>4, <2>1 DEF TxInv, OrderBoth
<1> QED BY <1>7, <1>8, <1>9, <1>10, <1>11, <1>12, <1>13, <1>14 DEF TxInv

LEMMA TxBlockInv ==
  ASSUME TxInv, TxBlock
  PROVE  TxInv'
<1> DEFINE state == [i \in DOMAIN transfers |->
                        IF transfers[i].state = "submitted"
                          THEN IF mocked THEN "failed" ELSE "recorded"
                          ELSE transfers[i].state]
<1>1. /\ verdict = "running" /\ step <= Len(tests) /\ height' = height + 1
      /\ UNCHANGED <<file, tests, step, begun, verdict, lag, registeredAt, handledAt, mocked,
                     looksLeft, lookedAt>>
  BY DEF TxBlock
<1>2. state \in [DOMAIN transfers -> {"sent", "submitted", "recorded", "failed"}]
  BY TransferTypes DEF TxInv
<1>3. transfers' = [i \in DOMAIN transfers |-> [transfers[i] EXCEPT !.state = state[i]]]
  <2>1. ASSUME NEW i \in DOMAIN transfers
        PROVE  transfers[i] = [transfers[i] EXCEPT !.state = transfers[i].state]
    BY TransferTypes DEF TxInv, Transfer
  <2> QED BY <2>1 DEF TxBlock
<1>4. /\ transfers' \in Seq(Transfer) /\ Len(transfers') = Len(transfers)
      /\ DOMAIN transfers' = DOMAIN transfers /\ DOMAIN transfers = 1 .. Len(transfers)
      /\ \A i \in DOMAIN transfers :
           /\ transfers'[i].query = transfers[i].query /\ transfers'[i].at = transfers[i].at
           /\ transfers'[i].state = state[i]
  <2> HIDE DEF state
  <2> QED BY <1>2, <1>3, StatesChange
<1>5. /\ {height, begun, lag, ShortPeriod, LongPeriod, MaxSlow} \subseteq Nat
      /\ height > 0 /\ begun <= height
  BY PeriodAssumption, TxBoundAssumption DEF TxInv, TxScript, TxTypes
<1>6. handledAt' \in [Queries -> Nat] /\ \A r \in Queries : registeredAt[r] \in Nat /\ handledAt[r] \in Nat
  BY <1>1, <1>5 DEF TxInv, TxTypes
<1>7. /\ TxScript' /\ TxTypes' /\ mocked' \in BOOLEAN /\ (mocked' <=> MockOn')
      /\ OrderSent' /\ PastSent' /\ ResubmitSent'
      /\ file = "order" /\ step >= 6 => (Early' <=> Early)
      /\ InOrder' /\ WaitSuffices' /\ FailuresCounted'
  BY <1>1, <1>4, <1>6, StatesKept
<1>8. \A q \in Queries : registeredAt[q] > 0 => height < DueAt(q) + lag
  BY DEF TxBlock
<1>9. Failures'
  <2>1. file # "resubmit" \/ step >= 9 => ~ mocked
    BY TxTests DEF TxInv, MockOn
  <2>2. file = "resubmit" /\ step <= 6 /\ transfers # <<>> => mocked
    BY TxTests DEF TxInv, TxTypes, MockOn, ResubmitSent
  <2>3. file # "resubmit" \/ step >= 9 =>
          \A i \in DOMAIN transfers : transfers'[i].state # "failed"
    BY <1>4, <2>1 DEF TxInv, Failures, CountInTime
  <2>4. file = "resubmit" /\ step <= 6 =>
          \A i \in DOMAIN transfers : transfers'[i].state # "recorded"
    BY <1>4, <2>2 DEF TxInv, Failures, CountInTime
  <2>5. file = "resubmit" /\ (step \in {7, 8} \/ (step = 6 /\ CountInTime)) =>
          \A i \in DOMAIN transfers : transfers'[i].state = "failed"
    BY <1>4 DEF TxInv, Failures, CountInTime
  <2>6. file = "resubmit" /\ step >= 9 => \A i \in DOMAIN transfers : transfers'[i].state # "sent"
    BY <1>4 DEF TxInv, Failures, CountInTime
  <2> QED BY <1>1, <1>4, <2>3, <2>4, <2>5, <2>6 DEF Failures, CountInTime
<1>10. Handling'
  <2> SUFFICES ASSUME NEW r \in Queries
               PROVE  /\ registeredAt[r] <= begun /\ handledAt[r] <= height + 1
                      /\ registeredAt[r] = 0 => handledAt[r] = 0
                      /\ handledAt[r] > 0 => handledAt[r] >= registeredAt[r]
                      /\ registeredAt[r] > 0 => height + 1 <= DueAt(r) + lag
    BY <1>1 DEF Handling, DueAt, Period
  <2>1. registeredAt[r] > 0 => height + 1 <= DueAt(r) + lag
    <3>1. DueAt(r) \in Nat
      BY <1>5, <1>6 DEF DueAt, Period
    <3> QED BY <1>5, <1>8, <3>1
  <2> QED BY <1>5, <1>6, <2>1 DEF TxInv, Handling
<1>11. Due'
  <2> SUFFICES ASSUME NEW i \in DOMAIN transfers, registeredAt[transfers[i].query] > 0,
                      transfers'[i].state \in {"sent", "submitted"}
               PROVE  /\ handledAt[transfers[i].query] <= begun
                      /\ height + 1 <= begun + Period(transfers[i].query) + lag
    BY <1>1, <1>4 DEF Due, Period
  <2>1. transfers[i].query \in Queries /\ transfers[i].state = "sent"
    BY <1>4, TransferTypes DEF TxInv
  <2>2. handledAt[transfers[i].query] <= begun
    BY <2>1 DEF TxInv, Due
  <2>3. /\ height < DueAt(transfers[i].query) + lag
        /\ registeredAt[transfers[i].query] <= begun
    BY <1>8, <2>1 DEF TxInv, Handling
  <2>4. /\ Period(transfers[i].query) \in Nat
        /\ registeredAt[transfers[i].query] \in Nat /\ handledAt[transfers[i].query] \in Nat
    BY <1>5, <1>6, <2>1 DEF Period
  <2>5. DueAt(transfers[i].query) \in Nat
        /\ DueAt(transfers[i].query) <= begun + Period(transfers[i].query)
    BY <1>5, <2>2, <2>3, <2>4 DEF DueAt
  <2> QED BY <1>5, <2>2, <2>3, <2>4, <2>5
<1>12. (WaitOfShort \/ WaitOfLong) => looksLeft > 0 /\ height = lookedAt
  <2> SUFFICES ASSUME WaitOfShort \/ WaitOfLong
               PROVE  looksLeft > 0 /\ height = lookedAt
    OBVIOUS
  <2>1. Running("waitForTransfersAmount")
    BY <1>1, WaitArg DEF TxInv
  <2>2. ~ Running("waitBlocks")
    BY <2>1 DEF Running
  <2>3. InWait /\ height <= lookedAt
    BY <2>1, <2>2 DEF TxBlock
  <2> QED BY <1>5, <2>3 DEF TxInv, TxTypes, Looks, InWait
<1>13. Looks'
  <2>1. (WaitOfShort' <=> WaitOfShort) /\ (WaitOfLong' <=> WaitOfLong)
    BY <1>1 DEF WaitOfShort, WaitOfLong
  <2>2. looksLeft > 0 => height = lookedAt
    BY <1>12 DEF TxInv, Looks
  <2> QED BY <1>1, <1>12, <2>1, <2>2 DEF TxInv, Looks
<1>14. OrderHandled'
  <2>1. file = "order" /\ step >= 5 => transfers'[1].state = state[1] /\ 1 \in DOMAIN transfers
    BY <1>4, TxTests DEF TxInv, OrderSent
  <2>2. registeredAt[2] + LongPeriod \in Nat
    BY <1>5, <1>6 DEF Queries
  <2> QED BY <1>1, <1>5, <2>1, <2>2 DEF TxInv, OrderHandled
<1>15. OrderKept'
  <2> SUFFICES ASSUME file = "order", lag <= 1, step >= 6, Early
               PROVE  OrderKept'
    BY <1>1, <1>7 DEF OrderKept
  <2>1. /\ transfers[2].query = 1 /\ 2 \in DOMAIN transfers /\ registeredAt[1] > 0
        /\ transfers[2].at \in Nat
    BY <1>4, TransferTypes, TxTests DEF TxInv, OrderSent
  <2>2. transfers'[2].state = state[2] /\ transfers'[2].at = transfers[2].at
    BY <1>4, <2>1
  <2>3. CASE step = 6
    <3>1. WaitOfShort /\ looksLeft > 0 /\ height = lookedAt
      BY <1>12, <2>3 DEF WaitOfShort
    <3>2. begun = transfers[2].at /\ transfers[2].state # "recorded"
      BY <1>1, <1>5, <2>3, <3>1 DEF TxInv, OrderKept
    <3>3. transfers'[2].state = "recorded" => height <= begun + ShortPeriod + lag
      BY <2>1, <2>2, <3>2 DEF TxInv, Due, Period
    <3>4. transfers'[2].state = "recorded" => height + 1 <= begun + ShortPeriod + lag + 1
      BY <1>5, <3>3
    <3> QED BY <1>1, <1>5, <2>2, <2>3, <3>1, <3>2, <3>4 DEF OrderKept
  <2>4. CASE step \in {7, 8}
    <3>1. ~ BlocksPassed(MaxSlow)
      BY <2>4, OrderOps DEF TxInv, TxBlock, InWait
    <3>2. height + 1 <= begun + MaxSlow
      BY <1>5, <3>1 DEF BlocksPassed
    <3>3. step = 7 => /\ transfers[2].state = "recorded"
                      /\ begun <= transfers[2].at + ShortPeriod + lag + 1
      BY <2>4 DEF TxInv, OrderKept
    <3>4. step = 8 => begun <= transfers[2].at + ShortPeriod + lag + 1 + MaxSlow
      BY <2>4 DEF TxInv, OrderKept
    <3>5. step = 7 => height + 1 <= transfers[2].at + ShortPeriod + lag + 1 + MaxSlow
      BY <1>5, <2>1, <3>2, <3>3
    <3>6. step = 7 => transfers'[2].state = "recorded"
      BY <2>1, <2>2, <3>3
    <3> QED BY <1>1, <2>2, <2>4, <3>2, <3>3, <3>4, <3>5, <3>6 DEF OrderKept
  <2>5. CASE step > 8
    BY <1>1, <2>5, TxTests DEF OrderKept, TxInv
  <2> QED BY <2>3, <2>4, <2>5, TxTests DEF TxInv
<1>16. OrderBoth'
  <2>1. file = "order" /\ step >= 10 => 1 \in DOMAIN transfers /\ 2 \in DOMAIN transfers
    BY <1>4, TxTests DEF TxInv, OrderSent
  <2> QED BY <1>1, <1>4, <2>1 DEF TxInv, OrderBoth
<1> QED BY <1>7, <1>9, <1>10, <1>11, <1>13, <1>14, <1>15, <1>16 DEF TxInv

LEMMA TxNextInv ==
  ASSUME TxInv, TxNext
  PROVE  TxInv'
<1> QED
  BY RegisterQueryInv, SendTokensInv, SetQueryMockInv, ResubmitInv, BeginWaitInv, LookInv,
     TxWaitInv, TxExpectInv, HandleInv, TxBlockInv DEF TxNext

LEMMA TxStutters ==
  ASSUME TxInv, UNCHANGED txVars
  PROVE  TxInv'
<1>1. UNCHANGED <<file, tests, step, verdict, height, begun, lag, registeredAt, handledAt,
                  transfers, mocked, looksLeft, lookedAt>>
  BY DEF txVars, scriptVars
<1>2. TxScript' /\ TxTypes'
  BY <1>1 DEF TxInv, TxScript, TxTypes
<1>3. mocked' \in BOOLEAN /\ (mocked' <=> MockOn')
  BY <1>1 DEF TxInv, MockOn
<1>4. OrderSent' /\ PastSent' /\ ResubmitSent' /\ Failures'
  BY <1>1 DEF TxInv, OrderSent, PastSent, ResubmitSent, Failures, CountInTime
<1>5. Handling' /\ Due'
  BY <1>1, SameTransfers DEF TxInv, Handling, Due, Period
<1>6. Looks'
  BY <1>1 DEF TxInv, Looks, WaitOfShort, WaitOfLong
<1>7. OrderHandled' /\ OrderBoth'
  BY <1>1 DEF TxInv, OrderHandled, OrderBoth
<1>8. OrderKept'
  BY <1>1, SameTransfers DEF TxInv, OrderKept
<1>9. InOrder' /\ WaitSuffices' /\ FailuresCounted'
  BY <1>1, SameTransfers DEF TxInv, InOrder, WaitSuffices, FailuresCounted, CountInTime
<1> QED BY <1>2, <1>3, <1>4, <1>5, <1>6, <1>7, <1>8, <1>9 DEF TxInv

(* No look finds more than the number waited for.                           *)
LEMMA NotOverlookedHolds ==
  ASSUME TxInv
  PROVE  NotOverlooked
<1>1. ASSUME file = "order", lag <= 1, InTime, InWait
      PROVE  queryTransfersNumber <= Arg.number
  <2>1. /\ verdict = "running" /\ looksLeft > 0 /\ (WaitOfShort \/ WaitOfLong)
        /\ WaitOfShort => Arg.number = 1 /\ step = 6
        /\ WaitOfLong => Arg.number = 2
    BY <1>1, WaitArg DEF TxInv, InWait, WaitOfShort
  <2>2. /\ transfers \in Seq(Transfer) /\ Len(transfers) = 2 /\ DOMAIN transfers = 1 .. 2
        /\ transfers[1].query = 2 /\ transfers[2].query = 1
    BY <1>1, <2>1, SentInWait
  <2>3. queryTransfersNumber = (IF transfers[1].state = "recorded" THEN 1 ELSE 0)
                               + (IF transfers[2].state = "recorded" THEN 1 ELSE 0)
    BY <2>2, NumberOfTwo
  <2>4. CASE WaitOfLong
    BY <2>1, <2>3, <2>4
  <2>5. CASE WaitOfShort
    <3>1. Early
      BY <1>1, <2>2 DEF InTime, Early
    <3>2. CASE transfers[2].state = "recorded"
      <4>1. height <= transfers[2].at + ShortPeriod + lag + 1
        BY <1>1, <2>1, <2>5, <3>1, <3>2 DEF TxInv, OrderKept
      <4>2. transfers[1].state = "recorded" => height > registeredAt[2] + LongPeriod
        BY <1>1, <2>1, <2>5 DEF TxInv, OrderHandled
      <4>3. {height, transfers[2].at, ShortPeriod, LongPeriod, lag, MaxSlow, registeredAt[2]}
              \subseteq Nat
        BY <2>2, PeriodAssumption, TxBoundAssumption, TransferTypes
           DEF TxInv, TxScript, TxTypes, Queries
      <4>4. transfers[1].state # "recorded"
        BY <3>1, <4>1, <4>2, <4>3 DEF Early
      <4> QED BY <2>1, <2>3, <2>5, <4>4
    <3>3. CASE transfers[2].state # "recorded"
      BY <2>1, <2>3, <2>5, <3>3
    <3> QED BY <3>2, <3>3
  <2> QED BY <2>1, <2>4, <2>5
<1> QED BY <1>1 DEF TxInv, InOrder, NotOverlooked

(* The invariant holds in every state.                                      *)
THEOREM TxInvariant == TxSpec => []TxInv
<1>1. ScriptInit(TxFiles) /\ TxInit => TxInv
  BY TxInitInv
<1>2. TxInv /\ [TxNext]_txVars => TxInv'
  BY TxNextInv, TxStutters
<1> QED BY <1>1, <1>2, PTL DEF TxSpec

(* The variables have their types, for any periods, delays and pace.        *)
THEOREM TxTypeCorrect == TxSpec => []TxTypeOK
<1>1. TxInv => TxTypeOK
  BY TransferTypes DEF TxInv, TxScript, TxTypes, TxTypeOK, ScriptTypeOK
<1> QED BY <1>1, TxInvariant, PTL

(* In time, and with a relayer that handles queries on init in the blocks   *)
(* it is given, the younger transfer is recorded, and seen, before the      *)
(* older one: for any periods, the desired order is what the test sees.     *)
THEOREM OrderSeen == TxSpec => []NotOverlooked
BY NotOverlookedHolds, TxInvariant, PTL

(* Twice the update period of attempts records what was sent, for any       *)
(* periods and for a relayer as late as two blocks less than the short one. *)
THEOREM AttemptsSuffice == TxSpec => []WaitSuffices
<1>1. TxInv => WaitSuffices
  BY DEF TxInv
<1> QED BY <1>1, TxInvariant, PTL

(* A block more than the short period and the relayer's delay are enough to *)
(* count all failures, for all periods and delays.                          *)
THEOREM AllFailuresCounted == TxSpec => []FailuresCounted
<1>1. TxInv => FailuresCounted
  BY DEF TxInv
<1> QED BY <1>1, TxInvariant, PTL

-------------------------------------------------------------------------------
(* InterchainTx: the invariant                                              *)

HIDE DEF PC, Verdict, getKvCallbackStatus, getRegisteredQuery, getQueryBalanceResult

(* What the contract sends in the course of a file                          *)
SendMessages ==
  << Message("test1", 1000, FALSE, FALSE), Message("test1", 500, FALSE, TRUE),
     Message("test1", 500, FALSE, FALSE), Message("test1", 10, TRUE, FALSE),
     Message("test1", 20, FALSE, FALSE) >>
SudoFailureMessages ==
  << Message("test1", 10, FALSE, FALSE), Message("test1", 10, FALSE, FALSE),
     Message("test1", 10, FALSE, FALSE), Message("test1", 10, FALSE, FALSE),
     Message("test1", 10, TRUE, FALSE), Message("test2", 10, TRUE, FALSE) >>
UnorderedMessages ==
  << Message(Unordered, 100, TRUE, FALSE), Message(Unordered, 100, FALSE, FALSE),
     Message(Unordered, 200, FALSE, FALSE), Message(Unordered, 400, FALSE, FALSE) >>
MessagesOf ==
  [send |-> SendMessages, sudo_failure |-> SudoFailureMessages, unordered |-> UnorderedMessages]
Messages == MessagesOf[file]

PacketState == {"sent", "received", "acknowledged", "timed_out"}
IcaMessage ==
  [ica : {"test1", "test2", Unordered}, amount : Nat, timeout : BOOLEAN, double : BOOLEAN]
Packet == [message : IcaMessage, state : PacketState, expired : BOOLEAN]

Handled(k) == packets[k].state \in {"acknowledged", "timed_out"}
Count == Len(packets)

IcaScript ==
  /\ file \in {"send", "sudo_failure", "unordered"} /\ tests = IcaFiles[file]
  /\ step \in 1 .. Len(tests) + 1 /\ height \in Nat /\ begun \in 1 .. height

(* The variables have their types; what is sent is in its order.            *)
IcaTypes ==
  /\ packets \in Seq(Packet) /\ Count <= Len(Messages)
  /\ \A k \in DOMAIN packets : packets[k].message = Messages[k]
  /\ {handAcks, acks, failures, undone, recvTx, ackTx} \subseteq SUBSET DOMAIN packets
  /\ relaying \in {"no", "relayed", "acks"}
  /\ closed \subseteq {"test1", "test2"}
  /\ mock \in BOOLEAN /\ paused \in BOOLEAN

(* A packet without a timeout is never timed out.                           *)
Timeouts ==
  \A k \in DOMAIN packets :
    /\ packets[k].expired => Messages[k].timeout
    /\ packets[k].state = "timed_out" => packets[k].expired

(* What has been delegated is what was received.                            *)
Got(k) ==
  IF k \in DOMAIN packets /\ packets[k].state \in {"received", "acknowledged"}
    THEN Messages[k].amount ELSE 0
Added == delegated = Got(1) + Got(2) + Got(3) + Got(4) + Got(5) + Got(6)

IcaBase == IcaScript /\ IcaTypes /\ Timeouts /\ Added

Stored == acks \union failures \subseteq {k \in DOMAIN packets : Handled(k)}
NoPause == ~ paused /\ undone = {} /\ relaying = "no"

(* What has been sent and what has been waited for, step by step            *)
SendInv ==
  /\ NoPause /\ ~ mock /\ failures = {} /\ Stored
  /\ step = 1 => Count = 0
  /\ step \in 2 .. 4 => Count = 1
  /\ step = 5 => Count \in {2, 3} /\ (Handled(2) <=> Count = 3)
  /\ step \in 6 .. 9 => Count = 3
  /\ step \in 10 .. 15 => Count = 4
  /\ step > 15 => Count = 5
  /\ step > 2 => Handled(1)
  /\ step > 5 => Handled(2)
  /\ step > 6 => Handled(3)
  /\ step > 10 => Handled(4)
  /\ step > 11 => packets[4].state = "timed_out"
  /\ step > 16 => Handled(5)
  /\ step \in 10 .. 13 /\ packets[4].state = "timed_out" => "test1" \in closed
  /\ verdict \notin {"delegations_differ", "redundant", "acks_differ", "failures_differ"}

(* The mock is on from before a packet is sent until it was handled.        *)
MockAt == (4 .. 7) \union (9 .. 12) \union (14 .. 17) \union (19 .. 22) \union (24 .. 27)
            \union (29 .. 32) \union (36 .. 39)
FailureAt == {5, 10, 15, 20, 25, 30}

SudoFailureInv ==
  /\ NoPause /\ (mock <=> step \in MockAt)
  /\ step < 5 => Count = 0
  /\ step \in 5 .. 9 => Count = 1
  /\ step \in 10 .. 14 => Count = 2
  /\ step \in 15 .. 19 => Count = 3
  /\ step \in 20 .. 24 => Count = 4
  /\ step \in 25 .. 29 => Count = 5
  /\ step > 29 => Count = 6
  /\ step \notin FailureAt => \A k \in DOMAIN packets : Handled(k)
  /\ step <= 40 => acks = {} /\ failures = {k \in DOMAIN packets : Handled(k)}
  /\ step > 40 => acks = {1} /\ failures = 2 .. 6
  /\ verdict \notin {"delegations_differ", "redundant", "acks_differ", "failures_differ"}

(* While hermes is paused, what it had not begun with stays.                *)
Apart == \A k \in {3, 4} : k \notin recvTx /\ k \notin ackTx
UnorderedInv ==
  /\ ~ mock /\ failures = {} /\ closed = {} /\ Stored
  /\ step < 3 => Count = 0
  /\ step \in 3 .. 5 => Count = 1
  /\ step \in 6 .. 8 => Count = 2
  /\ step = 9 => Count = 3
  /\ step > 9 => Count = 4
  /\ step > 3 => Handled(1)
  /\ step > 4 => packets[1].state = "timed_out"
  /\ paused <=> step \in 8 .. 17
  /\ relaying # "no" => verdict = "running" /\ step \in {11, 14}
  /\ step < 8 => undone = {}
  /\ step > 7 /\ undone = {} => packets[2].state \in {"received", "acknowledged"}
  /\ step \in 8 .. 17 => Apart
  /\ step \in {9, 10} \/ (step = 11 /\ relaying = "no") => packets[3].state = "sent"
  /\ step = 10 \/ (step = 11 /\ relaying = "no") => packets[4].state = "sent"
  /\ step = 11 /\ relaying # "no" => packets[3].state = "sent" /\ packets[4].state = "received"
  /\ step = 11 /\ relaying = "acks" => 4 \in handAcks
  /\ step \in {12, 13} \/ (step = 14 /\ relaying = "no") => packets[3].state = "sent"
  /\ step = 14 /\ relaying # "no" => packets[3].state = "received"
  /\ step = 14 /\ relaying = "acks" => 3 \in handAcks
  /\ step > 11 => packets[4].state = "acknowledged" /\ 4 \in acks
  /\ step > 14 => packets[3].state = "acknowledged" /\ 3 \in acks
  /\ verdict \notin {"redundant", "acks_differ", "failures_differ"}
  /\ DelegationsRight

IcaInv ==
  /\ IcaBase
  /\ file = "send" => SendInv
  /\ file = "sudo_failure" => SudoFailureInv
  /\ file = "unordered" => UnorderedInv

-------------------------------------------------------------------------------
LEMMA SendMessageFacts ==
  /\ Len(SendMessages) = 5
  /\ \A k \in 1 .. 5 :
       /\ SendMessages[k] \in IcaMessage
       /\ SendMessages[k].ica = "test1"
       /\ SendMessages[k].timeout <=> k = 4
       /\ SendMessages[k].double <=> k = 2
  /\ SendMessages[1] = Message("test1", 1000, FALSE, FALSE)
  /\ SendMessages[2] = Message("test1", 500, FALSE, TRUE)
  /\ SendMessages[3] = Message("test1", 500, FALSE, FALSE)
  /\ SendMessages[4] = Message("test1", 10, TRUE, FALSE)
  /\ SendMessages[5] = Message("test1", 20, FALSE, FALSE)
BY DEF SendMessages, Message, IcaMessage

LEMMA SudoFailureMessageFacts ==
  /\ Len(SudoFailureMessages) = 6
  /\ \A k \in 1 .. 6 :
       /\ SudoFailureMessages[k] \in IcaMessage
       /\ ~ SudoFailureMessages[k].double
  /\ \A k \in 1 .. 4 : SudoFailureMessages[k] = Message("test1", 10, FALSE, FALSE)
  /\ SudoFailureMessages[5] = Message("test1", 10, TRUE, FALSE)
  /\ SudoFailureMessages[6] = Message("test2", 10, TRUE, FALSE)
BY DEF SudoFailureMessages, Message, IcaMessage

LEMMA UnorderedMessageFacts ==
  /\ Len(UnorderedMessages) = 4
  /\ \A k \in 1 .. 4 :
       /\ UnorderedMessages[k] \in IcaMessage
       /\ UnorderedMessages[k].ica = Unordered
       /\ UnorderedMessages[k].timeout <=> k = 1
       /\ ~ UnorderedMessages[k].double
  /\ UnorderedMessages[1] = Message(Unordered, 100, TRUE, FALSE)
  /\ UnorderedMessages[2] = Message(Unordered, 100, FALSE, FALSE)
  /\ UnorderedMessages[3] = Message(Unordered, 200, FALSE, FALSE)
  /\ UnorderedMessages[4] = Message(Unordered, 400, FALSE, FALSE)
BY DEF UnorderedMessages, Message, IcaMessage

LEMMA MessageFacts ==
  ASSUME file \in {"send", "sudo_failure", "unordered"}
  PROVE  /\ file = "send" => Messages = SendMessages /\ Len(Messages) = 5
         /\ file = "sudo_failure" => Messages = SudoFailureMessages /\ Len(Messages) = 6
         /\ file = "unordered" => Messages = UnorderedMessages /\ Len(Messages) = 4
         /\ Len(Messages) \in 4 .. 6
         /\ \A k \in 1 .. Len(Messages) :
              /\ Messages[k] \in IcaMessage /\ Messages[k].amount \in Nat
              /\ Messages[k].double => file = "send" /\ k = 2
<1>1. /\ file = "send" => Messages = SendMessages
      /\ file = "sudo_failure" => Messages = SudoFailureMessages
      /\ file = "unordered" => Messages = UnorderedMessages
  BY DEF Messages, MessagesOf
<1>2. /\ file = "send" => Len(Messages) = 5
      /\ file = "sudo_failure" => Len(Messages) = 6
      /\ file = "unordered" => Len(Messages) = 4
  BY <1>1, SendMessageFacts, SudoFailureMessageFacts, UnorderedMessageFacts
<1>3. \A k \in 1 .. Len(Messages) : Messages[k] \in IcaMessage
  BY <1>1, <1>2, SendMessageFacts, SudoFailureMessageFacts, UnorderedMessageFacts
<1>4. \A k \in 1 .. Len(Messages) : Messages[k].amount \in Nat
  BY <1>3 DEF IcaMessage
<1>5. \A k \in 1 .. Len(Messages) : Messages[k].double => file = "send" /\ k = 2
  BY <1>1, <1>2, SendMessageFacts, SudoFailureMessageFacts, UnorderedMessageFacts
<1> QED BY <1>1, <1>2, <1>3, <1>4, <1>5

-------------------------------------------------------------------------------
LEMMA SendSteps ==
  /\ Len(SendTests) = 17
  /\ SendTests[1] = Do("delegate", SendMessages[1])
  /\ SendTests[2] = Do("waitForAck", 1) /\ SendTests[3] = Do("expectDelegated", 1000)
  /\ SendTests[4] = Do("delegate", SendMessages[2])
  /\ SendTests[5] = Do("waitForAck", 2) /\ SendTests[6] = Do("waitForAck", 3)
  /\ SendTests[7] = Do("expectDelegated", 2000) /\ SendTests[8] = Do("cleanAckResults", 0)
  /\ SendTests[9] = Do("delegate", SendMessages[4])
  /\ SendTests[10] = Do("waitForAck", 4) /\ SendTests[11] = Do("expectTimeout", 4)
  /\ SendTests[12] = Do("tryDelegate", Message("test1", 10, TRUE, FALSE))
  /\ SendTests[13] = Do("register", "test1") /\ SendTests[14] = Do("cleanAckResults", 0)
  /\ SendTests[15] = Do("delegate", SendMessages[5])
  /\ SendTests[16] = Do("waitForAck", 5) /\ SendTests[17] = Do("expectDelegated", 2020)
BY DEF SendTests, SendMessages, Delegate, DelegateDoubleAck

LEMMA SudoFailureSteps ==
  /\ Len(SudoFailureTests) = 42
  /\ SudoFailureTests[1] = Do("cleanAckResults", 0)
  /\ \A i \in {2, 6, 11, 16, 21, 26, 31, 34, 38} : SudoFailureTests[i] = Do("expectAcks", {})
  /\ \A i \in {3, 8, 13, 18, 23, 28, 35} : SudoFailureTests[i] = Do("mock", TRUE)
  /\ \A i \in {7, 12, 17, 22, 27, 32, 39} : SudoFailureTests[i] = Do("mock", FALSE)
  /\ \A i \in {4, 9, 14, 19} : SudoFailureTests[i] = Delegate("test1", 10, FALSE)
  /\ SudoFailureTests[24] = Delegate("test1", 10, TRUE)
  /\ SudoFailureTests[29] = Delegate("test2", 10, TRUE)
  /\ SudoFailureTests[5] = Do("waitForFailures", 1)
  /\ SudoFailureTests[10] = Do("waitForFailures", 2)
  /\ SudoFailureTests[15] = Do("waitForFailures", 3)
  /\ SudoFailureTests[20] = Do("waitForFailures", 4)
  /\ SudoFailureTests[25] = Do("waitForFailures", 5)
  /\ SudoFailureTests[30] = Do("waitForFailures", 6)
  /\ SudoFailureTests[33] = Do("expectFailures", 6) /\ SudoFailureTests[37] = Do("expectFailures", 6)
  /\ SudoFailureTests[36] = Do("resubmit", 0) /\ SudoFailureTests[40] = Do("resubmit", 0)
  /\ SudoFailureTests[41] = Do("expectFailures", 5)
  /\ SudoFailureTests[42] = Do("expectAcks", {1})
<1> DEFINE c == Do("cleanAckResults", 0)
           e == Do("expectAcks", {})
           on == Do("mock", TRUE)
           off == Do("mock", FALSE)
           d == Delegate("test1", 10, FALSE)
           d5 == Delegate("test1", 10, TRUE)
           d6 == Delegate("test2", 10, TRUE)
           w(n) == Do("waitForFailures", n)
           f == Do("expectFailures", 6)
           r == Do("resubmit", 0)
           g == Do("expectFailures", 5)
           l == Do("expectAcks", {1})
<1>1. SudoFailureTests = <<c, e>> \o <<on, d, w(1), e, off>> \o <<on, d, w(2), e, off>>
                      \o <<on, d, w(3), e, off>> \o <<on, d, w(4), e, off>>
                      \o <<on, d5, w(5), e, off>> \o <<on, d6, w(6), e, off>>
                      \o <<f, e, on, r, f, e, off, r, g, l>>
  BY Zenon DEF SudoFailureTests, SudoFailure
<1> HIDE DEF c, e, on, off, d, d5, d6, w, f, r, g, l
<1>2. /\ Len(SudoFailureTests) = 42
      /\ SudoFailureTests[1] = c
      /\ \A i \in {2, 6, 11, 16, 21, 26, 31, 34, 38} : SudoFailureTests[i] = e
      /\ \A i \in {3, 8, 13, 18, 23, 28, 35} : SudoFailureTests[i] = on
      /\ \A i \in {7, 12, 17, 22, 27, 32, 39} : SudoFailureTests[i] = off
      /\ \A i \in {4, 9, 14, 19} : SudoFailureTests[i] = d
      /\ SudoFailureTests[24] = d5 /\ SudoFailureTests[29] = d6
      /\ SudoFailureTests[5] = w(1) /\ SudoFailureTests[10] = w(2) /\ SudoFailureTests[15] = w(3)
      /\ SudoFailureTests[20] = w(4) /\ SudoFailureTests[25] = w(5) /\ SudoFailureTests[30] = w(6)
      /\ SudoFailureTests[33] = f /\ SudoFailureTests[36] = r /\ SudoFailureTests[37] = f
      /\ SudoFailureTests[40] = r /\ SudoFailureTests[41] = g /\ SudoFailureTests[42] = l
  BY <1>1
<1> QED BY <1>2 DEF c, e, on, off, d, d5, d6, w, f, r, g, l

LEMMA UnorderedSteps ==
  /\ Len(UnorderedTests) = 17
  /\ UnorderedTests[1] = Do("cleanAckResults", 0)
  /\ UnorderedTests[2] = Do("delegate", UnorderedMessages[1])
  /\ UnorderedTests[3] = Do("waitForAck", 1) /\ UnorderedTests[4] = Do("expectTimeout", 1)
  /\ UnorderedTests[5] = Do("delegate", UnorderedMessages[2])
  /\ UnorderedTests[6] = Do("getAck", 2) /\ UnorderedTests[7] = Do("pause", 0)
  /\ UnorderedTests[8] = Do("delegate", UnorderedMessages[3])
  /\ UnorderedTests[9] = Do("delegate", UnorderedMessages[4])
  /\ UnorderedTests[10] = Do("expectDelegated", 100)
  /\ UnorderedTests[11] = Do("relay", 4) /\ UnorderedTests[12] = Do("waitForAck", 4)
  /\ UnorderedTests[13] = Do("expectDelegated", 500)
  /\ UnorderedTests[14] = Do("relay", 3) /\ UnorderedTests[15] = Do("waitForAck", 3)
  /\ UnorderedTests[16] = Do("expectDelegated", 700) /\ UnorderedTests[17] = Do("unpause", 0)
BY DEF UnorderedTests, UnorderedMessages, Delegate

LEMMA IcaTests ==
  ASSUME IcaScript
  PROVE  /\ file = "send" => tests = SendTests /\ Len(tests) = 17 /\ step \in 1 .. 18
         /\ file = "sudo_failure" => tests = SudoFailureTests /\ Len(tests) = 42 /\ step \in 1 .. 43
         /\ file = "unordered" => tests = UnorderedTests /\ Len(tests) = 17 /\ step \in 1 .. 18
<1>1. /\ IcaFiles["send"] = SendTests /\ IcaFiles["sudo_failure"] = SudoFailureTests
      /\ IcaFiles["unordered"] = UnorderedTests
  BY DEF IcaFiles
<1>2. CASE file = "send"
  <2>1. tests = SendTests /\ step \in 1 .. Len(tests) + 1
    BY <1>1, <1>2 DEF IcaScript
  <2>2. Len(tests) = 17
    BY <2>1, SendSteps
  <2> QED BY <1>2, <2>1, <2>2
<1>3. CASE file = "sudo_failure"
  <2>1. tests = SudoFailureTests /\ step \in 1 .. Len(tests) + 1
    BY <1>1, <1>3 DEF IcaScript
  <2>2. Len(tests) = 42
    BY <2>1, SudoFailureSteps
  <2> QED BY <1>3, <2>1, <2>2
<1>4. CASE file = "unordered"
  <2>1. tests = UnorderedTests /\ step \in 1 .. Len(tests) + 1
    BY <1>1, <1>4 DEF IcaScript
  <2>2. Len(tests) = 17
    BY <2>1, UnorderedSteps
  <2> QED BY <1>4, <2>1, <2>2
<1> QED BY <1>2, <1>3, <1>4 DEF IcaScript

LEMMA SendOps ==
  ASSUME IcaScript, file = "send"
  PROVE  /\ Running("delegate") => \/ step = 1 /\ Arg = SendMessages[1]
                                   \/ step = 4 /\ Arg = SendMessages[2]
                                   \/ step = 9 /\ Arg = SendMessages[4]
                                   \/ step = 15 /\ Arg = SendMessages[5]
         /\ Running("tryDelegate") => step = 12 /\ Arg.ica = "test1"
         /\ Running("register") => step = 13 /\ Arg = "test1"
         /\ Running("cleanAckResults") => step \in {8, 14}
         /\ Running("waitForAck") => \/ step = 2 /\ Arg = 1
                                     \/ step = 5 /\ Arg = 2
                                     \/ step = 6 /\ Arg = 3
                                     \/ step = 10 /\ Arg = 4
                                     \/ step = 16 /\ Arg = 5
         /\ Running("expectTimeout") => step = 11 /\ Arg = 4
         /\ Running("expectDelegated") => \/ step = 3 /\ Arg = 1000
                                          \/ step = 7 /\ Arg = 2000
                                          \/ step = 17 /\ Arg = 2020
         /\ \A op \in {"mock", "getAck", "waitForFailures", "resubmit", "expectAcks",
                       "expectFailures", "pause", "unpause", "relay"} : ~ Running(op)
<1>1. tests = SendTests /\ Len(tests) = 17 /\ step \in 1 .. 18
  BY IcaTests
<1>2. ASSUME step \in 1 .. 17
      PROVE  /\ tests[step].op = "delegate" => \/ step = 1 /\ Arg = SendMessages[1]
                                               \/ step = 4 /\ Arg = SendMessages[2]
                                               \/ step = 9 /\ Arg = SendMessages[4]
                                               \/ step = 15 /\ Arg = SendMessages[5]
             /\ tests[step].op = "tryDelegate" => step = 12 /\ Arg.ica = "test1"
             /\ tests[step].op = "register" => step = 13 /\ Arg = "test1"
             /\ tests[step].op = "cleanAckResults" => step \in {8, 14}
             /\ tests[step].op = "waitForAck" => \/ step = 2 /\ Arg = 1
                                                 \/ step = 5 /\ Arg = 2
                                                 \/ step = 6 /\ Arg = 3
                                                 \/ step = 10 /\ Arg = 4
                                                 \/ step = 16 /\ Arg = 5
             /\ tests[step].op = "expectTimeout" => step = 11 /\ Arg = 4
             /\ tests[step].op = "expectDelegated" => \/ step = 3 /\ Arg = 1000
                                                      \/ step = 7 /\ Arg = 2000
                                                      \/ step = 17 /\ Arg = 2020
             /\ tests[step].op \in {"delegate", "tryDelegate", "register", "cleanAckResults",
                                    "waitForAck", "expectTimeout", "expectDelegated"}
  BY <1>1, <1>2, SendSteps DEF Do, Arg, Message
<1> QED BY <1>1, <1>2 DEF Running

LEMMA SudoFailureOps ==
  ASSUME IcaScript, file = "sudo_failure"
  PROVE  /\ Running("delegate") => \/ step = 4 /\ Arg = SudoFailureMessages[1]
                                   \/ step = 9 /\ Arg = SudoFailureMessages[2]
                                   \/ step = 14 /\ Arg = SudoFailureMessages[3]
                                   \/ step = 19 /\ Arg = SudoFailureMessages[4]
                                   \/ step = 24 /\ Arg = SudoFailureMessages[5]
                                   \/ step = 29 /\ Arg = SudoFailureMessages[6]
         /\ Running("cleanAckResults") => step = 1
         /\ Running("expectAcks") => \/ step \in {2, 6, 11, 16, 21, 26, 31, 34, 38} /\ Arg = {}
                                     \/ step = 42 /\ Arg = {1}
         /\ Running("mock") => \/ step \in {3, 8, 13, 18, 23, 28, 35} /\ Arg = TRUE
                               \/ step \in {7, 12, 17, 22, 27, 32, 39} /\ Arg = FALSE
         /\ Running("waitForFailures") => \/ step = 5 /\ Arg = 1
                                          \/ step = 10 /\ Arg = 2
                                          \/ step = 15 /\ Arg = 3
                                          \/ step = 20 /\ Arg = 4
                                          \/ step = 25 /\ Arg = 5
                                          \/ step = 30 /\ Arg = 6
         /\ Running("expectFailures") => \/ step \in {33, 37} /\ Arg = 6
                                         \/ step = 41 /\ Arg = 5
         /\ Running("resubmit") => step \in {36, 40}
         /\ \A op \in {"tryDelegate", "register", "getAck", "waitForAck", "expectTimeout",
                       "expectDelegated", "pause", "unpause", "relay"} : ~ Running(op)
<1>1. tests = SudoFailureTests /\ Len(tests) = 42 /\ step \in 1 .. 43
  BY IcaTests
<1>2. ASSUME step \in 1 .. 42, tests[step].op = "delegate"
      PROVE  \/ step = 4 /\ Arg = SudoFailureMessages[1]
             \/ step = 9 /\ Arg = SudoFailureMessages[2]
             \/ step = 14 /\ Arg = SudoFailureMessages[3]
             \/ step = 19 /\ Arg = SudoFailureMessages[4]
             \/ step = 24 /\ Arg = SudoFailureMessages[5]
             \/ step = 29 /\ Arg = SudoFailureMessages[6]
  <2>1. step \in {4, 9, 14, 19, 24, 29}
    BY <1>1, <1>2, SudoFailureSteps DEF Do
  <2> DEFINE m == Message("test1", 10, FALSE, FALSE)
             m5 == Message("test1", 10, TRUE, FALSE)
             m6 == Message("test2", 10, TRUE, FALSE)
  <2>2. /\ step \in {4, 9, 14, 19} => Arg = m
        /\ step = 24 => Arg = m5
        /\ step = 29 => Arg = m6
    <3>1. /\ step \in {4, 9, 14, 19} => tests[step] = Delegate("test1", 10, FALSE)
          /\ step = 24 => tests[step] = Delegate("test1", 10, TRUE)
          /\ step = 29 => tests[step] = Delegate("test2", 10, TRUE)
      BY <1>1, SudoFailureSteps
    <3>2. /\ step \in {4, 9, 14, 19} => Arg = Delegate("test1", 10, FALSE).arg
          /\ step = 24 => Arg = Delegate("test1", 10, TRUE).arg
          /\ step = 29 => Arg = Delegate("test2", 10, TRUE).arg
      BY <3>1 DEF Arg
    <3>3. \A ica, timeout : Delegate(ica, 10, timeout).arg = Message(ica, 10, timeout, FALSE)
      BY DEF Delegate, Do
    <3> QED BY <3>2, <3>3
  <2>3. /\ \A k \in 1 .. 4 : SudoFailureMessages[k] = m
        /\ SudoFailureMessages[5] = m5 /\ SudoFailureMessages[6] = m6
    BY SudoFailureMessageFacts
  <2> HIDE DEF m, m5, m6
  <2>4. /\ step \in {4, 9, 14, 19} => Arg = SudoFailureMessages[1] /\ Arg = SudoFailureMessages[2]
                                      /\ Arg = SudoFailureMessages[3] /\ Arg = SudoFailureMessages[4]
        /\ step = 24 => Arg = SudoFailureMessages[5]
        /\ step = 29 => Arg = SudoFailureMessages[6]
    BY <2>2, <2>3
  <2> QED BY <2>1, <2>4
<1>3. ASSUME step \in 1 .. 42, tests[step].op = "expectAcks"
      PROVE  \/ step \in {2, 6, 11, 16, 21, 26, 31, 34, 38} /\ Arg = {}
             \/ step = 42 /\ Arg = {1}
  <2>1. step \in {2, 6, 11, 16, 21, 26, 31, 34, 38, 42}
    BY <1>1, <1>3, SudoFailureSteps DEF Do, Delegate
  <2> QED BY <1>1, <2>1, SudoFailureSteps DEF Do, Arg
<1>4. ASSUME step \in 1 .. 42, tests[step].op = "mock"
      PROVE  \/ step \in {3, 8, 13, 18, 23, 28, 35} /\ Arg = TRUE
             \/ step \in {7, 12, 17, 22, 27, 32, 39} /\ Arg = FALSE
  <2>1. step \in {3, 8, 13, 18, 23, 28, 35, 7, 12, 17, 22, 27, 32, 39}
    BY <1>1, <1>4, SudoFailureSteps DEF Do, Delegate
  <2>2. step \in {3, 8, 13, 18, 23, 28, 35} => Arg = TRUE
    BY <1>1, SudoFailureSteps DEF Do, Arg
  <2>3. step \in {7, 12, 17, 22, 27, 32, 39} => Arg = FALSE
    BY <1>1, SudoFailureSteps DEF Do, Arg
  <2> QED BY <2>1, <2>2, <2>3
<1>5. ASSUME step \in 1 .. 42, tests[step].op = "waitForFailures"
      PROVE  \/ step = 5 /\ Arg = 1
             \/ step = 10 /\ Arg = 2
             \/ step = 15 /\ Arg = 3
             \/ step = 20 /\ Arg = 4
             \/ step = 25 /\ Arg = 5
             \/ step = 30 /\ Arg = 6
  <2>1. step \in {5, 10, 15, 20, 25, 30}
    BY <1>1, <1>5, SudoFailureSteps DEF Do, Delegate
  <2> QED BY <1>1, <2>1, SudoFailureSteps DEF Do, Arg
<1>6. ASSUME step \in 1 .. 42
      PROVE  /\ tests[step].op = "cleanAckResults" => step = 1
             /\ tests[step].op = "expectFailures" => \/ step \in {33, 37} /\ Arg = 6
                                                     \/ step = 41 /\ Arg = 5
             /\ tests[step].op = "resubmit" => step \in {36, 40}
             /\ tests[step].op \in {"delegate", "cleanAckResults", "expectAcks", "mock",
                                    "waitForFailures", "expectFailures", "resubmit"}
  BY <1>1, <1>6, SudoFailureSteps DEF Do, Arg, Delegate
<1>7. verdict = "running" /\ step <= Len(tests) => step \in 1 .. 42
  BY <1>1
<1>8. /\ Running("delegate") => \/ step = 4 /\ Arg = SudoFailureMessages[1]
                                \/ step = 9 /\ Arg = SudoFailureMessages[2]
                                \/ step = 14 /\ Arg = SudoFailureMessages[3]
                                \/ step = 19 /\ Arg = SudoFailureMessages[4]
                                \/ step = 24 /\ Arg = SudoFailureMessages[5]
                                \/ step = 29 /\ Arg = SudoFailureMessages[6]
      /\ Running("expectAcks") => \/ step \in {2, 6, 11, 16, 21, 26, 31, 34, 38} /\ Arg = {}
                                  \/ step = 42 /\ Arg = {1}
      /\ Running("waitForFailures") => \/ step = 5 /\ Arg = 1
                                       \/ step = 10 /\ Arg = 2
                                       \/ step = 15 /\ Arg = 3
                                       \/ step = 20 /\ Arg = 4
                                       \/ step = 25 /\ Arg = 5
                                       \/ step = 30 /\ Arg = 6
  BY <1>2, <1>3, <1>5, <1>7 DEF Running
<1>9. Running("mock") => \/ step \in {3, 8, 13, 18, 23, 28, 35} /\ Arg = TRUE
                         \/ step \in {7, 12, 17, 22, 27, 32, 39} /\ Arg = FALSE
  BY <1>4, <1>7 DEF Running
<1>10. /\ Running("cleanAckResults") => step = 1
       /\ Running("expectFailures") => \/ step \in {33, 37} /\ Arg = 6
                                       \/ step = 41 /\ Arg = 5
       /\ Running("resubmit") => step \in {36, 40}
       /\ \A op \in {"tryDelegate", "register", "getAck", "waitForAck", "expectTimeout",
                     "expectDelegated", "pause", "unpause", "relay"} : ~ Running(op)
  BY <1>6, <1>7 DEF Running
<1> QED BY <1>8, <1>9, <1>10

LEMMA UnorderedOps ==
  ASSUME IcaScript, file = "unordered"
  PROVE  /\ Running("delegate") => \/ step = 2 /\ Arg = UnorderedMessages[1]
                                   \/ step = 5 /\ Arg = UnorderedMessages[2]
                                   \/ step = 8 /\ Arg = UnorderedMessages[3]
                                   \/ step = 9 /\ Arg = UnorderedMessages[4]
         /\ Running("cleanAckResults") => step = 1
         /\ Running("waitForAck") => \/ step = 3 /\ Arg = 1
                                     \/ step = 12 /\ Arg = 4
                                     \/ step = 15 /\ Arg = 3
         /\ Running("expectTimeout") => step = 4 /\ Arg = 1
         /\ Running("getAck") => step = 6
         /\ Running("pause") => step = 7
         /\ Running("unpause") => step = 17
         /\ Running("expectDelegated") => \/ step = 10 /\ Arg = 100
                                          \/ step = 13 /\ Arg = 500
                                          \/ step = 16 /\ Arg = 700
         /\ Running("relay") => step \in {11, 14} /\ Arg = IF step = 11 THEN 4 ELSE 3
         /\ \A op \in {"tryDelegate", "register", "mock", "waitForFailures", "resubmit",
                       "expectAcks", "expectFailures"} : ~ Running(op)
<1>1. tests = UnorderedTests /\ Len(tests) = 17 /\ step \in 1 .. 18
  BY IcaTests
<1>2. ASSUME step \in 1 .. 17
      PROVE  /\ tests[step].op = "delegate" => \/ step = 2 /\ Arg = UnorderedMessages[1]
                                               \/ step = 5 /\ Arg = UnorderedMessages[2]
                                               \/ step = 8 /\ Arg = UnorderedMessages[3]
                                               \/ step = 9 /\ Arg = UnorderedMessages[4]
             /\ tests[step].op = "cleanAckResults" => step = 1
             /\ tests[step].op = "waitForAck" => \/ step = 3 /\ Arg = 1
                                                 \/ step = 12 /\ Arg = 4
                                                 \/ step = 15 /\ Arg = 3
             /\ tests[step].op = "expectTimeout" => step = 4 /\ Arg = 1
             /\ tests[step].op = "getAck" => step = 6
             /\ tests[step].op = "pause" => step = 7
             /\ tests[step].op = "unpause" => step = 17
             /\ tests[step].op = "expectDelegated" => \/ step = 10 /\ Arg = 100
                                                      \/ step = 13 /\ Arg = 500
                                                      \/ step = 16 /\ Arg = 700
             /\ tests[step].op = "relay" => step \in {11, 14} /\ Arg = IF step = 11 THEN 4 ELSE 3
             /\ tests[step].op \in {"delegate", "cleanAckResults", "waitForAck", "expectTimeout",
                                    "getAck", "pause", "unpause", "expectDelegated", "relay"}
  BY <1>1, <1>2, UnorderedSteps DEF Do, Arg
<1> QED BY <1>1, <1>2 DEF Running

-------------------------------------------------------------------------------
(* What happens to packets                                                  *)

LEMMA SeqOfFunction ==
  ASSUME NEW S, NEW n \in Nat, NEW f, f = [j \in 1 .. n |-> f[j]], \A j \in 1 .. n : f[j] \in S
  PROVE  f \in Seq(S) /\ Len(f) = n
OBVIOUS

LEMMA PacketTypes ==
  ASSUME IcaBase
  PROVE  /\ packets \in Seq(Packet) /\ DOMAIN packets = 1 .. Count /\ Count \in 0 .. 6
         /\ \A k \in DOMAIN packets :
              /\ packets[k] \in Packet /\ packets[k].message = Messages[k]
              /\ k \in 1 .. Len(Messages) /\ packets[k].state \in PacketState
         /\ \A k \in 1 .. 6 : Got(k) \in Nat
<1>1. Len(Messages) \in 4 .. 6
  BY MessageFacts DEF IcaBase, IcaScript
<1>2. /\ packets \in Seq(Packet) /\ Count <= Len(Messages)
      /\ \A k \in DOMAIN packets : packets[k].message = Messages[k]
  BY DEF IcaBase, IcaTypes
<1>3. DOMAIN packets = 1 .. Count /\ Count \in Nat
  BY <1>2 DEF Count
<1>4. \A k \in DOMAIN packets : packets[k] \in Packet
  BY <1>2
<1>5. \A k \in DOMAIN packets : k \in 1 .. Len(Messages) /\ packets[k].state \in PacketState
  BY <1>1, <1>2, <1>3, <1>4 DEF Packet
<1>6. \A k \in 1 .. 6 : Got(k) \in Nat
  <2>1. \A k \in 1 .. Len(Messages) : Messages[k].amount \in Nat
    BY MessageFacts DEF IcaBase, IcaScript
  <2> QED BY <1>5, <2>1 DEF Got
<1>7. Count \in 0 .. 6
  BY <1>1, <1>2, <1>3
<1> QED BY <1>2, <1>3, <1>4, <1>5, <1>6, <1>7

(* The rest of the variables                                                *)
LEMMA BaseKept ==
  ASSUME IcaBase, IcaScript', UNCHANGED file,
         packets' \in Seq(Packet), Count' \in {Count, Count + 1}, Count' <= Len(Messages),
         \A k \in DOMAIN packets :
           /\ packets'[k].message = packets[k].message
           /\ packets'[k].expired => Messages[k].timeout
           /\ packets'[k].state = "timed_out" => packets'[k].expired,
         Count' = Count + 1 => packets'[Count + 1] = Sent(Messages[Count + 1]),
         Added',
         {handAcks, acks, failures, undone, recvTx, ackTx}' \subseteq SUBSET DOMAIN packets',
         relaying' \in {"no", "relayed", "acks"}, closed' \subseteq {"test1", "test2"},
         mock' \in BOOLEAN, paused' \in BOOLEAN
  PROVE  IcaBase'
<1>1. Messages' = Messages
  BY DEF Messages
<1>2. DOMAIN packets = 1 .. Count /\ Count \in Nat /\ DOMAIN packets' = 1 .. Count'
  BY PacketTypes DEF Count
<1>3. ASSUME NEW k \in DOMAIN packets'
      PROVE  /\ packets'[k].message = Messages[k]
             /\ packets'[k].expired => Messages[k].timeout
             /\ packets'[k].state = "timed_out" => packets'[k].expired
  <2>1. CASE k \in DOMAIN packets
    BY <2>1, PacketTypes
  <2>2. CASE k \notin DOMAIN packets
    <3>1. k = Count + 1 /\ Count' = Count + 1
      BY <1>2, <1>3, <2>2
    <3>2. packets'[k] = Sent(Messages[k])
      BY <3>1
    <3> QED BY <3>2 DEF Sent
  <2> QED BY <2>1, <2>2
<1>4. IcaTypes'
  BY <1>1, <1>3 DEF IcaTypes
<1>5. Timeouts'
  BY <1>1, <1>3 DEF Timeouts
<1> QED BY <1>4, <1>5 DEF IcaBase

(* Nothing happens to them.                                                 *)
LEMMA PacketsRest ==
  ASSUME IcaBase, IcaScript', UNCHANGED <<file, packets, delegated>>,
         {handAcks, acks, failures, undone, recvTx, ackTx}' \subseteq SUBSET DOMAIN packets,
         relaying' \in {"no", "relayed", "acks"}, closed' \subseteq {"test1", "test2"},
         mock' \in BOOLEAN, paused' \in BOOLEAN
  PROVE  IcaBase'
<1>1. Messages' = Messages
  BY DEF Messages
<1>2. IcaTypes'
  BY <1>1 DEF IcaBase, IcaTypes, Count
<1>3. Timeouts'
  BY <1>1 DEF IcaBase, Timeouts
<1>4. \A k \in 1 .. 6 : Got(k)' = Got(k)
  BY <1>1 DEF Got
<1>5. Added'
  BY <1>4 DEF IcaBase, Added
<1> QED BY <1>2, <1>3, <1>5 DEF IcaBase

LEMMA NewPacket ==
  ASSUME IcaBase, UNCHANGED <<file, delegated>>, NEW m,
         packets' = Append(packets, Sent(m)), Count < Len(Messages), m = Messages[Count + 1]
  PROVE  /\ packets' \in Seq(Packet) /\ Count' = Count + 1
         /\ \A k \in DOMAIN packets : packets'[k] = packets[k]
         /\ packets'[Count + 1] = Sent(m)
         /\ Added'
<1>1. Sent(m) \in Packet
  <2>1. m \in IcaMessage
    BY PacketTypes, MessageFacts DEF IcaBase, IcaScript
  <2> QED BY <2>1 DEF Sent, Packet, PacketState
<1>2. /\ packets' \in Seq(Packet) /\ Count' = Count + 1
      /\ \A k \in 1 .. Count : packets'[k] = packets[k]
      /\ packets'[Count + 1] = Sent(m)
  BY <1>1, PacketTypes, AppendProperties DEF Count
<1>3. DOMAIN packets' = 1 .. Count + 1 /\ DOMAIN packets = 1 .. Count
  BY <1>2, PacketTypes DEF Count
<1>4. \A k \in 1 .. 6 : Got(k)' = Got(k)
  BY <1>2, <1>3, PacketTypes DEF Got, Sent, Messages
<1>5. Added'
  BY <1>4 DEF IcaBase, Added
<1> QED BY <1>2, <1>3, <1>5

LEMMA ReceiveEffect ==
  ASSUME IcaBase, NEW k \in DOMAIN packets, Receive(k), UNCHANGED file
  PROVE  /\ packets' \in Seq(Packet) /\ Count' = Count
         /\ \A j \in DOMAIN packets :
              /\ packets'[j].message = packets[j].message
              /\ packets'[j].expired = packets[j].expired
              /\ j # k => packets'[j] = packets[j]
         /\ packets'[k].state = IF packets[k].state = "sent" /\ ~ packets[k].expired
                                  THEN "received" ELSE packets[k].state
         /\ Added'
<1>1. CASE packets[k].state = "sent" /\ ~ packets[k].expired
  <2>1. /\ packets' = [packets EXCEPT ![k].state = "received"]
        /\ delegated' = delegated + packets[k].message.amount
    BY <1>1 DEF Receive
  <2>2. \A j \in 1 .. Count : packets'[j] \in Packet
    BY <2>1, PacketTypes DEF Packet, PacketState
  <2>3. packets' \in Seq(Packet) /\ Count' = Count /\ DOMAIN packets' = DOMAIN packets
    <3>1. packets' = [j \in 1 .. Count |-> packets'[j]]
      BY <2>1, PacketTypes
    <3>2. packets' \in Seq(Packet) /\ Len(packets') = Count
      <4>1. Count \in Nat
        BY PacketTypes
      <4> QED BY <2>2, <3>1, <4>1, SeqOfFunction
    <3> QED BY <2>1, <3>2 DEF Count
  <2>4. /\ \A j \in DOMAIN packets :
             /\ packets'[j].message = packets[j].message
             /\ packets'[j].expired = packets[j].expired
             /\ j # k => packets'[j] = packets[j]
        /\ packets'[k].state = "received"
    BY <2>1, PacketTypes DEF Packet
  <2>5. Got(k) = 0 /\ Got(k)' = packets[k].message.amount
    BY <1>1, <2>3, <2>4, PacketTypes DEF Got, Messages
  <2>6. \A j \in 1 .. 6 : j # k => Got(j)' = Got(j)
    BY <2>3, <2>4 DEF Got, Messages
  <2>7. Got(k)' \in Nat /\ k \in 1 .. 6
    <3>1. k \in 1 .. Len(Messages) /\ k \in 1 .. 6 /\ packets[k].message = Messages[k]
      BY PacketTypes
    <3> QED BY <2>5, <3>1, MessageFacts DEF IcaBase, IcaScript
  <2>8. delegated' = delegated + Got(k)'
    BY <2>1, <2>5
  <2>9. delegated = Got(1) + Got(2) + Got(3) + Got(4) + Got(5) + Got(6)
        /\ \A j \in 1 .. 6 : Got(j) \in Nat
    BY PacketTypes DEF IcaBase, Added
  <2>10. delegated' = Got(1)' + Got(2)' + Got(3)' + Got(4)' + Got(5)' + Got(6)'
    <3> DEFINE new == Got(k)'
    <3>1. /\ Got(k) = 0 /\ delegated' = delegated + new /\ new \in Nat
          /\ \A j \in 1 .. 6 : Got(j)' = IF j = k THEN new ELSE Got(j)
      BY <2>5, <2>6, <2>7, <2>8
    <3> HIDE DEF new
    <3>2. CASE k = 1
      BY <2>9, <3>1, <3>2
    <3>3. CASE k = 2
      BY <2>9, <3>1, <3>3
    <3>4. CASE k = 3
      BY <2>9, <3>1, <3>4
    <3>5. CASE k = 4
      BY <2>9, <3>1, <3>5
    <3>6. CASE k = 5
      BY <2>9, <3>1, <3>6
    <3>7. CASE k = 6
      BY <2>9, <3>1, <3>7
    <3> QED BY <2>7, <3>2, <3>3, <3>4, <3>5, <3>6, <3>7
  <2> QED BY <1>1, <2>3, <2>4, <2>10 DEF Added
<1>2. CASE ~ (packets[k].state = "sent" /\ ~ packets[k].expired)
  <2>1. UNCHANGED <<packets, delegated>>
    BY <1>2 DEF Receive
  <2>2. \A j \in 1 .. 6 : Got(j)' = Got(j)
    BY <2>1 DEF Got, Messages
  <2>3. Added'
    BY <2>1, <2>2 DEF IcaBase, Added
  <2> QED BY <1>2, <2>1, <2>3, PacketTypes DEF Count
<1> QED BY <1>1, <1>2

LEMMA ExpireEffect ==
  ASSUME IcaBase, NEW k \in DOMAIN packets, packets[k].message.timeout,
         packets' = [packets EXCEPT ![k].expired = TRUE], UNCHANGED <<file, delegated>>
  PROVE  /\ packets' \in Seq(Packet) /\ Count' = Count
         /\ \A j \in DOMAIN packets :
              /\ packets'[j].message = packets[j].message /\ packets'[j].state = packets[j].state
              /\ packets'[j].expired => Messages[j].timeout
              /\ packets'[j].state = "timed_out" => packets'[j].expired
         /\ Added'
<1>1. \A j \in 1 .. Count : packets'[j] \in Packet
  BY PacketTypes DEF Packet
<1>2. packets' \in Seq(Packet) /\ Count' = Count /\ DOMAIN packets' = DOMAIN packets
  <2>1. packets' = [j \in 1 .. Count |-> packets'[j]]
    BY PacketTypes
  <2>2. packets' \in Seq(Packet) /\ Len(packets') = Count
    <3>1. Count \in Nat
      BY PacketTypes
    <3> QED BY ONLY <1>1, <2>1, <3>1, SeqOfFunction
  <2> QED BY <2>2 DEF Count
<1>3. \A j \in DOMAIN packets :
        packets'[j].message = packets[j].message /\ packets'[j].state = packets[j].state
  BY PacketTypes DEF Packet
<1>4. \A j \in DOMAIN packets :
        /\ packets'[j].expired => Messages[j].timeout
        /\ packets[j].state = "timed_out" => packets'[j].expired
  <2>1. \A j \in DOMAIN packets : j # k => packets'[j] = packets[j]
    OBVIOUS
  <2>2. packets'[k].expired
    BY PacketTypes DEF Packet
  <2> QED BY <2>1, <2>2, PacketTypes DEF IcaBase, Timeouts
<1>5. \A j \in 1 .. 6 : Got(j)' = Got(j)
  BY <1>2, <1>3 DEF Got, Messages
<1>6. Added'
  BY <1>5 DEF IcaBase, Added
<1> QED BY <1>2, <1>3, <1>4, <1>6

(* The results of `ks` are handled, and the acknowledgement of the double   *)
(* one sends it again.                                                      *)
LEMMA SudoEffect ==
  ASSUME IcaBase, NEW ks \in SUBSET DOMAIN packets, \A k \in ks : HasResult(k), Sudo(ks),
         UNCHANGED <<file, delegated>>,
         NEW again \in BOOLEAN, again <=> (\E k \in ks : packets[k].message.double) /\ ~ mock,
         again => Count = 2 /\ file = "send"
  PROVE  /\ packets' \in Seq(Packet) /\ Count' = (IF again THEN Count + 1 ELSE Count)
         /\ \A j \in DOMAIN packets :
              /\ packets'[j].message = packets[j].message
              /\ packets'[j].expired = packets[j].expired
              /\ packets'[j].state = IF j \notin ks THEN packets[j].state
                                     ELSE IF packets[j].state = "received"
                                            THEN "acknowledged" ELSE "timed_out"
         /\ again => packets'[Count + 1] = Sent(Messages[Count + 1])
         /\ Added'
<1> DEFINE first == [k \in DOMAIN packets |->
                       IF k \notin ks THEN packets[k]
                       ELSE [packets[k] EXCEPT !.state =
                               IF @ = "received" THEN "acknowledged" ELSE "timed_out"]]
           more == Sent(Message("test1", 500, FALSE, FALSE))
<1>1. packets' = first \o (IF again THEN <<more>> ELSE <<>>)
  BY DEF Sudo
<1>2. \A j \in DOMAIN packets :
        /\ first[j] \in Packet
        /\ first[j].message = packets[j].message
        /\ first[j].expired = packets[j].expired
        /\ first[j].state = IF j \notin ks THEN packets[j].state
                            ELSE IF packets[j].state = "received"
                                   THEN "acknowledged" ELSE "timed_out"
  BY PacketTypes DEF Packet, PacketState
<1>3. more \in Packet
  BY DEF Sent, Message, Packet, PacketState, IcaMessage
<1>4. first \in Seq(Packet) /\ Len(first) = Count
  <2>1. first = [j \in 1 .. Count |-> first[j]]
    BY PacketTypes
  <2>2. \A j \in 1 .. Count : first[j] \in Packet
    BY <1>2, PacketTypes
  <2>3. Count \in Nat
    BY PacketTypes
  <2> HIDE DEF first
  <2> QED BY <2>1, <2>2, <2>3, SeqOfFunction
<1>5. again => Messages[Count + 1] = Message("test1", 500, FALSE, FALSE)
  <2>1. again => Messages = SendMessages
    BY MessageFacts DEF IcaBase, IcaScript
  <2>2. SendMessages[3] = Message("test1", 500, FALSE, FALSE)
    BY SendMessageFacts
  <2>3. again => Count + 1 = 3
    OBVIOUS
  <2> QED BY <2>1, <2>2, <2>3
<1> HIDE DEF first, more
<1>6. /\ packets' \in Seq(Packet) /\ Count' = (IF again THEN Count + 1 ELSE Count)
      /\ \A j \in 1 .. Count : packets'[j] = first[j]
      /\ again => packets'[Count + 1] = more
  <2>1. CASE again
    <3>1. <<more>> \in Seq(Packet) /\ Len(<<more>>) = 1 /\ <<more>>[1] = more
      BY <1>3
    <3>2. packets' = first \o <<more>>
      BY <1>1, <2>1
    <3>3. /\ first \o <<more>> \in Seq(Packet)
          /\ Len(first \o <<more>>) = Count + 1
          /\ \A i \in 1 .. Count + 1 :
               (first \o <<more>>)[i] = IF i <= Count THEN first[i] ELSE <<more>>[i - Count]
      BY <1>4, <3>1, ConcatProperties
    <3>4. Count \in Nat
      BY PacketTypes
    <3>5. \A j \in 1 .. Count : packets'[j] = first[j]
      BY <3>2, <3>3, <3>4
    <3>6. packets'[Count + 1] = more
      BY <3>1, <3>2, <3>3, <3>4
    <3> QED BY <2>1, <3>2, <3>3, <3>5, <3>6 DEF Count
  <2>2. CASE ~ again
    <3>1. packets' = first
      BY <1>1, <1>4, <2>2, ConcatEmptySeq
    <3> QED BY <1>4, <2>2, <3>1 DEF Count
  <2> QED BY <2>1, <2>2
<1>7. again => more = Sent(Messages[Count + 1])
  BY <1>5 DEF more
<1>8. /\ DOMAIN packets' = 1 .. Count' /\ DOMAIN packets = 1 .. Count /\ Count \in Nat
      /\ DOMAIN packets \subseteq DOMAIN packets'
  BY <1>6, PacketTypes DEF Count
<1>9. \A j \in 1 .. 6 : Got(j)' = Got(j)
  <2>1. ASSUME NEW j \in DOMAIN packets
        PROVE  packets'[j].state \in {"received", "acknowledged"} <=>
                 packets[j].state \in {"received", "acknowledged"}
    BY <1>2, <1>6, <1>8 DEF HasResult
  <2>2. ASSUME NEW j \in 1 .. 6, j \notin DOMAIN packets, j \in DOMAIN packets'
        PROVE  packets'[j].state = "sent"
    <3>1. again /\ j = Count + 1
      BY <1>6, <1>8, <2>2
    <3> QED BY <1>6, <3>1 DEF more, Sent
  <2> QED BY <1>8, <2>1, <2>2 DEF Got, Messages
<1>10. Added'
  BY <1>9 DEF IcaBase, Added
<1> QED BY <1>2, <1>6, <1>7, <1>8, <1>10

LEMMA IcaInitInv ==
  ASSUME ScriptInit(IcaFiles), IcaInit
  PROVE  IcaInv
<1>1. /\ file \in {"send", "sudo_failure", "unordered"} /\ tests = IcaFiles[file]
      /\ step = 1 /\ verdict = "running" /\ height = 1 /\ begun = 1
  BY DEF ScriptInit, IcaFiles
<1>2. Len(tests) \in Nat
  <2>1. tests \in {SendTests, SudoFailureTests, UnorderedTests}
    BY <1>1 DEF IcaFiles
  <2>2. Len(SendTests) = 17 /\ Len(UnorderedTests) = 17
    BY SendSteps, UnorderedSteps
  <2>3. Len(SudoFailureTests) = 42
    BY SudoFailureSteps
  <2> QED BY <2>1, <2>2, <2>3
<1>3. IcaScript
  BY <1>1, <1>2 DEF IcaScript
<1>4. /\ packets = <<>> /\ packets \in Seq(Packet) /\ DOMAIN packets = {} /\ Count = 0
      /\ handAcks = {} /\ acks = {} /\ failures = {} /\ undone = {} /\ recvTx = {} /\ ackTx = {}
      /\ relaying = "no" /\ closed = {} /\ delegated = 0
  BY DEF IcaInit, Count
<1>5. ~ mock /\ ~ paused /\ mock \in BOOLEAN /\ paused \in BOOLEAN
  BY DEF IcaInit
<1>6. Count <= Len(Messages)
  BY <1>1, <1>4, MessageFacts
<1>7. IcaTypes /\ Timeouts
  BY <1>4, <1>5, <1>6 DEF IcaTypes, Timeouts
<1>8. Added
  BY <1>4 DEF Added, Got
<1>9. SendInv
  BY <1>1, <1>4, <1>5 DEF SendInv, NoPause, Stored
<1>10. SudoFailureInv
  <2>1. ~ mock /\ step \notin MockAt
    BY <1>1, <1>5 DEF MockAt
  <2> QED BY <1>1, <1>4, <1>5, <2>1 DEF SudoFailureInv, NoPause, FailureAt
<1>11. UnorderedInv
  <2>1. ~ paused /\ step \notin 8 .. 17
    BY <1>1, <1>5
  <2> QED BY <1>1, <1>4, <1>5, <2>1 DEF UnorderedInv, Stored, DelegationsRight
<1> QED BY <1>3, <1>7, <1>8, <1>9, <1>10, <1>11 DEF IcaInv, IcaBase

-------------------------------------------------------------------------------
(* What keeps the step keeps what is known of it, if packets are handled as *)
(* before.                                                                  *)
LEMMA SendKept ==
  ASSUME IcaBase, SendInv, file = "send",
         UNCHANGED <<step, relaying, closed, acks, failures, mock, paused, undone>>,
         Count' = Count, DOMAIN packets' = DOMAIN packets,
         \A j \in DOMAIN packets :
           /\ Handled(j)' <=> Handled(j)
           /\ packets'[j].state = "timed_out" <=> packets[j].state = "timed_out",
         verdict' \notin {"delegations_differ", "redundant", "acks_differ", "failures_differ"}
  PROVE  SendInv'
<1>1. DOMAIN packets = 1 .. Count /\ Count \in 0 .. 6
  BY PacketTypes
<1>2. step \in 1 .. 18
  BY IcaTests DEF IcaBase
<1>3. (NoPause /\ ~ mock)'
  BY DEF SendInv, NoPause
<1>4. (failures = {} /\ Stored)'
  BY DEF SendInv, Stored
<1>5. /\ step > 2 => Handled(1)'
      /\ step > 5 => Handled(2)'
      /\ step > 6 => Handled(3)'
      /\ step > 10 => Handled(4)'
      /\ step > 16 => Handled(5)'
      /\ step = 5 => (Handled(2)' <=> Count = 3)
  BY <1>1, <1>2 DEF SendInv
<1>6. /\ step > 11 => packets'[4].state = "timed_out"
      /\ step \in 10 .. 13 /\ packets'[4].state = "timed_out" => "test1" \in closed
  BY <1>1, <1>2 DEF SendInv
<1> QED BY <1>3, <1>4, <1>5, <1>6 DEF SendInv

LEMMA SudoFailureKept ==
  ASSUME IcaBase, SudoFailureInv, file = "sudo_failure",
         UNCHANGED <<step, relaying, acks, failures, mock, paused, undone>>,
         Count' = Count, DOMAIN packets' = DOMAIN packets,
         \A j \in DOMAIN packets : Handled(j)' <=> Handled(j),
         verdict' \notin {"delegations_differ", "redundant", "acks_differ", "failures_differ"}
  PROVE  SudoFailureInv'
<1>1. (NoPause /\ (mock <=> step \in MockAt))'
  BY DEF SudoFailureInv, NoPause
<1>2. {k \in DOMAIN packets : Handled(k)}' = {k \in DOMAIN packets : Handled(k)}
  OBVIOUS
<1> QED BY <1>1, <1>2 DEF SudoFailureInv

LEMMA UnorderedKept ==
  ASSUME IcaBase, UnorderedInv, file = "unordered",
         UNCHANGED <<step, relaying, handAcks, closed, acks, failures, mock, paused, undone>>,
         Count' = Count, DOMAIN packets' = DOMAIN packets,
         \A j \in DOMAIN packets :
           /\ Handled(j)' <=> Handled(j)
           /\ packets[j].state # "sent" => packets'[j].state = packets[j].state
           /\ step \in 8 .. 17 /\ j \in {3, 4} => packets'[j].state = packets[j].state,
         step \in 8 .. 17 => Apart',
         verdict' = verdict \/ (relaying = "no" /\ verdict' \notin {"running", "delegations_differ",
                                "redundant", "acks_differ", "failures_differ"})
  PROVE  UnorderedInv'
<1>1. DOMAIN packets = 1 .. Count /\ Count \in 0 .. 6
  BY PacketTypes
<1>2. step \in 1 .. 18
  BY IcaTests DEF IcaBase
<1>3. (~ mock /\ (paused <=> step \in 8 .. 17))'
  BY DEF UnorderedInv
<1>4. (failures = {} /\ closed = {} /\ Stored)'
  BY DEF UnorderedInv, Stored
<1>5. /\ step > 3 => Handled(1)'
      /\ step > 4 => packets'[1].state = "timed_out"
      /\ step > 7 /\ undone = {} => packets'[2].state \in {"received", "acknowledged"}
  BY <1>1, <1>2 DEF UnorderedInv
<1>6. /\ step \in 9 .. 17 => packets'[3].state = packets[3].state
      /\ step \in 10 .. 17 => packets'[4].state = packets[4].state
      /\ step > 14 => packets'[3].state = "acknowledged"
      /\ step > 11 => packets'[4].state = "acknowledged"
  BY <1>1, <1>2 DEF UnorderedInv
<1>7. (relaying # "no" => verdict = "running" /\ step \in {11, 14})'
  BY DEF UnorderedInv
<1>8. (verdict \notin {"redundant", "acks_differ", "failures_differ"} /\ DelegationsRight)'
  BY DEF UnorderedInv, DelegationsRight
<1> QED BY <1>2, <1>3, <1>4, <1>5, <1>6, <1>7, <1>8 DEF UnorderedInv

(* Nothing but what hermes has broadcast changes.                           *)
LEMMA HermesInv ==
  ASSUME IcaInv, NEW k \in DOMAIN packets, HermesRelaysPacket(k) \/ HermesRelaysResult(k)
  PROVE  IcaInv'
<1>1. /\ UNCHANGED <<file, tests, step, verdict, height, begun, relaying, handAcks, packets, closed,
                     acks, failures, mock, paused, undone, delegated>>
      /\ recvTx' \in {recvTx, recvTx \union {k}} /\ ackTx' \in {ackTx, ackTx \union {k}}
      /\ ~ paused
  BY DEF HermesRelaysPacket, HermesRelaysResult, scriptVars, handVars, neutronVars
<1>2. IcaScript'
  BY <1>1 DEF IcaInv, IcaBase, IcaScript
<1>3. {handAcks, acks, failures, undone, recvTx, ackTx}' \subseteq SUBSET DOMAIN packets
  BY <1>1 DEF IcaInv, IcaBase, IcaTypes
<1>4. (relaying \in {"no", "relayed", "acks"})' /\ (closed \subseteq {"test1", "test2"})'
  BY <1>1 DEF IcaInv, IcaBase, IcaTypes
<1>5. (mock \in BOOLEAN /\ paused \in BOOLEAN)'
  BY <1>1 DEF IcaInv, IcaBase, IcaTypes
<1>6. IcaBase'
  BY <1>1, <1>2, <1>3, <1>4, <1>5, PacketsRest DEF IcaInv
<1>7. Count' = Count /\ \A j \in DOMAIN packets : Handled(j)' <=> Handled(j)
  BY <1>1 DEF Count, Handled
<1>8. file = "send" => SendInv'
  BY <1>1, <1>7, SendKept DEF IcaInv, SendInv
<1>9. file = "sudo_failure" => SudoFailureInv'
  BY <1>1, <1>7, SudoFailureKept DEF IcaInv, SudoFailureInv
<1>10. file = "unordered" => UnorderedInv'
  <2>1. file = "unordered" => step \notin 8 .. 17
    BY <1>1 DEF IcaInv, UnorderedInv
  <2> QED BY <1>1, <1>7, <2>1, UnorderedKept DEF IcaInv
<1> QED BY <1>1, <1>6, <1>8, <1>9, <1>10 DEF IcaInv

LEMMA RemoteExecutesInv ==
  ASSUME IcaInv, NEW k \in DOMAIN packets, RemoteExecutes(k)
  PROVE  IcaInv'
<1>1. /\ UNCHANGED <<file, tests, step, verdict, height, begun, relaying, handAcks, closed,
                     acks, failures, mock, paused, undone, ackTx>>
      /\ k \in recvTx /\ recvTx' = recvTx \ {k} /\ Receive(k)
  BY DEF RemoteExecutes, scriptVars, handVars
<1>2. IcaScript'
  BY <1>1 DEF IcaInv, IcaBase, IcaScript
<1>3. /\ packets' \in Seq(Packet) /\ Count' = Count
      /\ \A j \in DOMAIN packets :
           /\ packets'[j].message = packets[j].message
           /\ packets'[j].expired = packets[j].expired
           /\ j # k => packets'[j] = packets[j]
      /\ packets'[k].state = IF packets[k].state = "sent" /\ ~ packets[k].expired
                               THEN "received" ELSE packets[k].state
      /\ Added'
  BY <1>1, ReceiveEffect DEF IcaInv
<1>4. DOMAIN packets' = DOMAIN packets
  BY <1>3, PacketTypes DEF IcaInv, Count
<1>5. \A j \in DOMAIN packets :
        /\ Handled(j)' <=> Handled(j)
        /\ packets'[j].state = "timed_out" <=> packets[j].state = "timed_out"
        /\ packets[j].state # "sent" => packets'[j].state = packets[j].state
        /\ j # k => packets'[j].state = packets[j].state
  BY <1>3 DEF Handled
<1>6. \A j \in DOMAIN packets :
           /\ packets'[j].expired => Messages[j].timeout
           /\ packets'[j].state = "timed_out" => packets'[j].expired
  <2>1. \A j \in DOMAIN packets :
           /\ packets[j].expired => Messages[j].timeout
           /\ packets[j].state = "timed_out" => packets[j].expired
    BY DEF IcaInv, IcaBase, Timeouts
  <2> QED BY <1>3, <1>5, <2>1
<1>7. {handAcks, acks, failures, undone, recvTx, ackTx}' \subseteq SUBSET DOMAIN packets'
  BY <1>1, <1>4 DEF IcaInv, IcaBase, IcaTypes
<1>8. (relaying \in {"no", "relayed", "acks"})' /\ (closed \subseteq {"test1", "test2"})'
  BY <1>1 DEF IcaInv, IcaBase, IcaTypes
<1>9. (mock \in BOOLEAN /\ paused \in BOOLEAN)'
  BY <1>1 DEF IcaInv, IcaBase, IcaTypes
<1>10. Count' <= Len(Messages) /\ Count' # Count + 1
  BY <1>3, PacketTypes DEF IcaInv, IcaBase, IcaTypes
<1>11. IcaBase'
  BY <1>1, <1>2, <1>3, <1>6, <1>7, <1>8, <1>9, <1>10, BaseKept DEF IcaInv
<1>12. file = "send" => SendInv'
  BY <1>1, <1>3, <1>4, <1>5, SendKept DEF IcaInv, SendInv
<1>13. file = "sudo_failure" => SudoFailureInv'
  BY <1>1, <1>3, <1>4, <1>5, SudoFailureKept DEF IcaInv, SudoFailureInv
<1>14. file = "unordered" => UnorderedInv'
  <2>1. file = "unordered" /\ step \in 8 .. 17 => k \notin {3, 4} /\ Apart'
    BY <1>1 DEF IcaInv, UnorderedInv, Apart
  <2> QED BY <1>1, <1>3, <1>4, <1>5, <2>1, UnorderedKept DEF IcaInv
<1> QED BY <1>1, <1>11, <1>12, <1>13, <1>14 DEF IcaInv

LEMMA ExpireInv ==
  ASSUME IcaInv, NEW k \in DOMAIN packets, Expire(k)
  PROVE  IcaInv'
<1>1. /\ UNCHANGED <<file, tests, step, verdict, height, begun, relaying, handAcks, closed,
                     acks, failures, mock, paused, undone, recvTx, ackTx, delegated>>
      /\ packets' = [packets EXCEPT ![k].expired = TRUE] /\ packets[k].message.timeout
  BY DEF Expire, scriptVars, handVars, hermesVars
<1>2. IcaScript'
  BY <1>1 DEF IcaInv, IcaBase, IcaScript
<1>3. /\ packets' \in Seq(Packet) /\ Count' = Count
      /\ \A j \in DOMAIN packets :
           /\ packets'[j].message = packets[j].message /\ packets'[j].state = packets[j].state
           /\ packets'[j].expired => Messages[j].timeout
           /\ packets'[j].state = "timed_out" => packets'[j].expired
      /\ Added'
  BY <1>1, ExpireEffect DEF IcaInv
<1>4. DOMAIN packets' = DOMAIN packets
  BY <1>3, PacketTypes DEF IcaInv, Count
<1>5. \A j \in DOMAIN packets : Handled(j)' <=> Handled(j)
  BY <1>3 DEF Handled
<1>6. {handAcks, acks, failures, undone, recvTx, ackTx}' \subseteq SUBSET DOMAIN packets'
  BY <1>1, <1>4 DEF IcaInv, IcaBase, IcaTypes
<1>7. (relaying \in {"no", "relayed", "acks"})' /\ (closed \subseteq {"test1", "test2"})'
  BY <1>1 DEF IcaInv, IcaBase, IcaTypes
<1>8. (mock \in BOOLEAN /\ paused \in BOOLEAN)'
  BY <1>1 DEF IcaInv, IcaBase, IcaTypes
<1>9. Count' <= Len(Messages) /\ Count' # Count + 1
  BY <1>3, PacketTypes DEF IcaInv, IcaBase, IcaTypes
<1>10. IcaBase'
  BY <1>1, <1>2, <1>3, <1>6, <1>7, <1>8, <1>9, BaseKept DEF IcaInv
<1>11. file = "send" => SendInv'
  BY <1>1, <1>3, <1>4, <1>5, SendKept DEF IcaInv, SendInv
<1>12. file = "sudo_failure" => SudoFailureInv'
  BY <1>1, <1>3, <1>4, <1>5, SudoFailureKept DEF IcaInv, SudoFailureInv
<1>13. file = "unordered" => UnorderedInv'
  <2>1. file = "unordered" /\ step \in 8 .. 17 => Apart'
    BY <1>1 DEF IcaInv, UnorderedInv, Apart
  <2> QED BY <1>1, <1>3, <1>4, <1>5, <2>1, UnorderedKept DEF IcaInv
<1> QED BY <1>1, <1>10, <1>11, <1>12, <1>13 DEF IcaInv

(* A result that hermes has broadcast is handled: stored, or failed if the  *)
(* mock is on; only in SendTests is a packet sent again.                    *)
LEMMA NeutronExecutesInv ==
  ASSUME IcaInv, NEW k \in DOMAIN packets, NeutronExecutes(k)
  PROVE  IcaInv'
<1>1. /\ UNCHANGED <<file, tests, step, verdict, height, begun, relaying, handAcks, mock, paused,
                     undone, recvTx, delegated>>
      /\ k \in ackTx /\ ackTx' = ackTx \ {k}
      /\ IF HasResult(k) THEN Sudo({k}) ELSE UNCHANGED <<packets, closed, acks, failures>>
  BY DEF NeutronExecutes, scriptVars, handVars, neutronVars
<1>2. IcaScript'
  BY <1>1 DEF IcaInv, IcaBase, IcaScript
<1>3. (relaying \in {"no", "relayed", "acks"})' /\ mock' \in BOOLEAN /\ paused' \in BOOLEAN
  BY <1>1 DEF IcaInv, IcaBase, IcaTypes
<1>4. CASE ~ HasResult(k)
  <2>1. UNCHANGED <<packets, closed, acks, failures>>
    BY <1>1, <1>4
  <2>2. {handAcks, acks, failures, undone, recvTx, ackTx}' \subseteq SUBSET DOMAIN packets
        /\ closed' \subseteq {"test1", "test2"}
    BY <1>1, <2>1 DEF IcaInv, IcaBase, IcaTypes
  <2>3. IcaBase'
    BY <1>1, <1>2, <1>3, <2>1, <2>2, PacketsRest DEF IcaInv
  <2>4. Count' = Count /\ \A j \in DOMAIN packets : Handled(j)' <=> Handled(j)
    BY <2>1 DEF Count, Handled
  <2>5. file = "send" => SendInv'
    BY <1>1, <2>1, <2>4, SendKept DEF IcaInv, SendInv
  <2>6. file = "sudo_failure" => SudoFailureInv'
    BY <1>1, <2>1, <2>4, SudoFailureKept DEF IcaInv, SudoFailureInv
  <2>7. file = "unordered" => UnorderedInv'
    <3>1. file = "unordered" /\ step \in 8 .. 17 => Apart'
      BY <1>1 DEF IcaInv, UnorderedInv, Apart
    <3> QED BY <1>1, <2>1, <2>4, <3>1, UnorderedKept DEF IcaInv
  <2> QED BY <1>1, <2>3, <2>5, <2>6, <2>7 DEF IcaInv
<1>5. CASE HasResult(k)
  <2>1. /\ Sudo({k}) /\ ~ Handled(k)
        /\ \A j \in {k} : HasResult(j)
    BY <1>1, <1>5 DEF HasResult, Handled
  <2>2. /\ DOMAIN packets = 1 .. Count /\ Count \in 0 .. 6 /\ k \in 1 .. Len(Messages)
        /\ packets[k].message = Messages[k]
    BY PacketTypes DEF IcaInv
  <2>3. /\ closed' \subseteq {"test1", "test2"} /\ closed \subseteq closed'
        /\ file = "unordered" => closed' = closed
        /\ packets[k].state = "sent" /\ file = "send" => "test1" \in closed'
    <3>1. closed' = closed \union
            (IF packets[k].state = "sent" /\ Messages[k].ica # Unordered
               THEN {Messages[k].ica} ELSE {})
      BY <2>1, <2>2 DEF Sudo, Closes
    <3>2. Messages[k].ica \in {"test1", "test2", Unordered}
      BY <2>2, MessageFacts DEF IcaInv, IcaBase, IcaScript, IcaMessage
    <3>3. file = "unordered" => Messages[k].ica = Unordered
      <4>1. file = "unordered" => Messages = UnorderedMessages /\ k \in 1 .. 4
        BY <2>2, MessageFacts DEF IcaInv, IcaBase, IcaScript
      <4>2. \A j \in 1 .. 4 : UnorderedMessages[j].ica = Unordered
        BY UnorderedMessageFacts
      <4> QED BY ONLY <4>1, <4>2
    <3>4. file = "send" => Messages[k].ica = "test1"
      <4>1. file = "send" => Messages = SendMessages /\ k \in 1 .. 5
        BY <2>2, MessageFacts DEF IcaInv, IcaBase, IcaScript
      <4>2. \A j \in 1 .. 5 : SendMessages[j].ica = "test1"
        BY SendMessageFacts
      <4> QED BY ONLY <4>1, <4>2
    <3>5. closed \subseteq {"test1", "test2"}
      BY DEF IcaInv, IcaBase, IcaTypes
    <3> QED BY <3>1, <3>2, <3>3, <3>4, <3>5 DEF Unordered
  <2>4. /\ mock => failures' = failures \union {k} /\ acks' = acks
        /\ ~ mock => acks' = acks \union {k} /\ failures' = failures
    BY <2>1 DEF Sudo
  (* a result under the mock, or none *)
  <2>5. file = "sudo_failure" => mock
    <3>1. file = "sudo_failure" => step \in FailureAt
      BY <2>1 DEF IcaInv, SudoFailureInv
    <3>2. step \in FailureAt => step \in MockAt
      BY DEF FailureAt, MockAt
    <3>3. file = "sudo_failure" => (mock <=> step \in MockAt)
      BY DEF IcaInv, SudoFailureInv
    <3> QED BY <3>1, <3>2, <3>3
  <2> DEFINE again == file = "send" /\ k = 2
  <2>6. /\ again <=> (\E j \in {k} : packets[j].message.double) /\ ~ mock
        /\ again => Count = 2 /\ step = 5 /\ file = "send"
        /\ again \in BOOLEAN
    <3>1. packets[k].message.double => file = "send" /\ k = 2
      BY <2>2, MessageFacts DEF IcaInv, IcaBase, IcaScript
    <3>2. file = "send" /\ k = 2 => packets[k].message.double
      BY <2>2, MessageFacts, SendMessageFacts DEF IcaInv, IcaBase, IcaScript
    <3>3. file = "send" => ~ mock
      BY DEF IcaInv, SendInv
    <3>4. file = "send" /\ k = 2 => step = 5 /\ Count = 2
      <4>1. step \in 1 .. 18 \/ file # "send"
        BY IcaTests DEF IcaInv, IcaBase
      <4> QED BY <2>1, <2>2, <4>1 DEF IcaInv, SendInv
    <3> QED BY <3>1, <3>2, <3>3, <3>4
  <2> HIDE DEF again
  <2>7. /\ packets' \in Seq(Packet) /\ Count' = (IF again THEN Count + 1 ELSE Count)
        /\ \A j \in DOMAIN packets :
             /\ packets'[j].message = packets[j].message
             /\ packets'[j].expired = packets[j].expired
             /\ packets'[j].state = IF j \notin {k} THEN packets[j].state
                                    ELSE IF packets[j].state = "received"
                                           THEN "acknowledged" ELSE "timed_out"
        /\ again => packets'[Count + 1] = Sent(Messages[Count + 1])
        /\ Added'
    BY <1>1, <2>1, <2>6, SudoEffect DEF IcaInv
  <2>8. DOMAIN packets' = 1 .. Count' /\ DOMAIN packets \subseteq DOMAIN packets'
    BY <2>2, <2>7 DEF Count
  <2>9. /\ \A j \in DOMAIN packets : Handled(j)' <=> (Handled(j) \/ j = k)
        /\ \A j \in DOMAIN packets : j # k => packets'[j].state = packets[j].state
        /\ packets'[k].state = IF packets[k].state = "received" THEN "acknowledged" ELSE "timed_out"
        /\ packets[k].state = "sent" => packets[k].expired
    BY <1>5, <2>7 DEF Handled, HasResult
  <2>10. IcaBase'
    <3>1. \A j \in DOMAIN packets :
             /\ packets'[j].expired => Messages[j].timeout
             /\ packets'[j].state = "timed_out" => packets'[j].expired
      <4>1. \A j \in DOMAIN packets :
               /\ packets[j].expired => Messages[j].timeout
               /\ packets[j].state = "timed_out" => packets[j].expired
        BY DEF IcaInv, IcaBase, Timeouts
      <4>2. packets[k].state \in {"received", "sent"}
        BY <1>5 DEF HasResult
      <4> QED BY <2>7, <2>9, <4>1, <4>2
    <3>2. {handAcks, acks, failures, undone, recvTx, ackTx}' \subseteq SUBSET DOMAIN packets'
      BY <1>1, <2>4, <2>8 DEF IcaInv, IcaBase, IcaTypes
    <3>3. Count' \in {Count, Count + 1} /\ Count' <= Len(Messages)
          /\ (Count' = Count + 1 => packets'[Count + 1] = Sent(Messages[Count + 1]))
      <4>1. again => Len(Messages) = 5 /\ Count = 2
        BY <2>6, MessageFacts DEF IcaInv, IcaBase, IcaScript
      <4>2. Count <= Len(Messages)
        BY DEF IcaInv, IcaBase, IcaTypes
      <4> QED BY <2>2, <2>7, <4>1, <4>2
    <3> QED BY <1>1, <1>2, <1>3, <2>3, <2>7, <3>1, <3>2, <3>3, BaseKept DEF IcaInv
  <2>11. CASE file = "send"
    <3>1. step \in 1 .. 18 /\ SendInv
      BY <2>11, IcaTests DEF IcaInv, IcaBase
    <3>2. (NoPause /\ ~ mock)'
      BY <1>1, <3>1 DEF SendInv, NoPause
    <3>3. failures' = {} /\ Stored'
      <4>1. ~ mock /\ failures = {} /\ Stored
        BY <3>1 DEF SendInv
      <4> QED BY <2>4, <2>8, <2>9, <4>1 DEF Stored
    <3>4. again <=> k = 2
      BY <2>11 DEF again
    <3>5. /\ step = 1 => Count' = 0
          /\ step \in 2 .. 4 => Count' = 1
          /\ step = 5 => Count' \in {2, 3} /\ (Handled(2)' <=> Count' = 3)
          /\ step \in 6 .. 9 => Count' = 3
          /\ step \in 10 .. 15 => Count' = 4
          /\ step > 15 => Count' = 5
      BY <2>2, <2>6, <2>7, <2>9, <3>1, <3>4 DEF SendInv
    <3>6. /\ step > 2 => Handled(1)'
          /\ step > 5 => Handled(2)'
          /\ step > 6 => Handled(3)'
          /\ step > 10 => Handled(4)'
          /\ step > 16 => Handled(5)'
      <4>1. /\ step > 2 => 1 \in DOMAIN packets /\ Handled(1)
            /\ step > 5 => 2 \in DOMAIN packets /\ Handled(2)
            /\ step > 6 => 3 \in DOMAIN packets /\ Handled(3)
            /\ step > 10 => 4 \in DOMAIN packets /\ Handled(4)
            /\ step > 16 => 5 \in DOMAIN packets /\ Handled(5)
        <5>1. /\ step > 2 => Count \in 1 .. 5
              /\ step > 5 => Count \in 3 .. 5
              /\ step > 10 => Count \in 4 .. 5
              /\ step > 16 => Count = 5
          BY <3>1 DEF SendInv
        <5> QED BY <2>2, <3>1, <5>1 DEF SendInv
      <4>2. \A j \in DOMAIN packets : Handled(j) => Handled(j)'
        BY <2>9
      <4> HIDE DEF Handled
      <4> QED BY ONLY <4>1, <4>2
    <3>7. step > 11 => packets'[4].state = "timed_out"
      <4>1. step > 11 => Handled(4) /\ packets[4].state = "timed_out" /\ 4 \in DOMAIN packets
        <5>1. step > 11 => Count \in {4, 5} /\ Handled(4) /\ packets[4].state = "timed_out"
          BY <3>1 DEF SendInv
        <5> QED BY <2>2, <5>1
      <4>2. k # 4 \/ step < 12
        BY <2>1, <4>1, <3>1
      <4> QED BY <2>9, <4>1, <4>2, <3>1
    <3>8. step \in 10 .. 13 /\ packets'[4].state = "timed_out" => "test1" \in closed'
      <4>1. step \in 10 .. 13 => 4 \in DOMAIN packets
        BY <2>2, <3>1 DEF SendInv
      <4>2. packets[k].state \in {"received", "sent"}
        BY <1>5 DEF HasResult
      <4> QED BY <2>3, <2>9, <2>11, <3>1, <4>1, <4>2 DEF SendInv
    <3>9. verdict' \notin {"delegations_differ", "redundant", "acks_differ", "failures_differ"}
      BY <1>1, <3>1 DEF SendInv
    <3>10. SendInv'
      BY <1>1, <3>2, <3>3, <3>5, <3>6, <3>7, <3>8, <3>9 DEF SendInv
    <3> QED BY <1>1, <2>10, <2>11, <3>10 DEF IcaInv
  <2>12. CASE file = "sudo_failure"
    <3>1. SudoFailureInv /\ mock /\ Count' = Count
      BY <2>5, <2>7, <2>12 DEF IcaInv, again
    <3>2. (NoPause /\ (mock <=> step \in MockAt))'
      BY <1>1, <3>1 DEF SudoFailureInv, NoPause
    <3>3. DOMAIN packets' = DOMAIN packets
      BY <2>2, <2>8, <3>1
    <3>4. step <= 40 /\ step \in FailureAt
      BY <2>1, <3>1 DEF SudoFailureInv, FailureAt
    <3>5. acks' = {} /\ failures' = {j \in DOMAIN packets : Handled(j)}'
      BY <2>4, <2>9, <3>1, <3>3, <3>4 DEF SudoFailureInv
    <3>6. step \in 1 .. 43
      BY <2>12, IcaTests DEF IcaInv, IcaBase
    <3>7. SudoFailureInv'
      BY <1>1, <3>1, <3>2, <3>4, <3>5, <3>6 DEF SudoFailureInv
    <3> QED BY <1>1, <2>10, <2>12, <3>7 DEF IcaInv
  <2>13. CASE file = "unordered"
    <3>1. step \in 1 .. 18 /\ UnorderedInv /\ Count' = Count
      BY <2>7, <2>13, IcaTests DEF IcaInv, IcaBase, again
    <3>2. (~ mock /\ (paused <=> step \in 8 .. 17))'
      BY <1>1, <3>1 DEF UnorderedInv
    <3>3. failures' = {} /\ closed' = {} /\ Stored' /\ acks \subseteq acks'
      <4>1. ~ mock /\ failures = {} /\ closed = {} /\ Stored
        BY <3>1 DEF UnorderedInv
      <4> QED BY <2>3, <2>4, <2>8, <2>9, <2>13, <4>1 DEF Stored
    <3>4. (step \in 8 .. 17 => Apart) /\ (step \in 8 .. 17 => Apart')
      BY <1>1, <3>1 DEF UnorderedInv, Apart
    <3>5. step \in 8 .. 17 => k \notin {3, 4}
      BY <1>1, <3>4 DEF Apart
    <3>6. /\ step > 3 => Handled(1)'
          /\ step > 4 => packets'[1].state = "timed_out"
      BY <2>1, <2>2, <2>9, <3>1 DEF UnorderedInv
    <3>7. step > 7 /\ undone = {} => packets'[2].state \in {"received", "acknowledged"}
      <4>1. step > 7 => Count \in 2 .. 4
        BY <3>1 DEF UnorderedInv
      <4>2. step > 7 => 2 \in DOMAIN packets
        BY <2>2, <4>1
      <4>3. step > 7 /\ undone = {} => packets[2].state \in {"received", "acknowledged"}
        BY <3>1 DEF UnorderedInv
      <4>4. packets[k].state # "acknowledged"
        BY <2>1 DEF Handled
      <4> QED BY <2>9, <4>2, <4>3, <4>4
    <3>8. /\ step \in 9 .. 17 => packets'[3].state = packets[3].state
          /\ step \in 10 .. 17 => packets'[4].state = packets[4].state
      BY <2>2, <2>9, <3>1, <3>5 DEF UnorderedInv
    <3>9. /\ step > 14 => packets'[3].state = "acknowledged"
          /\ step > 11 => packets'[4].state = "acknowledged"
      <4>1. /\ step > 14 => 3 \in DOMAIN packets /\ packets[3].state = "acknowledged" /\ Handled(3)
            /\ step > 11 => 4 \in DOMAIN packets /\ packets[4].state = "acknowledged" /\ Handled(4)
        <5>1. /\ step > 14 => packets[3].state = "acknowledged"
              /\ step > 11 => packets[4].state = "acknowledged"
              /\ step > 11 => Count = 4
          BY <3>1 DEF UnorderedInv
        <5> QED BY <2>2, <3>1, <5>1 DEF Handled
      <4>2. (step > 14 => k # 3) /\ (step > 11 => k # 4)
        BY <2>1, <4>1
      <4> QED BY <2>9, <4>1, <4>2
    <3>10. (relaying # "no" => verdict = "running" /\ step \in {11, 14})'
      BY <1>1, <3>1 DEF UnorderedInv
    <3>11. (verdict \notin {"redundant", "acks_differ", "failures_differ"} /\ DelegationsRight)'
      BY <1>1, <3>1 DEF UnorderedInv, DelegationsRight
    <3>12. UnorderedInv'
      BY <1>1, <3>1, <3>2, <3>3, <3>4, <3>6, <3>7, <3>8, <3>9, <3>10, <3>11 DEF UnorderedInv
    <3> QED BY <1>1, <2>10, <2>13, <3>12 DEF IcaInv
  <2> QED BY <2>11, <2>12, <2>13 DEF IcaInv, IcaBase, IcaScript
<1> QED BY <1>4, <1>5

-------------------------------------------------------------------------------
(* Steps of the test                                                        *)

LEMMA StepOver ==
  ASSUME IcaScript, NEW op, Running(op), StepDone
  PROVE  /\ IcaScript' /\ UNCHANGED <<file, tests, verdict, height>>
         /\ step' = step + 1
BY DEF IcaScript, Running, StepDone

LEMMA EndsOver ==
  ASSUME IcaScript, NEW how, Ends(how)
  PROVE  IcaScript' /\ UNCHANGED <<file, tests, step, height>> /\ verdict' = how
BY DEF IcaScript, Ends

(* A step that is over or ends the file, and touches nothing but acks,      *)
(* failures, the mock, closed or paused                                     *)
LEMMA QuietBase ==
  ASSUME IcaBase, IcaScript', UNCHANGED <<file, packets, delegated, recvTx, ackTx>>,
         UNCHANGED <<handAcks, relaying>>,
         acks' \in {acks, {}} \/ (\E k \in failures : acks' = acks \union {k}),
         failures' \subseteq failures, undone' \subseteq DOMAIN packets,
         closed' \subseteq closed, mock' \in BOOLEAN, paused' \in BOOLEAN
  PROVE  IcaBase'
<1>1. {handAcks, acks, failures, undone, recvTx, ackTx} \subseteq SUBSET DOMAIN packets
      /\ relaying \in {"no", "relayed", "acks"} /\ closed \subseteq {"test1", "test2"}
  BY DEF IcaBase, IcaTypes
<1>2. acks' \subseteq DOMAIN packets /\ failures' \subseteq DOMAIN packets
  BY <1>1
<1>3. {handAcks, acks, failures, undone, recvTx, ackTx}' \subseteq SUBSET DOMAIN packets
  BY <1>1, <1>2
<1>4. relaying' \in {"no", "relayed", "acks"} /\ closed' \subseteq {"test1", "test2"}
  BY <1>1
<1> QED BY <1>3, <1>4, PacketsRest

(* What was delegated, once it is known which packets were received         *)
LEMMA GotSum ==
  ASSUME IcaBase
  PROVE  /\ delegated = Got(1) + Got(2) + Got(3) + Got(4) + Got(5) + Got(6)
         /\ \A k \in 1 .. 6 :
              /\ Got(k) \in Nat
              /\ k \notin DOMAIN packets => Got(k) = 0
              /\ k \in DOMAIN packets /\ packets[k].state \in {"sent", "timed_out"} => Got(k) = 0
              /\ k \in DOMAIN packets /\ packets[k].state \in {"received", "acknowledged"}
                   => Got(k) = Messages[k].amount
BY PacketTypes DEF IcaBase, Added, Got

(* A packet without a timeout that was handled was acknowledged.            *)
LEMMA HandledState ==
  ASSUME IcaBase, NEW k \in DOMAIN packets, ~ Messages[k].timeout
  PROVE  /\ packets[k].state # "timed_out"
         /\ Handled(k) => packets[k].state = "acknowledged"
BY DEF IcaBase, Timeouts, Handled

-------------------------------------------------------------------------------
(* "Send Interchain TX"                                                     *)

LEMMA SendStepOver ==
  ASSUME IcaBase, SendInv, file = "send",
         UNCHANGED <<packets, relaying, failures, mock, paused, undone, verdict>>,
         acks' \subseteq acks, step' = step + 1, step \notin {1, 4, 9, 15, 18},
         closed' = closed \/ step = 13,
         step = 2 => Handled(1), step = 5 => Handled(2), step = 6 => Handled(3),
         step = 10 => Handled(4), step = 16 => Handled(5),
         step = 11 => packets[4].state = "timed_out"
  PROVE  SendInv'
<1>1. step \in 1 .. 18
  BY IcaTests DEF IcaBase
<1>2. (NoPause /\ ~ mock)' /\ failures' = {} /\ Stored'
  BY DEF SendInv, NoPause, Stored, Handled
<1>3. /\ step' = 1 => Count' = 0
      /\ step' \in 2 .. 4 => Count' = 1
      /\ step' = 5 => Count' \in {2, 3} /\ (Handled(2)' <=> Count' = 3)
      /\ step' \in 6 .. 9 => Count' = 3
      /\ step' \in 10 .. 15 => Count' = 4
      /\ step' > 15 => Count' = 5
  <2>1. step = 5 => Count = 3
    BY DEF SendInv
  <2>2. /\ step \in 2 .. 3 => Count = 1
        /\ step \in 6 .. 8 => Count = 3
        /\ step \in 10 .. 14 => Count = 4
        /\ step > 15 => Count = 5
    BY DEF SendInv
  <2>3. Count' = Count
    BY DEF Count
  <2>4. step \in {2, 3, 5, 6, 7, 8, 10, 11, 12, 13, 14, 16, 17}
    BY <1>1
  <2> QED BY ONLY <2>1, <2>2, <2>3, <2>4, step' = step + 1
<1>4. /\ step' > 2 => Handled(1)'
      /\ step' > 5 => Handled(2)'
      /\ step' > 6 => Handled(3)'
      /\ step' > 10 => Handled(4)'
      /\ step' > 16 => Handled(5)'
  BY <1>1 DEF SendInv, Handled
<1>5. /\ step' > 11 => packets'[4].state = "timed_out"
      /\ step' \in 10 .. 13 /\ packets'[4].state = "timed_out" => "test1" \in closed'
  BY <1>1 DEF SendInv
<1>6. (verdict \notin {"delegations_differ", "redundant", "acks_differ", "failures_differ"})'
  BY DEF SendInv
<1> QED BY <1>2, <1>3, <1>4, <1>5, <1>6 DEF SendInv

(* What the looks at the delegations find                                   *)
LEMMA SendDelegated ==
  ASSUME IcaBase, SendInv, file = "send"
  PROVE  /\ step = 3 => delegated = 1000
         /\ step = 7 => delegated = 2000
         /\ step = 17 => delegated = 2020
<1>1. /\ Messages[1].amount = 1000 /\ Messages[2].amount = 500 /\ Messages[3].amount = 500
      /\ Messages[5].amount = 20
      /\ \A k \in {1, 2, 3, 5} : ~ Messages[k].timeout
  <2>1. Messages = SendMessages
    BY MessageFacts DEF IcaBase, IcaScript
  <2>2. /\ SendMessages[1].amount = 1000 /\ SendMessages[2].amount = 500
        /\ SendMessages[3].amount = 500 /\ SendMessages[5].amount = 20
    BY SendMessageFacts DEF Message
  <2>3. \A k \in {1, 2, 3, 5} : ~ SendMessages[k].timeout
    BY SendMessageFacts
  <2> QED BY <2>1, <2>2, <2>3
<1>2. DOMAIN packets = 1 .. Count
  BY PacketTypes
<1>3. \A k \in {1, 2, 3, 5} : k \in DOMAIN packets /\ Handled(k) => Got(k) = Messages[k].amount
  <2>1. ASSUME NEW k \in {1, 2, 3, 5}, k \in DOMAIN packets, Handled(k)
        PROVE  Got(k) = Messages[k].amount
    <3>1. packets[k].state = "acknowledged"
      BY <1>1, <2>1, HandledState
    <3> QED BY <2>1, <3>1 DEF Got
  <2> QED BY <2>1
<1>4. ASSUME step = 3 PROVE delegated = 1000
  <2>1. Count = 1 /\ Handled(1)
    BY <1>4 DEF SendInv
  <2>2. Got(1) = 1000 /\ Got(2) = 0 /\ Got(3) = 0 /\ Got(4) = 0 /\ Got(5) = 0 /\ Got(6) = 0
    BY <1>1, <1>2, <1>3, <2>1, GotSum
  <2> QED BY <2>2, GotSum
<1>5. ASSUME step = 7 PROVE delegated = 2000
  <2>1. Count = 3 /\ Handled(1) /\ Handled(2) /\ Handled(3)
    BY <1>5 DEF SendInv
  <2>2. Got(1) = 1000 /\ Got(2) = 500 /\ Got(3) = 500 /\ Got(4) = 0 /\ Got(5) = 0 /\ Got(6) = 0
    BY <1>1, <1>2, <1>3, <2>1, GotSum
  <2> QED BY <2>2, GotSum
<1>6. ASSUME step = 17 PROVE delegated = 2020
  <2>1. Count = 5 /\ Handled(1) /\ Handled(2) /\ Handled(3) /\ Handled(5)
        /\ packets[4].state = "timed_out"
    BY <1>6 DEF SendInv
  <2>2. Got(1) = 1000 /\ Got(2) = 500 /\ Got(3) = 500 /\ Got(4) = 0 /\ Got(5) = 20 /\ Got(6) = 0
    BY <1>1, <1>2, <1>3, <2>1, GotSum
  <2> QED BY <2>2, GotSum
<1> QED BY <1>4, <1>5, <1>6

(* A delegation is sent, or the channel of the account is closed.           *)
LEMMA DelegateBase ==
  ASSUME IcaBase, ExecuteDelegate, Running("delegate"), Arg = Messages[Count + 1],
         Count < Len(Messages)
  PROVE  /\ IcaBase'
         /\ UNCHANGED <<file, relaying, handAcks, closed, acks, failures, mock, paused, undone,
                        recvTx, ackTx>>
         /\ \/ /\ step' = step + 1 /\ verdict' = verdict /\ Count' = Count + 1
               /\ \A k \in DOMAIN packets : packets'[k] = packets[k]
               /\ packets'[Count'] = Sent(Arg)
            \/ /\ step' = step /\ verdict' = "rejected" /\ packets' = packets
<1>1. /\ UNCHANGED <<relaying, handAcks, closed, acks, failures, mock, paused, undone, recvTx, ackTx,
                     delegated>>
      /\ Expect(Arg.ica \notin closed, "rejected")
      /\ packets' = IF Arg.ica \in closed THEN packets ELSE Append(packets, Sent(Arg))
  BY DEF ExecuteDelegate, Running, handVars, hermesVars
<1>2. /\ {handAcks, acks, failures, undone, recvTx, ackTx} \subseteq SUBSET DOMAIN packets
      /\ relaying \in {"no", "relayed", "acks"} /\ closed \subseteq {"test1", "test2"}
      /\ mock \in BOOLEAN /\ paused \in BOOLEAN /\ IcaScript
  BY DEF IcaBase, IcaTypes
<1>3. CASE Arg.ica \in closed
  <2>1. Ends("rejected") /\ packets' = packets
    BY <1>1, <1>3 DEF Expect
  <2>2. IcaScript' /\ UNCHANGED <<file, tests, step, height>> /\ verdict' = "rejected"
    BY <1>2, <2>1, EndsOver
  <2>3. mock' \in BOOLEAN /\ paused' \in BOOLEAN
    BY <1>1, <1>2
  <2>4. IcaBase'
    BY <1>1, <1>2, <2>1, <2>2, <2>3, PacketsRest
  <2> QED BY <1>1, <2>1, <2>2, <2>4
<1>4. CASE Arg.ica \notin closed
  <2>1. StepDone /\ packets' = Append(packets, Sent(Arg))
    BY <1>1, <1>4 DEF Expect
  <2>2. IcaScript' /\ UNCHANGED <<file, tests, verdict, height>> /\ step' = step + 1
    BY <1>2, <2>1, StepOver
  <2>3. /\ packets' \in Seq(Packet) /\ Count' = Count + 1
        /\ \A k \in DOMAIN packets : packets'[k] = packets[k]
        /\ packets'[Count + 1] = Sent(Arg)
        /\ Added'
    BY <1>1, <2>1, <2>2, NewPacket
  <2>4. DOMAIN packets \subseteq DOMAIN packets'
    BY <2>3, PacketTypes DEF Count
  <2>5. {handAcks, acks, failures, undone, recvTx, ackTx}' \subseteq SUBSET DOMAIN packets'
    BY <1>1, <1>2, <2>4
  <2>6. mock' \in BOOLEAN /\ paused' \in BOOLEAN
    BY <1>1, <1>2
  <2>7. \A k \in DOMAIN packets :
           /\ packets'[k].message = packets[k].message
           /\ packets'[k].expired => Messages[k].timeout
           /\ packets'[k].state = "timed_out" => packets'[k].expired
    BY <2>3 DEF IcaBase, Timeouts
  <2>8. Count' <= Len(Messages)
    <3>1. Count \in 0 .. 6
      BY PacketTypes
    <3>2. Len(Messages) \in 4 .. 6
      BY MessageFacts DEF IcaBase, IcaScript
    <3>3. Count < Len(Messages) /\ Count' = Count + 1
      BY <2>3
    <3> QED BY ONLY <3>1, <3>2, <3>3
  <2>9. IcaBase'
    BY <1>1, <1>2, <2>2, <2>3, <2>5, <2>6, <2>7, <2>8, BaseKept
  <2> QED BY <1>1, <2>2, <2>3, <2>9
<1> QED BY <1>3, <1>4

LEMMA SendTestInv ==
  ASSUME IcaInv, file = "send", TestStepIca
  PROVE  IcaInv'
<1>1. IcaBase /\ SendInv /\ IcaScript /\ step \in 1 .. 18
  BY IcaTests DEF IcaInv, IcaBase
<1>2. DOMAIN packets = 1 .. Count /\ Count \in 0 .. 6
  BY <1>1, PacketTypes
<1>3. /\ Messages = SendMessages /\ Len(Messages) = 5
  BY MessageFacts
<1>4. /\ mock \in BOOLEAN /\ paused \in BOOLEAN /\ acks \subseteq DOMAIN packets
      /\ undone \subseteq DOMAIN packets /\ Stored /\ failures = {}
  BY <1>1 DEF IcaBase, IcaTypes, SendInv
<1>5. \A op \in {"mock", "getAck", "waitForFailures", "resubmit", "expectAcks",
                 "expectFailures", "pause", "unpause", "relay"} : ~ Running(op)
  BY <1>1, SendOps
(* a step that sends nothing, or ends the file *)
<1>6. ASSUME UNCHANGED <<packets, delegated, recvTx, ackTx, handAcks, relaying, failures, mock,
                         paused, undone>>, NEW op, Running(op), step < 18,
             \/ StepDone
             \/ \E how : Ends(how) /\ how = "rejected" /\ UNCHANGED <<acks, closed>>,
             acks' \in {acks, {}}, closed' \subseteq closed, closed' = closed \/ step = 13,
             StepDone => /\ step \notin {1, 4, 9, 15}
                         /\ step = 2 => Handled(1)
                         /\ step = 5 => Handled(2)
                         /\ step = 6 => Handled(3)
                         /\ step = 10 => Handled(4)
                         /\ step = 16 => Handled(5)
                         /\ step = 11 => packets[4].state = "timed_out"
      PROVE  IcaInv'
  <2>1. IcaScript' /\ UNCHANGED file
    BY <1>1, <1>6, StepOver, EndsOver
  <2>2. failures' \subseteq failures /\ undone' \subseteq DOMAIN packets /\ closed' \subseteq closed
        /\ mock' \in BOOLEAN /\ paused' \in BOOLEAN
    BY <1>4, <1>6
  <2>3. IcaBase'
    BY <1>1, <1>6, <2>1, <2>2, QuietBase
  <2>4. CASE StepDone
    <3>1. step' = step + 1 /\ verdict' = verdict /\ acks' \subseteq acks
      BY <1>6, <2>4 DEF StepDone
    <3>2. SendInv'
      BY <1>1, <1>6, <2>4, <3>1, SendStepOver
    <3> QED BY <2>1, <2>3, <3>2 DEF IcaInv
  <2>5. CASE ~ StepDone
    <3>1. UNCHANGED <<acks, closed>> /\ verdict' = "rejected" /\ step' = step
      BY <1>6, <2>5 DEF Ends
    <3>2. Count' = Count /\ \A j \in DOMAIN packets : Handled(j)' <=> Handled(j)
      BY <1>6 DEF Count, Handled
    <3>3. SendInv'
      BY <1>1, <1>6, <3>1, <3>2, SendKept
    <3> QED BY <2>1, <2>3, <3>3 DEF IcaInv
  <2> QED BY <2>4, <2>5
<1>7. ASSUME ExecuteDelegate, Running("delegate") PROVE IcaInv'
  <2>1. /\ \/ step = 1 /\ Count = 0
           \/ step = 4 /\ Count = 1
           \/ step = 9 /\ Count = 3
           \/ step = 15 /\ Count = 4
        /\ Arg = Messages[Count + 1]
    <3>1. \/ step = 1 /\ Arg = SendMessages[1]
          \/ step = 4 /\ Arg = SendMessages[2]
          \/ step = 9 /\ Arg = SendMessages[4]
          \/ step = 15 /\ Arg = SendMessages[5]
      BY <1>1, <1>7, SendOps
    <3>2. /\ step = 1 => Count = 0
          /\ step = 4 => Count = 1
          /\ step = 9 => Count = 3
          /\ step = 15 => Count = 4
      BY <1>1 DEF SendInv
    <3>3. /\ step = 1 => Messages[Count + 1] = SendMessages[1]
          /\ step = 4 => Messages[Count + 1] = SendMessages[2]
          /\ step = 9 => Messages[Count + 1] = SendMessages[4]
          /\ step = 15 => Messages[Count + 1] = SendMessages[5]
      <4>1. /\ step = 1 => Count + 1 = 1
            /\ step = 4 => Count + 1 = 2
            /\ step = 9 => Count + 1 = 4
            /\ step = 15 => Count + 1 = 5
        BY <3>2
      <4> QED BY <1>3, <4>1
    <3> QED BY ONLY <3>1, <3>2, <3>3
  <2>2. /\ IcaBase'
        /\ UNCHANGED <<file, relaying, handAcks, closed, acks, failures, mock, paused, undone,
                       recvTx, ackTx>>
        /\ \/ /\ step' = step + 1 /\ verdict' = verdict /\ Count' = Count + 1
              /\ \A k \in DOMAIN packets : packets'[k] = packets[k]
              /\ packets'[Count'] = Sent(Arg)
           \/ /\ step' = step /\ verdict' = "rejected" /\ packets' = packets
    <3>1. Count < Len(Messages)
      BY <1>3, <2>1
    <3> QED BY <1>1, <1>7, <2>1, <3>1, DelegateBase
  <2>3. CASE packets' = packets /\ step' = step /\ verdict' = "rejected"
    <3>1. Count' = Count /\ \A j \in DOMAIN packets : Handled(j)' <=> Handled(j)
      BY <2>3 DEF Count, Handled
    <3>2. SendInv'
      BY <1>1, <2>2, <2>3, <3>1, SendKept
    <3> QED BY <2>2, <3>2 DEF IcaInv
  <2>4. CASE /\ step' = step + 1 /\ verdict' = verdict /\ Count' = Count + 1
             /\ \A k \in DOMAIN packets : packets'[k] = packets[k]
             /\ packets'[Count'] = Sent(Arg)
    <3>1. DOMAIN packets' = 1 .. Count'
      BY <2>2, PacketTypes DEF IcaBase, IcaTypes, Count
    <3>2. \A j \in DOMAIN packets : (Handled(j) => Handled(j)')
      BY <2>4 DEF Handled
    <3>3. packets'[Count'].state = "sent"
      BY <2>4 DEF Sent
    <3>4. (NoPause /\ ~ mock)' /\ failures' = {}
      BY <1>1, <2>2 DEF SendInv, NoPause
    <3>5. Stored'
      BY <1>2, <1>4, <2>2, <2>4, <3>1, <3>2 DEF Stored
    <3>6. (verdict \notin {"delegations_differ", "redundant", "acks_differ", "failures_differ"})'
      BY <1>1, <2>4 DEF SendInv
    <3>7. ASSUME step = 1, Count = 0 PROVE SendInv'
      <4>1. step' = 2 /\ Count' = 1
        BY <2>4, <3>7
      <4> QED BY ONLY <3>4, <3>5, <3>6, <4>1 DEF SendInv
    <3>8. ASSUME step = 4, Count = 1 PROVE SendInv'
      <4>1. step' = 5 /\ Count' = 2 /\ Handled(1)
        BY <1>1, <2>4, <3>8 DEF SendInv
      <4>2. Handled(1)'
        BY <1>2, <3>2, <3>8, <4>1
      <4>3. ~ Handled(2)'
        BY <3>3, <4>1 DEF Handled
      <4> HIDE DEF Handled
      <4> QED BY ONLY <3>4, <3>5, <3>6, <4>1, <4>2, <4>3 DEF SendInv
    <3>9. ASSUME step = 9, Count = 3 PROVE SendInv'
      <4>1. step' = 10 /\ Count' = 4 /\ Handled(1) /\ Handled(2) /\ Handled(3)
        BY <1>1, <2>4, <3>9 DEF SendInv
      <4>2. Handled(1)' /\ Handled(2)' /\ Handled(3)'
        BY <1>2, <3>2, <3>9, <4>1
      <4>3. packets'[4].state # "timed_out"
        BY <3>3, <4>1
      <4> QED BY ONLY <3>4, <3>5, <3>6, <4>1, <4>2, <4>3 DEF SendInv
    <3>10. ASSUME step = 15, Count = 4 PROVE SendInv'
      <4>1. step' = 16 /\ Count' = 5 /\ Handled(1) /\ Handled(2) /\ Handled(3) /\ Handled(4)
            /\ packets[4].state = "timed_out"
        BY <1>1, <2>4, <3>10 DEF SendInv
      <4>2. Handled(1)' /\ Handled(2)' /\ Handled(3)' /\ Handled(4)'
        BY <1>2, <3>2, <3>10, <4>1
      <4>3. packets'[4].state = "timed_out"
        BY <1>2, <2>4, <3>10, <4>1
      <4> QED BY ONLY <3>4, <3>5, <3>6, <4>1, <4>2, <4>3 DEF SendInv
    <3>11. SendInv'
      BY <2>1, <3>7, <3>8, <3>9, <3>10
    <3> QED BY <2>2, <3>11 DEF IcaInv
  <2> QED BY <2>2, <2>3, <2>4
(* the channel is closed, nothing is sent *)
<1>8. ASSUME ExecuteDelegate, Running("tryDelegate") PROVE IcaInv'
  <2>1. step = 12 /\ Arg.ica = "test1"
    BY <1>1, <1>8, SendOps
  <2>2. "test1" \in closed
    BY <1>1, <2>1 DEF SendInv
  <2>3. ~ Running("delegate")
    BY <1>1, <2>1, SendOps
  <2>4. StepDone /\ UNCHANGED <<packets, delegated, recvTx, ackTx, handAcks, relaying, failures,
                                mock, paused, undone, acks, closed>>
    BY <1>8, <2>1, <2>2, <2>3 DEF ExecuteDelegate, handVars, hermesVars
  <2> QED BY <1>6, <1>8, <2>1, <2>4
<1>9. ASSUME RegisterAgain PROVE IcaInv'
  <2>1. /\ Running("register") /\ StepDone /\ closed' \subseteq closed
        /\ UNCHANGED <<packets, delegated, recvTx, ackTx, handAcks, relaying, failures,
                       mock, paused, undone, acks>>
    BY <1>9 DEF RegisterAgain, handVars, hermesVars
  <2>2. step = 13
    BY <1>1, <2>1, SendOps
  <2> QED BY <1>6, <2>1, <2>2
<1>10. ASSUME CleanAckResults PROVE IcaInv'
  <2>1. /\ Running("cleanAckResults") /\ StepDone /\ acks' = {}
        /\ UNCHANGED <<packets, delegated, recvTx, ackTx, handAcks, relaying, failures,
                       mock, paused, undone, closed>>
    BY <1>10 DEF CleanAckResults, handVars, hermesVars
  <2>2. step \in {8, 14}
    BY <1>1, <2>1, SendOps
  <2> QED BY <1>6, <2>1, <2>2
<1>11. ASSUME WaitForAck PROVE IcaInv'
  <2>1. /\ Running("waitForAck")
        /\ (Arg \in acks /\ StepDone) \/ Ends("rejected")
        /\ UNCHANGED <<packets, delegated, recvTx, ackTx, handAcks, relaying, failures,
                       mock, paused, undone, closed, acks>>
    BY <1>11 DEF WaitForAck, WaitUntil, handVars, hermesVars, neutronVars
  <2>2. /\ \/ step = 2 /\ Arg = 1
           \/ step = 5 /\ Arg = 2
           \/ step = 6 /\ Arg = 3
           \/ step = 10 /\ Arg = 4
           \/ step = 16 /\ Arg = 5
    BY <1>1, <2>1, SendOps
  <2>3. Arg \in acks => Handled(Arg)
    BY <1>4 DEF Stored
  <2>4. ~ (StepDone /\ Ends("rejected"))
    BY <1>1, <2>1 DEF StepDone, Ends, Running
  <2>5. StepDone => /\ step \notin {1, 4, 9, 15}
                    /\ step = 2 => Handled(1)
                    /\ step = 5 => Handled(2)
                    /\ step = 6 => Handled(3)
                    /\ step = 10 => Handled(4)
                    /\ step = 16 => Handled(5)
                    /\ step # 11
    BY <2>1, <2>2, <2>3, <2>4
  <2>6. step < 18
    BY <2>2
  <2>7. StepDone \/ Ends("rejected")
    BY <2>1
  <2> QED BY <1>6, <2>1, <2>5, <2>6, <2>7
<1>12. ASSUME ExpectStep PROVE IcaInv'
  <2>1. /\ \/ Running("expectTimeout") /\ Expect(packets[Arg].state = "timed_out", "rejected")
           \/ Running("expectDelegated") /\ Expect(delegated = Arg, "delegations_differ")
        /\ UNCHANGED <<packets, delegated, recvTx, ackTx, handAcks, relaying, failures,
                       mock, paused, undone, closed, acks>>
    BY <1>5, <1>12 DEF ExpectStep, handVars, hermesVars, neutronVars
  <2>2. CASE Running("expectTimeout") /\ Expect(packets[Arg].state = "timed_out", "rejected")
    <3>1. step = 11 /\ Arg = 4
      BY <1>1, <2>2, SendOps
    <3>2. (packets[4].state = "timed_out" /\ StepDone) \/ Ends("rejected")
      BY <2>2, <3>1 DEF Expect
    <3>3. ~ (StepDone /\ Ends("rejected"))
      BY <1>1, <3>1 DEF StepDone, Ends
    <3>4. StepDone => packets[4].state = "timed_out"
      BY <3>2, <3>3
    <3>5. StepDone \/ Ends("rejected")
      BY <3>2
    <3> QED BY <1>6, <2>1, <2>2, <3>1, <3>4, <3>5
  <2>3. CASE Running("expectDelegated") /\ Expect(delegated = Arg, "delegations_differ")
    <3>1. \/ step = 3 /\ Arg = 1000
          \/ step = 7 /\ Arg = 2000
          \/ step = 17 /\ Arg = 2020
      BY <1>1, <2>3, SendOps
    <3>2. delegated = Arg
      BY <1>1, <3>1, SendDelegated
    <3>3. StepDone
      BY <2>3, <3>2 DEF Expect
    <3> QED BY <1>6, <2>1, <2>3, <3>1, <3>3
  <2> QED BY <2>1, <2>2, <2>3
<1>13. ~ SetMock /\ ~ GetAck /\ ~ WaitForFailures /\ ~ ResubmitFailure /\ ~ Pause /\ ~ Unpause
       /\ ~ RelayPackets /\ ~ GetPendingAcks /\ ~ RelayAcks
  BY <1>5 DEF SetMock, GetAck, WaitForFailures, ResubmitFailure, Pause, Unpause, RelayPackets,
              GetPendingAcks, RelayAcks
<1>14. ExecuteDelegate => Running("delegate") \/ Running("tryDelegate")
  BY DEF ExecuteDelegate
<1> QED BY <1>7, <1>8, <1>9, <1>10, <1>11, <1>12, <1>13, <1>14 DEF TestStepIca

-------------------------------------------------------------------------------
(* "Delegate with sudo failure"                                             *)

MockSteps == {3, 7, 8, 12, 13, 17, 18, 22, 23, 27, 28, 32, 35, 39}

LEMMA SudoFailureStepOver ==
  ASSUME IcaBase, SudoFailureInv, file = "sudo_failure",
         UNCHANGED <<packets, relaying, paused, undone, verdict>>,
         step' = step + 1, step \notin {4, 9, 14, 19, 24, 29, 43},
         mock' <=> step' \in MockAt,
         step \in FailureAt => \A k \in DOMAIN packets : Handled(k),
         step # 40 => acks' = acks /\ failures' = failures,
         step = 40 => acks' = {1} /\ failures' = 2 .. 6
  PROVE  SudoFailureInv'
<1>1. step \in 1 .. 43
  BY IcaTests DEF IcaBase
<1>2. NoPause' /\ (mock <=> step \in MockAt)'
  BY DEF SudoFailureInv, NoPause
<1>3. Count' = Count /\ \A k \in DOMAIN packets : Handled(k)' <=> Handled(k)
  BY DEF Count, Handled
<1>4. /\ step' < 5 => Count' = 0
      /\ step' \in 5 .. 9 => Count' = 1
      /\ step' \in 10 .. 14 => Count' = 2
      /\ step' \in 15 .. 19 => Count' = 3
      /\ step' \in 20 .. 24 => Count' = 4
      /\ step' \in 25 .. 29 => Count' = 5
      /\ step' > 29 => Count' = 6
  BY <1>1, <1>3 DEF SudoFailureInv
<1>5. \A k \in DOMAIN packets : Handled(k)
  BY DEF SudoFailureInv
<1>6. (step \notin FailureAt => \A k \in DOMAIN packets : Handled(k))'
  BY <1>3, <1>5
<1>7. {k \in DOMAIN packets : Handled(k)}' = {k \in DOMAIN packets : Handled(k)}
  BY <1>3
<1>8. step' <= 40 => acks' = {} /\ failures' = {k \in DOMAIN packets : Handled(k)}'
  BY <1>1, <1>7 DEF SudoFailureInv
<1>9. step' > 40 => acks' = {1} /\ failures' = 2 .. 6
  BY <1>1 DEF SudoFailureInv
<1>10. (verdict \notin {"delegations_differ", "redundant", "acks_differ", "failures_differ"})'
  BY DEF SudoFailureInv
<1> QED BY <1>2, <1>4, <1>6, <1>8, <1>9, <1>10 DEF SudoFailureInv

LEMMA SizeUpTo ==
  ASSUME NEW n \in Nat
  PROVE  IsFiniteSet(1 .. n) /\ Cardinality(1 .. n) = n
<1>1. 1 \in Int /\ n \in Int
  OBVIOUS
<1>2. IsFiniteSet(1 .. n) /\ Cardinality(1 .. n) = (IF 1 > n THEN 0 ELSE n - 1 + 1)
  BY <1>1, FS_Interval, Zenon
<1> QED BY <1>2

LEMMA SizeOfFailures == Cardinality(1 .. 6) = 6 /\ Cardinality(2 .. 6) = 5
<1>1. 1 \in Int /\ 2 \in Int /\ 6 \in Int
  OBVIOUS
<1>2. /\ Cardinality(1 .. 6) = (IF 1 > 6 THEN 0 ELSE 6 - 1 + 1)
      /\ Cardinality(2 .. 6) = (IF 2 > 6 THEN 0 ELSE 6 - 2 + 1)
  BY <1>1, FS_Interval, Zenon
<1> QED BY <1>2

LEMMA SudoFailureTestInv ==
  ASSUME IcaInv, file = "sudo_failure", TestStepIca
  PROVE  IcaInv'
<1>1. IcaBase /\ SudoFailureInv /\ IcaScript /\ step \in 1 .. 43 /\ Len(tests) = 42
  BY IcaTests DEF IcaInv, IcaBase
<1>2. DOMAIN packets = 1 .. Count /\ Count \in 0 .. 6
  BY <1>1, PacketTypes
<1>3. Messages = SudoFailureMessages /\ Len(Messages) = 6
  BY MessageFacts
<1>4. /\ mock \in BOOLEAN /\ paused \in BOOLEAN /\ acks \subseteq DOMAIN packets
      /\ undone \subseteq DOMAIN packets /\ failures \subseteq DOMAIN packets
  BY <1>1 DEF IcaBase, IcaTypes
<1>5. \A op \in {"tryDelegate", "register", "getAck", "waitForAck", "expectTimeout",
                 "expectDelegated", "pause", "unpause", "relay"} : ~ Running(op)
  BY <1>1, SudoFailureOps
(* a step that sends nothing, or ends the file *)
<1>6. ASSUME UNCHANGED <<packets, delegated, recvTx, ackTx, handAcks, relaying, closed,
                         paused, undone>>, NEW op, Running(op), mock' \in BOOLEAN,
             \/ StepDone
             \/ Ends("rejected") /\ UNCHANGED <<acks, failures, mock>>,
             \/ acks' = acks /\ failures' = failures
             \/ step = 40 /\ acks' = {1} /\ failures' = 2 .. 6 /\ failures = 1 .. 6 /\ acks = {},
             StepDone => /\ step \notin {4, 9, 14, 19, 24, 29}
                         /\ step \in FailureAt => \A k \in DOMAIN packets : Handled(k)
                         /\ mock' <=> step + 1 \in MockAt
                         /\ step = 40 => acks' = {1} /\ failures' = 2 .. 6
      PROVE  IcaInv'
  <2>1. IcaScript' /\ UNCHANGED file
    BY <1>1, <1>6, StepOver, EndsOver
  <2>2. failures' \subseteq failures /\ undone' \subseteq DOMAIN packets /\ closed' \subseteq closed
        /\ mock' \in BOOLEAN /\ paused' \in BOOLEAN
    BY <1>4, <1>6
  <2>3. acks' \in {acks, {}} \/ (\E k \in failures : acks' = acks \union {k})
    <3>1. CASE step = 40 /\ acks' = {1} /\ failures' = 2 .. 6 /\ failures = 1 .. 6 /\ acks = {}
      <4>1. 1 \in failures /\ acks' = acks \union {1}
        BY <3>1
      <4> QED BY <4>1
    <3> QED BY <1>6, <3>1
  <2>4. IcaBase'
    BY <1>1, <1>6, <2>1, <2>2, <2>3, QuietBase
  <2>5. CASE StepDone
    <3>1. step' = step + 1 /\ verdict' = verdict /\ step # 43
      BY <1>1, <1>6, <2>5 DEF StepDone, Running
    <3>2. SudoFailureInv'
      BY <1>1, <1>6, <2>5, <3>1, SudoFailureStepOver
    <3> QED BY <2>1, <2>4, <3>2 DEF IcaInv
  <2>6. CASE ~ StepDone
    <3>1. UNCHANGED <<acks, failures, mock>> /\ verdict' = "rejected" /\ step' = step
      BY <1>6, <2>6 DEF Ends
    <3>2. Count' = Count /\ \A j \in DOMAIN packets : Handled(j)' <=> Handled(j)
      BY <1>6 DEF Count, Handled
    <3>3. SudoFailureInv'
      BY <1>1, <1>6, <3>1, <3>2, SudoFailureKept
    <3> QED BY <2>1, <2>4, <3>3 DEF IcaInv
  <2> QED BY <2>5, <2>6
(* the mock stays as it was *)
<1>7. /\ mock <=> step \in MockAt
      /\ step \notin MockSteps => (step + 1 \in MockAt <=> step \in MockAt)
  BY <1>1 DEF SudoFailureInv, MockAt, MockSteps
<1>8. ASSUME ExecuteDelegate PROVE IcaInv'
  <2>1. Running("delegate")
    BY <1>5, <1>8 DEF ExecuteDelegate
  <2>2. /\ \/ step = 4 /\ Count = 0
           \/ step = 9 /\ Count = 1
           \/ step = 14 /\ Count = 2
           \/ step = 19 /\ Count = 3
           \/ step = 24 /\ Count = 4
           \/ step = 29 /\ Count = 5
        /\ Arg = Messages[Count + 1]
    <3>1. \/ step = 4 /\ Arg = SudoFailureMessages[1]
          \/ step = 9 /\ Arg = SudoFailureMessages[2]
          \/ step = 14 /\ Arg = SudoFailureMessages[3]
          \/ step = 19 /\ Arg = SudoFailureMessages[4]
          \/ step = 24 /\ Arg = SudoFailureMessages[5]
          \/ step = 29 /\ Arg = SudoFailureMessages[6]
      BY <1>1, <2>1, SudoFailureOps
    <3>2. /\ step = 4 => Count = 0
          /\ step = 9 => Count = 1
          /\ step = 14 => Count = 2
          /\ step = 19 => Count = 3
          /\ step = 24 => Count = 4
          /\ step = 29 => Count = 5
      BY <1>1 DEF SudoFailureInv
    <3>3. /\ step = 4 => Messages[Count + 1] = SudoFailureMessages[1]
          /\ step = 9 => Messages[Count + 1] = SudoFailureMessages[2]
          /\ step = 14 => Messages[Count + 1] = SudoFailureMessages[3]
          /\ step = 19 => Messages[Count + 1] = SudoFailureMessages[4]
          /\ step = 24 => Messages[Count + 1] = SudoFailureMessages[5]
          /\ step = 29 => Messages[Count + 1] = SudoFailureMessages[6]
      <4>1. /\ step = 4 => Count + 1 = 1
            /\ step = 9 => Count + 1 = 2
            /\ step = 14 => Count + 1 = 3
            /\ step = 19 => Count + 1 = 4
            /\ step = 24 => Count + 1 = 5
            /\ step = 29 => Count + 1 = 6
        BY <3>2
      <4> QED BY <1>3, <4>1
    <3> QED BY ONLY <3>1, <3>2, <3>3
  <2>3. /\ IcaBase'
        /\ UNCHANGED <<file, relaying, handAcks, closed, acks, failures, mock, paused, undone,
                       recvTx, ackTx>>
        /\ \/ /\ step' = step + 1 /\ verdict' = verdict /\ Count' = Count + 1
              /\ \A k \in DOMAIN packets : packets'[k] = packets[k]
              /\ packets'[Count'] = Sent(Arg)
           \/ /\ step' = step /\ verdict' = "rejected" /\ packets' = packets
    <3>1. Count < Len(Messages)
      BY <1>3, <2>2
    <3> QED BY <1>1, <1>8, <2>1, <2>2, <3>1, DelegateBase
  <2>4. CASE packets' = packets /\ step' = step /\ verdict' = "rejected"
    <3>1. Count' = Count /\ \A j \in DOMAIN packets : Handled(j)' <=> Handled(j)
      BY <2>4 DEF Count, Handled
    <3>2. SudoFailureInv'
      BY <1>1, <2>3, <2>4, <3>1, SudoFailureKept
    <3> QED BY <2>3, <3>2 DEF IcaInv
  <2>5. CASE /\ step' = step + 1 /\ verdict' = verdict /\ Count' = Count + 1
             /\ \A k \in DOMAIN packets : packets'[k] = packets[k]
             /\ packets'[Count'] = Sent(Arg)
    <3>1. DOMAIN packets' = 1 .. Count'
      BY <2>3, PacketTypes DEF IcaBase, IcaTypes, Count
    <3>2. \A j \in DOMAIN packets : Handled(j)' <=> Handled(j)
      BY <2>5 DEF Handled
    <3>3. ASSUME NEW j \in DOMAIN packets', j \notin DOMAIN packets PROVE ~ Handled(j)'
      <4>1. j = Count'
        BY <1>2, <2>5, <3>1, <3>3
      <4> QED BY <2>5, <4>1 DEF Handled, Sent
    <3>4. NoPause'
      BY <1>1, <2>3 DEF SudoFailureInv, NoPause
    <3>5. (mock <=> step \in MockAt)'
      <4>1. step \notin MockSteps
        BY <2>2 DEF MockSteps
      <4>2. (step + 1 \in MockAt <=> step \in MockAt) /\ (mock <=> step \in MockAt)
        BY <1>7, <4>1
      <4> QED BY <2>3, <2>5, <4>2
    <3>6. step' \in FailureAt /\ step' <= 40
      BY <2>2, <2>5 DEF FailureAt
    <3>7. acks = {} /\ failures = {j \in DOMAIN packets : Handled(j)}
      BY <1>1, <2>2 DEF SudoFailureInv
    <3>8. acks' = {} /\ failures' = {j \in DOMAIN packets : Handled(j)}'
      <4>1. DOMAIN packets \subseteq DOMAIN packets'
        BY <1>2, <2>5, <3>1
      <4> QED BY <2>3, <3>2, <3>3, <3>7, <4>1
    <3>9. (verdict \notin {"delegations_differ", "redundant", "acks_differ", "failures_differ"})'
      BY <1>1, <2>5 DEF SudoFailureInv
    <3>10. /\ step' < 5 => Count' = 0
           /\ step' \in 5 .. 9 => Count' = 1
           /\ step' \in 10 .. 14 => Count' = 2
           /\ step' \in 15 .. 19 => Count' = 3
           /\ step' \in 20 .. 24 => Count' = 4
           /\ step' \in 25 .. 29 => Count' = 5
           /\ step' > 29 => Count' = 6
      BY <2>2, <2>5
    <3>11. ~ (step' > 40)
      BY <1>1, <2>5, <3>6
    <3>12. SudoFailureInv'
      BY ONLY <3>4, <3>5, <3>6, <3>8, <3>9, <3>10, <3>11 DEF SudoFailureInv
    <3> QED BY <2>3, <3>12 DEF IcaInv
  <2> QED BY <2>3, <2>4, <2>5
<1>9. ASSUME CleanAckResults PROVE IcaInv'
  <2>1. /\ Running("cleanAckResults") /\ StepDone /\ acks' = {}
        /\ UNCHANGED <<packets, delegated, recvTx, ackTx, handAcks, relaying, failures,
                       mock, paused, undone, closed>>
    BY <1>9 DEF CleanAckResults, handVars, hermesVars
  <2>2. step = 1
    BY <1>1, <2>1, SudoFailureOps
  <2>3. acks = {}
    BY <1>1, <2>2 DEF SudoFailureInv
  <2>4. step \notin FailureAt /\ step \notin MockSteps
    BY <2>2 DEF FailureAt, MockSteps
  <2>5. mock' <=> step + 1 \in MockAt
    BY <1>7, <2>1, <2>4
  <2>6. mock' \in BOOLEAN
    BY <1>4, <2>1
  <2> QED BY <1>6, <2>1, <2>2, <2>3, <2>4, <2>5, <2>6
<1>10. ASSUME SetMock PROVE IcaInv'
  <2>1. /\ Running("mock") /\ StepDone /\ mock' = Arg
        /\ UNCHANGED <<packets, delegated, recvTx, ackTx, handAcks, relaying, failures,
                       acks, paused, undone, closed>>
    BY <1>10 DEF SetMock, handVars, hermesVars, neutronVars
  <2>2. \/ step \in {3, 8, 13, 18, 23, 28, 35} /\ Arg = TRUE
        \/ step \in {7, 12, 17, 22, 27, 32, 39} /\ Arg = FALSE
    BY <1>1, <2>1, SudoFailureOps
  <2>3. /\ step \in {3, 8, 13, 18, 23, 28, 35} => step + 1 \in MockAt
        /\ step \in {7, 12, 17, 22, 27, 32, 39} => step + 1 \notin MockAt
    BY DEF MockAt
  <2>4. mock' \in BOOLEAN /\ (mock' <=> step + 1 \in MockAt)
    BY <2>1, <2>2, <2>3
  <2>5. step \notin FailureAt /\ step # 40 /\ step \notin {4, 9, 14, 19, 24, 29}
    BY <2>2 DEF FailureAt
  <2> QED BY <1>6, <2>1, <2>4, <2>5
<1>11. ASSUME WaitForFailures PROVE IcaInv'
  <2>1. /\ Running("waitForFailures")
        /\ (Cardinality(failures) = Arg /\ StepDone) \/ Ends("rejected")
        /\ UNCHANGED <<packets, delegated, recvTx, ackTx, handAcks, relaying, failures,
                       mock, paused, undone, closed, acks>>
    BY <1>11 DEF WaitForFailures, WaitUntil, handVars, hermesVars, neutronVars
  <2>2. \/ step = 5 /\ Arg = 1
        \/ step = 10 /\ Arg = 2
        \/ step = 15 /\ Arg = 3
        \/ step = 20 /\ Arg = 4
        \/ step = 25 /\ Arg = 5
        \/ step = 30 /\ Arg = 6
    BY <1>1, <2>1, SudoFailureOps
  <2>3. Arg = Count /\ failures = {j \in DOMAIN packets : Handled(j)}
    BY <1>1, <2>2 DEF SudoFailureInv
  (* as many failures as packets *)
  <2>4. Cardinality(failures) = Arg => failures = DOMAIN packets
    <3>1. IsFiniteSet(1 .. Count) /\ Cardinality(1 .. Count) = Count
      BY <1>2, SizeUpTo
    <3> QED BY <1>2, <1>4, <2>3, <3>1, FS_Subset
  <2>5. ~ (StepDone /\ Ends("rejected"))
    BY <1>1, <2>1 DEF StepDone, Ends, Running
  <2>6. StepDone => \A j \in DOMAIN packets : Handled(j)
    BY <2>1, <2>3, <2>4, <2>5
  <2>7. mock' \in BOOLEAN
    BY <1>4, <2>1
  <2>8. step \notin MockSteps /\ step # 40 /\ step \notin {4, 9, 14, 19, 24, 29}
    BY <2>2 DEF MockSteps
  <2>9. mock' <=> step + 1 \in MockAt
    BY <1>7, <2>1, <2>8
  <2>10. StepDone \/ Ends("rejected")
    BY <2>1
  <2> QED BY <1>6, <2>1, <2>6, <2>7, <2>8, <2>9, <2>10
<1>12. ASSUME ResubmitFailure PROVE IcaInv'
  <2>1. /\ Running("resubmit") /\ StepDone
        /\ UNCHANGED <<packets, delegated, recvTx, ackTx, handAcks, relaying, closed,
                       mock, paused, undone>>
    BY <1>12 DEF ResubmitFailure, handVars, hermesVars
  <2>2. PICK k \in failures :
          /\ \A j \in failures : k <= j
          /\ IF mock THEN UNCHANGED <<acks, failures>>
                     ELSE acks' = acks \union {k} /\ failures' = failures \ {k}
    BY <1>12 DEF ResubmitFailure
  <2>3. step \in {36, 40}
    BY <1>1, <2>1, SudoFailureOps
  <2>4. acks = {} /\ failures = 1 .. 6
    <3>1. step \notin FailureAt
      BY <2>3 DEF FailureAt
    <3>2. Count = 6 /\ acks = {} /\ failures = {j \in DOMAIN packets : Handled(j)}
          /\ \A j \in DOMAIN packets : Handled(j)
      BY <1>1, <2>3, <3>1 DEF SudoFailureInv
    <3> QED BY <1>2, <3>2
  <2>5. /\ step = 36 => acks' = acks /\ failures' = failures
        /\ step = 40 => acks' = {1} /\ failures' = 2 .. 6
    <3>1. step = 36 => mock
      BY <1>7 DEF MockAt
    <3>2. step = 40 => ~ mock
      BY <1>7 DEF MockAt
    <3>3. k = 1
      BY <2>2, <2>4
    <3>4. (1 .. 6) \ {1} = 2 .. 6
      OBVIOUS
    <3> QED BY <2>2, <2>4, <3>1, <3>2, <3>3, <3>4
  <2>6. step \notin MockSteps /\ step \notin FailureAt /\ step \notin {4, 9, 14, 19, 24, 29}
    BY <2>3 DEF MockSteps, FailureAt
  <2>7. (mock' <=> step + 1 \in MockAt) /\ mock' \in BOOLEAN
    BY <1>4, <1>7, <2>1, <2>6
  <2> QED BY <1>6, <2>1, <2>3, <2>4, <2>5, <2>6, <2>7
<1>13. ASSUME ExpectStep PROVE IcaInv'
  <2>1. /\ \/ Running("expectAcks") /\ Expect(acks = Arg, "acks_differ")
           \/ Running("expectFailures") /\ Expect(Cardinality(failures) = Arg, "failures_differ")
        /\ UNCHANGED <<packets, delegated, recvTx, ackTx, handAcks, relaying, failures,
                       mock, paused, undone, closed, acks>>
    BY <1>5, <1>13 DEF ExpectStep, handVars, hermesVars, neutronVars
  <2>2. mock' \in BOOLEAN
    BY <1>4, <2>1
  <2>3. CASE Running("expectAcks") /\ Expect(acks = Arg, "acks_differ")
    <3>1. \/ step \in {2, 6, 11, 16, 21, 26, 31, 34, 38} /\ Arg = {}
          \/ step = 42 /\ Arg = {1}
      BY <1>1, <2>3, SudoFailureOps
    <3>2. acks = Arg
      BY <1>1, <3>1 DEF SudoFailureInv
    <3>3. StepDone
      BY <2>3, <3>2 DEF Expect
    <3>4. step \notin MockSteps /\ step \notin FailureAt /\ step \notin {4, 9, 14, 19, 24, 29}
          /\ step # 40
      BY <3>1 DEF MockSteps, FailureAt
    <3>5. mock' <=> step + 1 \in MockAt
      BY <1>7, <2>1, <3>4
    <3> QED BY <1>6, <2>1, <2>2, <2>3, <3>3, <3>4, <3>5
  <2>4. CASE Running("expectFailures") /\ Expect(Cardinality(failures) = Arg, "failures_differ")
    <3>1. \/ step \in {33, 37} /\ Arg = 6
          \/ step = 41 /\ Arg = 5
      BY <1>1, <2>4, SudoFailureOps
    <3>2. step \notin MockSteps /\ step \notin FailureAt /\ step \notin {4, 9, 14, 19, 24, 29}
          /\ step # 40
      BY <3>1 DEF MockSteps, FailureAt
    <3>3. step \in {33, 37} => failures = 1 .. 6
      <4>1. step \in {33, 37} =>
              Count = 6 /\ failures = {j \in DOMAIN packets : Handled(j)}
              /\ \A j \in DOMAIN packets : Handled(j)
        BY <1>1, <3>2 DEF SudoFailureInv
      <4> QED BY <1>2, <4>1
    <3>4. step = 41 => failures = 2 .. 6
      BY <1>1 DEF SudoFailureInv
    <3>6. Cardinality(failures) = Arg
      BY <3>1, <3>3, <3>4, SizeOfFailures
    <3>7. StepDone
      BY <2>4, <3>6 DEF Expect
    <3>8. mock' <=> step + 1 \in MockAt
      BY <1>7, <2>1, <3>2
    <3> QED BY <1>6, <2>1, <2>2, <2>4, <3>2, <3>7, <3>8
  <2> QED BY <2>1, <2>3, <2>4
<1>14. ~ RegisterAgain /\ ~ WaitForAck /\ ~ GetAck /\ ~ Pause /\ ~ Unpause
       /\ ~ RelayPackets /\ ~ GetPendingAcks /\ ~ RelayAcks
  BY <1>5 DEF RegisterAgain, WaitForAck, GetAck, Pause, Unpause, RelayPackets,
              GetPendingAcks, RelayAcks
<1> QED BY <1>8, <1>9, <1>10, <1>11, <1>12, <1>13, <1>14 DEF TestStepIca

-------------------------------------------------------------------------------
(* "Unordered channel"                                                      *)

LEMMA UnorderedStepOver ==
  ASSUME IcaBase, UnorderedInv, file = "unordered",
         UNCHANGED <<packets, relaying, failures, closed, mock, verdict, recvTx, ackTx>>,
         verdict = "running", step' = step + 1, step \notin {2, 5, 8, 9, 11, 14, 18},
         acks' = acks \/ (step = 1 /\ acks' = {}),
         undone' = undone \/ step = 7,
         paused' <=> step' \in 8 .. 17,
         step = 3 => Handled(1),
         step = 4 => packets[1].state = "timed_out",
         step = 7 /\ undone' = {} => packets[2].state \in {"received", "acknowledged"},
         step = 7 => Apart
  PROVE  UnorderedInv'
<1>1. step \in {1, 3, 4, 6, 7, 10, 12, 13, 15, 16, 17}
  BY IcaTests DEF IcaBase
<1>2. Count' = Count /\ \A k \in DOMAIN packets : Handled(k)' <=> Handled(k)
  BY DEF Count, Handled
<1>3. (~ mock)' /\ failures' = {} /\ closed' = {}
  BY DEF UnorderedInv
<1>4. Stored'
  BY DEF UnorderedInv, Stored, Handled
<1>5. /\ step' < 3 => Count' = 0
      /\ step' \in 3 .. 5 => Count' = 1
      /\ step' \in 6 .. 8 => Count' = 2
      /\ step' = 9 => Count' = 3
      /\ step' > 9 => Count' = 4
  BY <1>1, <1>2 DEF UnorderedInv
<1>6. /\ step' > 3 => Handled(1)'
      /\ step' > 4 => packets'[1].state = "timed_out"
  BY <1>1 DEF UnorderedInv, Handled
<1>7. relaying = "no" /\ relaying' = "no"
  BY <1>1 DEF UnorderedInv
<1>8. /\ step' < 8 => undone' = {}
      /\ step' > 7 /\ undone' = {} => packets'[2].state \in {"received", "acknowledged"}
  BY <1>1 DEF UnorderedInv
<1>9. step' \in 8 .. 17 => Apart'
  BY <1>1 DEF UnorderedInv, Apart
<1>10. /\ step' \in {9, 10, 11} => packets'[3].state = "sent"
       /\ step' \in {10, 11} => packets'[4].state = "sent"
       /\ step' \in {12, 13, 14} => packets'[3].state = "sent"
  BY <1>1, <1>7 DEF UnorderedInv
<1>11. /\ step' > 11 => packets'[4].state = "acknowledged" /\ 4 \in acks'
       /\ step' > 14 => packets'[3].state = "acknowledged" /\ 3 \in acks'
  BY <1>1 DEF UnorderedInv
<1>12. (verdict \notin {"redundant", "acks_differ", "failures_differ"} /\ DelegationsRight)'
  BY DEF UnorderedInv, DelegationsRight
<1>13. (paused <=> step \in 8 .. 17)'
  OBVIOUS
<1> QED BY ONLY <1>3, <1>4, <1>5, <1>6, <1>7, <1>8, <1>9, <1>10, <1>11, <1>12, <1>13
        DEF UnorderedInv

(* What the looks at the delegations find, when hermes had relayed all      *)
LEMMA UnorderedDelegated ==
  ASSUME IcaBase, UnorderedInv, file = "unordered", undone = {}
  PROVE  /\ step = 10 => delegated = 100
         /\ step = 13 => delegated = 500
         /\ step = 16 => delegated = 700
<1>1. Messages[2].amount = 100 /\ Messages[3].amount = 200 /\ Messages[4].amount = 400
  <2>1. Messages = UnorderedMessages
    BY MessageFacts DEF IcaBase, IcaScript
  <2>2. /\ UnorderedMessages[2].amount = 100 /\ UnorderedMessages[3].amount = 200
        /\ UnorderedMessages[4].amount = 400
    BY UnorderedMessageFacts DEF Message
  <2> QED BY <2>1, <2>2
<1>2. DOMAIN packets = 1 .. Count
  BY PacketTypes
<1>3. \A k \in 1 .. 6 :
        /\ k \notin DOMAIN packets => Got(k) = 0
        /\ k \in DOMAIN packets /\ packets[k].state \in {"sent", "timed_out"} => Got(k) = 0
        /\ k \in DOMAIN packets /\ packets[k].state \in {"received", "acknowledged"}
             => Got(k) = Messages[k].amount
  BY GotSum
<1>4. ASSUME step \in {10, 13, 16}
      PROVE  Got(1) = 0 /\ Got(2) = 100 /\ Got(5) = 0 /\ Got(6) = 0 /\ DOMAIN packets = 1 .. 4
  <2>1. Count = 4 /\ packets[1].state = "timed_out"
        /\ packets[2].state \in {"received", "acknowledged"}
    BY <1>4 DEF UnorderedInv
  <2>2. DOMAIN packets = 1 .. 4
    BY <1>2, <2>1
  <2> QED BY ONLY <1>1, <1>3, <2>1, <2>2
<1>5. /\ step \in {10, 13} => Got(3) = 0
      /\ step = 10 => Got(4) = 0
  <2>1. /\ step \in {10, 13} => packets[3].state = "sent"
        /\ step = 10 => packets[4].state = "sent"
    BY DEF UnorderedInv
  <2> QED BY ONLY <1>3, <1>4, <2>1
<1>6. /\ step \in {13, 16} => Got(4) = 400
      /\ step = 16 => Got(3) = 200
  <2>1. /\ step \in {13, 16} => packets[4].state = "acknowledged"
        /\ step = 16 => packets[3].state = "acknowledged"
    BY DEF UnorderedInv
  <2> QED BY ONLY <1>1, <1>3, <1>4, <2>1
<1> QED BY <1>4, <1>5, <1>6, GotSum

(* A packet that hermes had not relayed when it was paused is relayed by    *)
(* hand, and then its acknowledgement.                                      *)
LEMMA RelayInv ==
  ASSUME IcaInv, file = "unordered", RelayPackets \/ GetPendingAcks \/ RelayAcks
  PROVE  IcaInv'
<1>1. IcaBase /\ UnorderedInv /\ IcaScript
  BY DEF IcaInv, IcaBase
<1>2. DOMAIN packets = 1 .. Count /\ Count \in 0 .. 6
  BY <1>1, PacketTypes
<1>3. /\ {handAcks, acks, failures, undone, recvTx, ackTx} \subseteq SUBSET DOMAIN packets
      /\ relaying \in {"no", "relayed", "acks"} /\ closed \subseteq {"test1", "test2"}
      /\ mock \in BOOLEAN /\ paused \in BOOLEAN
  BY <1>1 DEF IcaBase, IcaTypes
<1>4. Running("relay") /\ verdict = "running"
  BY DEF RelayPackets, GetPendingAcks, RelayAcks, Running
<1>5. step \in {11, 14} /\ Arg = IF step = 11 THEN 4 ELSE 3
  BY <1>1, <1>4, UnorderedOps
<1>6. Count = 4 /\ Arg \in DOMAIN packets /\ {1, 2, 3, 4} = DOMAIN packets
  BY <1>1, <1>2, <1>5 DEF UnorderedInv
<1>7. /\ ~ mock /\ failures = {} /\ closed = {} /\ Stored /\ paused /\ Handled(1)
      /\ packets[1].state = "timed_out"
      /\ undone = {} => packets[2].state \in {"received", "acknowledged"}
      /\ Apart /\ verdict \notin {"redundant", "acks_differ", "failures_differ"}
      /\ DelegationsRight
  BY <1>1, <1>5 DEF UnorderedInv
<1>8. Messages = UnorderedMessages /\ \A k \in 1 .. 4 : ~ Messages[k].double
  BY MessageFacts, UnorderedMessageFacts, <1>1
<1>9. ASSUME RelayPackets PROVE IcaInv'
  <2>1. relaying = "no"
    BY <1>9 DEF RelayPackets
  <2>2. packets[Arg].state = "sent"
    BY <1>1, <1>5, <2>1 DEF UnorderedInv
  <2>3. /\ Receive(Arg) /\ relaying' = "relayed"
        /\ UNCHANGED <<file, tests, step, verdict, height, begun>>
        /\ UNCHANGED <<handAcks, closed, acks, failures, mock, paused, undone, recvTx, ackTx>>
    BY <1>9, <2>2 DEF RelayPackets, scriptVars, hermesVars
  <2>4. IcaScript'
    BY <1>1, <2>3 DEF IcaScript
  <2>5. ~ packets[Arg].expired
    <3>1. ~ Messages[Arg].timeout
      <4>1. Arg \in {3, 4}
        BY <1>5
      <4>2. \A k \in {3, 4} : ~ UnorderedMessages[k].timeout
        BY UnorderedMessageFacts
      <4> QED BY <1>8, <4>1, <4>2
    <3> QED BY <1>1, <1>6, <3>1 DEF IcaBase, Timeouts
  <2>6. /\ packets' \in Seq(Packet) /\ Count' = Count
        /\ \A j \in DOMAIN packets :
             /\ packets'[j].message = packets[j].message
             /\ packets'[j].expired = packets[j].expired
             /\ j # Arg => packets'[j] = packets[j]
        /\ packets'[Arg].state = "received"
        /\ Added'
    BY <1>1, <1>6, <2>2, <2>3, <2>5, ReceiveEffect
  <2>7. DOMAIN packets' = DOMAIN packets
    BY <1>2, <2>6 DEF Count
  <2>8. \A j \in DOMAIN packets :
             /\ packets'[j].expired => Messages[j].timeout
             /\ packets'[j].state = "timed_out" => packets'[j].expired
    <3>1. \A j \in DOMAIN packets :
             /\ packets[j].expired => Messages[j].timeout
             /\ packets[j].state = "timed_out" => packets[j].expired
      BY <1>1 DEF IcaBase, Timeouts
    <3> QED BY <2>6, <3>1
  <2>9. {handAcks, acks, failures, undone, recvTx, ackTx}' \subseteq SUBSET DOMAIN packets'
    BY <1>3, <2>3, <2>7
  <2>10. relaying' \in {"no", "relayed", "acks"} /\ closed' \subseteq {"test1", "test2"}
         /\ mock' \in BOOLEAN /\ paused' \in BOOLEAN
    BY <1>3, <2>3
  <2>11. Count' <= Len(Messages) /\ Count' # Count + 1
    BY <1>1, <1>2, <2>6 DEF IcaBase, IcaTypes
  <2>12. IcaBase'
    BY <1>1, <2>3, <2>4, <2>6, <2>8, <2>9, <2>10, <2>11, BaseKept
  <2>13. Stored'
    <3>1. ~ Handled(Arg)
      BY <2>2 DEF Handled
    <3>2. \A j \in DOMAIN packets : Handled(j) => Handled(j)'
      BY <2>6, <3>1 DEF Handled
    <3> QED BY <1>7, <2>3, <2>7, <3>2 DEF Stored
  <2>14. packets'[1].state = "timed_out" /\ Handled(1)' /\ packets'[2].state = packets[2].state
    BY <1>5, <1>6, <1>7, <2>6 DEF Handled
  <2>15. Apart'
    BY <1>7, <2>3 DEF Apart
  <2>16. (verdict = "running" /\ verdict \notin {"redundant", "acks_differ", "failures_differ"}
          /\ DelegationsRight)'
    BY <1>4, <1>7, <2>3 DEF DelegationsRight
  <2>17. Count' = 4 /\ step' \in {11, 14} /\ relaying' = "relayed"
    BY <1>5, <1>6, <2>3, <2>6
  <2>18. (~ mock /\ paused)' /\ failures' = {} /\ closed' = {}
    BY <1>7, <2>3
  <2>19. undone' = {} => packets'[2].state \in {"received", "acknowledged"}
    BY <1>7, <2>3, <2>14
  <2>20. /\ step' = 11 => packets'[3].state = "sent" /\ packets'[4].state = "received"
         /\ step' = 14 => packets'[3].state = "received"
                          /\ packets'[4].state = "acknowledged" /\ 4 \in acks'
    <3>1. CASE step = 11
      BY <1>1, <1>5, <1>6, <2>1, <2>3, <2>6, <3>1 DEF UnorderedInv
    <3>2. CASE step = 14
      BY <1>1, <1>5, <1>6, <2>1, <2>3, <2>6, <3>2 DEF UnorderedInv
    <3> QED BY <1>5, <2>3, <3>1, <3>2
  <2>21. UnorderedInv'
    BY ONLY <2>13, <2>14, <2>15, <2>16, <2>17, <2>18, <2>19, <2>20 DEF UnorderedInv
  <2> QED BY <2>3, <2>12, <2>21 DEF IcaInv
<1>10. ASSUME GetPendingAcks PROVE IcaInv'
  <2>1. /\ relaying = "relayed" /\ relaying' = "acks" /\ handAcks' = In("received")
        /\ UNCHANGED <<file, tests, step, verdict, height, begun>>
        /\ UNCHANGED <<packets, delegated, closed, acks, failures, mock, paused, undone, recvTx,
                       ackTx>>
    BY <1>10 DEF GetPendingAcks, scriptVars, neutronVars, hermesVars
  <2>2. IcaScript'
    BY <1>1, <2>1 DEF IcaScript
  <2>3. handAcks' \subseteq DOMAIN packets
    BY <2>1 DEF In
  <2>4. {handAcks, acks, failures, undone, recvTx, ackTx}' \subseteq SUBSET DOMAIN packets
    BY <1>3, <2>1, <2>3
  <2>5. relaying' \in {"no", "relayed", "acks"} /\ closed' \subseteq {"test1", "test2"}
        /\ mock' \in BOOLEAN /\ paused' \in BOOLEAN
    BY <1>3, <2>1
  <2>6. IcaBase'
    BY <1>1, <2>1, <2>2, <2>4, <2>5, PacketsRest
  <2>7. /\ step = 11 => packets[3].state = "sent" /\ packets[4].state = "received"
        /\ step = 14 => packets[3].state = "received"
                        /\ packets[4].state = "acknowledged" /\ 4 \in acks
    BY <1>1, <2>1 DEF UnorderedInv
  <2>8. (step = 11 => 4 \in handAcks') /\ (step = 14 => 3 \in handAcks')
    BY <1>6, <2>1, <2>7 DEF In
  <2>9. Stored' /\ Apart' /\ Handled(1)' /\ DelegationsRight' /\ Count' = Count
    BY <1>7, <2>1 DEF Stored, Apart, Handled, DelegationsRight, Count
  <2>10. /\ step' \in {11, 14} /\ relaying' = "acks" /\ Count' = 4 /\ verdict' = "running"
         /\ (~ mock /\ paused)' /\ failures' = {} /\ closed' = {}
         /\ packets'[1].state = "timed_out"
         /\ undone' = {} => packets'[2].state \in {"received", "acknowledged"}
    BY <1>4, <1>5, <1>6, <1>7, <2>1, <2>9
  <2>11. /\ step' = 11 => /\ packets'[3].state = "sent" /\ packets'[4].state = "received"
                          /\ 4 \in handAcks'
         /\ step' = 14 => /\ packets'[3].state = "received" /\ 3 \in handAcks'
                          /\ packets'[4].state = "acknowledged" /\ 4 \in acks'
    BY <2>1, <2>7, <2>8
  <2>12. UnorderedInv'
    BY ONLY <2>9, <2>10, <2>11 DEF UnorderedInv
  <2> QED BY <2>1, <2>6, <2>12 DEF IcaInv
<1>11. ASSUME RelayAcks PROVE IcaInv'
  <2> DEFINE ks == handAcks \intersect In("received")
  <2>1. /\ relaying = "acks" /\ relaying' = "no" /\ handAcks' = {} /\ Sudo(ks) /\ StepDone
        /\ UNCHANGED <<mock, paused, undone, recvTx, ackTx, delegated>>
    BY <1>11 DEF RelayAcks, hermesVars
  <2>2. IcaScript' /\ UNCHANGED <<file, tests, verdict, height>> /\ step' = step + 1
    BY <1>1, <1>4, <2>1, StepOver
  <2>3. /\ step = 11 => /\ packets[3].state = "sent" /\ packets[4].state = "received"
                        /\ 4 \in handAcks
        /\ step = 14 => /\ packets[3].state = "received" /\ 3 \in handAcks
                        /\ packets[4].state = "acknowledged" /\ 4 \in acks
    BY <1>1, <2>1 DEF UnorderedInv
  <2>4. /\ step = 11 => 3 \notin ks /\ 4 \in ks
        /\ step = 14 => 3 \in ks /\ 4 \notin ks
        /\ 1 \notin ks /\ ks \in SUBSET DOMAIN packets
        /\ \A k \in ks : packets[k].state = "received"
    BY <1>6, <1>7, <2>3 DEF In
  <2> HIDE DEF ks
  <2>5. closed' = {}
    BY <1>7, <2>1, <2>4 DEF Sudo
  <2>6. acks' = acks \union ks /\ failures' = failures
    BY <1>7, <2>1 DEF Sudo
  <2>7. /\ packets' \in Seq(Packet) /\ Count' = Count
        /\ \A j \in DOMAIN packets :
             /\ packets'[j].message = packets[j].message
             /\ packets'[j].expired = packets[j].expired
             /\ packets'[j].state = IF j \notin ks THEN packets[j].state
                                    ELSE IF packets[j].state = "received"
                                           THEN "acknowledged" ELSE "timed_out"
        /\ Added'
    <3> DEFINE again == FALSE
    <3>1. again \in BOOLEAN /\ (again <=> (\E k \in ks : packets[k].message.double) /\ ~ mock)
      BY <1>1, <1>6, <1>8, <2>4, PacketTypes
    <3>2. \A k \in ks : HasResult(k)
      BY <2>4 DEF HasResult
    <3>3. again => Count = 2 /\ file = "send"
      OBVIOUS
    <3>4. ~ again
      OBVIOUS
    <3> HIDE DEF again
    <3> QED BY <1>1, <2>1, <2>2, <2>4, <3>1, <3>2, <3>3, <3>4, SudoEffect
  <2>8. \A j \in DOMAIN packets :
          packets'[j].state = IF j \in ks THEN "acknowledged" ELSE packets[j].state
    BY <2>4, <2>7
  <2>9. DOMAIN packets' = DOMAIN packets
    BY <1>2, <2>7 DEF Count
  <2>10. \A j \in DOMAIN packets :
             /\ packets'[j].expired => Messages[j].timeout
             /\ packets'[j].state = "timed_out" => packets'[j].expired
    <3>1. \A j \in DOMAIN packets :
             /\ packets[j].expired => Messages[j].timeout
             /\ packets[j].state = "timed_out" => packets[j].expired
      BY <1>1 DEF IcaBase, Timeouts
    <3> QED BY <2>7, <2>8, <3>1
  <2>11. {handAcks, acks, failures, undone, recvTx, ackTx}' \subseteq SUBSET DOMAIN packets'
    BY <1>3, <2>1, <2>4, <2>6, <2>9
  <2>12. relaying' \in {"no", "relayed", "acks"} /\ closed' \subseteq {"test1", "test2"}
         /\ mock' \in BOOLEAN /\ paused' \in BOOLEAN
    BY <1>3, <2>1, <2>5
  <2>13. Count' <= Len(Messages) /\ Count' # Count + 1
    BY <1>1, <1>2, <2>7 DEF IcaBase, IcaTypes
  <2>14. IcaBase'
    BY <1>1, <2>2, <2>7, <2>10, <2>11, <2>12, <2>13, BaseKept
  <2>15. \A j \in DOMAIN packets : Handled(j)' <=> (Handled(j) \/ j \in ks)
    BY <2>8 DEF Handled
  <2>16. Stored'
    BY <1>7, <2>4, <2>6, <2>9, <2>15 DEF Stored
  <2>17. /\ packets'[1].state = "timed_out" /\ Handled(1)'
         /\ packets'[2].state \in {packets[2].state, "acknowledged"}
    BY <1>6, <1>7, <2>4, <2>8, <2>15
  <2>18. Apart'
    BY <1>7, <2>1 DEF Apart
  <2>19. (verdict = "running" /\ DelegationsRight)'
    BY <1>4, <2>2 DEF DelegationsRight
  <2>20. /\ step' \in {12, 15} /\ relaying' = "no" /\ Count' = 4
         /\ (~ mock /\ paused)' /\ failures' = {} /\ closed' = {}
         /\ undone' = {} => packets'[2].state \in {"received", "acknowledged"}
    BY <1>5, <1>6, <1>7, <2>1, <2>2, <2>5, <2>6, <2>7, <2>17
  <2>21. /\ step' = 12 => packets'[3].state = "sent"
         /\ packets'[4].state = "acknowledged" /\ 4 \in acks'
         /\ step' = 15 => packets'[3].state = "acknowledged" /\ 3 \in acks'
    BY <1>5, <1>6, <2>2, <2>3, <2>4, <2>6, <2>8
  <2>22. UnorderedInv'
    BY ONLY <2>16, <2>17, <2>18, <2>19, <2>20, <2>21 DEF UnorderedInv
  <2> QED BY <2>2, <2>14, <2>22 DEF IcaInv
<1> QED BY <1>9, <1>10, <1>11

LEMMA UnorderedTestInv ==
  ASSUME IcaInv, file = "unordered", TestStepIca
  PROVE  IcaInv'
<1>1. IcaBase /\ UnorderedInv /\ IcaScript /\ step \in 1 .. 18 /\ Len(tests) = 17
  BY IcaTests DEF IcaInv, IcaBase
<1>2. DOMAIN packets = 1 .. Count /\ Count \in 0 .. 6
  BY <1>1, PacketTypes
<1>3. Messages = UnorderedMessages /\ Len(Messages) = 4
  BY MessageFacts
<1>4. /\ mock \in BOOLEAN /\ paused \in BOOLEAN /\ acks \subseteq DOMAIN packets
      /\ undone \subseteq DOMAIN packets /\ recvTx \subseteq DOMAIN packets
      /\ ackTx \subseteq DOMAIN packets /\ Stored
      /\ (paused <=> step \in 8 .. 17)
  BY <1>1 DEF IcaBase, IcaTypes, UnorderedInv
<1>5. \A op \in {"tryDelegate", "register", "mock", "waitForFailures", "resubmit",
                 "expectAcks", "expectFailures"} : ~ Running(op)
  BY <1>1, UnorderedOps
(* a step that sends and relays nothing, or ends the file *)
<1>6. ASSUME UNCHANGED <<packets, delegated, recvTx, ackTx, handAcks, relaying, closed,
                         failures, mock>>, NEW op, Running(op), paused' \in BOOLEAN,
             undone' \subseteq DOMAIN packets,
             \/ StepDone
             \/ /\ Ends("rejected") \/ (Ends("delegations_differ") /\ undone # {})
                /\ UNCHANGED <<acks, undone, paused>>,
             acks' = acks \/ (step = 1 /\ acks' = {}),
             undone' = undone \/ step = 7,
             step \notin {2, 5, 8, 9, 11, 14},
             StepDone => /\ paused' <=> step + 1 \in 8 .. 17
                         /\ step = 3 => Handled(1)
                         /\ step = 4 => packets[1].state = "timed_out"
                         /\ step = 7 /\ undone' = {} =>
                              packets[2].state \in {"received", "acknowledged"}
                         /\ step = 7 => Apart
      PROVE  IcaInv'
  <2>1. IcaScript' /\ UNCHANGED file
    BY <1>1, <1>6, StepOver, EndsOver
  <2>2. mock' \in BOOLEAN
    BY <1>4, <1>6
  <2>3. IcaBase'
    BY <1>1, <1>6, <2>1, <2>2, QuietBase
  <2>4. verdict = "running" /\ step # 18
    BY <1>1, <1>6 DEF Running
  <2>5. CASE StepDone
    <3>1. step' = step + 1 /\ verdict' = verdict
      BY <2>5 DEF StepDone
    <3>2. paused' <=> step' \in 8 .. 17
      BY <1>6, <2>5, <3>1
    <3>3. UnorderedInv'
      BY <1>1, <1>6, <2>4, <2>5, <3>1, <3>2, UnorderedStepOver
    <3> QED BY <2>1, <2>3, <3>3 DEF IcaInv
  <2>6. CASE ~ StepDone
    <3>1. /\ UNCHANGED <<acks, undone, paused>> /\ step' = step
          /\ verdict' = "rejected" \/ (verdict' = "delegations_differ" /\ undone # {})
      BY <1>6, <2>6 DEF Ends
    <3>2. relaying = "no"
      BY <1>1, <1>6 DEF UnorderedInv
    <3>3. (verdict \notin {"redundant", "acks_differ", "failures_differ"} /\ DelegationsRight)'
      BY <3>1 DEF DelegationsRight
    <3>4. /\ Count' = Count /\ \A j \in DOMAIN packets : Handled(j)' <=> Handled(j)
          /\ (Stored <=> Stored') /\ (Apart <=> Apart')
      BY <1>6, <3>1 DEF Count, Handled, Stored, Apart
    <3>5. Handled(1)' <=> Handled(1)
      BY <1>6 DEF Handled
    <3>6. UnorderedInv'
      <4>1. (~ mock)' /\ failures' = {} /\ closed' = {} /\ Stored'
        BY <1>1, <1>6, <3>4 DEF UnorderedInv
      <4>2. (paused <=> step \in 8 .. 17)'
        BY <1>4, <3>1
      <4>3. relaying' = "no"
        BY <1>6, <3>2
      <4> QED BY <1>1, <1>6, <3>1, <3>2, <3>3, <3>4, <3>5, <4>1, <4>2, <4>3 DEF UnorderedInv
    <3> QED BY <2>1, <2>3, <3>6 DEF IcaInv
  <2> QED BY <2>5, <2>6
<1>7. ASSUME ExecuteDelegate PROVE IcaInv'
  <2>1. Running("delegate")
    BY <1>5, <1>7 DEF ExecuteDelegate
  <2>2. /\ \/ step = 2 /\ Count = 0
           \/ step = 5 /\ Count = 1
           \/ step = 8 /\ Count = 2
           \/ step = 9 /\ Count = 3
        /\ Arg = Messages[Count + 1]
    <3>1. \/ step = 2 /\ Arg = UnorderedMessages[1]
          \/ step = 5 /\ Arg = UnorderedMessages[2]
          \/ step = 8 /\ Arg = UnorderedMessages[3]
          \/ step = 9 /\ Arg = UnorderedMessages[4]
      BY <1>1, <2>1, UnorderedOps
    <3>2. /\ step = 2 => Count = 0
          /\ step = 5 => Count = 1
          /\ step = 8 => Count = 2
          /\ step = 9 => Count = 3
      BY <1>1 DEF UnorderedInv
    <3>3. /\ step = 2 => Messages[Count + 1] = UnorderedMessages[1]
          /\ step = 5 => Messages[Count + 1] = UnorderedMessages[2]
          /\ step = 8 => Messages[Count + 1] = UnorderedMessages[3]
          /\ step = 9 => Messages[Count + 1] = UnorderedMessages[4]
      <4>1. /\ step = 2 => Count + 1 = 1
            /\ step = 5 => Count + 1 = 2
            /\ step = 8 => Count + 1 = 3
            /\ step = 9 => Count + 1 = 4
        BY <3>2
      <4> QED BY <1>3, <4>1
    <3> QED BY ONLY <3>1, <3>2, <3>3
  <2>3. Count < Len(Messages)
    BY <1>3, <2>2
  <2>4. closed = {} /\ relaying = "no"
    BY <1>1, <2>2 DEF UnorderedInv
  <2>5. /\ IcaBase'
        /\ UNCHANGED <<file, relaying, handAcks, closed, acks, failures, mock, paused, undone,
                       recvTx, ackTx>>
        /\ \/ /\ step' = step + 1 /\ verdict' = verdict /\ Count' = Count + 1
              /\ \A k \in DOMAIN packets : packets'[k] = packets[k]
              /\ packets'[Count'] = Sent(Arg)
           \/ /\ step' = step /\ verdict' = "rejected" /\ packets' = packets
    BY <1>1, <1>7, <2>1, <2>2, <2>3, DelegateBase
  <2>6. CASE packets' = packets /\ step' = step /\ verdict' = "rejected"
    <3>1. Count' = Count /\ \A j \in DOMAIN packets : Handled(j)' <=> Handled(j)
      BY <2>6 DEF Count, Handled
    <3>2. step \in 8 .. 17 => Apart'
      BY <1>1, <2>5 DEF UnorderedInv, Apart
    <3>3. UnorderedInv'
      BY <1>1, <2>4, <2>5, <2>6, <3>1, <3>2, UnorderedKept
    <3> QED BY <2>5, <3>3 DEF IcaInv
  <2>7. CASE /\ step' = step + 1 /\ verdict' = verdict /\ Count' = Count + 1
             /\ \A k \in DOMAIN packets : packets'[k] = packets[k]
             /\ packets'[Count'] = Sent(Arg)
    <3>1. DOMAIN packets' = 1 .. Count'
      BY <2>5, PacketTypes DEF IcaBase, IcaTypes, Count
    <3>2. \A j \in DOMAIN packets : Handled(j) => Handled(j)'
      BY <2>7 DEF Handled
    <3>3. packets'[Count'].state = "sent"
      BY <2>7 DEF Sent
    <3>4. Stored' /\ (~ mock)' /\ failures' = {} /\ closed' = {} /\ relaying' = "no"
      <4>1. ~ mock /\ failures = {} /\ closed = {}
        BY <1>1 DEF UnorderedInv
      <4>2. DOMAIN packets \subseteq DOMAIN packets'
        BY <1>2, <2>7, <3>1
      <4>3. Stored'
        BY <1>4, <2>5, <3>2, <4>2 DEF Stored
      <4> QED BY <2>4, <2>5, <4>1, <4>3
    <3>5. (paused <=> step \in 8 .. 17)'
      BY <1>4, <2>2, <2>5, <2>7
    <3>6. (verdict \notin {"redundant", "acks_differ", "failures_differ"} /\ DelegationsRight)'
      BY <1>1, <2>5, <2>7 DEF UnorderedInv, DelegationsRight
    <3>7. step \in 8 .. 9 => Apart'
      BY <1>1, <2>5 DEF UnorderedInv, Apart
    <3>8. /\ step < 8 => undone' = {}
          /\ step \in 8 .. 9 /\ undone' = {} => packets[2].state \in {"received", "acknowledged"}
      BY <1>1, <2>5 DEF UnorderedInv
    <3>9. ASSUME step = 2, Count = 0 PROVE UnorderedInv'
      <4>1. step' = 3 /\ Count' = 1 /\ undone' = {}
        BY <2>7, <3>8, <3>9
      <4> QED BY ONLY <3>4, <3>5, <3>6, <4>1 DEF UnorderedInv
    <3>10. ASSUME step = 5, Count = 1 PROVE UnorderedInv'
      <4>1. step' = 6 /\ Count' = 2 /\ undone' = {} /\ Handled(1) /\ packets[1].state = "timed_out"
        BY <1>1, <2>7, <3>8, <3>10 DEF UnorderedInv
      <4>2. Handled(1)' /\ packets'[1].state = "timed_out"
        BY <1>2, <2>7, <3>2, <3>10, <4>1
      <4> QED BY ONLY <3>4, <3>5, <3>6, <4>1, <4>2 DEF UnorderedInv
    <3>11. ASSUME step = 8, Count = 2 PROVE UnorderedInv'
      <4>1. step' = 9 /\ Count' = 3 /\ Handled(1) /\ packets[1].state = "timed_out"
        BY <1>1, <2>7, <3>11 DEF UnorderedInv
      <4>2. Handled(1)' /\ packets'[1].state = "timed_out"
            /\ (undone' = {} => packets'[2].state \in {"received", "acknowledged"})
        BY <1>2, <2>7, <3>2, <3>8, <3>11, <4>1
      <4>3. packets'[3].state = "sent" /\ Apart'
        BY <3>3, <3>7, <3>11, <4>1
      <4> QED BY ONLY <3>4, <3>5, <3>6, <4>1, <4>2, <4>3 DEF UnorderedInv
    <3>12. ASSUME step = 9, Count = 3 PROVE UnorderedInv'
      <4>1. step' = 10 /\ Count' = 4 /\ Handled(1) /\ packets[1].state = "timed_out"
            /\ packets[3].state = "sent"
        BY <1>1, <2>7, <3>12 DEF UnorderedInv
      <4>2. Handled(1)' /\ packets'[1].state = "timed_out" /\ packets'[3].state = "sent"
            /\ (undone' = {} => packets'[2].state \in {"received", "acknowledged"})
        BY <1>2, <2>7, <3>2, <3>8, <3>12, <4>1
      <4>3. packets'[4].state = "sent" /\ Apart'
        BY <3>3, <3>7, <3>12, <4>1
      <4> QED BY ONLY <3>4, <3>5, <3>6, <4>1, <4>2, <4>3 DEF UnorderedInv
    <3>13. UnorderedInv'
      BY <2>2, <3>9, <3>10, <3>11, <3>12
    <3> QED BY <2>5, <3>13 DEF IcaInv
  <2> QED BY <2>5, <2>6, <2>7
<1>8. ASSUME CleanAckResults PROVE IcaInv'
  <2>1. /\ Running("cleanAckResults") /\ StepDone /\ acks' = {}
        /\ UNCHANGED <<packets, delegated, recvTx, ackTx, handAcks, relaying, failures,
                       mock, paused, undone, closed>>
    BY <1>8 DEF CleanAckResults, handVars, hermesVars
  <2>2. step = 1
    BY <1>1, <2>1, UnorderedOps
  <2>3. (paused' <=> step + 1 \in 8 .. 17) /\ paused' \in BOOLEAN
    BY <1>4, <2>1, <2>2
  <2>4. undone' \subseteq DOMAIN packets
    BY <1>4, <2>1
  <2> QED BY <1>6, <2>1, <2>2, <2>3, <2>4
<1>9. ASSUME WaitForAck PROVE IcaInv'
  <2>1. /\ Running("waitForAck")
        /\ (Arg \in acks /\ StepDone) \/ Ends("rejected")
        /\ UNCHANGED <<packets, delegated, recvTx, ackTx, handAcks, relaying, failures,
                       mock, paused, undone, closed, acks>>
    BY <1>9 DEF WaitForAck, WaitUntil, handVars, hermesVars, neutronVars
  <2>2. \/ step = 3 /\ Arg = 1
        \/ step = 12 /\ Arg = 4
        \/ step = 15 /\ Arg = 3
    BY <1>1, <2>1, UnorderedOps
  <2>3. ~ (StepDone /\ Ends("rejected"))
    BY <1>1, <2>1 DEF StepDone, Ends, Running
  <2>4. StepDone => (step = 3 => Handled(1))
    BY <1>4, <2>1, <2>2, <2>3 DEF Stored
  <2>5. (paused' <=> step + 1 \in 8 .. 17) /\ paused' \in BOOLEAN
    BY <1>4, <2>1, <2>2
  <2>6. undone' \subseteq DOMAIN packets /\ step \notin {1, 2, 4, 5, 7, 8, 9, 11, 14}
    BY <1>4, <2>1, <2>2
  <2>7. StepDone \/ Ends("rejected")
    BY <2>1
  <2> QED BY <1>6, <2>1, <2>4, <2>5, <2>6, <2>7
<1>10. ASSUME GetAck PROVE IcaInv'
  <2>1. /\ Running("getAck") /\ StepDone
        /\ UNCHANGED <<packets, delegated, recvTx, ackTx, handAcks, relaying, failures,
                       mock, paused, undone, closed, acks>>
    BY <1>10 DEF GetAck, handVars, hermesVars, neutronVars
  <2>2. step = 6
    BY <1>1, <2>1, UnorderedOps
  <2>3. (paused' <=> step + 1 \in 8 .. 17) /\ paused' \in BOOLEAN
    BY <1>4, <2>1, <2>2
  <2>4. undone' \subseteq DOMAIN packets
    BY <1>4, <2>1
  <2> QED BY <1>6, <2>1, <2>2, <2>3, <2>4
<1>11. ASSUME ExpectStep PROVE IcaInv'
  <2>1. /\ \/ Running("expectTimeout") /\ Expect(packets[Arg].state = "timed_out", "rejected")
           \/ Running("expectDelegated") /\ Expect(delegated = Arg, "delegations_differ")
        /\ UNCHANGED <<packets, delegated, recvTx, ackTx, handAcks, relaying, failures,
                       mock, paused, undone, closed, acks>>
    BY <1>5, <1>11 DEF ExpectStep, handVars, hermesVars, neutronVars
  <2>2. undone' \subseteq DOMAIN packets /\ paused' \in BOOLEAN
    BY <1>4, <2>1
  <2>3. CASE Running("expectTimeout") /\ Expect(packets[Arg].state = "timed_out", "rejected")
    <3>1. step = 4 /\ Arg = 1
      BY <1>1, <2>3, UnorderedOps
    <3>2. (packets[1].state = "timed_out" /\ StepDone) \/ Ends("rejected")
      BY <2>3, <3>1 DEF Expect
    <3>3. ~ (StepDone /\ Ends("rejected"))
      BY <1>1, <3>1 DEF StepDone, Ends
    <3>4. StepDone => packets[1].state = "timed_out"
      BY <3>2, <3>3
    <3>5. StepDone \/ Ends("rejected")
      BY <3>2
    <3>6. paused' <=> step + 1 \in 8 .. 17
      BY <1>4, <2>1, <3>1
    <3> QED BY <1>6, <2>1, <2>2, <2>3, <3>1, <3>4, <3>5, <3>6
  <2>4. CASE Running("expectDelegated") /\ Expect(delegated = Arg, "delegations_differ")
    <3>1. \/ step = 10 /\ Arg = 100
          \/ step = 13 /\ Arg = 500
          \/ step = 16 /\ Arg = 700
      BY <1>1, <2>4, UnorderedOps
    <3>2. undone = {} => delegated = Arg
      BY <1>1, <3>1, UnorderedDelegated
    <3>3. StepDone \/ (Ends("delegations_differ") /\ undone # {})
      BY <2>4, <3>2 DEF Expect
    <3>4. (paused' <=> step + 1 \in 8 .. 17) /\ step \in {10, 13, 16}
      BY <1>4, <2>1, <3>1
    <3> QED BY <1>6, <2>1, <2>2, <2>4, <3>3, <3>4
  <2> QED BY <2>1, <2>3, <2>4
(* what hermes had not relayed when it is paused                            *)
<1>12. ASSUME Pause PROVE IcaInv'
  <2>1. /\ Running("pause") /\ StepDone /\ paused' = TRUE /\ undone' = In("sent")
        /\ UNCHANGED <<packets, delegated, recvTx, ackTx, handAcks, relaying, failures,
                       mock, closed, acks>>
    BY <1>12 DEF Pause, handVars, hermesVars, neutronVars
  <2>2. step = 7
    BY <1>1, <2>1, UnorderedOps
  <2>3. Count = 2
    BY <1>1, <2>2 DEF UnorderedInv
  <2>4. Apart
    BY <1>2, <1>4, <2>3 DEF Apart
  <2>5. packets[2].state # "timed_out" /\ packets[2].state \in PacketState
    <3>1. ~ Messages[2].timeout
      <4>1. \A k \in 2 .. 4 : ~ UnorderedMessages[k].timeout
        BY UnorderedMessageFacts
      <4> QED BY <1>3, <4>1
    <3>2. 2 \in DOMAIN packets
      BY <1>2, <2>3
    <3> QED BY <1>1, <3>1, <3>2, HandledState, PacketTypes
  <2>6. undone' = {} => packets[2].state \in {"received", "acknowledged"}
    <3>1. 2 \in DOMAIN packets
      BY <1>2, <2>3
    <3> QED BY <2>1, <2>5, <3>1 DEF In, PacketState
  <2>7. undone' \subseteq DOMAIN packets
    BY <2>1 DEF In
  <2>8. (paused' <=> step + 1 \in 8 .. 17) /\ paused' \in BOOLEAN
    BY <2>1, <2>2
  <2> QED BY <1>6, <2>1, <2>2, <2>4, <2>6, <2>7, <2>8
<1>13. ASSUME Unpause PROVE IcaInv'
  <2>1. /\ Running("unpause") /\ StepDone /\ paused' = FALSE
        /\ UNCHANGED <<packets, delegated, recvTx, ackTx, handAcks, relaying, failures,
                       mock, closed, acks, undone>>
    BY <1>13 DEF Unpause, handVars, hermesVars, neutronVars
  <2>2. step = 17
    BY <1>1, <2>1, UnorderedOps
  <2>3. undone' \subseteq DOMAIN packets
    BY <1>4, <2>1
  <2>4. step + 1 \notin 8 .. 17
    BY <2>2
  <2>5. (paused' <=> step + 1 \in 8 .. 17) /\ paused' \in BOOLEAN
    BY <2>1, <2>4, Zenon
  <2> QED BY <1>6, <2>1, <2>2, <2>3, <2>5
<1>14. ~ RegisterAgain /\ ~ SetMock /\ ~ WaitForFailures /\ ~ ResubmitFailure
  BY <1>5 DEF RegisterAgain, SetMock, WaitForFailures, ResubmitFailure
<1> QED BY <1>7, <1>8, <1>9, <1>10, <1>11, <1>12, <1>13, <1>14, RelayInv DEF TestStepIca

-------------------------------------------------------------------------------
LEMMA IcaNextInv ==
  ASSUME IcaInv, IcaNext
  PROVE  IcaInv'
<1>1. file \in {"send", "sudo_failure", "unordered"}
  BY DEF IcaInv, IcaBase, IcaScript
<1>2. CASE TestStepIca
  BY <1>1, <1>2, SendTestInv, SudoFailureTestInv, UnorderedTestInv
<1>3. CASE Relaying
  BY <1>3, HermesInv, RemoteExecutesInv, NeutronExecutesInv, ExpireInv DEF Relaying
<1> QED BY <1>2, <1>3 DEF IcaNext

LEMMA IcaStutters ==
  ASSUME IcaInv, UNCHANGED icaVars
  PROVE  IcaInv'
<1>1. /\ UNCHANGED <<file, tests, step, verdict, height, begun, relaying, handAcks, packets, closed,
                     acks, failures, mock, paused, undone, recvTx, ackTx, delegated>>
  BY DEF icaVars, scriptVars, handVars, neutronVars, hermesVars
<1>2. IcaScript'
  BY <1>1 DEF IcaInv, IcaBase, IcaScript
<1>3. {handAcks, acks, failures, undone, recvTx, ackTx}' \subseteq SUBSET DOMAIN packets
  BY <1>1 DEF IcaInv, IcaBase, IcaTypes
<1>4. (relaying \in {"no", "relayed", "acks"})' /\ (closed \subseteq {"test1", "test2"})'
  BY <1>1 DEF IcaInv, IcaBase, IcaTypes
<1>5. (mock \in BOOLEAN /\ paused \in BOOLEAN)'
  BY <1>1 DEF IcaInv, IcaBase, IcaTypes
<1>6. IcaBase'
  BY <1>1, <1>2, <1>3, <1>4, <1>5, PacketsRest DEF IcaInv
<1>7. Count' = Count /\ \A j \in DOMAIN packets : Handled(j)' <=> Handled(j)
  BY <1>1 DEF Count, Handled
<1>8. file = "send" => SendInv'
  BY <1>1, <1>7, SendKept DEF IcaInv, SendInv
<1>9. file = "sudo_failure" => SudoFailureInv'
  BY <1>1, <1>7, SudoFailureKept DEF IcaInv, SudoFailureInv
<1>10. file = "unordered" => UnorderedInv'
  <2>1. file = "unordered" /\ step \in 8 .. 17 => Apart'
    BY <1>1 DEF IcaInv, UnorderedInv, Apart
  <2> QED BY <1>1, <1>7, <2>1, UnorderedKept DEF IcaInv
<1> QED BY <1>1, <1>6, <1>8, <1>9, <1>10 DEF IcaInv

(* The invariant holds in every state.                                      *)
THEOREM IcaInvariant == IcaSpec => []IcaInv
<1>1. ScriptInit(IcaFiles) /\ IcaInit => IcaInv
  BY IcaInitInv
<1>2. IcaInv /\ [IcaNext]_icaVars => IcaInv'
  BY IcaNextInv, IcaStutters
<1> QED BY <1>1, <1>2, PTL DEF IcaSpec

LEMMA IcaTypesHold ==
  ASSUME IcaInv
  PROVE  IcaTypeOK
<1>1. ScriptTypeOK
  BY DEF IcaInv, IcaBase, IcaScript, ScriptTypeOK
<1>2. \A k \in DOMAIN packets :
       /\ packets[k].state \in {"sent", "received", "acknowledged", "timed_out"}
       /\ packets[k].expired \in BOOLEAN
  BY PacketTypes DEF IcaInv, Packet, PacketState
<1>3. delegated \in Nat
  BY GotSum DEF IcaInv
<1> QED BY <1>1, <1>2, <1>3 DEF IcaInv, IcaBase, IcaTypes, IcaTypeOK

LEMMA RelayedByHandHolds ==
  ASSUME IcaInv
  PROVE  RelayedByHand
<1>1. IcaScript
  BY DEF IcaInv, IcaBase
<1>2. verdict # "redundant"
  BY <1>1 DEF IcaInv, IcaScript, SendInv, SudoFailureInv, UnorderedInv
<1>3. ASSUME Running("waitForAck"), paused PROVE Arg \in acks
  <2>1. file = "unordered"
    BY <1>1, <1>3 DEF IcaInv, IcaScript, SendInv, SudoFailureInv, NoPause
  <2>2. UnorderedInv
    BY <2>1 DEF IcaInv
  <2>3. step \in 8 .. 17
    BY <1>3, <2>2 DEF UnorderedInv
  <2>4. (step = 12 /\ Arg = 4) \/ (step = 15 /\ Arg = 3)
    BY <1>1, <1>3, <2>1, <2>3, UnorderedOps
  <2> QED BY <2>2, <2>4 DEF UnorderedInv
<1> QED BY <1>2, <1>3 DEF RelayedByHand

(* The variables have their types: no packet that was not sent is relayed,  *)
(* acknowledged or failed.                                                  *)
THEOREM IcaTypeCorrect == IcaSpec => []IcaTypeOK
BY IcaInvariant, IcaTypesHold, PTL

(* Each look at the delegations finds what the test waited for, unless      *)
(* hermes was paused before it had relayed everything.                      *)
THEOREM DelegationsFound == IcaSpec => []DelegationsRight
<1>1. IcaInv => DelegationsRight
  BY DEF IcaInv, IcaBase, IcaScript, SendInv, SudoFailureInv, UnorderedInv, DelegationsRight
<1> QED BY <1>1, IcaInvariant, PTL

(* A packet relayed by hand was never relayed by hermes, and while hermes   *)
(* is paused the result that is waited for is there.                        *)
THEOREM NothingRelayedTwice == IcaSpec => []RelayedByHand
BY IcaInvariant, RelayedByHandHolds, PTL

(* The acknowledgements and failures a test looks at are those it expects:  *)
(* a mock is only taken off when what was sent under it has failed.         *)
THEOREM AcksAsExpected == IcaSpec => []AcksRight
<1>1. IcaInv => AcksRight
  BY DEF IcaInv, IcaBase, IcaScript, SendInv, SudoFailureInv, UnorderedInv, AcksRight
<1> QED BY <1>1, IcaInvariant, PTL
===============================================================================
