------------------------------- MODULE KvQueries -------------------------------
(***************************************************************************)
(* Waiting for the results of interchain KV queries                         *)
(* (src/helpers/interchainqueries.ts) with getWithAttempts                  *)
(* (src/helpers/misc.ts).  A query watches some state of the remote chain   *)
(* (Gaia); the query relayer fetches it with a proof and submits it to      *)
(* Neutron, which keeps the remote height of the last result and calls the  *)
(* contract back.  The tests never speak to the relayer: they poll what     *)
(* Neutron and the contract have.                                           *)
(*                                                                          *)
(* The chains, the contract and the relayer are external.  State of height  *)
(* h is proved with the header of height h + 1, so the relayer fetches it   *)
(* only when the remote chain is past h.  It may fetch old state, lose what *)
(* it fetched, or submit it late; Neutron refuses a result that is not      *)
(* newer than the last one.                                                 *)
(***************************************************************************)
EXTENDS Naturals

CONSTANTS
  Query,         \* the ids of the queries of a contract
  numAttempts,   \* the looks of getWithAttempts
  MaxRemote,     \* bound: height of the remote chain
  MaxLocal       \* bound: height of Neutron

ASSUME AttemptsAssumption == numAttempts \in Nat \ {0}
ASSUME HeightsAssumption == {MaxRemote, MaxLocal} \subseteq Nat \ {0}

VARIABLES
  pc,             \* where the test is
  queryIds,       \* the queries of the call
  statusPrev,     \* statusPrev[q]: last_update_height before the wait
  readPrev,       \* the queries for which it has been read
  status,         \* status[q]: last_update_height after the wait
  read,           \* the queries for which it has been read
  targetHeight,
  wait,           \* wait[q]: where its getWithAttempts is
  attempts,       \* attempts[q]: the looks it has left
  since,          \* since[q]: the block its waitBlocks(1) began in
  remote,         \* height of the remote chain
  changed,        \* changed[q]: the remote height of the last change of its state
  local,          \* height of Neutron
  registered,     \* "no", "yes", "removed"
  result,         \* result[q]: last_submitted_result_remote_height
  callback,       \* callback[q]: last_update_height of the contract
  fetched         \* fetched[q]: remote height of what the relayer holds, 0: none

statusVars == <<statusPrev, readPrev, status, read>>
testVars == <<pc, queryIds, statusVars, targetHeight>>
waitVars == <<wait, attempts, since>>
remoteVars == <<remote, changed>>
localVars == <<local, registered, result, callback>>
vars == <<testVars, waitVars, remoteVars, localVars, fetched>>

Verdict == {"returned", "rejected", "not_newer", "not_equal"}
PC == {"idle", "prev", "height", "wait", "status", "validate"} \union Verdict

Zero == [q \in Query |-> 0]
Looking == [q \in Query |-> "look"]

Init ==
  /\ pc = "idle" /\ queryIds = {} /\ targetHeight = 0
  /\ statusPrev = Zero /\ readPrev = {} /\ status = Zero /\ read = {}
  /\ wait = Looking /\ attempts = Zero /\ since = Zero
  /\ remote = 1 /\ changed = Zero /\ fetched = Zero
  /\ local = 1 /\ registered = [q \in Query |-> "no"]
  /\ result = Zero /\ callback = Zero

(* What the contract and Neutron answer of a query, reduced to the heights. *)
getKvCallbackStatus(q) == callback[q]
getRegisteredQuery(q) == result[q]
getQueryBalanceResult(q) == result[q]

Goto(place) ==
  /\ pc' = place
  /\ UNCHANGED <<queryIds, statusVars, targetHeight>>

-------------------------------------------------------------------------------
(* The test between two waits                                               *)

(* Any of the register*Query helpers, which differ in their message *)
RegisterQuery(q) ==
  /\ pc = "idle" /\ registered[q] = "no"
  /\ registered' = [registered EXCEPT ![q] = "yes"]
  /\ UNCHANGED <<testVars, waitVars, remoteVars, local, result, callback, fetched>>

(* removeQuery by the contract, or removeQueryViaTx *)
RemoveQuery(q) ==
  /\ pc = "idle" /\ registered[q] = "yes"
  /\ registered' = [registered EXCEPT ![q] = "removed"]
  /\ UNCHANGED <<testVars, waitVars, remoteVars, local, result, callback, fetched>>

Begin(ids, place) ==
  /\ pc = "idle"
  /\ \A q \in ids : registered[q] = "yes"
  /\ pc' = place /\ queryIds' = ids
  /\ UNCHANGED <<statusVars, targetHeight, waitVars, localVars, fetched>>

(* watchForKvCallbackUpdates() is called. *)
Watch == /\ \E ids \in SUBSET Query : ids # {} /\ Begin(ids, "prev")
         /\ UNCHANGED remoteVars

(* "perform icq": the test changes the state that the query watches (and    *)
(* nobody else does), waits for a result and validates it.                  *)
Perform(q) ==
  /\ remote < MaxRemote
  /\ Begin({q}, "height")
  /\ remote' = remote + 1
  /\ changed' = [changed EXCEPT ![q] = remote + 1]

-------------------------------------------------------------------------------
(* The wait                                                                 *)

(* getKvCallbackStatus of every query, all at once *)
ReadPrev(q) ==
  /\ pc = "prev" /\ q \in queryIds \ readPrev
  /\ \/ /\ statusPrev' = [statusPrev EXCEPT ![q] = getKvCallbackStatus(q)]
        /\ readPrev' = readPrev \union {q}
        /\ UNCHANGED pc
     \/ pc' = "rejected" /\ UNCHANGED <<statusPrev, readPrev>>
  /\ UNCHANGED <<queryIds, status, read, targetHeight, waitVars, remoteVars,
                 localVars, fetched>>

StartWaits ==
  /\ pc' = "wait"
  /\ wait' = Looking
  /\ attempts' = [q \in Query |-> numAttempts]
  /\ UNCHANGED <<queryIds, statusVars, since, remoteVars, localVars, fetched>>

(* a slip: the height before is taken for recent enough *)
ReadTargetOffByOne ==
  /\ pc = "height" \/ (pc = "prev" /\ readPrev = queryIds)
  /\ targetHeight' = remote - 1
  /\ StartWaits

(* getHeight of the remote chain *)
ReadTarget ==
  /\ pc = "height" \/ (pc = "prev" /\ readPrev = queryIds)
  /\ targetHeight' = remote
  /\ StartWaits

Waiting(q, place) ==
  /\ pc = "wait" /\ q \in queryIds /\ wait[q] = place
  /\ UNCHANGED <<queryIds, statusVars, targetHeight, remoteVars, localVars,
                 fetched>>

(* getFunc and readyFunc of an attempt: an error is like a result not ready *)
Look(q) ==
  /\ Waiting(q, "look")
  /\ attempts' = [attempts EXCEPT ![q] = @ - 1]
  /\ \/ /\ getRegisteredQuery(q) >= targetHeight
        /\ wait' = [wait EXCEPT ![q] = "ready"]
        /\ UNCHANGED since
     \/ /\ wait' = [wait EXCEPT ![q] = "block"]
        /\ since' = [since EXCEPT ![q] = local]
  /\ UNCHANGED pc

(* a slip: the attempts are not looked at *)
NextAttemptAlways(q) ==
  /\ Waiting(q, "block")
  /\ local > since[q]
  /\ wait' = [wait EXCEPT ![q] = "look"]
  /\ UNCHANGED <<pc, attempts, since>>

(* waitBlocks(1) returned: look again, or reject when no attempts are left. *)
NextAttempt(q) ==
  /\ Waiting(q, "block")
  /\ local > since[q]
  /\ IF attempts[q] > 0 THEN wait' = [wait EXCEPT ![q] = "look"] /\ UNCHANGED pc
                        ELSE pc' = "rejected" /\ UNCHANGED wait
  /\ UNCHANGED <<attempts, since>>

(* a slip: waitBlocks(1) has no timeout *)
NoBlockEver(q) ==
  /\ Waiting(q, "block")
  /\ UNCHANGED <<pc, waitVars>>

(* waitBlocks(1) timed out, which getWithAttempts does not catch. *)
NoBlock(q) ==
  /\ Waiting(q, "block")
  /\ pc' = "rejected"
  /\ UNCHANGED waitVars

(* a slip: one result is enough *)
AnyReady ==
  /\ pc = "wait" /\ \E q \in queryIds : wait[q] = "ready"
  /\ Goto(IF readPrev = queryIds THEN "status" ELSE "validate")
  /\ UNCHANGED <<waitVars, remoteVars, localVars, fetched>>

(* Promise.all of the waits resolves. *)
AllReady ==
  /\ pc = "wait" /\ \A q \in queryIds : wait[q] = "ready"
  /\ Goto(IF readPrev = queryIds THEN "status" ELSE "validate")
  /\ UNCHANGED <<waitVars, remoteVars, localVars, fetched>>

ReadStatus(q) ==
  /\ pc = "status" /\ q \in queryIds \ read
  /\ \/ /\ status' = [status EXCEPT ![q] = getKvCallbackStatus(q)]
        /\ read' = read \union {q}
        /\ UNCHANGED pc
     \/ pc' = "rejected" /\ UNCHANGED <<status, read>>
  /\ UNCHANGED <<queryIds, statusPrev, readPrev, targetHeight, waitVars, remoteVars,
                 localVars, fetched>>

(* expect(statusPrev[i]).toBeLessThan(status[i]) *)
ExpectNewer ==
  /\ pc = "status" /\ read = queryIds
  /\ Goto(IF \A q \in queryIds : statusPrev[q] < status[q]
            THEN "returned" ELSE "not_newer")
  /\ UNCHANGED <<waitVars, remoteVars, localVars, fetched>>

(* The contract's result has the state since the last change of it. *)
UpToDate(q) == changed[q] <= getQueryBalanceResult(q)

(* validateBalanceQuery: the contract's result and the remote chain's       *)
(* answer are the same, or one of the two is not answered.                  *)
Validate ==
  /\ pc = "validate"
  /\ \/ Goto(IF \A q \in queryIds : UpToDate(q) THEN "returned" ELSE "not_equal")
     \/ Goto("rejected")
  /\ UNCHANGED <<waitVars, remoteVars, localVars, fetched>>

(* The next test, the variables of the call are gone; after one that threw  *)
(* only without --bail                                                      *)
NextTest ==
  /\ pc \in Verdict
  /\ pc' = "idle" /\ queryIds' = {} /\ targetHeight' = 0
  /\ statusPrev' = Zero /\ readPrev' = {} /\ status' = Zero /\ read' = {}
  /\ wait' = Looking /\ attempts' = Zero /\ since' = Zero
  /\ UNCHANGED <<remoteVars, localVars, fetched>>

WaitStep ==
  \/ \E q \in Query : \/ ReadPrev(q) \/ Look(q) \/ NextAttempt(q) \/ NoBlock(q)
                      \/ ReadStatus(q)
  \/ ReadTarget \/ AllReady \/ ExpectNewer \/ Validate

TestStep ==
  \/ \E q \in Query : RegisterQuery(q) \/ RemoveQuery(q) \/ Perform(q)
  \/ Watch \/ NextTest

-------------------------------------------------------------------------------
(* The relayer and the chains                                               *)

RemoteBlock ==
  /\ remote < MaxRemote /\ remote' = remote + 1
  /\ UNCHANGED <<testVars, waitVars, changed, localVars, fetched>>

Fetch(q) ==
  /\ fetched[q] = 0
  /\ \E h \in 1 .. MaxRemote : h < remote /\ fetched' = [fetched EXCEPT ![q] = h]
  /\ UNCHANGED <<testVars, waitVars, remoteVars, localVars>>

Lose(q) ==
  /\ fetched[q] # 0
  /\ fetched' = [fetched EXCEPT ![q] = 0]
  /\ UNCHANGED <<testVars, waitVars, remoteVars, localVars>>

(* The results of `ids` are submitted in the next block of Neutron. *)
Accepted(q) == registered[q] = "yes" /\ fetched[q] > result[q]

LocalBlock(ids) ==
  /\ local < MaxLocal /\ local' = local + 1
  /\ \A q \in ids : fetched[q] # 0
  /\ result' = [q \in Query |->
                  IF q \in ids /\ Accepted(q) THEN fetched[q] ELSE result[q]]
  /\ callback' = [q \in Query |->
                    IF q \in ids /\ Accepted(q) THEN local + 1 ELSE callback[q]]
  /\ fetched' = [q \in Query |-> IF q \in ids THEN 0 ELSE fetched[q]]
  /\ UNCHANGED <<testVars, waitVars, remoteVars, registered>>

Environment ==
  \/ RemoteBlock
  \/ \E q \in Query : Fetch(q) \/ Lose(q)
  \/ \E ids \in SUBSET Query : LocalBlock(ids)

Next == WaitStep \/ TestStep \/ Environment

(* Every await of a wait settles; nothing is assumed of anyone else. *)
Spec == Init /\ [][Next]_vars /\ WF_vars(WaitStep)

-------------------------------------------------------------------------------
(* The variables have their types. *)
TypeOK ==
  /\ pc \in PC
  /\ queryIds \subseteq Query
  /\ statusPrev \in [Query -> Nat] /\ status \in [Query -> Nat]
  /\ readPrev \subseteq queryIds /\ read \subseteq queryIds
  /\ targetHeight \in Nat
  /\ wait \in [Query -> {"look", "block", "ready"}]
  /\ attempts \in [Query -> 0 .. numAttempts]
  /\ since \in [Query -> Nat]
  /\ remote \in Nat /\ changed \in [Query -> Nat]
  /\ local \in Nat /\ registered \in [Query -> {"no", "yes", "removed"}]
  /\ result \in [Query -> Nat] /\ callback \in [Query -> Nat]
  /\ fetched \in [Query -> Nat]

(* The `expect` at the end of watchForKvCallbackUpdates never fails: a      *)
(* result of the height read after the first statuses was not there when    *)
(* they were read, also if it was fetched before and submitted in between.  *)
CallbacksNewer == pc # "not_newer"

(* validateBalanceQuery after the wait compares the same state: neither an  *)
(* old result nor one on its way is taken for the one waited for.           *)
BalancesEqual == pc # "not_equal"

(* A wait ends, with the relayer or the chains at a standstill too.         *)
WaitEnds == (pc = "wait") ~> (pc # "wait")
===============================================================================
