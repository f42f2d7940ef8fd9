------------------------------ MODULE GlobalSetup ------------------------------
(***************************************************************************)
(* The life of the containers over several runs of vitest.  Each run is a   *)
(* process of its own (package.json chains one per test file): its global    *)
(* setup (src/global_setup.ts, with setup() of src/helpers/setup.ts) stops   *)
(* what an earlier run may have left, starts the containers, waits for them  *)
(* and funds the wallets; its teardown stops them again.  What happens to    *)
(* the containers is all that one run hands to the next.                     *)
(*                                                                           *)
(* `docker compose` is external.  `up -d` leaves a running container alone,  *)
(* and the chain lives in its container.  `down` may fail, or end well and   *)
(* leave something behind - what the "hack" of the teardown is there for.    *)
(***************************************************************************)
EXTENDS Naturals

CONSTANT MaxRuns     \* bound: runs of vitest

ASSUME BoundsAssumption == MaxRuns \in Nat \ {0}

VARIABLES
  run,          \* the number of the run
  pc,           \* where its main process is
  status,       \* how the last process ended
  noDocker,     \* NO_DOCKER is set for this run
  chain,        \* the run whose `up -d` created the chain, 0: no containers
  stops         \* stops[p]: how the stop this run made at p ended

vars == <<run, pc, status, noDocker, chain, stops>>

PC == {"stop", "start", "wait", "fund", "tests", "teardown", "again", "exited"}

(* The places of the three `make stop-cosmopark` of a run, and their ends   *)
StopPlace == {"stop", "teardown", "again"}
Outcome == {"none", "done", "left", "failed"}
NoStops == [p \in StopPlace |-> "none"]

NoChain == 0

Init ==
  /\ run = 1 /\ pc = "stop" /\ status = "ok" /\ noDocker \in BOOLEAN
  /\ chain = NoChain /\ stops = NoStops

Exit(how) == pc' = "exited" /\ status' = how /\ UNCHANGED <<run, noDocker>>
Goto(place) == pc' = place /\ UNCHANGED <<run, status, noDocker>>

-------------------------------------------------------------------------------
(* make stop-cosmopark *)

Stopped(how) == stops' = [stops EXCEPT ![pc] = how]

Down == chain' = NoChain /\ Stopped("done")
DownLeavesSome == chain # NoChain /\ UNCHANGED chain /\ Stopped("left")
DownFails == UNCHANGED chain /\ Stopped("failed")

(* a slip: setup() does not stop what is still there *)
StopSkipped ==
  /\ pc = "stop"
  /\ Goto(IF noDocker THEN "fund" ELSE "start")
  /\ UNCHANGED <<chain, stops>>

(* setup(): nothing to do without docker; an error of the stop is ignored.  *)
Stop ==
  /\ pc = "stop"
  /\ IF noDocker
       THEN Goto("fund") /\ UNCHANGED <<chain, stops>>
       ELSE Goto("start") /\ (Down \/ DownLeavesSome \/ DownFails)

(* make start-cosmopark: containers that run are left alone; when it fails  *)
(* they may be there or not.                                                *)
Up == IF chain = NoChain THEN run ELSE chain

Start ==
  /\ pc = "start"
  /\ \/ Goto("wait") /\ chain' = Up
     \/ Exit("error") /\ chain' \in {chain, Up}
  /\ UNCHANGED stops

(* showContractsHashes, waitForHTTP, waitForChannel: done, or setup throws. *)
Wait ==
  /\ pc = "wait"
  /\ Goto("fund") \/ Exit("error")
  /\ UNCHANGED <<chain, stops>>

(* The four calls of fundWallets, then provide('mnemonics').                *)
Fund ==
  /\ pc = "fund"
  /\ Goto("tests") \/ Exit("error")
  /\ UNCHANGED <<chain, stops>>

(* The tests pass or fail; the teardown that global setup returned runs in  *)
(* either case.                                                             *)
Tests ==
  /\ pc = "tests"
  /\ pc' = "teardown" /\ status' \in {"ok", "error"}
  /\ UNCHANGED <<run, noDocker, chain, stops>>

(* a slip: the containers are stopped once *)
TeardownOnce ==
  /\ pc = "teardown"
  /\ IF noDocker
       THEN Exit(status) /\ UNCHANGED <<chain, stops>>
       ELSE \/ Exit(status) /\ (Down \/ DownLeavesSome)
            \/ Exit("error") /\ DownFails

(* The teardown: two stops; an error of the first one skips the second.     *)
Teardown ==
  /\ pc = "teardown"
  /\ IF noDocker
       THEN Exit(status) /\ UNCHANGED <<chain, stops>>
       ELSE \/ Goto("again") /\ (Down \/ DownLeavesSome)
            \/ Exit("error") /\ DownFails

TeardownAgain ==
  /\ pc = "again"
  /\ \/ Exit(status) /\ (Down \/ DownLeavesSome)
     \/ Exit("error") /\ DownFails

(* The process is killed: what it started stays. *)
Killed ==
  /\ pc # "exited"
  /\ Exit("error")
  /\ UNCHANGED <<chain, stops>>

(* The next run: `a && b` goes on after success, a person after an error.   *)
NextRun ==
  /\ pc = "exited" /\ run < MaxRuns
  /\ run' = run + 1 /\ pc' = "stop"
  /\ noDocker' \in BOOLEAN
  /\ stops' = NoStops
  /\ UNCHANGED <<status, chain>>

Next ==
  \/ Stop \/ Start \/ Wait \/ Fund \/ Tests
  \/ Teardown \/ TeardownAgain \/ Killed \/ NextRun

Spec == Init /\ [][Next]_vars

-------------------------------------------------------------------------------
TypeOK ==
  /\ run \in 1 .. MaxRuns
  /\ pc \in PC
  /\ status \in {"ok", "error"}
  /\ noDocker \in BOOLEAN
  /\ chain \in 0 .. run
  /\ stops \in [StopPlace -> Outcome]

(* A run with docker works on a chain of an earlier run - its heights, its  *)
(* spent funds, its proposals - only if its own stop went wrong, of which   *)
(* setup() says nothing: what a run that was killed, whose setup threw or   *)
(* whose teardown failed has left is cleaned up after by the next.          *)
FreshChain ==
  ~ noDocker /\ pc \in {"wait", "fund", "tests"} /\ chain # run =>
    stops["stop"] \in {"left", "failed"}

(* A run that ends well leaves no containers unless both stops of its       *)
(* teardown left some: the second stop makes up for the first.              *)
NothingLeft ==
  ~ noDocker /\ pc = "exited" /\ status = "ok" /\ chain # NoChain =>
    stops["teardown"] = "left" /\ stops["again"] = "left"
===============================================================================
