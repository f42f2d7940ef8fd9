------------------------------ MODULE TestScript ------------------------------
(***************************************************************************)
(* A test file as the list of the steps it awaits one after the other       *)
(* (vitest runs the tests of a file in order), beside the height of the     *)
(* chain that it counts its waits in.                                       *)
(***************************************************************************)
EXTENDS Naturals, Sequences

VARIABLES
  file,        \* the name of the file
  tests,       \* its steps
  step,        \* the next of them
  verdict,     \* "running", or how the file ended
  height,      \* height of Neutron
  begun        \* the height at which the step began

scriptVars == <<file, tests, step, verdict, height, begun>>

(* f, and g where f has no value *)
Over(f, g) == [x \in DOMAIN f \union DOMAIN g |-> IF x \in DOMAIN f THEN f[x] ELSE g[x]]

(* What tests do, with an argument *)
Do(op, arg) == [op |-> op, arg |-> arg]

(* One of the `files`, a function from their names to their steps *)
ScriptInit(files) ==
  /\ file \in DOMAIN files /\ tests = files[file]
  /\ step = 1 /\ verdict = "running"
  /\ height = 1 /\ begun = 1

Running(op) ==
  /\ verdict = "running" /\ step <= Len(tests)
  /\ tests[step].op = op

Arg == tests[step].arg

(* waitBlocks(n) *)
BlocksPassed(n) == height >= begun + n

StepDone ==
  /\ step' = step + 1 /\ begun' = height
  /\ UNCHANGED <<file, tests, verdict, height>>

(* The next test of the file, for a vitest without --bail *)
NextTestBegins ==
  /\ LET later == {i \in step + 1 .. Len(tests) : tests[i].op = "test"}
     IN  step' = CHOOSE i \in later \union {Len(tests) + 1} : \A j \in later : i <= j
  /\ begun' = height
  /\ UNCHANGED <<file, tests, verdict, height>>

Ends(how) == verdict' = how /\ UNCHANGED <<file, tests, step, height, begun>>

(* A test throws: with --bail 1, as in package.json, the file is over;      *)
(* vitest.config.mts alone lets it go on.                                   *)
Throws == Ends("bailed") \/ NextTestBegins

Expect(condition, otherwise) == IF condition THEN StepDone ELSE Ends(otherwise)

ScriptTypeOK ==
  /\ step \in 1 .. Len(tests) + 1
  /\ height \in Nat /\ begun \in 1 .. height
===============================================================================
