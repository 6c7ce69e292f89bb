-------------------------- MODULE ConsistencyGate --------------------------
(***************************************************************************)
(* check_scenario_consistency: the harness starts eflint-test.py on the    *)
(* scenario file of a manifest and believes its exit code.  The child is   *)
(* composed of its main thread (TestPool, with at most one test), the one  *)
(* UnitTest thread, and the reasoner behind it; the harness waits for it   *)
(* at most 60 seconds and then kills it.                                   *)
(*                                                                         *)
(* The manifest was loaded before, so the scenario file existed then; it   *)
(* may be gone when the child looks for it, and again when the test opens  *)
(* it.  A reasoner that ends too early shows in UnitTest.                  *)
(***************************************************************************)
EXTENDS UnitTest

CONSTANT DefaultJobs    \* -j, which the harness does not give

ASSUME GateAssumption == DefaultJobs \in Nat

VARIABLES
    gate,       \* "start", "waiting", then "consistent", "inconsistent" or "raised"
    found, n_jobs, main, todo, handles, scan, outputs, event, thread, result, errored, exit

Pool == INSTANCE TestPool WITH pc <- main, NTests <- 1, Jobs <- {DefaultJobs}, ReplMayDie <- TRUE

childVars == <<found, n_jobs, main, todo, handles, scan, outputs, event, thread, result, errored, exit>>
gateVars == <<vars, childVars, gate>>

(* main's loop over the files: a file that is not there is perrored.        *)
GateInit ==
    /\ Init /\ Pool!Init
    /\ errored <=> found = 0
    /\ gate = "start"

(* The tester script is looked for first; FileNotFoundError ends the gate.  *)
Launch ==
    /\ gate = "start"
    /\ gate' \in {"waiting", "raised"}
    /\ UNCHANGED <<vars, childVars>>

MainThread == gate = "waiting" /\ Pool!MainStep /\ UNCHANGED <<vars, gate>>

(* The pool sees of a test whether it reads on for ever, and its reports    *)
(* once it is through.                                                      *)
TestThread ==
    /\ gate = "waiting"
    /\ \/ /\ thread[1] = "running" /\ Next
          /\ CASE pc' = "stuck" -> Pool!ReadForever(1)
               [] pc' \in {"ended", "died"} ->
                    /\ Pool!RunTest(1)
                    /\ result'[1] = [failed |-> \E r \in Range(output') : r.kind = "Err",
                                     shown  |-> output' # <<>>]
               [] OTHER -> UNCHANGED childVars
       \/ (Pool!SetEvent(1) \/ Pool!Die(1)) /\ UNCHANGED vars
    /\ UNCHANGED gate

(* subprocess.run returns: consistent iff the exit code is 0.               *)
Answer ==
    /\ gate = "waiting" /\ main = "exited"
    /\ gate' = IF exit = 0 THEN "consistent" ELSE "inconsistent"
    /\ UNCHANGED <<vars, childVars>>

(* Variant of Timeout: the time is up, and nothing happens.                 *)
TimeoutForgotten ==
    /\ gate = "waiting" /\ main # "exited"
    /\ UNCHANGED gateVars

(* subprocess.run kills the child and raises TimeoutExpired.                *)
Timeout ==
    /\ gate = "waiting" /\ main # "exited"
    /\ gate' = "raised"
    /\ UNCHANGED <<vars, childVars>>

GateNext == Launch \/ MainThread \/ TestThread \/ Answer \/ Timeout

(* The operating system runs the harness, the child's threads and the       *)
(* timer; nothing is assumed of the reasoner.                               *)
GateSpec ==
    /\ GateInit /\ [][GateNext]_gateVars
    /\ WF_gateVars(Launch) /\ WF_gateVars(MainThread) /\ WF_gateVars(TestThread)
    /\ WF_gateVars(Answer) /\ WF_gateVars(Timeout)

-----------------------------------------------------------------------------
(* SAFETY.  The gate waits for what it judges by: a scenario that was found *)
(* is not called consistent while its test still runs, nor when the test    *)
(* reads on for ever; and every report of the test was printed.             *)
ConsistentIsThrough == gate = "consistent" /\ found = 1 =>
    /\ pc \in {"ended", "died"}
    /\ output # <<>> => outputs = <<1>>

(* LIVENESS.  The gate answers, also when the reasoner falls silent: the    *)
(* runner goes on to the next phase.                                        *)
GateEnds == <>(gate \notin {"start", "waiting"})

(* SAFETY, of the docstring: the unit tester "exits non-zero if any         *)
(* assertion fails".                                                        *)
ConsistentMeansHeld == gate = "consistent" =>
    \A k \in DOMAIN phrases : Failed(phrases[k]) \notin Range(output)
=============================================================================
