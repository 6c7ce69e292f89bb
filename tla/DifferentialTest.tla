-------------------------- MODULE DifferentialTest --------------------------
(***************************************************************************)
(* What a run of the harness promises, whatever phases it goes through:    *)
(* every chosen scenario is judged in its turn, for good; pass or fail say *)
(* whether the system under test agreed with the policy; and the exit code *)
(* sums the verdicts up.  A run that is interrupted just stops.            *)
(***************************************************************************)
EXTENDS Naturals, Sequences

CONSTANTS
    Procs,      \* the runs
    Chosen,     \* Chosen[p]: the scenarios of run p, in order
    Seeded      \* the runs that set up what the system under test judges by

VARIABLES
    verdict,    \* verdict[p]: the verdicts given so far
    agreed,     \* agreed[p]: the places of the scenarios the answer agreed on
    code        \* code[p]: "running", or "success" or "failure" at the end

testVars == <<verdict, agreed, code>>

Answered == {"pass", "fail"}
Verdicts == Answered \cup {"inconsistent", "error", "skipped"}

Init ==
    /\ verdict = [p \in Procs |-> <<>>]
    /\ agreed = [p \in Procs |-> {}]
    /\ code = [p \in Procs |-> "running"]

Judge(p, v) ==
    /\ code[p] = "running"
    /\ Len(verdict[p]) < Len(Chosen[p])
    /\ verdict' = [verdict EXCEPT ![p] = Append(@, v)]
    /\ \/ /\ agreed' = [agreed EXCEPT ![p] = @ \cup {Len(verdict[p]) + 1}]
          /\ v \in Answered /\ (p \in Seeded => v = "pass")
       \/ agreed' = agreed /\ (p \in Seeded => v # "pass")
    /\ UNCHANGED code

Close(p) ==
    /\ code[p] = "running"
    /\ Len(verdict[p]) = Len(Chosen[p])
    /\ code' = [code EXCEPT ![p] =
          IF \A n \in DOMAIN Chosen[p] : verdict[p][n] = "pass" THEN "success" ELSE "failure"]
    /\ UNCHANGED <<verdict, agreed>>

Next == \E p \in Procs : Close(p) \/ \E v \in Verdicts : Judge(p, v)

Spec == Init /\ [][Next]_testVars
=============================================================================
