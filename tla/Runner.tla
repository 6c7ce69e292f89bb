------------------------------- MODULE Runner -------------------------------
(***************************************************************************)
(* run_scenario and the "run" command of the CLI: harness processes take   *)
(* the chosen manifests one after the other through the consistency gate,  *)
(* the oracle, the seeding of etcd, the Policy Enforcer (the system under  *)
(* test) and the comparator.  The processes share etcd and the enforcer;   *)
(* EtcdSeeder gives the seeding call by call.                              *)
(*                                                                         *)
(* The Policy Enforcer is external.  When etcd holds what it needs, the    *)
(* honest answer is the policy's decision on the models that etcd holds    *)
(* for the requested stewards; a faulty enforcer may answer anything.      *)
(***************************************************************************)
EXTENDS EtcdSeeder, Sequences, Policy, Comparator

CONSTANTS
    Chosen,         \* Chosen[p]: the manifests process p is asked to run, in order
    Options,        \* Options[p]: RunOptions of p
    Requester,      \* Requester[m]: request.user.user_name
    Asserted,       \* Asserted[m]: the assertions of m
    FactsOf,        \* FactsOf[t]: what agreement text t says
    Archetypes,     \* every archetype of the policy ...
    Providers,      \* ... and every compute provider
    Probed,         \* Probed[m]: the candidate archetypes of m
    Bodies,         \* bodies a faulty Policy Enforcer may answer with
    Malformed       \* a JSON object that cannot be read, say a number for a list

ASSUME RunnerAssumption ==
    /\ Chosen \in [Procs -> Seq(Manifests)]
    /\ Options \in [Procs -> [skip_consistency_gate : BOOLEAN,
                              skip_seeding : BOOLEAN, skip_sut : BOOLEAN]]
    /\ \A m \in Manifests : DecisionFields \subseteq Asserted[m]
    /\ \A m \in Manifests : \A s \in Agreed(m) :
          /\ Agreements[m][s] \in DOMAIN FactsOf
          /\ SpeaksFor(FactsOf[Agreements[m][s]], s)

VARIABLES
    stage,      \* stage[p]: the phase of run_scenario, or of the CLI loop
    at,         \* at[p]: the place in Chosen[p] of the scenario p is at, or was last
    outcome,    \* outcome[p]: the outcomes of the scenarios p has run
    body,       \* body[p]: the last response body, result.actual
    truthful,   \* truthful[p]: the places of the scenarios p asked about and whose
                \* answer was the policy's decision on what etcd held then
    exit        \* exit[p]: "success" is exit code 0, "failure" exit code 1

runnerVars == <<stage, at, outcome, body, truthful, exit>>
vars == <<seederVars, runnerVars>>

Stages == {"next", "gate", "oracle", "seed", "seeding", "sut", "ask", "compare",
           "exited", "killed"}

Outcomes == {"pass", "fail", "inconsistent", "error", "skipped"}

(* The manifest process p is at.                                           *)
Cur(p) == Chosen[p][at[p]]

RunnerTypeOK ==
    /\ TypeOK
    /\ stage \in [Procs -> Stages]
    /\ at \in [Procs -> Nat] /\ \A p \in Procs : at[p] <= Len(Chosen[p])
    /\ outcome \in [Procs -> Seq(Outcomes)] /\ DOMAIN body = Procs
    /\ truthful \in [Procs -> SUBSET Nat]
    /\ exit \in [Procs -> {"running", "success", "failure"}]

NoBody == [request_approved |-> Missing, valid_dataproviders |-> Missing,
           invalid_dataproviders |-> Missing, auth |-> Missing]

RunnerInit ==
    /\ Init
    /\ stage = [p \in Procs |-> "next"]
    /\ at = [p \in Procs |-> 0]
    /\ outcome = [p \in Procs |-> <<>>]
    /\ body = [p \in Procs |-> NoBody]
    /\ truthful = [p \in Procs |-> {}]
    /\ exit = [p \in Procs |-> "running"]

-----------------------------------------------------------------------------
(* The oracle's expected response, by Oracle's OracleExact.                *)
Expected(m) ==
    LET files == [s \in Agreed(m) |-> FactsOf[Agreements[m][s]]]
    IN  Projection(KnowledgeBase(files, Agreed(m), Requester[m], Requested[m]),
                   Requester[m], Requested[m], Probed[m], Providers)

(* The Policy Enforcer reads the shared rules and, for each requested      *)
(* steward with an eflint config, its model.  Anything else in those keys  *)
(* is outside what the harness sets up, and so is its answer.              *)
Interpretable(m) ==
    /\ etcd[RulesKey] = SharedRules[m]
    /\ \A s \in Requested[m] : etcd[ConfigKey(s)] \in {EflintConfig, Absent}

Loaded(m) == {s \in Requested[m] : etcd[ConfigKey(s)] = EflintConfig}

Dangling(m) == \E s \in Loaded(m) : etcd[ModelKey(s)] \notin DOMAIN FactsOf

Decision(m) ==
    LET files == [s \in Loaded(m) |-> FactsOf[etcd[ModelKey(s)]]]
    IN  Projection(KnowledgeBase(files, Loaded(m), Requester[m], Requested[m]),
                   Requester[m], Requested[m], Archetypes, Providers)

Tokens(approved) == IF approved THEN [access_token |-> "token", refresh_token |-> Missing]
                    ELSE Missing

HonestBody(m) ==
    LET d == Decision(m)
    IN  [request_approved |-> d.request_approved,
         valid_dataproviders |-> d.valid_dataproviders,
         invalid_dataproviders |-> d.invalid_dataproviders,
         auth |-> Tokens(d.request_approved)]

(* A body that states the policy's decision, with a token when one is due. *)
Truthful(m, b) ==
    /\ Interpretable(m) /\ ~Dangling(m) /\ b # Malformed
    /\ Statements(Normalise(b)) = Statements(Decision(m))
    /\ "auth_present_when_approved" \in Asserted[m] /\ Decision(m).request_approved
          => Normalise(b).has_nonempty_auth

-----------------------------------------------------------------------------
(* run_scenario returns with outcome o; the CLI goes on to the next one.   *)
Conclude(p, o) ==
    /\ stage' = [stage EXCEPT ![p] = "next"]
    /\ outcome' = [outcome EXCEPT ![p] = Append(@, o)]
    /\ UNCHANGED <<at, body, truthful, exit>>

Goto(p, s) ==
    /\ stage' = [stage EXCEPT ![p] = s]
    /\ UNCHANGED <<at, outcome, body, truthful, exit>>

(* A finished seeding no longer matters once the run is concluded.         *)
LeaveStore(p) == IF pc[p] = "seeded" THEN Release(p) ELSE UNCHANGED seederVars

(* Variant of NextScenario: a scenario that ended in an error is run again. *)
NextScenarioRetrying(p) ==
    /\ stage[p] = "next"
    /\ \/ /\ at[p] < Len(Chosen[p])
          /\ at' = [at EXCEPT ![p] = @ + 1]
          /\ UNCHANGED outcome
       \/ /\ at[p] > 0 /\ outcome[p][at[p]] = "error"
          /\ outcome' = [outcome EXCEPT ![p] = SubSeq(@, 1, at[p] - 1)]
          /\ UNCHANGED at
    /\ stage' = [stage EXCEPT ![p] =
          IF Options[p].skip_consistency_gate THEN "oracle" ELSE "gate"]
    /\ UNCHANGED <<seederVars, body, truthful, exit>>

(* The loop of _cmd_run.  An id given twice is run twice.                  *)
NextScenario(p) ==
    /\ stage[p] = "next"
    /\ at[p] < Len(Chosen[p])
    /\ at' = [at EXCEPT ![p] = @ + 1]
    /\ stage' = [stage EXCEPT ![p] =
          IF Options[p].skip_consistency_gate THEN "oracle" ELSE "gate"]
    /\ UNCHANGED <<seederVars, outcome, body, truthful, exit>>

(* Variant of Gate: inconsistent is recorded, and the run goes on.          *)
GateGoesOn(p) ==
    /\ stage[p] = "gate"
    /\ stage' = [stage EXCEPT ![p] = "oracle"]
    /\ outcome' = [outcome EXCEPT ![p] = Append(@, "inconsistent")]
    /\ UNCHANGED <<seederVars, at, body, truthful, exit>>

(* check_scenario_consistency: consistent, inconsistent, or an exception.  *)
Gate(p) ==
    /\ stage[p] = "gate"
    /\ Goto(p, "oracle") \/ Conclude(p, "inconsistent") \/ Conclude(p, "error")
    /\ UNCHANGED seederVars

(* derive_expected, which may raise.  It may also wait for ever, for a line *)
(* of the reasoner: it is the one phase without a timeout.                 *)
Derive(p) ==
    /\ stage[p] = "oracle"
    /\ Goto(p, IF Options[p].skip_seeding THEN "sut" ELSE "seed") \/ Conclude(p, "error")
    /\ UNCHANGED seederVars

(* seeder.health, then seed_manifest call by call.                         *)
SeedHealth(p) ==
    /\ stage[p] = "seed"
    /\ \/ Begin(p, Cur(p)) /\ Goto(p, "seeding")
       \/ UNCHANGED seederVars /\ Conclude(p, "error")

SeedCall(p) == (Put(p) \/ Delete(p)) /\ UNCHANGED runnerVars

SeedEnd(p) == Finish(p) /\ Goto(p, "sut")

(* Variant of SeedError: the Policy Enforcer is asked nevertheless.         *)
SeedErrorIgnored(p) == Fail(p) /\ Goto(p, "sut")

SeedError(p) == Fail(p) /\ Conclude(p, "error")

SkipSut(p) ==
    /\ stage[p] = "sut"
    /\ Options[p].skip_sut
    /\ Conclude(p, "skipped")
    /\ LeaveStore(p)

SutHealth(p) ==
    /\ stage[p] = "sut"
    /\ ~Options[p].skip_sut
    /\ \/ Goto(p, "ask") /\ UNCHANGED seederVars
       \/ Conclude(p, "error") /\ LeaveStore(p)

(* POST /validate: the body is fixed by what etcd holds at this moment.    *)
Answers(m) == Bodies \cup (IF Interpretable(m) /\ ~Dangling(m) THEN {HonestBody(m)} ELSE {})

Validate(p) ==
    /\ stage[p] = "ask"
    /\ \E b \in Answers(Cur(p)) :
          /\ body' = [body EXCEPT ![p] = b]
          /\ truthful' = [truthful EXCEPT ![p] =
                IF Truthful(Cur(p), b) THEN @ \cup {at[p]} ELSE @ \ {at[p]}]
    /\ stage' = [stage EXCEPT ![p] = "compare"]
    /\ UNCHANGED <<seederVars, at, outcome, exit>>

(* A network error, another status than 200, or a body that is no object.  *)
SutError(p) ==
    /\ stage[p] = "ask"
    /\ Conclude(p, "error")
    /\ LeaveStore(p)

(* Reading a malformed body raises, and compare with it.  A field that can *)
(* be converted is (Normalise) and raises nothing.                         *)
CompareError(p) ==
    /\ stage[p] = "compare"
    /\ body[p] = Malformed
    /\ Conclude(p, "error")
    /\ LeaveStore(p)

CompareBody(p) ==
    /\ stage[p] = "compare"
    /\ body[p] # Malformed
    /\ Conclude(p, IF Compare(Asserted[Cur(p)], Expected(Cur(p)), Normalise(body[p]))
                   THEN "pass" ELSE "fail")
    /\ LeaveStore(p)

(* Variant of Exit: only a fail counts against the run.                     *)
ExitUnlessFail(p) ==
    /\ stage[p] = "next"
    /\ at[p] = Len(Chosen[p])
    /\ stage' = [stage EXCEPT ![p] = "exited"]
    /\ exit' = [exit EXCEPT ![p] =
          IF \A n \in DOMAIN Chosen[p] : outcome[p][n] # "fail" THEN "success" ELSE "failure"]
    /\ UNCHANGED <<seederVars, at, outcome, body, truthful>>

(* The CLI loop is through: exit 0 iff every result was ok, i.e. a pass.   *)
Exit(p) ==
    /\ stage[p] = "next"
    /\ at[p] = Len(Chosen[p])
    /\ stage' = [stage EXCEPT ![p] = "exited"]
    /\ exit' = [exit EXCEPT ![p] =
          IF \A n \in DOMAIN Chosen[p] : outcome[p][n] = "pass" THEN "success" ELSE "failure"]
    /\ UNCHANGED <<seederVars, at, outcome, body, truthful>>

(* Interrupted or killed, possibly in the middle of a call to etcd.        *)
Kill(p) ==
    /\ stage[p] \notin {"exited", "killed"}
    /\ Goto(p, "killed")
    /\ IF pc[p] = "seeding" THEN Fail(p) ELSE LeaveStore(p)

RunStep(p) ==
    \/ NextScenario(p) \/ Gate(p) \/ Derive(p) \/ SeedHealth(p) \/ SeedCall(p)
    \/ SeedEnd(p) \/ SeedError(p) \/ SkipSut(p) \/ SutHealth(p) \/ Validate(p)
    \/ SutError(p) \/ CompareError(p) \/ CompareBody(p) \/ Exit(p)

RunnerNext ==
    \/ \E p \in Procs : RunStep(p) \/ Kill(p)
    \/ \E w \in late : Land(w) /\ UNCHANGED runnerVars

(* No process waits for another, and the gate and every HTTP call have a   *)
(* timeout.  Nothing is assumed of derive_expected, which may wait for the *)
(* reasoner for ever, nor of kills, nor that a late write ever lands.      *)
RunnerSafeSpec == RunnerInit /\ [][RunnerNext]_vars
RunnerSpec == RunnerSafeSpec /\ \A p \in Procs : WF_vars(stage[p] # "oracle" /\ RunStep(p))

-----------------------------------------------------------------------------
(* The candidates of every manifest are all the archetypes of the policy,  *)
(* as in the shipped ones: the oracle does not expect less than there is.  *)
CandidatesComplete == \A m \in Manifests : Probed[m] = Archetypes

(* SAFETY.  When no seeding interferes, the verdict on a scenario that was *)
(* seeded is about the Policy Enforcer and nothing else: it is a pass when *)
(* the enforcer answered with the policy's decision on the fixtures it was *)
(* given, and a fail when it did not.  Neither a stale or half-written     *)
(* store nor another process turns an honest answer into a fail, or hides  *)
(* a wrong one.                                                            *)
VerdictTruthful == \A p \in Procs : ~Options[p].skip_seeding =>
    \A n \in DOMAIN outcome[p] :
       outcome[p][n] \in {"pass", "fail"} => (outcome[p][n] = "pass" <=> n \in truthful[p])

(* SAFETY.  Exit code 0 vouches for every chosen scenario: each one was    *)
(* answered truthfully; none was skipped, inconsistent or in error.        *)
ExitZeroSound == \A p \in Procs : exit[p] = "success" /\ ~Options[p].skip_seeding =>
    DOMAIN Chosen[p] \subseteq truthful[p]

(* SAFETY, of one step.  A scenario that its own self-test rejects never   *)
(* touches the store and is never put to the Policy Enforcer, also not     *)
(* by a run that is already under way in the same process.                 *)
OnlyConsistentRunsWrite == [][\A p \in Procs :
    done'[p] # done[p] \/ body'[p] # body[p] => at[p] \notin DOMAIN outcome[p]]_vars

(* SAFETY, of every step.  The phases, the failures, the kills and the      *)
(* other processes do not show: a run implements the differential test,    *)
(* scenarios judged in their order, each once, and by the answer alone.    *)
Test == INSTANCE DifferentialTest WITH
    verdict <- outcome,
    agreed  <- [p \in Procs |-> {n \in truthful[p] \cap DOMAIN outcome[p] :
                                    outcome[p][n] \in {"pass", "fail"}}],
    code    <- exit,
    Seeded  <- {p \in Procs : ~Options[p].skip_seeding}

ImplementsTest == Test!Spec

(* LIVENESS.  Every invocation ends, with an exit code unless it is killed, *)
(* whatever fails on the way and however often: only a derivation that     *)
(* never returns can keep it, whose driver reads without a timeout.        *)
RunsEnd == \A p \in Procs :
    <>(stage[p] \in {"exited", "killed"}) \/ <>[](stage[p] = "oracle")

-----------------------------------------------------------------------------
(* The inductive strengthening of the two safety invariants.               *)

InStore == {"sut", "ask", "compare"}

(* Where a process is in its scenario tells where its seeding is.          *)
StageMatchesSeeding == \A p \in Procs :
    /\ stage[p] = "seeding" <=> pc[p] = "seeding"
    /\ pc[p] = "seeded" => stage[p] \in InStore
    /\ stage[p] \in InStore /\ ~Options[p].skip_seeding => pc[p] = "seeded"
    /\ pc[p] # "idle" => man[p] = Cur(p)

(* A scenario under way has no outcome yet, all before it have.            *)
UnderWay(p) == stage[p] \notin {"next", "exited", "killed"}

CurrentIsOpen == \A p \in Procs : stage[p] # "killed" =>
    at[p] = Len(outcome[p]) + (IF UnderWay(p) THEN 1 ELSE 0)

(* The comparator's verdict on body b, which depends on no variable.       *)
Accepted(m, b) == b # Malformed /\ Compare(Asserted[m], Expected(m), Normalise(b))

(* An answer under comparison will be accepted exactly if it was truthful. *)
AnswerIsJudged == \A p \in Procs : stage[p] = "compare" /\ ~Options[p].skip_seeding =>
    (at[p] \in truthful[p] <=> Accepted(Cur(p), body[p]))

ExitVouches == \A p \in Procs : exit[p] # "running" =>
    /\ stage[p] = "exited"
    /\ Len(outcome[p]) = Len(Chosen[p])
    /\ exit[p] = "success" => \A n \in DOMAIN Chosen[p] : outcome[p][n] = "pass"

RunnerInv ==
    /\ RunnerTypeOK /\ StageMatchesSeeding /\ CurrentIsOpen
    /\ AnswerIsJudged /\ VerdictTruthful /\ ExitVouches
=============================================================================
