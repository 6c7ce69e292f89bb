# TLA+ verification of the DYNAMOS eFLINT test harness

The repository tests a live DYNAMOS *Policy Enforcer* against an *oracle*: both
decide the same data-access requests by the same eFLINT policy, and the harness
reports where they differ. The value of such a harness is the trust one can put
in its verdicts: a `pass` must mean that the Policy Enforcer decided as the policy
says, a `fail` that it did not, and neither may be an artefact of leftovers in
etcd, of a failed or late HTTP call, of another harness process, of how answers
are matched to queries, or of a phase that silently did not happen. The modules
here model the harness with these questions in mind. They are checked with TLC on
small instances; the central ones are proved with TLAPS for every instance.

Paths below are relative to the repository's root.

## 1. Inventory

### How the parts interact

```
 manifest.yaml ──► run command (cli.py) ──► run_scenario (runner.py)
                                              │ 1 gate: eflint-test.py as a subprocess ──► eflint-repl
                                              │ 2 oracle: derive_expected ──► EflintRepl ──► eflint-repl
                                              │ 3 seeder: seed_manifest ──HTTP──► etcd of DYNAMOS
                                              │ 4 client: validate ──HTTP──► Policy Enforcer ──► etcd
                                              │ 5 comparator: compare(expected, actual)
                                              ▼
                              pass / fail / inconsistent / error / skipped, exit code
```

Several harness processes may run at once (CLI invocations, test workers). They
share nothing but etcd and the Policy Enforcer. Nothing locks etcd for a run.

| component | state | operations | hard behaviour | what makes it correct |
|---|---|---|---|---|
| **Runner and `run` command** `harness/runner.py`, `harness/cli.py` | phase, outcome per scenario, exit code | `run_scenario`'s five phases with three skip flags; the loop of `run` | an exception in any phase, a kill between any two steps, parallel processes | the verdict is about the enforcer only; exit code 0 vouches for all scenarios |
| **Etcd seeder** `harness/etcd_seeder.py` | etcd itself (shared) | `put`, `delete`, `seed_manifest` (shared rules, then per agreement model and config, then per steward without agreement delete config and model) | calls that fail, time out, are applied late; kill between two calls; interleaved seedings; leftovers | at the end etcd holds the manifest's fixtures and no leftovers for its stewards; never a config without its model |
| **Policy** `dynamos-test-scenarios/*.eflint` | postulated facts | derived facts: permitted, valid archetype, valid provider | which facts a decision depends on | decisions are coherent and depend on the requested stewards' agreements only |
| **Oracle** `harness/oracle.py` | declared invariants, answers by name | candidate discovery, four rounds of queries, projection | names that collide once sanitised; rejected phrases; answers read from unmarked text | the expectation is the policy's decision |
| **REPL driver** `harness/eflint_repl.py` | trigger fact, two pipes, a subprocess | constructor, `submit`, `close` | concurrency with the reasoner; unmarked output; full pipes; end of the process at any point; start-up timeout | one submission returns exactly its own output, or raises |
| **Client and comparator** `harness/sut_client.py`, `harness/comparator.py` | none | `health`, `validate`; normalisation; `compare` | absent and null fields; network errors; wrong shapes | ok exactly when both state the same things |
| **eflint-test pool** `eflint-test.py: main, DoneContext, UnitTest` | threads, event, outputs, `ERRORED` | spawn, sleep, prune, join, exit | races on the event; threads between `run()` and dead; swallowed exceptions | bound on jobs; every output once; main returns; exit code tells failures |
| **eflint-test thread and reasoner wrapper** `eflint-test.py: UnitTest, Reasoner` | phrases, history of effects, handled violations, reports | `run`, `submit`, `check`, `violated` | exceptions that end the thread silently; order of effects; wildcards; violations that repeat | comments are judged by what was printed before them; no violation overlooked; the last report vouches for the file |
| **eflint-test parsers** `PhraseParser, Phrase, Instance, Effect` | text not read yet, stack of modes | split a text, parse literals, instances, comments, effect lines | malformed phrases, comments in strings, nested brackets, quotes inside arguments | every phrase once, in order; a comment and a line of the reasoner are about the same instance, or reported |
| **Flattener** `harness/eflint_flatten.py`, `flatten.py` | current phrase | `flatten_file(s)`, in two copies | indented comments, first lines, directives; the copies drift apart | oracle and gate read the same policy |
| **Manifest loader and command line** `harness/manifest.py`, `harness/cli.py` | table of manifests by id | load, validate, discover, resolve ids, exit | duplicate ids, missing or null fields, one bad file among many | what is in the directory is what is run; exit 0 is earned |
| **Consistency gate** `harness/scenario_consistency.py` | none | run `eflint-test.py` on the scenario file, read its exit code | a process of two threads and a reasoner behind one exit code; 60 s timeout | it judges by a test that is through, and answers |
| **Scenario files** `dynamos-test-scenarios/scenario_*.eflint` | none | postulate, submit an act, assert | a session goes on through changes of policy, subject and object | they agree with the policy, and would not with another |
| **Formatting, reports, logging** | none | output | none | none |

`PROJECT.json` lists these components with what is modelled of each, and the
hazards of the code line by line with the properties that watch them.

## 2. Modules

```
 EtcdSeeder ──┐
 Policy ──────┼──► Runner ──► MCRunner (+ ShippedScenarios)
 Comparator ──┘       └─────► RunnerProofs (+ DecisionProofs)
 DifferentialTest ◄── implemented by Runner, proved in RunnerProofs

 Policy ──► Oracle ──► OracleCalls (+ PhraseCalls) ──► MCOracle (+ ShippedScenarios)
                           └───────────────────────► OracleProofs (+ DecisionProofs)
 PhraseCalls ◄── implemented by ReplDriver, proved in ReplDriverProofs
 Oracle ◄── implemented by OracleCalls, proved in OracleProofs

 Ordering ─► UnitTest ─┐
 TestPool ─────────────┴─► ConsistencyGate ──► SelfTests (+ Policy, ShippedScenarios) ──► MCConsistencyGate
     └─► TestPoolProofs          └─► UnitTestProofs (+ TestPoolProofs)

 Comparator ──► ManifestLoader ──► Tasks (+ Policy, Readers) ──┬──► MCAlgorithms
 Ordering ──► Readers ──► Instances ───────────────────────────┘
 Tasks ──► TaskProofs (+ DecisionProofs)

 Policy, Comparator ──► DecisionProofs
 SequenceFacts (on Ordering) ──► UnitTestProofs, ReplDriverProofs, TaskProofs
```

An arrow is EXTENDS or INSTANCE. `ConsistencyGate` is the inside of the phase that
`Runner` has as one step with any of the gate's three answers.

* **EtcdSeeder.** `etcd` maps the DYNAMOS keys to texts. A process goes through
  `idle`, `seeding`, `seeded`; `done[p]` is the set of keys its seeding has
  written. `Due` is the program order of `seed_manifest`: the shared rules, then
  steward by steward the two puts or the two deletes, agreements first. (The
  order in which a manifest lists its stewards is left open.) `Put` and `Delete`
  are one HTTP call each. `Fail` is a call that raised, or the death of the
  process in it: etcd did not apply the call, did, or will (`late`, `Land`).
  `Release` corresponds to nothing in the code: it marks the moment from which the run
  no longer relies on what it seeded.
* **Policy.** The rules of `02_agreement_rules.eflint` as predicates over a set of
  postulated facts, including `Conditioned by`, and `Projection`, the decision
  both sides exchange. `KnowledgeBase` is what a request and the loaded agreement
  files contribute.
* **Oracle.** `Load`, then one `Query` per invariant in `derive_expected`'s four
  rounds, then `Project`. The candidates are what the manifest lists, or else what the
  regular expressions find in the raw text of the agreements (`Mentioned`), which need
  not be a fact: a comment is text too. Answers are kept by the *generated name*, so a
  collision of names is a collision in the model: `InvariantName` is what
  `_NameGen.next` computes, the letters of the hint and the counter. The reasoner
  is external; for the manifests in `Rejecting` it may reject any phrase, and
  then reports nothing.
* **OracleCalls.** `derive_expected` on its driver: a phrase is submitted (`SubmitFact`,
  `SubmitQuery`) and answered (`FactAnswered`, `QueryAnswered`) in two steps of
  `PhraseCalls`, the reasoner may end in between (`ReasonerEnds`), a call may raise
  (`Raised`), and the process is given back either way (`Leave`). A constructor that
  raises (`Aborted`) leaves it behind, because `oracle.py:86` is not in its `with` block
  yet. An answer begins with
  the lines left over from the phrase before; every line may report a violated invariant
  that is declared by then, old ones included. `Sooner` is the order of the loops over
  stewards and candidates.
* **ReplDriver** is `EflintRepl` and a concurrent external reasoner over two
  pipes of bounded size; **PhraseCalls** is what its user relies on. Output lines
  carry a tag in the model that the driver never looks at: it only recognises the
  ready line and the echo it expects, as in the code. `Choked` is the state in which
  both sides write into full pipes.
* **Comparator.** The normalisation with its defaults and conversions (`Bool`: any text
  is true, `"false"` too; `List`: a text becomes its characters), and `Compare`;
  `Statements` is the independent reference it is measured against.
* **Runner.** Extends the seeder with the phases of `run_scenario` and the loop and
  exit code of `run`. One action per phase and outcome; `SeedCall` is a call of
  the seeder. The Policy Enforcer is external: it may answer as the policy decides
  on what etcd holds at that moment for the requested stewards, or with a body of
  a faulty enforcer; when etcd holds something the harness never sets up, it
  answers anything from that set. A process goes through its
  *list* of scenarios, in which an id may come twice: `at[p]` is its place, `outcome[p]`
  the outcomes so far. `truthful[p]` is a history variable: the places at which the
  enforcer's answer was the policy's decision.
* **DifferentialTest** is what the whole harness promises: every place of the list
  is judged in its turn, once and for good, pass or fail say whether the answer agreed with the
  policy, the exit code sums the verdicts up. `Runner` implements it under the
  mapping `Test`.
* **TestPool.** The main thread of `eflint-test.py` statement by statement where
  another thread can interfere, and each test thread from start to dead:
  `running`, `leaving` (run is over), `signalled` (the event is set), `dead`.
  `stuck` is a thread whose reasoner ended while it waits for a line. How many
  files are `found`, none included, and `-j` are open.
* **UnitTest.** The inside of one such thread: `Parse` (all phrases first, with the
  parser's habit of yielding the previous phrase again after a malformed one),
  `Start`, then one action per kind of phrase, and `End` with the warnings and the
  response time. `effects` is the reasoner's history; `Derived` and `KeyError` are
  the loop of `check` over it, `Covers` and `handled` that of `violated`. An
  exception anywhere is `died`: `DoneContext` swallows it; one is a file that is no
  text (`Undecodable`), which is no `IOError`. What the reasoner prints
  for a phrase, given the phrases before it, is the constant operator `Prints`.
* **Ordering.** `Ascending(S)` lists a set of places in order: what a loop that keeps
  some lines, phrases or effects leaves of them. `Picked(s, S)` is what s has there.
* **ConsistencyGate** composes the two into the process the gate starts: `Pool` is
  `TestPool` with one file, its `result` is read off the `output` of `UnitTest`,
  and the harness waits, gets the exit code, or kills the process when the 60 s are
  over.
* **SelfTests.** Five shipped scenario files phrase by phrase, and the reasoner as it
  would answer them: `Facts` after the phrases so far, by the rules of `Policy` and
  the act of `01_interface_policy.eflint`, and the violations `PolicyPrints` prints.
  The five other scenarios (01, 02a, 03a, 03b, 04b) ask the same questions of other
  stewards. `Loaded` is a file with what its header says is loaded before it,
  `Misloaded` the same with one agreement forgotten.
* **Readers.** A text is a sequence of lines of tokens. `FlattenFile` and
  `FlattenScript` are the two flatteners, `RawPhrases` is `PhraseParser.phrases` with
  its stack of modes; both loops are recursive functions of the number of lines or tokens
  read. `MeantPhrases` and `Items` are the independent reading, by the layout, they are
  measured against.
* **Instances.** `Instance.parse` over tokens: literals in the order the code tries
  them, integers by their number (`Number`, so leading zeros do not tell), then names
  with arguments, recursively; `ParseComment` and `ParseEffect` are
  its two users. `ToEflint` is the inverse it is measured against.
* **ManifestLoader.** `Loads` is everything `load_manifest` demands of a raw YAML
  mapping, `Loaded` what it makes of it; `Discovered`, `Resolved`, `Chosen` and
  `ExitCode` are the directory, the table of ids and the dispatch of `main`.
* **Tasks.** The comparator and the command line as tasks with a result, over any
  expectations, bodies, directories and command lines; and a text that is written line by
  line, for the readers, which are functions of it. With the properties each promises.
* **ShippedScenarios.** The two agreement files, the seven manifests and the
  hand-derived hypothesis table of `tests/test_scenarios.py`.
* **MC...** modules give instances, **...Proofs** modules hold the proofs.
  `MCAlgorithms` gives `Tasks` its bounded inputs and puts the parsers of comments and
  lines before theirs.

Definitions whose comment starts with *Variant* are small deviations of the
definition that follows, such as a dropped guard or a swapped order. No
specification uses them: each one is a bug that some property detects when it is
put in the place of the original, listed in `PROJECT.json` under `mutants`.

## 3. Runs

| run | instance and bounds | shows |
|---|---|---|
| `oracle` | on the driver: the seven manifests, the regression test, two manifests with colliding names, one with rejected phrases; 2 phrases of fixtures, up to 1 line in each part of an answer, candidates found in the text, one of them in a comment only, the reasoner may end | `OracleExact`, `HypothesisHolds`, `DenialsAreTrue`, `ServesOracle`, `DerivationEnds` |
| `oracle_failopen` | the manifest with rejected phrases | `HoldsOnlyWhenConfirmed` **violated** |
| `algorithms` | every coherent expectation and body shape over two stewards, one archetype, one provider; every text of up to 4 lines out of 16; instances nested twice with strings of up to 2 tokens, names of up to 3; directories of up to 3 manifests out of 12 | comparator: `OkIffSameStatements`, `OkIsCoherent`, `ApprovalCarriesToken`; readers: `OracleReadsPolicy`, `GateReadsScenario`, `ScriptReadsAlike`; parsers: `CommentsFindLines`, `ReportedOrRead`, `InvariantsFound`; loader: `NothingLeftOut`, `ExitZeroEarned` |
| `runner_shared` | 2 processes with 1 and 3 scenarios, one of them given twice, five faulty bodies (one with a text for a truth value) or the honest one, 1 late call, fresh and stale stores | `SeederInv`, `SeededInputsMatch`, `ConfigHasModel`, `RunnerInv`, `VerdictTruthful`, `ExitZeroSound`, `ImplementsTest` |
| `runner_flags` | 2 processes with 2 and 1 scenarios, one without gate and seeding, one that stops before the enforcer | `OnlyConsistentRunsWrite`, `RunsEnd` |
| `gate` | every file of up to 3 phrases with at most 2 submissions, 0 to 2 lines for each, two facts, an act, an invariant; and the shipped self-tests with their policy, and with one agreement forgotten | `UnitTypeOK`, `VerdictsSound`, `NothingOverlooked`, `TotalVouches`, `IdleRemovalsKill`, `ConsistentIsThrough`, `SelfTestsTell`, `GateEnds` |
| `pool_gate` | the same | `ConsistentMeansHeld` **violated** |
| `gate_unrequired` | the shipped files as they are | `RulesPickedUp` **violated** |
| `pool_busy` | up to 4 tests; 0, 1 or 2 jobs; reasoners may die | `PoolInv`, `AtMostNJobs`, `OutputsComplete`, `PoolEnds` |
| `pool_wakeup` | up to 2 tests, 1 job | `SleeperHasWaker` **violated** |
| `repl` | 2 phrases, parts of up to 2 lines, pipes of 1 phrase and 1 line, which can choke, the reasoner may end | `ReplTypeOK`, `InStep`, `ImplementsCalls` |
| `repl_startup` | 1 phrase, a reasoner of which nothing is assumed | `StartupBounded` **violated** |

**Why the bounds are enough.** Interference between seedings is between two
processes on one key, and a late call is one call: two processes and one late
call show every conflict, and the proofs cover more. The manifests in use differ
in exactly what matters: a steward with agreement, one without, one in two
manifests. In `runner_shared` a process with three scenarios meets its own
leftovers, and the first scenario again after another. The comparator treats archetypes and providers one by one, so one of
each suffices, and two stewards are needed to confuse them. A reader looks at one
line and one phrase under way: four lines hold an opening, a continuation, what
may stand between the two, and what comes after. `Instance.parse` treats each level
alike: an application within an application, beside an argument that holds a comma
or a bracket, shows what one level can do to the next. Three manifests are needed
for one that shadows another and one that must survive. In the pool two jobs
and four tests let threads end in every order around a pruning loop, and leave a
test to be spawned after it. For the driver two submissions are needed to see
lines fall into the next answer, and parts of two lines to fill a pipe in the
middle of a part. The oracle only asks whether a name is in an answer, so that in
`oracle` one line in each part is enough to report an old violation, the new one or none. In `gate` four effects on two facts before or around a
comment with a wildcard show every confusion of facts and of order, and two
submissions a violation that occurs before and after its comment.

Deadlock is not checked: every program here ends.

### Assumptions the checks make explicit

* `NoInterference`: the manifests in use agree on every key two of them touch
  (`Compatible`; the shipped ones do), or one process runs alone and abandoned
  calls are dropped (`Isolated`). Nothing in the code enforces either. Without it
  two processes overwrite each other's fixtures and `SeededInputsMatch` fails:
  parallel runs over edited agreements are not sound, and no property here says that
  they are: that hazard is open in the code. The runs use `Compatible` instances, where
  overwriting is harmless, and with them failures, kills and late calls are what is
  tried; agreements edited between the runs of one process (`Isolated`) are
  covered by the proofs only.
* `CandidatesComplete`: a manifest probes all archetypes of the policy, as the
  shipped ones do. A manifest that lists fewer makes an honest enforcer fail.
* Nothing is assumed of the pipes: with a pipe of one phrase and one line, `submit`,
  which writes twice before it reads, and the reasoner can block each other for ever.
  `ImplementsCalls` says that this state (`Choked`) is the only way in which a call does
  not end while the reasoner answers, and `NeverChoked` proves that it is out of reach
  when a pipe holds a phrase and a toggle, or all lines of one part of a response
  (`PipesSuffice`). A pipe of the operating system holds 64 KiB.
* `SpeaksFor` (in `RunnerAssumption`): an agreement file has facts about its own
  steward only, as the shipped ones do. `DecisionIsLocal` needs it.

### Fairness

* Runner: weak fairness of each process's own steps but for `derive_expected`. Every
  HTTP call has a timeout (5 s, 10 s for the enforcer), the gate's subprocess has one of
  60 s, and no step waits for another process. `derive_expected` reads lines of
  `eflint-repl` without a timeout (`eflint_repl.py:147` and `190`), so it is not taken to
  return: `RunsEnd` says that an invocation ends or stays in it for ever. Nothing is assumed of failures, kills, or late calls, which may never land.
* Gate: the operating system runs the harness, both threads of the child and the
  timer. Nothing is assumed of the reasoner: a test thread that reads for ever takes
  no step, and `GateEnds` holds by the timeout.
* Oracle: weak fairness of its own steps between two calls. Nothing is assumed of a call
  it has made, nor of the reasoner's end: `DerivationEnds` says that the process is given
  back unless a line never comes (`Waiting` for ever) or the constructor raised.
* Pool: the operating system runs every thread that can run. A stuck thread is
  not made to move.
* Driver: `DriverSpec` is fair to the driver and its timer only; `Spec` adds that
  the reasoner boots and answers as long as it lives. That a call ends is shown under
  the latter only (`CallsReturn` in `ImplementsCalls`).

## 4. Disagreements found

1. **The gate's exit code** (`pool_gate`). `scenario_consistency.py:57-58` relies
   on `eflint-test.py` exiting non-zero when an assertion fails. It returns 1 only
   after `perror`, which only file collection calls; a failed assertion is a
   report in the thread's output. An inconsistent scenario passes the gate.
   With the one file the gate passes, no exit code but 0 and that of an exception
   can occur: when the file is gone, main returns 0 for want of tests.
2. **Lost wake-up** (`pool_wakeup`). A thread sets the event before it is dead, and
   main clears the event before it waits; after an unlucky order main sleeps
   although no running test is left to wake it and others are not spawned yet.
   `PoolEnds` shows that this and a stuck thread are the only ways not to return,
   and that it needs every job in use: the gate, with one file, is not affected.
3. **The oracle fails open** (`oracle_failopen`). A query that the reasoner
   rejects has no violation line and counts as holding; the positive marker the
   docstrings mention is never looked for. `DenialsAreTrue` shows the converse:
   what the oracle denies is false.
4. **Start-up timeout** (`repl_startup`). The deadline is looked at only between
   two lines, so a silent reasoner blocks the constructor for ever.
5. **A gate without the policy** (`gate_unrequired`). The gate is said to pick up
   interface, rules and agreements by the `#require` directives of the scenario; no
   shipped scenario has one, so its comments are judged by a reasoner that never
   heard of the policy. `SelfTestsTell` shows that the files are right when the
   policy is there.

Met while modelling, with no text of the repository against them and so without a
run of their own:

* `Composite` looks for commas without regard to quotes, and `LitStr` accepts a
  missing closing quote: `f(",")` is read as `f("", "")`. `Writable` excludes it.
* A capitalised word is a string, so `//#violated !Name` about an invariant with a
  capitalised one-word name holds whatever happens; a name that begins with `not`
  is a negation; a name with a digit is malformed (`FindsInvariant` names these).
* `flatten.py` takes a directive for code, its copy in the harness skips it
  (`DirectivesApart` is what makes them agree).
* Of two manifests with one id the later file silently wins, and one manifest that
  does not load ends every command, also one that names another scenario.
* With `-j 0` the first test is never spawned and main waits for ever (`Stranded`).
* When the constructor of `EflintRepl` raises, `__exit__` is never called and the
  reasoner's process is not closed (`Aborted`, in `DerivationEnds`).
* `bool()` takes the text `"false"` in `request_approved` for an approval (`Bool`).
* A scenario file that cannot be decoded ends its test without a report, the exit code
  is 0, and the gate calls the scenario consistent (`Undecodable`).

## 5. Proofs

All results hold for every value of the constants that satisfies the assumptions named
in the modules.

**RunnerProofs, the seeder.** `TypeCorrect`: the type invariant, without assumptions on
interference. `SeederInvariance`: `SeederInv` is inductive under `NoInterference`.
`SeededInputsMatch` and `ConfigHasModel` are not inductive by themselves: the first
needs that a seeding's earlier writes survive every write of the others (`Settled`) and
that a finished seeding wrote everything (`AllWritten`, from `DueExhausted`: the program
order runs out only when every key is written); the second that a late call is one some
manifest asks for (`LateIsWanted`) and cannot break a pair of keys when it lands
(`LateIsSafe`). The core is `HarmlessStep`: setting a key to a harmless value keeps all
of these; `DueIsHarmless` and `LateIsHarmless` say that what is written is harmless.
`SeededInputs` and `NoDanglingConfig` follow.

**DecisionProofs** (policy and comparator). `ProjectionCoherent`: a decision judges each
requested steward once and approves exactly when one is valid. `DecisionIsLocal`: it
depends on the agreement files of the requested stewards only. The oracle loads every
agreement of the manifest and the enforcer those of the requested stewards that etcd
holds, so this is what makes their inputs equivalent.

`CompareIsAgreement`: with the decision fields asserted, `Compare` is equality of what
the two sides state. `OkIsCoherentForAll`.

**RunnerProofs, runs.** `RunsSeed`: `RunnerSpec` implements the seeder's `Spec` (every
step of a run is a seeder step or a stutter), so the seeder's theorems hold of whole
runs. `RunnerInvariance`: under `NoInterference` and `CandidatesComplete`, `RunnerInv`
is invariant. It is inductive relative to `SeederInv` and strengthens the two goals by:
the phase of a run determines the state of its seeding (`StageMatchesSeeding`), the
scenario under way is at the first place without an outcome (`CurrentIsOpen`, so a new
answer does not touch an old verdict, not even that of the same scenario), the answer being compared will be accepted exactly if it was truthful
(`AnswerIsJudged`), and exit code 0 was given after the last outcome, all of them passes
(`ExitVouches`). The one step with content is `Validate`: there etcd holds the fixtures
(by `SeededInputsMatch`), so the enforcer's knowledge base and the oracle's give the
same decision (`EnforcerSeesFixtures`, from `DecisionIsLocal`), and the comparator
accepts exactly the truthful bodies (`AnswerAccepted`, from `CompareIsAgreement`).
`VerdictsAreTruthful` and `ExitZeroVouches` follow. `Runner` takes the oracle's result
as `Expected`, the policy's decision; that the oracle computes it is `DerivationIsExact`.

`RunsAreTests`, in the same module: whole runs implement `DifferentialTest`. A phase
that ends a scenario is a `Judge` (`ConcludeJudges`: `CurrentIsOpen` says the scenario
was not judged before, `VerdictTruthful` after the step that the verdict fits the
answer), `Exit` is a `Close`, and everything else, the other processes' steps and the
answer to a scenario under way included, is a stutter (`QuietStep`). `ExitVouches` is
stronger than `ExitZeroSound` needs for this proof: an exit code means that every chosen
scenario has an outcome. `ConcludedRunsRest` is the action property: a step that writes
or asks belongs to a scenario that is open.

**TaskProofs, the command line.** For any directory of manifests and any command line.
`CommandsLeaveNothingOut` rests on two lemmas about the table of ids: an id is resolved
to the last manifest that has it (`ResolvedIsLast`, there is exactly one), and the table
lists every id once (`InOrderFacts`, where `Ascending` lists the first places of ids).
`ZeroIsEarned` adds what `Loads` demands of every manifest. `OkMeansSameStatements`,
`IncoherentNeverPasses` and `ApprovalsCarryTokens` carry the theorems of DecisionProofs
to the results the run checks. `TasksAssumption` says what the inputs are: expectations
are coherent (which `ProjectionCoherent` proves of the oracle's), auth, where there is
one, has its two tokens, and argparse has seen to an
id where one is demanded. `TaskSpec` is the part of the run `algorithms` without comments.

**TaskProofs, the readers.** For texts of any number of lines of any length, over any
tokens. That a loop computes what the layout means is an induction over data, for which
the library's theorems are of no use; `LoopHasTrace` of `SequenceFacts` says instead, by
`SetInduction`, that such a loop has a trace, so that the recursive function in its
definition is one, and `RunsTogether` is the trace of `FlattenSeq`.

* `OracleGetsThePolicy`. `HoldsMeant` is the invariant of flatten_file's loop: after n
  lines all phrases opened but the last are closed, and the current one is the text of
  the last as far as its lines go (`MeantTo`). `MeantStep` is one line: it is skipped,
  belongs to the phrase (`LaidOut`: there is one), or opens the next.
* `CopiesOfFlattenAgree`. `SideBySide` runs both copies on one text: either they hold the
  same current phrase, or the script holds a directive that the harness skipped, and then
  what the harness would close next is what the script closed before it.
* `GateReadsAsTheOracle`. Three steps. `ReadsPhrase`: from between two phrases the parser
  reads a text that `EndsOnce` and is again between two phrases, with that text, less its
  period, behind those it had. Its invariant `ModesFit` relates the stack of modes to
  counts over the text read so far: in a phrase one mode for each parenthesis open and one
  for a quote open outside them, in braces one for a quote (`PhraseModesStep`,
  `GroupModesStep`); so the first token that ends a phrase is the last of the text.
  `InputIsItems`: the text without its comments is the concatenation of its items,
  `HoldsItems` being the invariant over lines. `GateFindsPhrases`: what is left of the items
  without guards and directives is what flatten_file finds, by `OracleGetsThePolicy` and
  `PickedTwice`, to pick from what was picked is to pick once.

The hypotheses are those of the properties themselves (`LaidOut`, `DirectivesApart`,
`IsScenario`): how the shipped policies and scenarios are laid out. The run `algorithms`
has texts that meet them and texts that do not.

**OracleProofs.** For any manifests, candidates and identifiers, queries in any order
within a round. `OracleExact` is not inductive: it speaks of the end only. `OracleInv`
(`OracleInvariance`) adds that every generated name is the letters of a hint followed by
a number below the counter, so that a new name is new whatever `_sanitize` makes of two
identifiers (`FreshName`); that each name handed out stands for one query; and that an
answer already in the table is the answer of its own query. A step of a round then adds
one correct answer and disturbs none. `ErrorsArePermissive` keeps the half of it that
survives a reasoner that rejects phrases. `DerivationServesOracle` takes this to the
driver: answering a query is `Query`, answering the last fact is `Load`, `Conclude` is
`Project`, and the rest stutters, the end of the reasoner and a raised call included. It
needs that what an answer begins with cannot be about the query it answers: the lines left
over report invariants declared before (`DerivationInv`), and the new name is not among
them (`FreshName`). `DerivationIsExact` and `DerivationDeniesTruly` are what the run checks.
With `DriverServesCalls` this is the whole way from the pipes to the expectation.
`OracleServesEnforcer` joins the oracle to
`DecisionIsLocal`, under `SpeaksFor` of the agreement files (see above): the two sides
of the harness load different files and must still decide alike.

**TestPoolProofs.** For any number of tests, any `-j` and any reasoners:
`JobsAreBounded`, `OutputsAreComplete`, `PoolTypes`. Neither goal is inductive: main
does not look at what is alive when it spawns, it counts handles. `PoolInv` says that
every thread is in one place: a test is new exactly if its turn has not come
(`SpawnedInOrder`); handles not looked at, handles kept and outputs do not overlap, and
none has a thread twice (`InOnePlace`); what is alive is counted (`AliveIsCounted`);
what died with something to show is counted or collected, and only the dead are
collected (`DeadAreCollected`); and there are at most `-j` handles, kept and not looked
at together (`CountIsBounded`), which bounds the threads by `RangeIsSmall`. The steps
with content are those of the two loops: `CollectKeeps` for a dead thread, `PruneKeeps`
for one that is alive. `RangeOfAppend` and `RangeOfTail` say what the loops do to a
sequence.

**UnitTestProofs, a test.** For any files and any reasoner. `UnitInv` (`UnitInvariance`)
has two cases, since all phrases are parsed before any is judged. Once `Read`, the
phrases are those of the lines of the file in order (`PhrasesFacts`: also when the
parser yields one twice), `mark` cuts the history where the loop stood at each phrase
(`MarksInv`; a comment that comes twice comes twice at the same place, otherwise its
second verdict could contradict the first), every report has its cause (`ReportsInv`),
every comment passed has its verdict (`VerdictsInv`), and the violations set aside are
those that were matched (`HandledInv`). The heart of `VerdictsAreSound` is
`DerivedFacts`: after n effects the set `check` has derived is the set of instances
created and not removed since. `Derived` is a recursive function; the induction over it
is `SetInduction` of `SequenceFacts`, which states induction of a set of naturals and so
takes no operator as a parameter. What selects (`Written`, `Left`, `Submit`) is stated
by `Ascending`, which lists a *set*, for the same reason: `AscendingFacts` says all that
is needed of it, where `SelectSeq` would leave an induction to be done each time. The
hypotheses speak of the external reasoner: `PrintsLines`, that it answers what a file
submits in finitely many lines, and for `OnlyIdleRemovalsKill` also `PrintsConcrete`,
that the instances it reports contain no wildcard. eflint-repl has no wildcards; the
tester's own `*` exists only in comments. Without it two instances can be the same to
`check` and different to its set.

**UnitTestProofs, the gate.** `GateRunsTest`: with its threads, its harness and its
timer the gate implements a single test. `GateWaitsForTest`: by instantiating
TestPoolProofs with one test (`GatePool` says that the two instances of the pool are
one) the pool's invariant holds inside the gate; what is added to it (`GateInv`) links
the two: a thread that is past its run belongs to a test that has ended or died, with a
result that says whether the test reported anything, and the gate is content only after
main has exited. `GateAssumption`: the number of processors is a natural number.
`GateJudgesSoundly` carries the results over a test to the gate.

**ReplDriverProofs.** For pipes of any size, any number of lines and a reasoner that may end at any step. `InStep` says
something at one point of the driver only. `ReplInv` (`ReplInvariance`) follows one
stream, `captured \o out \o saying`: what was read of the call under way, what is in the
pipe, what the reasoner has yet to say. `Shape` cuts it into blocks by what each line is
about: leftovers of the call before, the phrase's own lines, those before the echo of
the toggle, that echo, those after it; a stream that broke off is a prefix of such a
stream. `Quiet`, `Sent` and `Toggled` are the three phases of an exchange, with what the
pipe to the reasoner may hold in each. Saying a line or reading one moves a border in
the pipe and not the stream; a line that is not the echo stays in it, and the echo, of
which there is at most one, ends the call with the stream behind it (`EchoNext`,
`EchoAmid`). `DriverServesCalls` is the refinement: writing a phrase is a `Call`,
reading the echo an `Answer`, seeing the end of the reasoner a `Raise`, its death in
between an `End`, and the rest stutters. The mapping counts leftovers (`Leftover`) and
does not select them. `NeverChoked`, under `PipesSuffice`: before the toggle is
written the pipe to the reasoner holds at most the phrase, and while it does, the reasoner
has at most one part of an answer to say (`Sent`).

**Model-checked only.**

* Liveness: `RunsEnd`, `DerivationEnds`, `PoolEnds`, `GateEnds`, and `CallsReturn`, that
  a submission does return or raise unless the pipes are choked, in `ImplementsCalls`. Fairness and ENABLED are beyond the prover.
* What the parsers of comments and of the reasoner's lines promise (`CommentsFindLines`,
  `ReportedOrRead`, `InvariantsFound`): instances are nested to unknown depth and the
  parser is a recursive operator over their texts.
* `HypothesisHolds` and `SelfTestsTell`: they compare the policy with tables and
  files written by hand, so the instance is all there is to say.
* What is expected to fail (`oracle_failopen`, `gate_unrequired`, `pool_gate`,
  `pool_wakeup`, `repl_startup`).

## 6. Plan

Every component with state or decisions of its own is modelled, and every safety
property the runs show is proved, but for those of the recursive parser of instances and
those that compare with tables written by hand. What is left, in this order:

1. **The gate in the runner**: that the three answers `Runner` gives the gate are what
   `ConsistencyGate` is shown to do is argued here and not proved; they are any of the three,
   so that nothing of the runner's theorems depends on it.
2. **Editing fixtures during a run**: gate, oracle and seeder read the agreement files
   one after the other; a variant of `Runner` with an editor would show which verdicts
   survive an edit. Nothing in the repository says what should happen.

## 7. Not modelled

* **Reports, logging and formatting** (`eflint-test.py`'s report classes and printing,
  `_fmt`, the comparator's rendering, `list`): output only. Whether an output is printed
  is modelled (`OutputsComplete`).
* **argparse**, and the two or three lines of each command that print.
* **pytest collection and skipping** (`tests/conftest.py`): decided before any test runs.
* **`EtcdSeeder.get`**, which nothing calls.
* **White space inside a phrase and the first characters that tell the kinds of output
  lines apart**: tokens and kinds of lines stand for them.
* **`eflint-repl`, etcd and the Policy Enforcer** are external: etcd is a map with calls
  that may fail or land late, the enforcer honest or faulty, the reasoner any process
  that prints lines, or, in `SelfTests` and `Oracle`, one that knows the policy.
