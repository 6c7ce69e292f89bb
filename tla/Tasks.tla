------------------------------- MODULE Tasks -------------------------------
(***************************************************************************)
(* Three tasks of the harness that only compute: compare, on an            *)
(* expectation and the body of a response; main, which turns a directory   *)
(* of manifests and a command line into the scenarios it runs and an exit  *)
(* code; and the readers of eFLINT text, on a text as it is written line   *)
(* by line.  A state is a task and what came of it.                        *)
(***************************************************************************)
EXTENDS ManifestLoader, Policy, Readers

CONSTANTS
    Expectations,   \* what the oracle may expect
    Bodies,         \* raw bodies of a response
    AssertionLists, \* what manifests may assert
    Directories,    \* the manifests of a directory, in the order of their names
    CommandLines,   \* a command and the ids after it
    Outcomes,       \* whether the first, second... scenario that is run passes
    TextLines,      \* the lines a text may have
    MaxLines        \* bound: how many of them

(* The oracle's expectations are coherent (ProjectionCoherent); the client *)
(* reads auth by its two tokens; the commands for one scenario demand an id. *)
ASSUME TasksAssumption ==
    /\ \A e \in Expectations :
          Coherent(e, DOMAIN e.valid_dataproviders \cup e.invalid_dataproviders)
    /\ \A b \in Bodies : b.auth # Missing => DOMAIN b.auth = {"access_token", "refresh_token"}
    /\ \A dir \in Directories : dir \in Seq(Range(dir))
    /\ \A cmd \in CommandLines :
          /\ cmd.name \in {"list", "run"} \cup OneScenario
          /\ cmd.ids \in Seq(Range(cmd.ids))
          /\ cmd.name \in OneScenario => cmd.ids # <<>>
    /\ \A line \in TextLines : line.text \in Seq(Range(line.text))

VARIABLES
    task,       \* what is computed, and from what
    result      \* "open", then what compare or main returned

vars == <<task, result>>

CompareTasks == [of : {"compare"}, asserts : AssertionLists, expected : Expectations, raw : Bodies]
SelectTasks  == [of : {"select"}, dir : Directories, cmd : CommandLines, ok : Outcomes]

CompareStep ==
    /\ task.of = "compare" /\ result = "open"
    /\ result' = IF Compare(task.asserts, task.expected, Normalise(task.raw))
                 THEN "ok" ELSE "differs"
    /\ UNCHANGED task

SelectStep ==
    /\ task.of = "select" /\ result = "open"
    /\ result' = IF ExitCode(task.dir, task.cmd, task.ok) = 0 THEN "success" ELSE "failure"
    /\ UNCHANGED task

(* The texts grow; the readers are functions of a text.                    *)
ReadTasks == [of : {"read"}, lines : {<<>>}]

WriteLine ==
    /\ task.of = "read" /\ Len(task.lines) < MaxLines
    /\ \E line \in TextLines : task' = [task EXCEPT !.lines = Append(@, line)]
    /\ UNCHANGED result

TaskInit == task \in CompareTasks \cup SelectTasks \cup ReadTasks /\ result = "open"
TaskNext == CompareStep \/ SelectStep \/ WriteLine
TaskSpec == TaskInit /\ [][TaskNext]_vars

-----------------------------------------------------------------------------
(* With the three decision fields asserted, a comparison without auth is   *)
(* ok exactly when expectation and response state the same things.         *)
OkIffSameStatements ==
    task.of = "compare" /\ result # "open" => (task.asserts = DecisionFields =>
       (result = "ok" <=> Statements(task.expected) = Statements(Normalise(task.raw))))

(* A response that is incoherent (a steward judged twice or not at all, an *)
(* approval without a valid steward), or that omits a field, never passes  *)
(* against an expectation when the three decision fields are asserted: the *)
(* defaults for absent fields cannot stand in for an answer.               *)
OkIsCoherent ==
    task.of = "compare" /\ result = "ok" => (DecisionFields \subseteq task.asserts =>
       Coherent(Normalise(task.raw),
                DOMAIN task.expected.valid_dataproviders \cup task.expected.invalid_dataproviders))

(* A scenario that asserts auth and is to be approved passes only on an    *)
(* approval that carries a token, whatever else is asserted.               *)
ApprovalCarriesToken ==
    task.of = "compare" /\ result = "ok" =>
       (("auth_present_when_approved" \in task.asserts /\ task.expected.request_approved) =>
           /\ Bool(task.raw.request_approved) /\ task.raw.auth # Missing
           /\ \E f \in DOMAIN task.raw.auth : task.raw.auth[f] \notin {Missing, ""})

(* SAFETY.  A run without ids leaves out no manifest of the directory but  *)
(* those a later file takes the id of, and runs no scenario twice; a       *)
(* command with ids gets the scenarios of these ids, in their order.       *)
NothingLeftOut == task.of = "select" => RunsWhatIsThere(task.dir, task.cmd)

(* SAFETY.  Exit code 0 is given only where SuccessIsEarned says so.       *)
ExitZeroEarned == task.of = "select" /\ result = "success" =>
                     SuccessIsEarned(task.dir, task.cmd, task.ok)

(* SAFETY.  What Readers states of the readers, on every text.             *)
OracleReadsPolicy == task.of = "read" => FlattenKeepsPhrases(task.lines)
GateReadsScenario == task.of = "read" => GateReadsAlike(task.lines)
ScriptReadsAlike  == task.of = "read" => CopiesAgree(task.lines)
=============================================================================
