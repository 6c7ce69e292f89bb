--------------------------- MODULE ManifestLoader ---------------------------
(***************************************************************************)
(* From a directory of manifests and a command line to the scenarios that  *)
(* are run, and to the exit code: load_manifest with everything it         *)
(* demands, discover_manifests, the table of ids and the dispatch of main. *)
(* A raw manifest is a record of the fields of its YAML mapping; a field   *)
(* that is not there is Missing, one without a value Null, and one of      *)
(* another shape than is called for is Odd.  Whatever load_manifest raises *)
(* (ManifestError, or a TypeError from a null path) ends the program.      *)
(***************************************************************************)
EXTENDS Naturals, Sequences, Functions, Ordering, Comparator

CONSTANTS
    Null,       \* a YAML null
    Odd,        \* a YAML value of the wrong shape
    Paths       \* the files that exist under the scenarios directory

NoValue == {Missing, Null}

(* str() of a YAML scalar.                                                 *)
Str(x) == IF x = Null THEN "None" ELSE x

OneOf(x, default) == IF x = Missing THEN default ELSE x
Empty(x) == x \in NoValue \/ x = <<>>

InterfaceFile(raw) == OneOf(raw.interface_file, "01_interface_policy")
RulesFile(raw)     == OneOf(raw.shared_rules_file, "02_agreement_rules")

(* Variant of Loads: an unknown assertion is passed over.                   *)
LoadsAnyAssertion(raw) ==
    /\ raw # Odd
    /\ raw.id # Missing /\ raw.suite \in {"approval", "continuation"}
    /\ {raw.scenario_file, InterfaceFile(raw), RulesFile(raw)} \subseteq Paths
    /\ ~Empty(raw.agreement_files) => raw.agreement_files # Odd /\ Range(raw.agreement_files) \subseteq Paths
    /\ raw.request \notin {Missing, Null, Odd}
    /\ raw.request.user \notin {Missing, Null, Odd}
    /\ raw.request.user.id # Missing /\ raw.request.user.user_name # Missing
    /\ raw.request.data_providers \notin {Missing, Null, Odd, <<>>}
    /\ raw.candidates # Odd
    /\ raw.assertions # Odd

(* What load_manifest demands of a raw manifest.                           *)
Loads(raw) ==
    /\ raw # Odd
    /\ raw.id # Missing /\ raw.suite \in {"approval", "continuation"}
    /\ {raw.scenario_file, InterfaceFile(raw), RulesFile(raw)} \subseteq Paths
    /\ ~Empty(raw.agreement_files) => raw.agreement_files # Odd /\ Range(raw.agreement_files) \subseteq Paths
    /\ raw.request \notin {Missing, Null, Odd}
    /\ raw.request.user \notin {Missing, Null, Odd}
    /\ raw.request.user.id # Missing /\ raw.request.user.user_name # Missing
    /\ raw.request.data_providers \notin {Missing, Null, Odd, <<>>}
    /\ raw.candidates # Odd
    /\ raw.assertions # Odd
    /\ ~Empty(raw.assertions) => Range(raw.assertions) \subseteq Assertions

Loaded(raw) ==
    [id         |-> Str(raw.id),
     scenario   |-> raw.scenario_file,
     fixtures   |-> {InterfaceFile(raw), RulesFile(raw)} \cup
                    (IF Empty(raw.agreement_files) THEN {} ELSE Range(raw.agreement_files)),
     requester  |-> Str(raw.request.user.user_name),
     providers  |-> {Str(s) : s \in Range(raw.request.data_providers)},
     assertions |-> IF Empty(raw.assertions) THEN Assertions ELSE Range(raw.assertions)]

-----------------------------------------------------------------------------
(* A directory is the sequence of its *.yaml files, sorted by name.        *)
Discoverable(dir) == \A n \in DOMAIN dir : Loads(dir[n])
Discovered(dir) == [n \in DOMAIN dir |-> Loaded(dir[n])]

(* {m.id: m for m in ...}: an id keeps the place of its first manifest and *)
(* the contents of its last.                                               *)
Ids(dir) == {Discovered(dir)[n].id : n \in DOMAIN dir}

(* Variant of Resolved: the first manifest of an id is kept.                *)
ResolvedFirst(dir, id) ==
    Discovered(dir)[CHOOSE n \in DOMAIN dir :
        /\ Discovered(dir)[n].id = id
        /\ \A o \in 1..n-1 : Discovered(dir)[o].id # id]

Resolved(dir, id) ==
    Discovered(dir)[CHOOSE n \in DOMAIN dir :
        /\ Discovered(dir)[n].id = id
        /\ \A o \in n+1..Len(dir) : Discovered(dir)[o].id # id]

InOrder(dir) ==
    LET firsts == Ascending({n \in DOMAIN dir :
                     \A o \in 1..n-1 : Discovered(dir)[o].id # Discovered(dir)[n].id})
    IN  [i \in DOMAIN firsts |-> Discovered(dir)[firsts[i]].id]

(* A command line: a command, and the scenario ids after it.               *)
OneScenario == {"oracle", "consistency", "seed"}

Accepts(dir, cmd) ==
    /\ Discoverable(dir)
    /\ cmd.name # "list" => Range(cmd.ids) \subseteq Ids(dir)

Asked(dir, cmd) ==
    CASE cmd.name = "list" -> <<>>
      [] cmd.name = "run" /\ cmd.ids = <<>> -> InOrder(dir)
      [] OTHER -> cmd.ids

(* What main runs, one after the other: nothing if it does not get so far. *)
Chosen(dir, cmd) ==
    IF ~Accepts(dir, cmd) THEN <<>>
    ELSE [i \in DOMAIN Asked(dir, cmd) |-> Resolved(dir, Asked(dir, cmd)[i])]

(* The exit code; ok[i] says whether the i-th scenario passed, or the one  *)
(* phase of the other commands succeeded.                                  *)
(* Variant of ExitCode: the last scenario decides.                          *)
ExitCodeLast(dir, cmd, ok) ==
    IF Accepts(dir, cmd) /\ (Chosen(dir, cmd) = <<>> \/ ok[Len(Chosen(dir, cmd))]) THEN 0 ELSE 1

ExitCode(dir, cmd, ok) ==
    IF Accepts(dir, cmd) /\ \A i \in DOMAIN Chosen(dir, cmd) : ok[i] THEN 0 ELSE 1

-----------------------------------------------------------------------------
(* SAFETY.  A run without ids leaves out no manifest of the directory but  *)
(* those a later file takes the id of, and runs no scenario twice; a       *)
(* command with ids gets the scenarios of these ids, in their order.       *)
RunsWhatIsThere(dir, cmd) == Accepts(dir, cmd) /\ cmd.name # "list" =>
    LET chosen == Chosen(dir, cmd)
        Shadowed(n) == \E o \in n+1..Len(dir) : Discovered(dir)[o].id = Discovered(dir)[n].id
    IN  /\ cmd.ids = <<>> =>
             /\ Range(chosen) = {Discovered(dir)[n] : n \in {n \in DOMAIN dir : ~Shadowed(n)}}
             /\ \A i, j \in DOMAIN chosen : chosen[i].id = chosen[j].id => i = j
        /\ cmd.ids # <<>> => cmd.ids = [i \in DOMAIN chosen |-> chosen[i].id]

(* SAFETY.  Exit code 0 of a command that runs something means that every  *)
(* manifest of the directory could be read (a bad one stops them all),     *)
(* that the scenarios run and nothing else passed, and that at least one   *)
(* was run, unless the directory has no manifest at all.                   *)
SuccessIsEarned(dir, cmd, ok) == ExitCode(dir, cmd, ok) = 0 /\ cmd.name # "list" =>
    LET chosen == Chosen(dir, cmd)
    IN  /\ \A i \in DOMAIN chosen : ok[i]
        /\ \A n \in DOMAIN dir :
              /\ Range(OneOf(IF Empty(dir[n].assertions) THEN Missing ELSE dir[n].assertions, <<>>))
                   \subseteq Assertions
              /\ dir[n].request.data_providers # <<>>
        /\ chosen = <<>> => dir = <<>>
=============================================================================
