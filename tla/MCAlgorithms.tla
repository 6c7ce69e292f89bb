---------------------------- MODULE MCAlgorithms ----------------------------
(***************************************************************************)
(* The parts of the harness that only compute, on bounded inputs: compare  *)
(* on every coherent expectation about one or two stewards and every shape *)
(* of response body; the three readers on every text of a few lines, as it *)
(* is written line by line; the choice of scenarios and the exit code on   *)
(* small directories of manifests.                                         *)
(***************************************************************************)
EXTENDS Tasks, Instances

CONSTANTS Stewards, MCArchetypes, MCProviders, SomeText

-----------------------------------------------------------------------------
(* The comparator.                                                         *)
PartialFunctions(S, T) == UNION {[D -> T] : D \in SUBSET S}

Offers == [archetypes : SUBSET MCArchetypes, compute_providers : SUBSET MCProviders]

(* What the oracle may expect: coherent decisions on one or more stewards. *)
MCExpectations == {d \in
    [request_approved : BOOLEAN, valid_dataproviders : PartialFunctions(Stewards, Offers),
     invalid_dataproviders : SUBSET Stewards] :
       \E requested \in SUBSET Stewards \ {{}} : Coherent(d, requested)}

(* A text in place of a truth value or of a list, read letter by letter.   *)
MCListOf == [x \in {SomeText} |-> {"t"}]

MCBodies ==
    [request_approved : {Missing, TRUE, FALSE, SomeText},
     valid_dataproviders : {Missing} \cup PartialFunctions(Stewards,
        {Missing} \cup [archetypes : {Missing, SomeText} \cup SUBSET MCArchetypes,
                        compute_providers : {Missing} \cup {MCProviders}]),
     invalid_dataproviders : {Missing, SomeText} \cup SUBSET Stewards,
     auth : {Missing, [access_token |-> "", refresh_token |-> Missing],
             [access_token |-> "", refresh_token |-> "token"]}]

(* The assertion lists: the two of the shipped manifests, and single ones. *)
AssertionSets == {Assertions, DecisionFields, {"auth_present_when_approved"},
                  {"request_approved", "valid_dataproviders"}}

-----------------------------------------------------------------------------
(* The readers: lines of scenarios and of policies, some of which end the  *)
(* layout the readers rely on.                                             *)
Margin(text) == Line(FALSE, text)
Indented(text) == Line(TRUE, text)

MCTextLines ==
    {Margin(<<>>), Margin(<<Slashes, "words">>), Indented(<<Slashes, "words">>),
     Margin(<<Guard, "i", ".">>), Margin(<<"#require", Quote, "p.eflint", Quote, ".">>),
     Margin(<<"+a", ".">>), Margin(<<"+b", ".", Slashes, "words">>), Margin(<<"Fact f">>),
     Margin(<<"+g", "(", Quote, "x", ".", Quote, ")", ".">>),
     Margin(<<"h", Quote, "x", ".", Quote>>),
     Margin(<<LeftBrace, "+a", ".">>), Indented(<<"+b", ".", RightBrace>>),
     Indented(<<"When not", "(", "p", ".">>), Indented(<<"q", ")", ".">>),
     Indented(<<"When p", ".">>), Indented(<<"and q">>)}

-----------------------------------------------------------------------------
(* Comments and lines: atoms, names applied to one or two of them, and one *)
(* application within another.                                             *)
MCValue == [d \in {"0", "1"} |-> IF d = "0" THEN 0 ELSE 1]
Words == {<<>>} \cup UNION {[1..n -> {"a", "B", ",", "(", ")", Blank}] : n \in 1..2}
Atoms == {Wildcard, Literal("bool", <<"True">>), Literal("int", 0), Literal("int", 10)}
            \cup {Literal("str", w) : w \in Words}
Names == {<<"f">>, <<"B">>, <<"a", "-", "f">>, <<"not", "f">>, <<"f", "0">>}

Flat   == {Composite(f, <<>>) : f \in Names} \cup {Composite(f, <<x>>) : f \in Names, x \in Atoms}
Nested == {Composite(<<"g">>, <<i, x>>) : i \in Flat, x \in Atoms}
            \cup {Composite(f, <<x, y>>) : f \in Names, x, y \in Atoms}
            \cup {Composite(<<"g">>, <<x, Composite(f, <<x, y>>)>>) : f \in {<<"f">>, <<"ref">>}, x, y \in Atoms}

InvariantNames == UNION {[1..n -> {"f", "B", "0", "not", "-"}] : n \in 1..3}

CommentTasks ==
    [of : {"comment"}, negation : {<<>>, <<"!">>, <<"Not", Blank>>},
     about : Atoms \cup Flat \cup Nested, comma : {<<",">>, <<",", Blank>>}]
    \cup [of : {"invariant"}, negation : {<<>>, <<"!">>, <<"Not", Blank>>},
          name : {n \in InvariantNames : n[1] \in Letters}]

-----------------------------------------------------------------------------
(* The command line: the shipped layout of a manifest under three ids, one *)
(* of them written as null, with fields left out or wrong.                 *)
MCPaths == {"01_interface_policy", "02_agreement_rules", "VU", "UVA", "s1", "s2"}

Plain(id, scenario) ==
    [id |-> id, suite |-> "approval", scenario_file |-> scenario,
     interface_file |-> Missing, shared_rules_file |-> Missing,
     agreement_files |-> [VU |-> "VU", UVA |-> "UVA"],
     request |-> [user |-> [id |-> "1", user_name |-> "Niels"], data_providers |-> <<"VU", "UVA">>],
     candidates |-> Missing, assertions |-> Missing]

RawManifests ==
    {Plain("a", "s1"), Plain("b", "s2"), Plain("a", "s2"), Plain(Null, "s1"), Odd,
     [Plain("b", "s1") EXCEPT !.agreement_files = Null, !.assertions = <<"request_approved">>],
     [Plain("a", "s1") EXCEPT !.agreement_files = [VU |-> "gone"]],
     [Plain("a", "s1") EXCEPT !.assertions = <<"approved">>],
     [Plain("a", "s1") EXCEPT !.request.data_providers = <<>>],
     [Plain("a", "s1") EXCEPT !.request.user = Odd],
     Plain("a", Missing), Plain(Missing, "s1")}

MCDirectories == UNION {[1..n -> RawManifests] : n \in 0..3}
MCCommandLines ==
    [name : {"list"}, ids : {<<>>}] \cup [name : OneScenario, ids : {<<"a">>, <<"c">>}]
    \cup [name : {"run"}, ids : {<<>>, <<"a">>, <<"b", "a">>, <<"a", "None", "a">>, <<"a", "c">>}]

MCOutcomes == [1..3 -> BOOLEAN]

-----------------------------------------------------------------------------
Init ==
    /\ task \in CompareTasks \cup SelectTasks \cup ReadTasks \cup CommentTasks
    /\ result = "open"

Spec == Init /\ [][TaskNext]_vars

(* The properties of comments and of the reasoner's lines.                  *)
CommentsFindLines == task.of = "comment" =>
    ReadsPlain("assert", task.negation, task.about, task.comma)
ReportedOrRead    == task.of = "comment" =>
    NeverMisreads("assert", task.negation, task.about, task.comma)
InvariantsFound   == task.of = "invariant" => FindsInvariant(task.negation, task.name)
=============================================================================
