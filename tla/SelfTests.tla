----------------------------- MODULE SelfTests -----------------------------
(***************************************************************************)
(* The self-tests of the shipped scenario files, phrase by phrase, and the *)
(* reasoner they talk to: what eflint-repl holds after the phrases so far, *)
(* by the rules of Policy and the act of 01_interface_policy.eflint, and   *)
(* the violations it prints.  Its other lines are left out where no        *)
(* scenario asks about them.  Scenarios 01, 02a, 03 and 04b ask nothing    *)
(* that is not asked here of other stewards.                               *)
(***************************************************************************)
EXTENDS ConsistencyGate, Policy, ShippedScenarios
LOCAL INSTANCE SequencesExt

-----------------------------------------------------------------------------
(* Phrases, with what they say to the reasoner.                            *)
Import(text)   == [kind |-> "import", says |-> [op |-> "import", text |-> text]]
Plus(fact)     == [kind |-> "eflint", says |-> [op |-> "+", fact |-> fact]]
Minus(fact)    == [kind |-> "eflint", says |-> [op |-> "-", fact |-> fact]]
SubmitRequest(r, s) == [kind |-> "eflint", says |-> [op |-> "act", actor |-> r, to |-> s]]

IsViolated(name)  == [kind |-> "violated", instance |-> Composite(name, <<>>), existance |-> TRUE]
NotViolated(name) == [IsViolated(name) EXCEPT !.existance = FALSE]
ActIsViolated     == [kind |-> "violated", existance |-> TRUE,
                      instance |-> Composite("submit-data-request", <<"*", "*">>)]

Yes(query) == [query |-> query, answer |-> TRUE]
No(query)  == [query |-> query, answer |-> FALSE]

(* "Invariant name When ..." and the "//#violated !name" below it.         *)
Holds(name, when) ==
    <<[kind |-> "eflint", says |-> [op |-> "Invariant", name |-> name, when |-> when]],
      NotViolated(name)>>

Request(r, stewards) ==
    <<Plus(<<"requester", r>>)>> \o [n \in DOMAIN stewards |-> Plus(<<"requested-steward", stewards[n]>>)]

-----------------------------------------------------------------------------
(* The scenario files.                                                     *)
scenario_02b ==
    Request("Alice", <<"VU", "UVA">>)
    \o Holds("permitted_request", Yes(<<"permitted-request", "Alice">>))
    \o Holds("vu_not_permitted", No(<<"permitted-at-steward", "Alice", "VU">>))
    \o Holds("uva_permitted", Yes(<<"permitted-at-steward", "Alice", "UVA">>))
    \o Holds("vu_not_compute_to_data", No(<<"valid-archetype", "Alice", "VU", C2D>>))
    \o Holds("vu_not_data_through_ttp", No(<<"valid-archetype", "Alice", "VU", DTT>>))
    \o Holds("vu_not_reproducable_science", No(<<"valid-archetype", "Alice", "VU", RS>>))
    \o Holds("uva_data_through_ttp", Yes(<<"valid-archetype", "Alice", "UVA", DTT>>))
    \o Holds("uva_not_compute_to_data", No(<<"valid-archetype", "Alice", "UVA", C2D>>))
    \o Holds("uva_not_reproducable_science", No(<<"valid-archetype", "Alice", "UVA", RS>>))
    \o <<SubmitRequest("Alice", "VU"), ActIsViolated, SubmitRequest("Alice", "UVA")>>
    \o Holds("uva_data_request", Yes(<<"data-request", "Alice", "UVA">>))

scenario_04a ==
    Request("Alice", <<"VU">>)
    \o Holds("no_relation_vu", No(<<"has-relation", "Alice", "VU">>))
    \o Holds("not_permitted_request", No(<<"permitted-request", "Alice">>))
    \o <<Plus(<<"requested-steward", "UVA">>), IsViolated("not_permitted_request")>>
    \o Holds("permitted_request_after_uva", Yes(<<"permitted-request", "Alice">>))

(* Scenarios 05 establish a session of Niels at VU; then an attribute      *)
(* changes.                                                                *)
Niels(fact, x) == <<fact, "Niels", "VU", x>>

Session(archetype) ==
    <<SubmitRequest("Niels", "VU")>>
    \o Holds("data_request_baseline", Yes(<<"data-request", "Niels", "VU">>))
    \o Holds("continuation_baseline", Yes(Niels("permitted-continuation", archetype)))

Baseline ==
    Request("Niels", <<"VU">>)
    \o Holds("permitted_request_baseline", Yes(<<"permitted-request", "Niels">>))

Restored == Holds("continuation_restored", Yes(Niels("permitted-continuation", C2D)))

scenario_05a ==
    Baseline \o Session(C2D)
    \o <<Minus(<<"steward-supports-archetype", "VU", C2D>>), IsViolated("continuation_baseline")>>
    \o Holds("not_valid_archetype_after_withdrawal", No(Niels("valid-archetype", C2D)))
    \o Holds("no_continuation_after_withdrawal", No(Niels("permitted-continuation", C2D)))
    \o Holds("no_compute_to_data", No(Niels("valid-archetype", C2D)))
    \o Holds("no_data_through_ttp", No(Niels("valid-archetype", DTT)))
    \o <<Plus(<<"steward-supports-archetype", "VU", C2D>>)>> \o Restored

scenario_05b ==
    Baseline \o Session(C2D)
    \o <<Minus(<<"has-relation", "Niels", "VU">>),
         IsViolated("permitted_request_baseline"), IsViolated("continuation_baseline")>>
    \o Holds("not_permitted_at_vu", No(<<"permitted-at-steward", "Niels", "VU">>))
    \o Holds("no_continuation_after_relation_loss", No(Niels("permitted-continuation", C2D)))
    \o <<Plus(<<"has-relation", "Niels", "VU">>),
         Plus(Niels("relation-allows-request-type", "SqlDataRequest")),
         Plus(Niels("relation-allows-dataset", "WageGap")),
         Plus(Niels("relation-allows-archetype", C2D)),
         Plus(Niels("relation-allows-compute-provider", "SURF")),
         IsViolated("not_permitted_at_vu")>> \o Restored

scenario_05c ==
    Baseline \o <<Plus(Niels("relation-allows-archetype", DTT))>> \o Session(DTT)
    \o Holds("valid_compute_provider_baseline", Yes(Niels("valid-compute-provider", "SURF")))
    \o <<Minus(<<"steward-supports-compute-provider", "VU", "SURF">>),
         IsViolated("valid_compute_provider_baseline")>>
    \o Holds("continuation_after_provider_removal", Yes(Niels("permitted-continuation", DTT)))
    \o Holds("invalid_compute_provider_after_removal", No(Niels("valid-compute-provider", "SURF")))
    \o <<Plus(<<"steward-supports-compute-provider", "VU", "SURF">>)>>

(* What the header of a file has loaded before it, and the same with the   *)
(* last agreement forgotten.                                               *)
Load(texts) == [n \in DOMAIN texts |-> Import(texts[n])]
VUPolicy    == <<"interface", "rules", "agreement_VU">>
BothPolicy  == Append(VUPolicy, "agreement_UVA")

About_VU   == {scenario_05a, scenario_05b, scenario_05c}
About_Both == {scenario_02b, scenario_04a}

Loaded    == {Load(VUPolicy) \o f : f \in About_VU} \cup {Load(BothPolicy) \o f : f \in About_Both}
Misloaded == {Load(Front(VUPolicy)) \o f : f \in About_VU} \cup {Load(VUPolicy) \o f : f \in About_Both}

-----------------------------------------------------------------------------
(* The reasoner: its facts after the phrases done.  An act takes effect    *)
(* also when it is not enabled; what it needs to know first are interface  *)
(* and rules.                                                              *)
Contents == [interface |-> {}, rules |-> {}, agreement_VU |-> agreement_VU,
             agreement_UVA |-> agreement_UVA]

Imported(done) == {done[n].says.text : n \in {n \in DOMAIN done : done[n].kind = "import"}}
Rules == {"interface", "rules"}

Facts(done) ==
    LET kb[n \in 0..Len(done)] ==
          IF n = 0 THEN {}
          ELSE LET said == done[n].says
               IN  CASE said.op = "import" -> kb[n-1] \cup Contents[said.text]
                     [] said.op = "+"      -> kb[n-1] \cup {said.fact}
                     [] said.op = "-"      -> kb[n-1] \ {said.fact}
                     [] said.op = "act"    -> kb[n-1] \cup RequestAccepted(said.actor, said.to)
                     [] OTHER              -> kb[n-1]
    IN  kb[Len(done)]

Satisfied(kb, q) ==
    CASE q[1] = "permitted-request"      -> PermittedRequest(kb, q[2])
      [] q[1] = "permitted-at-steward"   -> PermittedAtSteward(kb, q[2], q[3])
      [] q[1] = "has-relation"           -> HasRelation(kb, q[2], q[3])
      [] q[1] = "valid-archetype"        -> ValidArchetype(kb, q[2], q[3], q[4])
      [] q[1] = "valid-compute-provider" -> ValidProvider(kb, q[2], q[3], q[4])
      [] q[1] = "permitted-continuation" -> PermittedContinuation(kb, q[2], q[3], q[4])
      [] q[1] = "data-request"           -> q \in kb

Violation(kind, name, args) == [kind |-> kind, instance |-> Composite(name, args)]

(* After every phrase the invariants that do not hold are named.           *)
PolicyPrints(done, raw) ==
    LET all    == Append(done, raw)
        broken == SelectSeq(all, LAMBDA r :
                     /\ r.says.op = "Invariant"
                     /\ Satisfied(Facts(all), r.says.when.query) # r.says.when.answer)
        named  == [n \in DOMAIN broken |-> Violation("InvariantViolation", broken[n].says.name, <<>>)]
        act    == IF raw.says.op = "act" /\ ~MaySubmit(Facts(done), raw.says.actor, raw.says.to)
                  THEN <<Violation("ActViolation", "submit-data-request", <<raw.says.actor, raw.says.to>>)>>
                  ELSE <<>>
    IN  IF Rules \subseteq Imported(all) \/ raw.kind = "import" THEN act \o named
        ELSE <<[kind |-> "unknown"]>>

-----------------------------------------------------------------------------
(* SAFETY.  The shipped self-tests agree with the shipped policy, over the *)
(* whole life of a request: acceptance, the refusal of an act, a session   *)
(* that is revoked and restored.  A test that gets to its end with the     *)
(* policy of its header has no error to report, and it has one when an     *)
(* agreement was not loaded: the self-tests tell a wrong policy apart.     *)
SelfTestsTell == Total \in Range(output) =>
    /\ file \in Loaded => \A r \in Range(output) : r.kind # "Err"
    /\ file \in Misloaded => \E r \in Range(output) : r.kind = "Err"

(* SAFETY, of the docstring of check_scenario_consistency: directives at   *)
(* the top of the scenario pick up the interface and the shared rules.     *)
RulesPickedUp == gate = "consistent" /\ Total \in Range(output) =>
    Rules \subseteq Imported([k \in DOMAIN phrases |-> phrases[k].raw])
=============================================================================
