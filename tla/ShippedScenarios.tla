-------------------------- MODULE ShippedScenarios --------------------------
(***************************************************************************)
(* The shipped test data: the agreement files of dynamos-test-scenarios,   *)
(* the seven manifests, and the table of outcomes that                     *)
(* tests/test_scenarios.py derives by hand from the hypotheses.            *)
(***************************************************************************)

C2D == "ComputeToData"
DTT == "DataThroughTtp"
RS  == "ReproducableScience"

AllArchetypes == {C2D, DTT, RS}
AllProviders  == {"SURF"}

(* What an agreement file says: the steward's own support, and for each    *)
(* requester it has a relation with the archetypes and providers allowed.  *)
AgreementFile(s, archetypes, providers, allows) ==
    {<<"data-steward", s>>, <<"agreement", s>>}
    \cup {<<"archetype", a>> : a \in archetypes}
    \cup {<<"compute-provider", c>> : c \in providers}
    \cup {<<"steward-supports-archetype", s, a>> : a \in archetypes}
    \cup {<<"steward-supports-compute-provider", s, c>> : c \in providers}
    \cup {<<"has-relation", r, s>> : r \in DOMAIN allows}
    \cup (UNION {{<<"relation-allows-archetype", r, s, a>> : a \in allows[r]}
                   : r \in DOMAIN allows})
    \cup {<<"relation-allows-compute-provider", r, s, c>> : r \in DOMAIN allows, c \in providers}

agreement_VU  == AgreementFile("VU", {C2D, DTT}, {"SURF"}, [Niels |-> {C2D}])
agreement_UVA == AgreementFile("UVA", {C2D, DTT, RS}, {"SURF"},
                               [Niels |-> {C2D, DTT}, Alice |-> {DTT}])

(* agreement_UVA with the line the regression test comments out.           *)
agreement_UVA_regressed ==
    agreement_UVA \ {<<"relation-allows-archetype", "Niels", "UVA", DTT>>}

Both     == [VU |-> agreement_VU, UVA |-> agreement_UVA]
OnlyUVA  == [UVA |-> agreement_UVA]
NoFiles  == <<>>

Manifest(user, files, stewards) == [user |-> user, files |-> files, stewards |-> stewards]

Shipped ==
    [scenario_01_approved                     |-> Manifest("Niels", Both, {"VU", "UVA"}),
     scenario_02a_approved_alice_uva          |-> Manifest("Alice", OnlyUVA, {"UVA"}),
     scenario_02b_approved_alice_partial      |-> Manifest("Alice", Both, {"VU", "UVA"}),
     scenario_03a_denied_bob_no_agreement     |-> Manifest("Bob", NoFiles, {"SURF_org"}),
     scenario_03b_denied_bob_no_relation      |-> Manifest("Bob", Both, {"VU", "UVA"}),
     scenario_04a_denied_alice_wrong_steward  |-> Manifest("Alice", Both, {"VU"}),
     scenario_04b_denied_alice_restricted_archetype
                                              |-> Manifest("Alice", OnlyUVA, {"UVA"}),
     regression_in_agreement                  |->
        Manifest("Niels", [VU |-> agreement_VU, UVA |-> agreement_UVA_regressed], {"VU", "UVA"})]

(* One row of the hypothesis table.                                        *)
Outcome(approved, invalid, valid) ==
    [request_approved      |-> approved,
     valid_dataproviders   |->
        [s \in DOMAIN valid |-> [archetypes |-> valid[s], compute_providers |-> {"SURF"}]],
     invalid_dataproviders |-> invalid]

HypothesisTable ==
    [scenario_01_approved                    |->
        Outcome(TRUE, {}, [VU |-> {C2D}, UVA |-> {C2D, DTT}]),
     scenario_02a_approved_alice_uva         |-> Outcome(TRUE, {}, [UVA |-> {DTT}]),
     scenario_02b_approved_alice_partial     |-> Outcome(TRUE, {"VU"}, [UVA |-> {DTT}]),
     scenario_03a_denied_bob_no_agreement    |-> Outcome(FALSE, {"SURF_org"}, <<>>),
     scenario_03b_denied_bob_no_relation     |-> Outcome(FALSE, {"VU", "UVA"}, <<>>),
     scenario_04a_denied_alice_wrong_steward |-> Outcome(FALSE, {"VU"}, <<>>),
     scenario_04b_denied_alice_restricted_archetype
                                             |-> Outcome(TRUE, {}, [UVA |-> {DTT}]),
     regression_in_agreement                 |->
        Outcome(TRUE, {}, [VU |-> {C2D}, UVA |-> {C2D}])]
=============================================================================
