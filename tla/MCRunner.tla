------------------------------ MODULE MCRunner ------------------------------
(***************************************************************************)
(* The runner on three of the shipped manifests: Alice asking both         *)
(* stewards and valid at one, Alice asking UVA, Bob asking a steward that  *)
(* has no agreement.  Etcd starts fresh, with a stale model that would     *)
(* grant what the agreements deny, or with the configs of another          *)
(* validation strategy; the Policy Enforcer may answer as the policy       *)
(* decides, or with any of the bodies of FaultyBodies.                     *)
(***************************************************************************)
EXTENDS Runner, ShippedScenarios, TLC

MCManifests == {"partial", "uva", "none"}
MCStewards  == {"VU", "UVA", "SURF_org"}
MCTexts     == {"rules", "vu", "uva", "stale"}
MCRules     == [m \in MCManifests |-> "rules"]
MCAgreements ==
    [partial |-> [VU |-> "vu", UVA |-> "uva"], uva |-> [UVA |-> "uva"], none |-> <<>>]
MCRequested == [partial |-> {"VU", "UVA"}, uva |-> {"UVA"}, none |-> {"SURF_org"}]
MCRequester == [partial |-> "Alice", uva |-> "Alice", none |-> "Bob"]
MCAsserted  == [m \in MCManifests |->
                  IF m = "none" THEN DecisionFields ELSE Assertions]
MCProbed    == [m \in MCManifests |-> AllArchetypes]

(* The stale model lets Alice and Bob use every archetype everywhere.       *)
StaleModel ==
    UNION {AgreementFile(s, AllArchetypes, AllProviders,
                         [Alice |-> AllArchetypes, Bob |-> AllArchetypes]) : s \in MCStewards}
MCFactsOf == [vu |-> agreement_VU, uva |-> agreement_UVA, stale |-> StaleModel]

Store(rules, model, config) == [k \in Keys |->
    CASE k[1] = "eflintRules"  -> rules
      [] k[1] = "eflintModels" -> model
      [] OTHER                 -> config]
MCStores == {Store(Absent, Absent, Absent), Store("rules", "stale", EflintConfig),
             Store("rules", Absent, "stale")}
FlagStores == {Store(Absent, Absent, Absent), Store("rules", "stale", EflintConfig)}

(* An empty object, an approval of everything, one in words, a denial, and  *)
(* a body that cannot be read.                                              *)
CONSTANT SomeText
MCListOf == SomeText :> {"t"}
Everything == [archetypes |-> AllArchetypes, compute_providers |-> AllProviders]
FaultyBodies ==
    {NoBody, Malformed,
     [request_approved |-> TRUE, invalid_dataproviders |-> Missing,
      valid_dataproviders |-> [s \in MCStewards |-> Everything],
      auth |-> [access_token |-> "token", refresh_token |-> "token"]],
     [request_approved |-> TRUE, invalid_dataproviders |-> {},
      valid_dataproviders |->
        [UVA |-> [archetypes |-> {DTT}, compute_providers |-> AllProviders]],
      auth |-> [access_token |-> "", refresh_token |-> Missing]],
     [request_approved |-> SomeText, invalid_dataproviders |-> Missing,
      valid_dataproviders |->
        [UVA |-> [archetypes |-> {DTT}, compute_providers |-> AllProviders]],
      auth |-> [access_token |-> "token", refresh_token |-> Missing]]}

Opts(gate, seed, sut) ==
    [skip_consistency_gate |-> gate, skip_seeding |-> seed, skip_sut |-> sut]

(* Two processes with every phase; p2 runs one twice.                      *)
CONSTANTS p1, p2
TwoProcs   == {p1, p2}
TwoChosen  == p1 :> <<"partial">> @@ p2 :> <<"uva", "none", "uva">>
TwoOptions == [p \in TwoProcs |-> Opts(FALSE, FALSE, FALSE)]

(* Two processes, with and without seeding, gate and Policy Enforcer.       *)
FlagChosen  == p1 :> <<"none", "partial">> @@ p2 :> <<"uva">>
FlagOptions == p1 :> Opts(TRUE, TRUE, FALSE) @@ p2 :> Opts(FALSE, FALSE, TRUE)

ASSUME InstanceAssumption == NoInterference /\ CandidatesComplete
=============================================================================
