------------------------------ MODULE MCOracle ------------------------------
(***************************************************************************)
(* The oracle on its driver: on the shipped manifests and the regression   *)
(* test, on manifests whose names collide once sanitised, and on a small   *)
(* one whose phrases the reasoner may reject.                              *)
(***************************************************************************)
EXTENDS OracleCalls, ShippedScenarios, TLC

(* Stewards org1 and org2, archetypes a1 and a2, and providers c1 and c2   *)
(* sanitise alike, and the query about steward req reads like the one about *)
(* the request.  Only org1 permits Eve, and only a1.                        *)
AlikeFiles ==
    [org1 |-> AgreementFile("org1", {"a1", "a2"}, {"c1"}, [Eve |-> {"a1"}]),
     org2 |-> AgreementFile("org2", {"a1"}, {"c1", "c2"}, [Bob |-> {"a1"}]),
     req  |-> AgreementFile("req", {"a1"}, {"c1"}, [Bob |-> {"a1"}])]
Alike ==
    [listed     |-> Manifest("Eve", AlikeFiles, {"org1", "org2"}),
     discovered |-> Manifest("Eve", AlikeFiles, {"org1", "req"}),
     rejected   |-> Manifest("Eve", AlikeFiles, {"org1"})]

All == Shipped @@ Alike
AllManifests == DOMAIN All
AllRequester == [m \in AllManifests |-> All[m].user]
AllRequested == [m \in AllManifests |-> All[m].stewards]
AllFiles     == [m \in AllManifests |-> All[m].files]

(* What the files declare; those of "discovered" mention a3 in a comment.  *)
AllMentioned == [m \in AllManifests |->
    {f \in UNION {AllFiles[m][s] : s \in DOMAIN AllFiles[m]} :
        f[1] \in {"archetype", "compute-provider"}}
    \cup (IF m = "discovered" THEN {<<"archetype", "a3">>} ELSE {})]

(* The candidates a manifest lists; "discovered" leaves them to the files.  *)
AllListedArchetypes == [m \in AllManifests |->
    CASE m = "listed" -> {"a1", "a2"} [] m = "rejected" -> {"a1"}
      [] m = "discovered" -> {} [] OTHER -> AllArchetypes]
AllListedProviders == [m \in AllManifests |->
    CASE m \in {"listed", "rejected"} -> {"c1"} [] m = "discovered" -> {}
      [] OTHER -> AllProviders]
AllLetters ==
    "VU" :> <<"vu">> @@ "UVA" :> <<"uva">> @@ "SURF_org" :> <<"surf", "org">>
    @@ C2D :> <<"computetodata">> @@ DTT :> <<"datathroughttp">>
    @@ RS :> <<"reproducablescience">> @@ "SURF" :> <<"surf">>
    @@ "org1" :> <<"org">> @@ "org2" :> <<"org">> @@ "req" :> <<"req">>
    @@ "a1" :> <<"a">> @@ "a2" :> <<"a">> @@ "a3" :> <<"a">>
    @@ "c1" :> <<"c">> @@ "c2" :> <<"c">>
AllPlaces == [n \in DOMAIN AllLetters |->
    IF n \in {"VU", C2D, "SURF", "org1", "a1", "c1"} THEN 1 ELSE IF n \in {RS, "a3"} THEN 3 ELSE 2]
OnlyRejected == {"rejected"}

(* Two phrases stand for the files and the layer-3 facts.                  *)
TwoPhrases == [m \in AllManifests |-> 2]

(* SAFETY, of test_oracle_matches_hypothesis and of the regression test:    *)
(* the hand-derived table agrees with what the oracle computes.             *)
HypothesisHolds == phase = "done" /\ man \in DOMAIN HypothesisTable =>
    expected = HypothesisTable[man]
=============================================================================
