------------------------------- MODULE Policy -------------------------------
(***************************************************************************)
(* The policy both sides of the differential test evaluate: the shared     *)
(* rules of 02_agreement_rules.eflint over the facts that the agreement    *)
(* files and the request postulate, and the projection of the decision     *)
(* that harness and Policy Enforcer exchange.                              *)
(*                                                                         *)
(* A knowledge base is a set of postulated facts, each a tuple that starts *)
(* with its type.  A fact type "Conditioned by" another holds only while   *)
(* that one holds, so a postulated fact need not hold.                     *)
(***************************************************************************)

-----------------------------------------------------------------------------
(* Intermediate facts: agreement and relation structure.                   *)

Agreement(kb, s) == <<"agreement", s>> \in kb

SupportsArchetype(kb, s, a) ==
    <<"steward-supports-archetype", s, a>> \in kb /\ Agreement(kb, s)

SupportsProvider(kb, s, c) ==
    <<"steward-supports-compute-provider", s, c>> \in kb /\ Agreement(kb, s)

HasRelation(kb, r, s) == <<"has-relation", r, s>> \in kb /\ Agreement(kb, s)

AllowsArchetype(kb, r, s, a) ==
    <<"relation-allows-archetype", r, s, a>> \in kb /\ HasRelation(kb, r, s)

AllowsProvider(kb, r, s, c) ==
    <<"relation-allows-compute-provider", r, s, c>> \in kb /\ HasRelation(kb, r, s)

-----------------------------------------------------------------------------
(* Layer-1 query facts, derived by the Extend rules.                       *)

PermittedAtSteward(kb, r, s) == Agreement(kb, s) /\ HasRelation(kb, r, s)

RequestedStewards(kb) == {f[2] : f \in {g \in kb : g[1] = "requested-steward"}}

PermittedRequest(kb, r) ==
    \E s \in RequestedStewards(kb) : PermittedAtSteward(kb, r, s)

(* Variant: the steward's support suffices.                                *)
ValidArchetypeSupportOnly(kb, r, s, a) == SupportsArchetype(kb, s, a)

ValidArchetype(kb, r, s, a) == AllowsArchetype(kb, r, s, a) /\ SupportsArchetype(kb, s, a)

ValidProvider(kb, r, s, c) == AllowsProvider(kb, r, s, c) /\ SupportsProvider(kb, s, c)

PermittedContinuation(kb, r, s, a) ==
    PermittedAtSteward(kb, r, s) /\ ValidArchetype(kb, r, s, a)

(* Variant of MaySubmit: that the steward was asked suffices.              *)
MaySubmitIfAsked(kb, r, s) == s \in RequestedStewards(kb)

(* The act submit-data-request: when it is enabled, and what it creates.   *)
MaySubmit(kb, r, s) == s \in RequestedStewards(kb) /\ PermittedAtSteward(kb, r, s)

RequestAccepted(r, s) == {<<"data-request", r, s>>, <<"obligated-log", s, r>>}

-----------------------------------------------------------------------------
(* The request and its decision.                                           *)

(* The facts the request contributes (layer 3).                            *)
RequestFacts(r, stewards) ==
    {<<"requester", r>>} \cup {<<"requested-steward", s>> : s \in stewards}

(* The knowledge base of a request that loads the agreement files of the   *)
(* stewards in loaded.                                                     *)
KnowledgeBase(files, loaded, r, stewards) ==
    (UNION {files[s] : s \in loaded}) \cup RequestFacts(r, stewards)

(* The decision for requester r at the requested stewards, restricted to   *)
(* the candidate archetypes and providers.                                 *)
Projection(kb, r, stewards, archetypes, providers) ==
    LET valid == {s \in stewards : PermittedAtSteward(kb, r, s)}
    IN  [request_approved      |-> PermittedRequest(kb, r),
         valid_dataproviders   |->
            [s \in valid |->
                [archetypes        |-> {a \in archetypes : ValidArchetype(kb, r, s, a)},
                 compute_providers |-> {c \in providers : ValidProvider(kb, r, s, c)}]],
         invalid_dataproviders |-> stewards \ valid]

(* A decision is coherent when every requested steward is judged once and  *)
(* the request is approved exactly if some steward is valid.               *)
Coherent(d, stewards) ==
    /\ DOMAIN d.valid_dataproviders \cap d.invalid_dataproviders = {}
    /\ DOMAIN d.valid_dataproviders \cup d.invalid_dataproviders = stewards
    /\ d.request_approved <=> DOMAIN d.valid_dataproviders # {}

(* The steward a rule-relevant fact is about.                              *)
StewardOf(f) ==
    IF f[1] \in {"has-relation", "relation-allows-archetype", "relation-allows-compute-provider"}
    THEN f[3] ELSE f[2]

(* The fact types the rules above consult.                                 *)
RuleTypes == {"agreement", "steward-supports-archetype", "steward-supports-compute-provider",
              "has-relation", "relation-allows-archetype", "relation-allows-compute-provider",
              "requested-steward"}

(* An agreement file speaks for its own steward only.                      *)
SpeaksFor(facts, s) ==
    \A f \in facts : f[1] \in RuleTypes => f[1] # "requested-steward" /\ StewardOf(f) = s
=============================================================================
