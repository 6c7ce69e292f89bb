--------------------------- MODULE DecisionProofs ---------------------------
(***************************************************************************)
(* What the policy rules guarantee for every knowledge base, and what a    *)
(* passed comparison of two decisions says, for all stewards, archetypes   *)
(* and providers.                                                          *)
(***************************************************************************)
EXTENDS Policy, Comparator, TLAPS

-----------------------------------------------------------------------------
(* An archetype is offered only at a steward that permits the requester,   *)
(* with the steward's and the relation's consent: the Conditioned-by chain *)
(* makes the explicit permitted-at-steward check of permitted-continuation *)
(* redundant.                                                              *)
THEOREM ValidImpliesPermitted ==
    ASSUME NEW kb, NEW r, NEW s, NEW a
    PROVE  /\ ValidArchetype(kb, r, s, a) => PermittedAtSteward(kb, r, s)
           /\ ValidProvider(kb, r, s, a) => PermittedAtSteward(kb, r, s)
           /\ PermittedContinuation(kb, r, s, a) <=> ValidArchetype(kb, r, s, a)
BY DEF ValidArchetype, ValidProvider, AllowsArchetype, AllowsProvider, HasRelation,
       PermittedAtSteward, PermittedContinuation

(* Revoking an agreement withdraws every permission at its steward.        *)
THEOREM NoAgreementNoPermission ==
    ASSUME NEW kb, NEW r, NEW s, NEW a, <<"agreement", s>> \notin kb
    PROVE  /\ ~PermittedAtSteward(kb, r, s)
           /\ ~ValidArchetype(kb, r, s, a)
           /\ ~ValidProvider(kb, r, s, a)
BY DEF ValidArchetype, ValidProvider, AllowsArchetype, AllowsProvider, HasRelation,
       PermittedAtSteward, Agreement

(* The requested stewards of a knowledge base are the request's own, when  *)
(* no fixture fact claims to be one.                                       *)
LEMMA RequestedOf ==
    ASSUME NEW facts, NEW r, NEW stewards,
           \A f \in facts : f[1] # "requested-steward"
    PROVE  RequestedStewards(facts \cup RequestFacts(r, stewards)) = stewards
<1> DEFINE kb == facts \cup RequestFacts(r, stewards)
<1>1. ASSUME NEW s \in stewards
      PROVE  s \in RequestedStewards(kb)
  <2>1. <<"requested-steward", s>> \in kb
    BY DEF RequestFacts
  <2> QED
    BY <2>1 DEF RequestedStewards
<1>2. ASSUME NEW s \in RequestedStewards(kb)
      PROVE  s \in stewards
  <2>1. PICK f \in kb : f[1] = "requested-steward" /\ s = f[2]
    BY <1>2 DEF RequestedStewards
  <2>2. f \in RequestFacts(r, stewards)
    BY <2>1
  <2>3. PICK t \in stewards : f = <<"requested-steward", t>>
    BY <2>1, <2>2 DEF RequestFacts
  <2> QED
    BY <2>1, <2>3
<1> QED
  BY <1>1, <1>2

(* Every decision the projection yields is coherent: the requested         *)
(* stewards split into valid and invalid ones, and the request is approved *)
(* exactly when one of them is valid.                                      *)
THEOREM ProjectionCoherent ==
    ASSUME NEW facts, NEW r, NEW stewards, NEW archetypes, NEW providers,
           \A f \in facts : f[1] # "requested-steward"
    PROVE  Coherent(Projection(facts \cup RequestFacts(r, stewards),
                               r, stewards, archetypes, providers), stewards)
<1> DEFINE kb == facts \cup RequestFacts(r, stewards)
           d  == Projection(kb, r, stewards, archetypes, providers)
           valid == {s \in stewards : PermittedAtSteward(kb, r, s)}
<1>1. /\ DOMAIN d.valid_dataproviders = valid
      /\ d.invalid_dataproviders = stewards \ valid
      /\ d.request_approved = PermittedRequest(kb, r)
  BY DEF Projection
<1>2. RequestedStewards(kb) = stewards
  BY RequestedOf
<1>3. d.request_approved <=> valid # {}
  BY <1>1, <1>2 DEF PermittedRequest
<1> QED
  BY <1>1, <1>3 DEF Coherent

-----------------------------------------------------------------------------
(* What a knowledge base holds.                                            *)
LEMMA InKnowledgeBase ==
    ASSUME NEW files, NEW loaded, NEW r, NEW stewards, NEW f
    PROVE  f \in KnowledgeBase(files, loaded, r, stewards)
             <=> (\E t \in loaded : f \in files[t]) \/ f \in RequestFacts(r, stewards)
<1>1. f \in UNION {files[t] : t \in loaded} <=> \E t \in loaded : f \in files[t]
  BY Zenon
<1> QED
  BY <1>1 DEF KnowledgeBase

(* Agreement files that speak for their own stewards request none.         *)
LEMMA RequestedInKnowledgeBase ==
    ASSUME NEW files, NEW loaded, NEW r, NEW stewards,
           \A s \in loaded : SpeaksFor(files[s], s)
    PROVE  RequestedStewards(KnowledgeBase(files, loaded, r, stewards)) = stewards
<1> DEFINE facts == UNION {files[s] : s \in loaded}
<1>1. \A f \in facts : f[1] # "requested-steward"
  <2>1. ASSUME NEW f \in facts PROVE f[1] # "requested-steward"
    <3>1. PICK t \in loaded : f \in files[t]
      BY <2>1, Zenon
    <3> QED
      BY <3>1 DEF SpeaksFor, RuleTypes
  <2> QED
    BY <2>1
<1>2. KnowledgeBase(files, loaded, r, stewards) = facts \cup RequestFacts(r, stewards)
  BY DEF KnowledgeBase
<1> HIDE DEF facts
<1> QED
  BY <1>1, <1>2, RequestedOf

(* Loading more agreement files than the request addresses changes no      *)
(* decision about it: the oracle loads every agreement of the manifest,    *)
(* the Policy Enforcer only those of the requested stewards.               *)
THEOREM DecisionIsLocal ==
    ASSUME NEW files, NEW r, NEW stewards, NEW archetypes, NEW providers,
           \A s \in DOMAIN files : SpeaksFor(files[s], s)
    PROVE  LET all  == KnowledgeBase(files, DOMAIN files, r, stewards)
               some == KnowledgeBase(files, DOMAIN files \cap stewards, r, stewards)
           IN  Projection(all, r, stewards, archetypes, providers)
                 = Projection(some, r, stewards, archetypes, providers)
<1> DEFINE all  == KnowledgeBase(files, DOMAIN files, r, stewards)
           some == KnowledgeBase(files, DOMAIN files \cap stewards, r, stewards)
<1>1. ASSUME NEW f, NEW s \in stewards, f[1] \in RuleTypes, f[1] # "requested-steward",
             StewardOf(f) = s
      PROVE  f \in all <=> f \in some
  <2>1. f \notin RequestFacts(r, stewards)
    BY <1>1 DEF RequestFacts, RuleTypes
  <2>2. ASSUME f \in all
        PROVE  f \in some
    <3>1. PICK t \in DOMAIN files : f \in files[t]
      BY <2>1, <2>2, InKnowledgeBase
    <3>2. t = s
      BY <1>1, <3>1 DEF SpeaksFor
    <3>3. s \in DOMAIN files \cap stewards /\ f \in files[s]
      BY <3>1, <3>2, <1>1
    <3> QED
      BY <3>3, InKnowledgeBase
  <2>3. f \in some => f \in all
    BY InKnowledgeBase
  <2> QED
    BY <2>2, <2>3
<1>2. ASSUME NEW s \in stewards
      PROVE  Agreement(all, s) <=> Agreement(some, s)
  <2>1. <<"agreement", s>>[1] = "agreement" /\ StewardOf(<<"agreement", s>>) = s
    BY DEF StewardOf
  <2> QED
    BY <2>1, <1>1 DEF Agreement, RuleTypes
<1>3. ASSUME NEW s \in stewards
      PROVE  HasRelation(all, r, s) <=> HasRelation(some, r, s)
  <2> DEFINE f == <<"has-relation", r, s>>
  <2>1. f[1] = "has-relation" /\ StewardOf(f) = s
    BY DEF StewardOf
  <2> QED
    BY <2>1, <1>1, <1>2 DEF HasRelation, RuleTypes
<1>4. ASSUME NEW s \in stewards, NEW a
      PROVE  ValidArchetype(all, r, s, a) <=> ValidArchetype(some, r, s, a)
  <2> DEFINE f == <<"relation-allows-archetype", r, s, a>>
             g == <<"steward-supports-archetype", s, a>>
  <2>1. f[1] = "relation-allows-archetype" /\ StewardOf(f) = s
    BY DEF StewardOf
  <2>2. g[1] = "steward-supports-archetype" /\ StewardOf(g) = s
    BY DEF StewardOf
  <2>3. (f \in all <=> f \in some) /\ (g \in all <=> g \in some)
    BY <2>1, <2>2, <1>1 DEF RuleTypes
  <2> QED
    BY <2>3, <1>2, <1>3 DEF ValidArchetype, AllowsArchetype, SupportsArchetype
<1>5. ASSUME NEW s \in stewards, NEW c
      PROVE  ValidProvider(all, r, s, c) <=> ValidProvider(some, r, s, c)
  <2> DEFINE f == <<"relation-allows-compute-provider", r, s, c>>
             g == <<"steward-supports-compute-provider", s, c>>
  <2>1. f[1] = "relation-allows-compute-provider" /\ StewardOf(f) = s
    BY DEF StewardOf
  <2>2. g[1] = "steward-supports-compute-provider" /\ StewardOf(g) = s
    BY DEF StewardOf
  <2>3. (f \in all <=> f \in some) /\ (g \in all <=> g \in some)
    BY <2>1, <2>2, <1>1 DEF RuleTypes
  <2> QED
    BY <2>3, <1>2, <1>3 DEF ValidProvider, AllowsProvider, SupportsProvider
<1>6. RequestedStewards(all) = stewards /\ RequestedStewards(some) = stewards
  BY RequestedInKnowledgeBase
<1>7. \A s \in stewards : PermittedAtSteward(all, r, s) <=> PermittedAtSteward(some, r, s)
  BY <1>2, <1>3 DEF PermittedAtSteward
<1>8. PermittedRequest(all, r) <=> PermittedRequest(some, r)
  BY <1>6, <1>7 DEF PermittedRequest
<1> DEFINE valid(kb) == {s \in stewards : PermittedAtSteward(kb, r, s)}
           offer(kb, s) ==
             [archetypes        |-> {a \in archetypes : ValidArchetype(kb, r, s, a)},
              compute_providers |-> {c \in providers : ValidProvider(kb, r, s, c)}]
<1>9. valid(all) = valid(some)
  BY <1>7
<1>10. \A s \in stewards : offer(all, s) = offer(some, s)
  <2> SUFFICES ASSUME NEW s \in stewards PROVE offer(all, s) = offer(some, s)
    OBVIOUS
  <2>1. {a \in archetypes : ValidArchetype(all, r, s, a)}
          = {a \in archetypes : ValidArchetype(some, r, s, a)}
    BY <1>4
  <2>2. {c \in providers : ValidProvider(all, r, s, c)}
          = {c \in providers : ValidProvider(some, r, s, c)}
    BY <1>5
  <2> QED
    BY <2>1, <2>2
<1>11. [s \in valid(all) |-> offer(all, s)] = [s \in valid(some) |-> offer(some, s)]
  <2> HIDE DEF offer
  <2> QED
    BY <1>9, <1>10
<1>12. PermittedRequest(all, r) = PermittedRequest(some, r)
  BY <1>8 DEF PermittedRequest
<1> QED
  BY <1>9, <1>11, <1>12 DEF Projection

-----------------------------------------------------------------------------
(* The comparison of two decisions.                                        *)

(* The membership facts of Statements, one per kind of statement.          *)
LEMMA StatementFacts ==
    ASSUME NEW d, NEW s, NEW x
    PROVE  /\ <<"approved", x>> \in Statements(d) <=> x = d.request_approved
           /\ <<"valid", s>> \in Statements(d) <=> s \in DOMAIN d.valid_dataproviders
           /\ <<"invalid", s>> \in Statements(d) <=> s \in d.invalid_dataproviders
           /\ <<"archetype", s, x>> \in Statements(d) <=>
                 s \in DOMAIN d.valid_dataproviders /\ x \in d.valid_dataproviders[s].archetypes
           /\ <<"provider", s, x>> \in Statements(d) <=>
                 s \in DOMAIN d.valid_dataproviders
                 /\ x \in d.valid_dataproviders[s].compute_providers
<1> DEFINE v == d.valid_dataproviders
           A == {<<"approved", y>> : y \in {d.request_approved}}
           V == {<<"valid", t>> : t \in DOMAIN v}
           I == {<<"invalid", t>> : t \in d.invalid_dataproviders}
           R == UNION {{<<"archetype", t, y>> : y \in v[t].archetypes} : t \in DOMAIN v}
           P == UNION {{<<"provider", t, y>> : y \in v[t].compute_providers} : t \in DOMAIN v}
<1>1. \A f \in A : \E y : f = <<"approved", y>>
  OBVIOUS
<1>2. \A f \in V : \E t : f = <<"valid", t>>
  OBVIOUS
<1>3. \A f \in I : \E t : f = <<"invalid", t>>
  OBVIOUS
<1>4. \A t, y : <<"archetype", t, y>> \in R <=> t \in DOMAIN v /\ y \in v[t].archetypes
  OBVIOUS
<1>5. \A t, y : <<"provider", t, y>> \in P <=> t \in DOMAIN v /\ y \in v[t].compute_providers
  OBVIOUS
<1>6. \A f \in R : \E t, y : f = <<"archetype", t, y>>
  OBVIOUS
<1>7. \A f \in P : \E t, y : f = <<"provider", t, y>>
  OBVIOUS
<1>8. Statements(d) = A \cup V \cup I \cup R \cup P
  BY DEF Statements
<1>9. /\ <<"approved", x>> \in A <=> x = d.request_approved
      /\ <<"valid", s>> \in V <=> s \in DOMAIN v
      /\ <<"invalid", s>> \in I <=> s \in d.invalid_dataproviders
  OBVIOUS
<1> HIDE DEF A, V, I, R, P
<1>10. <<"approved", x>> \notin V \cup I \cup R \cup P
  BY <1>2, <1>3, <1>6, <1>7
<1>11. <<"valid", s>> \notin A \cup I \cup R \cup P
  BY <1>1, <1>3, <1>6, <1>7
<1>12. <<"invalid", s>> \notin A \cup V \cup R \cup P
  BY <1>1, <1>2, <1>6, <1>7
<1>13. <<"archetype", s, x>> \notin A \cup V \cup I \cup P
  BY <1>1, <1>2, <1>3, <1>7
<1>14. <<"provider", s, x>> \notin A \cup V \cup I \cup R
  BY <1>1, <1>2, <1>3, <1>6
<1> QED
  BY <1>4, <1>5, <1>8, <1>9, <1>10, <1>11, <1>12, <1>13, <1>14

(* With the three decision fields asserted, a comparison is ok exactly     *)
(* when expectation and response state the same: about the request, about  *)
(* every steward, about every archetype and provider offered there.        *)
THEOREM CompareIsAgreement ==
    ASSUME NEW expected, NEW actual
    PROVE  Compare(DecisionFields, expected, actual)
             <=> Statements(expected) = Statements(actual)
<1> DEFINE e == expected.valid_dataproviders
           a == actual.valid_dataproviders
           ok == /\ expected.request_approved = actual.request_approved
                 /\ expected.invalid_dataproviders = actual.invalid_dataproviders
                 /\ ValidAgrees(e, a)
<1>1. Compare(DecisionFields, expected, actual) <=> ok
  BY DEF Compare, DecisionFields
<1>2. ASSUME ok
      PROVE  Statements(expected) = Statements(actual)
  <2>1. DOMAIN e = DOMAIN a /\ \A s \in DOMAIN e : /\ e[s].archetypes = a[s].archetypes
                                                   /\ e[s].compute_providers = a[s].compute_providers
    BY <1>2 DEF ValidAgrees, OfferedArchetypes, OfferedProviders
  <2>2. UNION {{<<"archetype", s, x>> : x \in e[s].archetypes} : s \in DOMAIN e}
          = UNION {{<<"archetype", s, x>> : x \in a[s].archetypes} : s \in DOMAIN a}
    BY <2>1
  <2>3. UNION {{<<"provider", s, x>> : x \in e[s].compute_providers} : s \in DOMAIN e}
          = UNION {{<<"provider", s, x>> : x \in a[s].compute_providers} : s \in DOMAIN a}
    BY <2>1
  <2> QED
    BY <1>2, <2>1, <2>2, <2>3 DEF Statements
<1>3. ASSUME Statements(expected) = Statements(actual)
      PROVE  ok
  <2>1. expected.request_approved = actual.request_approved
    BY <1>3, StatementFacts
  <2>2. \A s : s \in expected.invalid_dataproviders <=> s \in actual.invalid_dataproviders
    BY <1>3, StatementFacts
  <2>3. \A s : s \in DOMAIN e <=> s \in DOMAIN a
    BY <1>3, StatementFacts
  <2>4. ASSUME NEW s \in DOMAIN e
        PROVE  /\ \A x : x \in e[s].archetypes <=> x \in a[s].archetypes
               /\ \A x : x \in e[s].compute_providers <=> x \in a[s].compute_providers
    BY <1>3, <2>3, StatementFacts
  <2> QED
    BY <2>1, <2>2, <2>3, <2>4 DEF ValidAgrees, OfferedArchetypes, OfferedProviders
<1> QED
  BY <1>1, <1>2, <1>3

(* A response that passes with the decision fields asserted is as coherent *)
(* as the oracle's expectation: no steward is judged twice or left out,    *)
(* and approval goes with a valid steward.                                 *)
THEOREM OkIsCoherentForAll ==
    ASSUME NEW asserts, DecisionFields \subseteq asserts, NEW expected, NEW actual, NEW stewards,
           Coherent(expected, stewards), Compare(asserts, expected, actual)
    PROVE  Coherent(actual, stewards)
BY DEF Compare, DecisionFields, ValidAgrees, Coherent
=============================================================================
