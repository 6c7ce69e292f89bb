---------------------------- MODULE OracleProofs ----------------------------
(***************************************************************************)
(* The oracle's answers are its reasoner's, query by query, whatever the   *)
(* order in which a round's queries are submitted and however alike their  *)
(* hints are: the counter alone keeps the invariants apart.                *)
(***************************************************************************)
EXTENDS OracleCalls, DecisionProofs, FiniteSetTheorems

FullBase(m) == KnowledgeBase(Files[m], DOMAIN Files[m], Requester[m], Requested[m])

Decision(m) ==
    Projection(FullBase(m), Requester[m], Requested[m], Archetypes(m), Providers(m))

(* The names given so far count from zero, each to one query.              *)
NamesInv ==
    /\ IsFiniteSet(DOMAIN asked)
    /\ \A q \in DOMAIN asked :
         /\ asked[q] = InvariantName(q, asked[q][2])
         /\ asked[q][2] \in 0..(Cardinality(DOMAIN asked) - 1)
    /\ \A p, q \in DOMAIN asked : asked[p][2] = asked[q][2] => p = q

(* The reasoner knows no invariant the oracle did not name.                *)
DeclaredInv == DOMAIN declared \subseteq DOMAIN holds

(* Until the facts are loaded nothing is asked; from then on they stay.    *)
BaseInv ==
    /\ phase = "start" => DOMAIN asked = {}
    /\ phase # "start" /\ man \notin Rejecting => kb = FullBase(man)

(* An answer kept is the reasoner's, except that a rejected query holds.   *)
AnswersInv == \A q \in DOMAIN asked :
    /\ ~Holds(q) => ~Truth(kb, Requester[man], q)
    /\ man \notin Rejecting /\ Holds(q) => Truth(kb, Requester[man], q)

OracleInv ==
    /\ TypeOK
    /\ NamesInv
    /\ DeclaredInv
    /\ BaseInv
    /\ AnswersInv
    /\ phase = "done" /\ man \notin Rejecting => expected = Decision(man)

-----------------------------------------------------------------------------
(* The start.                                                              *)
LEMMA OracleInit == Init => OracleInv
<1> SUFFICES ASSUME Init PROVE OracleInv
  OBVIOUS
<1>1. DOMAIN asked = {} /\ DOMAIN holds = {} /\ DOMAIN declared = {}
  BY DEF Init
<1>2. TypeOK
  BY <1>1 DEF Init, TypeOK
<1>3. NamesInv
  BY <1>1, FS_EmptySet DEF NamesInv
<1> QED
  BY <1>1, <1>2, <1>3 DEF Init, OracleInv, DeclaredInv, BaseInv, AnswersInv

(* The reasoner loads the policy and the first invariants.                 *)
LEMMA LoadStep == OracleInv /\ Load => OracleInv'
<1> SUFFICES ASSUME OracleInv, Load PROVE OracleInv'
  OBVIOUS
<1> USE DEF OracleInv, Load
<1>1. TypeOK'
  BY DEF TypeOK
<1>2. NamesInv'
  BY DEF NamesInv
<1>3. DeclaredInv'
  BY DEF DeclaredInv
<1>4. BaseInv'
  BY DEF BaseInv, FullBase
<1>5. AnswersInv'
  BY DEF AnswersInv, BaseInv
<1> QED
  BY <1>1, <1>2, <1>3, <1>4, <1>5

(* The name of the next query is new, and it is that query's alone.        *)
LEMMA FreshName ==
    ASSUME OracleInv, NEW q
    PROVE  /\ Cardinality(DOMAIN asked) \in Nat
           /\ InvariantName(q, Cardinality(DOMAIN asked)) \notin DOMAIN holds
<1> DEFINE n == Cardinality(DOMAIN asked)
<1>1. n \in Nat
  BY FS_CardinalityType DEF OracleInv, NamesInv
<1>2. ASSUME NEW p \in DOMAIN asked
      PROVE  asked[p] # InvariantName(q, n)
  <2>1. asked[p][2] \in 0..(n - 1)
    BY DEF OracleInv, NamesInv
  <2>2. InvariantName(q, n)[2] = n
    BY DEF InvariantName
  <2> QED
    BY <1>1, <2>1, <2>2
<1> QED
  BY <1>1, <1>2 DEF OracleInv, TypeOK

(* A query is answered, or rejected.                                       *)
LEMMA QueryStep ==
    ASSUME OracleInv, NEW q \in Open, NEW ok \in BOOLEAN, ok \/ man \in Rejecting,
           Query(q, ok)
    PROVE  OracleInv'
<1> DEFINE n    == Cardinality(DOMAIN asked)
           name == InvariantName(q, n)
<1>1. n \in Nat /\ name \notin DOMAIN holds /\ name \notin DOMAIN declared
  BY FreshName DEF OracleInv, DeclaredInv
<1>2. q \notin DOMAIN asked
  BY DEF Open, Left
<1>3. /\ phase = "loaded"
      /\ UNCHANGED <<man, phase, kb, expected>>
      /\ asked' = Extend(asked, q, name)
      /\ holds' = Extend(holds, name, ~Violated(name, q, ok))
      /\ declared' = IF ok THEN Extend(declared, name, q) ELSE declared
      /\ accepted' = IF ok THEN accepted \cup {q} ELSE accepted
  BY DEF Query
<1>4. /\ DOMAIN asked' = DOMAIN asked \cup {q}
      /\ asked'[q] = name
      /\ \A p \in DOMAIN asked : asked'[p] = asked[p]
  BY <1>2, <1>3 DEF Extend
<1>5. /\ DOMAIN holds' = DOMAIN holds \cup {name}
      /\ holds'[name] = ~Violated(name, q, ok)
      /\ \A x \in DOMAIN holds : holds'[x] = holds[x]
  BY <1>1, <1>3 DEF Extend
<1>6. /\ ok => (Violated(name, q, ok) <=> ~Truth(kb, Requester[man], q))
      /\ ~ok => ~Violated(name, q, ok)
  BY <1>1 DEF Violated
<1>7. name[2] = n /\ name = InvariantName(q, name[2])
  BY DEF InvariantName
<1> HIDE DEF name, n
<1>8. IsFiniteSet(DOMAIN asked') /\ Cardinality(DOMAIN asked') = n + 1
  <2>1. IsFiniteSet(DOMAIN asked)
    BY DEF OracleInv, NamesInv
  <2>2. IsFiniteSet(DOMAIN asked \cup {q}) /\ Cardinality(DOMAIN asked \cup {q}) = n + 1
    BY <2>1, <1>2, FS_AddElement DEF n
  <2> QED
    BY <2>2, <1>4
<1>9. TypeOK'
  <2>1. DOMAIN holds' = {asked'[p] : p \in DOMAIN asked'}
    BY <1>4, <1>5 DEF OracleInv, TypeOK
  <2>2. \A x \in DOMAIN holds' : holds'[x] \in BOOLEAN
    BY <1>5 DEF OracleInv, TypeOK, Violated
  <2>3. (accepted \subseteq DOMAIN asked)'
    BY <1>3, <1>4 DEF OracleInv, TypeOK
  <2> QED
    BY <2>1, <2>2, <2>3, <1>3 DEF OracleInv, TypeOK
<1>10. NamesInv'
  <2>1. ASSUME NEW p \in DOMAIN asked'
        PROVE  /\ asked'[p] = InvariantName(p, asked'[p][2])
               /\ asked'[p][2] \in 0..n
               /\ p # q => asked'[p][2] \in 0..(n - 1)
    BY <1>1, <1>4, <1>7 DEF OracleInv, NamesInv, n
  <2>2. ASSUME NEW p \in DOMAIN asked', NEW r \in DOMAIN asked', asked'[p][2] = asked'[r][2]
        PROVE  p = r
    <3>1. asked'[q][2] = n
      BY <1>4, <1>7
    <3>2. CASE p = q \/ r = q
      BY <3>1, <3>2, <2>1, <2>2, <1>1
    <3>3. CASE p # q /\ r # q
      BY <3>3, <2>2, <1>4 DEF OracleInv, NamesInv
    <3> QED
      BY <3>2, <3>3
  <2> QED
    BY <2>1, <2>2, <1>1, <1>8 DEF NamesInv, InvariantName
<1>11. DeclaredInv'
  BY <1>3, <1>5 DEF OracleInv, DeclaredInv, Extend
<1>12. BaseInv'
  BY <1>3 DEF OracleInv, BaseInv, FullBase
<1>13. AnswersInv'
  <2> SUFFICES ASSUME NEW p \in DOMAIN asked'
               PROVE  /\ ~holds'[asked'[p]] => ~Truth(kb, Requester[man], p)
                      /\ man \notin Rejecting /\ holds'[asked'[p]] => Truth(kb, Requester[man], p)
    BY <1>3 DEF AnswersInv, Holds
  <2>1. CASE p = q
    <3>1. holds'[asked'[q]] = ~Violated(name, q, ok)
      BY <1>4, <1>5
    <3> QED
      BY <2>1, <3>1, <1>6
  <2>2. CASE p # q
    <3>1. p \in DOMAIN asked
      BY <2>2, <1>4
    <3>2. asked[p] \in DOMAIN holds
      BY <3>1 DEF OracleInv, TypeOK
    <3>3. holds'[asked'[p]] = holds[asked[p]]
      BY <3>1, <3>2, <1>4, <1>5
    <3> QED
      BY <3>1, <3>3 DEF OracleInv, AnswersInv, Holds
  <2> QED
    BY <2>1, <2>2
<1> QED
  BY <1>3, <1>9, <1>10, <1>11, <1>12, <1>13 DEF OracleInv

(* No query is open only when all four rounds have been asked.             *)
LEMMA AllAsked ==
    ASSUME Open = {}
    PROVE  /\ <<"perm_req">> \in DOMAIN asked
           /\ \A s \in Requested[man] :
                /\ <<"perm", s>> \in DOMAIN asked
                /\ \A a \in Archetypes(man) : <<"arch", s, a>> \in DOMAIN asked
                /\ \A c \in Providers(man) : <<"cp", s, c>> \in DOMAIN asked
<1> DEFINE K == {k \in 1..4 : \A j \in 1..(k - 1) : Left(j) = {}}
<1>1. \A i \in K : Left(i) \subseteq Open
  BY Zenon DEF Open
<1>2. \A i \in K : Left(i) = {}
  BY <1>1
<1> HIDE DEF K
<1>3. Left(1) = {}
  <2>1. 1 \in K
    BY DEF K
  <2> QED
    BY <1>2, <2>1
<1>4. Left(2) = {}
  <2>1. 2 \in K
    BY <1>3 DEF K
  <2> QED
    BY <1>2, <2>1
<1>5. Left(3) = {}
  <2>1. 3 \in K
    BY <1>3, <1>4 DEF K
  <2> QED
    BY <1>2, <2>1
<1>6. Left(4) = {}
  <2>1. 4 \in K
    BY <1>3, <1>4, <1>5 DEF K
  <2> QED
    BY <1>2, <2>1
<1>7. /\ Rounds(man)[1] \subseteq DOMAIN asked
      /\ Rounds(man)[2] \subseteq DOMAIN asked
      /\ Rounds(man)[3] \subseteq DOMAIN asked
      /\ Rounds(man)[4] \subseteq DOMAIN asked
  BY <1>3, <1>4, <1>5, <1>6 DEF Left
<1> QED
  BY <1>7 DEF Rounds

(* What the oracle reads off the kept answers is the decision of the facts *)
(* its reasoner has.                                                       *)
LEMMA ProjectStep == OracleInv /\ Project => OracleInv'
<1> SUFFICES ASSUME OracleInv, Project PROVE OracleInv'
  OBVIOUS
<1>1. /\ phase = "loaded" /\ phase' = "done" /\ Open = {}
      /\ UNCHANGED <<man, kb, declared, accepted, asked, holds>>
  BY DEF Project
<1>2. TypeOK' /\ NamesInv' /\ DeclaredInv' /\ BaseInv' /\ AnswersInv'
  BY <1>1 DEF OracleInv, TypeOK, NamesInv, DeclaredInv, BaseInv, FullBase, AnswersInv, Holds
<1>3. ASSUME man \notin Rejecting
      PROVE  expected' = Decision(man)
  <2> DEFINE r == Requester[man]
             valid == {s \in Requested[man] : Holds(<<"perm", s>>)}
             permitted == {s \in Requested[man] : PermittedAtSteward(kb, r, s)}
             read(s) ==
               [archetypes        |-> {a \in Archetypes(man) : Holds(<<"arch", s, a>>)},
                compute_providers |-> {c \in Providers(man) : Holds(<<"cp", s, c>>)}]
             offer(s) ==
               [archetypes        |-> {a \in Archetypes(man) : ValidArchetype(kb, r, s, a)},
                compute_providers |-> {c \in Providers(man) : ValidProvider(kb, r, s, c)}]
  <2>1. kb = FullBase(man)
    BY <1>1, <1>3 DEF OracleInv, BaseInv
  <2>2. ASSUME NEW q \in DOMAIN asked PROVE Holds(q) <=> Truth(kb, r, q)
    BY <1>3 DEF OracleInv, AnswersInv
  <2>3. Holds(<<"perm_req">>) <=> PermittedRequest(kb, r)
    <3>1. Holds(<<"perm_req">>) <=> Truth(kb, r, <<"perm_req">>)
      BY <1>1, <2>2, AllAsked
    <3> QED
      BY <3>1 DEF Truth
  <2>4. \A s \in Requested[man] : Holds(<<"perm", s>>) <=> PermittedAtSteward(kb, r, s)
    <3> SUFFICES ASSUME NEW s \in Requested[man]
                 PROVE  Holds(<<"perm", s>>) <=> PermittedAtSteward(kb, r, s)
      OBVIOUS
    <3>1. Holds(<<"perm", s>>) <=> Truth(kb, r, <<"perm", s>>)
      BY <1>1, <2>2, AllAsked
    <3> QED
      BY <3>1 DEF Truth
  <2>5. \A s \in Requested[man] : read(s) = offer(s)
    <3> SUFFICES ASSUME NEW s \in Requested[man] PROVE read(s) = offer(s)
      OBVIOUS
    <3>1. \A a \in Archetypes(man) : Holds(<<"arch", s, a>>) <=> Truth(kb, r, <<"arch", s, a>>)
      BY <1>1, <2>2, AllAsked
    <3>2. \A c \in Providers(man) : Holds(<<"cp", s, c>>) <=> Truth(kb, r, <<"cp", s, c>>)
      BY <1>1, <2>2, AllAsked
    <3>3. {a \in Archetypes(man) : Holds(<<"arch", s, a>>)}
            = {a \in Archetypes(man) : ValidArchetype(kb, r, s, a)}
      BY <3>1 DEF Truth
    <3>4. {c \in Providers(man) : Holds(<<"cp", s, c>>)}
            = {c \in Providers(man) : ValidProvider(kb, r, s, c)}
      BY <3>2 DEF Truth
    <3> QED
      BY <3>3, <3>4
  <2>6. valid = permitted
    BY <2>4
  <2>7. [s \in valid |-> read(s)] = [s \in permitted |-> offer(s)]
    <3> HIDE DEF read, offer
    <3> QED
      BY <2>5, <2>6
  <2>8. Holds(<<"perm_req">>) = PermittedRequest(kb, r)
    <3>1. Holds(<<"perm_req">>) \in BOOLEAN
      BY <1>1, AllAsked DEF OracleInv, TypeOK, Holds
    <3>2. PermittedRequest(kb, r) \in BOOLEAN
      BY DEF PermittedRequest
    <3> QED
      BY <2>3, <3>1, <3>2
  <2>9. expected' = [request_approved      |-> Holds(<<"perm_req">>),
                     valid_dataproviders   |-> [s \in valid |-> read(s)],
                     invalid_dataproviders |-> Requested[man] \ valid]
    BY DEF Project
  <2>10. Decision(man) = [request_approved      |-> PermittedRequest(kb, r),
                          valid_dataproviders   |-> [s \in permitted |-> offer(s)],
                          invalid_dataproviders |-> Requested[man] \ permitted]
    BY <2>1 DEF Decision, Projection
  <2> HIDE DEF read, offer, valid, permitted
  <2> QED
    BY <2>6, <2>7, <2>8, <2>9, <2>10
<1> QED
  BY <1>1, <1>2, <1>3 DEF OracleInv

-----------------------------------------------------------------------------
(* Every step of the oracle keeps its invariant.                           *)
LEMMA OracleStep == OracleInv /\ [Next]_oracleVars => OracleInv'
<1> SUFFICES ASSUME OracleInv, [Next]_oracleVars PROVE OracleInv'
  OBVIOUS
<1>1. CASE Load
  BY <1>1, LoadStep
<1>2. CASE \E q \in Open : Query(q, TRUE) \/ (man \in Rejecting /\ Query(q, FALSE))
  <2>1. PICK q \in Open, ok \in BOOLEAN : (ok \/ man \in Rejecting) /\ Query(q, ok)
    BY <1>2
  <2> QED
    BY <2>1, QueryStep
<1>3. CASE Project
  BY <1>3, ProjectStep
<1>4. CASE UNCHANGED oracleVars
  BY <1>4 DEF oracleVars, OracleInv, TypeOK, NamesInv, DeclaredInv, BaseInv, FullBase,
              AnswersInv, Holds, Decision
<1> QED
  BY <1>1, <1>2, <1>3, <1>4 DEF Next

(* The oracle's invariant is inductive, for any manifests, identifiers and *)
(* rejected phrases.                                                       *)
THEOREM OracleInvariance == Spec => []OracleInv
<1> QED
  BY OracleInit, OracleStep, PTL DEF Spec

(* Every variable of the oracle keeps its type.                            *)
THEOREM OracleTypes == Spec => []TypeOK
<1>1. OracleInv => TypeOK
  BY DEF OracleInv
<1> QED
  BY <1>1, OracleInvariance, PTL

(* When the reasoner accepts every phrase, the expected response is the    *)
(* policy's decision, for any identifiers, also those _sanitize confuses.  *)
THEOREM OracleIsExact == Spec => []OracleExact
<1>1. OracleInv => OracleExact
  BY DEF OracleInv, OracleExact, Decision, FullBase
<1> QED
  BY <1>1, OracleInvariance, PTL

(* A query the oracle reports as not holding does not hold in the facts    *)
(* the reasoner has, whichever phrases it rejected.                        *)
THEOREM ErrorsArePermissive == Spec => []DenialsAreTrue
<1>1. OracleInv => DenialsAreTrue
  BY DEF OracleInv, AnswersInv, DenialsAreTrue
<1> QED
  BY <1>1, OracleInvariance, PTL

(* When moreover every agreement file speaks for its own steward, what the *)
(* oracle expects is coherent, and it is the decision of a Policy Enforcer *)
(* that has only the requested stewards' agreements.                       *)
ExpectsEnforcersDecision == phase = "done" /\ man \notin Rejecting =>
    LET some == KnowledgeBase(Files[man], DOMAIN Files[man] \cap Requested[man],
                              Requester[man], Requested[man])
    IN  /\ Coherent(expected, Requested[man])
        /\ expected = Projection(some, Requester[man], Requested[man],
                                 Archetypes(man), Providers(man))

(* When every agreement file speaks for its own steward, what the oracle   *)
(* derives is the decision over the files of the requested stewards alone, *)
(* which is what the Policy Enforcer loads.                                *)
THEOREM OracleServesEnforcer ==
    ASSUME \A m \in Manifests : \A s \in DOMAIN Files[m] : SpeaksFor(Files[m][s], s)
    PROVE  Spec => []ExpectsEnforcersDecision
<1>1. OracleInv => ExpectsEnforcersDecision
  <2> SUFFICES ASSUME OracleInv, phase = "done", man \notin Rejecting
               PROVE  LET some == KnowledgeBase(Files[man], DOMAIN Files[man] \cap Requested[man],
                                                Requester[man], Requested[man])
                      IN  /\ Coherent(expected, Requested[man])
                          /\ expected = Projection(some, Requester[man], Requested[man],
                                                   Archetypes(man), Providers(man))
    BY DEF ExpectsEnforcersDecision
  <2> DEFINE files == Files[man]
             facts == UNION {files[s] : s \in DOMAIN files}
  <2>1. man \in Manifests /\ expected = Decision(man)
    BY DEF OracleInv, TypeOK
  <2>2. \A s \in DOMAIN files : SpeaksFor(files[s], s)
    BY <2>1
  <2>3. \A f \in facts : f[1] # "requested-steward"
    <3> SUFFICES ASSUME NEW f \in facts PROVE f[1] # "requested-steward"
      OBVIOUS
    <3>1. PICK s \in DOMAIN files : f \in files[s]
      BY Zenon
    <3> QED
      BY <3>1, <2>2 DEF SpeaksFor, RuleTypes
  <2>4. FullBase(man) = facts \cup RequestFacts(Requester[man], Requested[man])
    BY DEF FullBase, KnowledgeBase
  <2> HIDE DEF facts
  <2>5. Coherent(Projection(facts \cup RequestFacts(Requester[man], Requested[man]),
                            Requester[man], Requested[man], Archetypes(man), Providers(man)),
                 Requested[man])
    BY <2>3, ProjectionCoherent
  <2>6. Coherent(expected, Requested[man])
    BY <2>1, <2>4, <2>5 DEF Decision
  <2> HIDE DEF files
  <2>7. Projection(KnowledgeBase(files, DOMAIN files, Requester[man], Requested[man]),
                   Requester[man], Requested[man], Archetypes(man), Providers(man))
          = Projection(KnowledgeBase(files, DOMAIN files \cap Requested[man],
                                     Requester[man], Requested[man]),
                       Requester[man], Requested[man], Archetypes(man), Providers(man))
    BY <2>2, DecisionIsLocal
  <2> QED
    BY <2>1, <2>6, <2>7 DEF Decision, FullBase, files
<1> QED
  BY <1>1, OracleInvariance, PTL
-----------------------------------------------------------------------------
(* On the driver.  The reports outstanding belong to the lines outstanding, *)
(* they are about invariants declared before, and a query under way is one *)
(* that is open.                                                           *)
SomeLine == [of : Nat, part : Calls!Parts]

DerivationInv ==
    /\ OracleInv
    /\ calls \in Nat
    /\ leftover \in Seq(SomeLine)
    /\ late \in Seq({NoName} \cup DOMAIN declared)
    /\ Len(late) = Len(leftover)
    /\ state = "calling" /\ phase = "loaded" => asking \in Open

(* The lines of one part are lines.                                        *)
LEMMA SaysLines ==
    ASSUME NEW n \in Nat, NEW part \in Calls!Parts, NEW k \in 0..MaxLines
    PROVE  Calls!Says(n, part, k) \in Seq(SomeLine) /\ Len(Calls!Says(n, part, k)) = k
<1>1. k \in Nat
  BY FixtureAssumption
<1> QED
  BY <1>1 DEF Calls!Says, SomeLine

(* What is reported is a sequence, of invariants declared by then.         *)
LEMMA ReportsAreNames ==
    ASSUME NEW d, NEW k \in Nat, NEW said \in Reports(d, k)
    PROVE  said \in Seq({NoName} \cup DOMAIN d) /\ Len(said) = k
BY DEF Reports, Reportable

(* Once it is started.                                                     *)
LEMMA DerivationInitInv == DerivationInit => DerivationInv
<1> SUFFICES ASSUME DerivationInit PROVE DerivationInv
  OBVIOUS
<1>1. OracleInv
  BY OracleInit DEF DerivationInit
<1> QED
  BY <1>1 DEF DerivationInit, DerivationInv, Calls!Init

(* An answer is what was left and some lines more, and leaves lines.       *)
LEMMA AnswerLines ==
    ASSUME DerivationInv, Calls!Answer
    PROVE  /\ state = "calling" /\ state' = "idle" /\ calls' \in Nat
           /\ leftover' \in Seq(SomeLine)
           /\ Len(answer') - Len(late) \in Nat
<1>1. /\ state = "calling" /\ state' = "idle" /\ calls' = calls + 1
      /\ \E own, before, after \in 0..MaxLines :
           /\ answer' = leftover \o Calls!Says(calls', "own", own)
                         \o Calls!Says(calls', "before", before)
           /\ leftover' = Calls!Says(calls', "after", after)
  BY DEF Calls!Answer
<1>2. PICK own \in 0..MaxLines, before \in 0..MaxLines, after \in 0..MaxLines :
           /\ answer' = leftover \o Calls!Says(calls', "own", own)
                         \o Calls!Says(calls', "before", before)
           /\ leftover' = Calls!Says(calls', "after", after)
  BY <1>1
<1>3. calls' \in Nat
  BY <1>1 DEF DerivationInv
<1>4. PICK a, b : /\ a = Calls!Says(calls', "own", own)
                  /\ b = Calls!Says(calls', "before", before)
  OBVIOUS
<1>5. a \in Seq(SomeLine) /\ b \in Seq(SomeLine)
  BY <1>3, <1>4, SaysLines DEF Calls!Parts
<1>6. leftover' \in Seq(SomeLine)
  BY <1>2, <1>3, SaysLines DEF Calls!Parts
<1>7. answer' = leftover \o a \o b
  BY <1>2, <1>4
<1>8. Len(answer') = Len(leftover) + Len(a) + Len(b)
  BY <1>5, <1>7 DEF DerivationInv
<1>9. Len(answer') - Len(late) = Len(a) + Len(b)
  BY <1>5, <1>8 DEF DerivationInv
<1> QED
  BY <1>1, <1>3, <1>5, <1>6, <1>9

(* A query answered on the driver is one answered.                         *)
LEMMA AnswerIsQuery ==
    ASSUME DerivationInv, NEW ok \in BOOLEAN, QueryAnswered(ok)
    PROVE  asking \in Open /\ Query(asking, ok)
<1> DEFINE n    == Cardinality(DOMAIN asked)
           name == InvariantName(asking, n)
<1>1. /\ phase = "loaded"
      /\ Calls!Answer
      /\ declared' = IF ok THEN Extend(declared, name, asking) ELSE declared
      /\ accepted' = IF ok THEN accepted \cup {asking} ELSE accepted
      /\ asked' = Extend(asked, asking, name)
      /\ UNCHANGED <<man, phase, kb, expected>>
  BY DEF QueryAnswered
<1>2. PICK said \in Reports(declared', Len(answer') - Len(late)) :
        /\ ok /\ ~Truth(kb, Requester[man], asking) =>
             \E i \in DOMAIN said : said[i] = name
        /\ holds' = Extend(holds, name, ~ViolatedIn(late \o said, name))
  BY DEF QueryAnswered
<1>3. name \notin DOMAIN holds /\ name \notin DOMAIN declared /\ name # NoName
  BY FreshName DEF DerivationInv, OracleInv, DeclaredInv, InvariantName, NoName
<1>4. /\ said \in Seq({NoName} \cup DOMAIN declared')
      /\ \A i \in DOMAIN said : said[i] \in Reportable(declared')
  BY <1>1, AnswerLines, ReportsAreNames DEF Reports
<1>5. late \in Seq({NoName} \cup DOMAIN declared)
  BY DEF DerivationInv
<1>6. \A i \in DOMAIN late : late[i] # name
  BY <1>3, <1>5
<1> HIDE DEF name
<1>7. ViolatedIn(late \o said, name) <=> \E i \in DOMAIN said : said[i] = name
  <2>1. ASSUME NEW i \in DOMAIN said, said[i] = name
        PROVE  \E j \in DOMAIN (late \o said) : (late \o said)[j] = name
    <3>1. /\ Len(late) + i \in DOMAIN (late \o said)
          /\ (late \o said)[Len(late) + i] = said[i]
      BY <1>4, <1>5
    <3> QED
      BY <2>1, <3>1
  <2>2. ASSUME NEW j \in DOMAIN (late \o said), (late \o said)[j] = name
        PROVE  \E i \in DOMAIN said : said[i] = name
    <3>1. CASE j \in DOMAIN late
      <4>1. (late \o said)[j] = late[j]
        BY <3>1, <1>4, <1>5
      <4> QED
        BY <2>2, <3>1, <4>1, <1>6
    <3>2. CASE j \notin DOMAIN late
      <4>1. j - Len(late) \in DOMAIN said /\ (late \o said)[j] = said[j - Len(late)]
        BY <3>2, <1>4, <1>5
      <4> QED
        BY <2>2, <4>1
    <3> QED
      BY <3>1, <3>2
  <2> QED
    BY <2>1, <2>2 DEF ViolatedIn
<1>8. ViolatedIn(late \o said, name) <=> Violated(name, asking, ok)
  <2>1. CASE ok
    <3>1. declared' = Extend(declared, name, asking)
      BY <1>1, <2>1 DEF name
    <3>2. declared'[name] = asking
      BY <3>1 DEF Extend
    <3>3. Truth(kb, Requester[man], asking) => name \notin Reportable(declared')
      BY <3>2, <1>3 DEF Reportable
    <3> QED
      BY <2>1, <3>3, <1>2, <1>4, <1>7 DEF Violated, name
  <2>2. CASE ~ok
    <3>1. declared' = declared
      BY <1>1, <2>2
    <3>2. name \notin Reportable(declared')
      BY <3>1, <1>3 DEF Reportable
    <3> QED
      BY <2>2, <3>2, <1>3, <1>4, <1>7 DEF Violated
  <2> QED
    BY <2>1, <2>2
<1>9. holds' = Extend(holds, name, ~Violated(name, asking, ok))
  <2>1. (~ViolatedIn(late \o said, name)) = (~Violated(name, asking, ok))
    BY <1>8 DEF ViolatedIn, Violated
  <2> QED
    BY <1>2, <2>1 DEF name
<1>10. asking \in Open
  BY <1>1, AnswerLines DEF DerivationInv
<1> QED
  BY <1>1, <1>9, <1>10 DEF Query, name

(* Every step on the driver is one of the oracle, or changes nothing of it. *)
LEMMA DerivationServes ==
    ASSUME DerivationInv, [Derive \/ ReasonerEnds]_derivationVars
    PROVE  [Next]_oracleVars
<1>1. CASE Started
  BY <1>1 DEF Started
<1>2. CASE SubmitFact
  BY <1>2 DEF SubmitFact
<1>3. CASE FactAnswered
  BY <1>3 DEF FactAnswered, Next
<1>4. CASE SubmitQuery
  BY <1>4 DEF SubmitQuery
<1>5. CASE QueryAnswered(TRUE)
  BY <1>5, AnswerIsQuery DEF Next
<1>6. CASE man \in Rejecting /\ QueryAnswered(FALSE)
  BY <1>6, AnswerIsQuery DEF Next
<1>7. CASE Raised
  BY <1>7 DEF Raised
<1>8. CASE ReasonerEnds
  BY <1>8 DEF ReasonerEnds
<1>9. CASE Leave
  BY <1>9 DEF Leave
<1>10. CASE Conclude
  BY <1>10 DEF Conclude, Next
<1>11. CASE UNCHANGED derivationVars
  BY <1>11 DEF derivationVars
<1>12. CASE Aborted
  BY <1>12 DEF Aborted
<1> QED
  BY <1>1, <1>2, <1>3, <1>4, <1>5, <1>6, <1>7, <1>8, <1>9, <1>10, <1>11, <1>12 DEF Derive

(* And the invariant is kept.                                              *)
LEMMA DerivationStep ==
    DerivationInv /\ [Derive \/ ReasonerEnds]_derivationVars => DerivationInv'
<1> SUFFICES ASSUME DerivationInv, [Derive \/ ReasonerEnds]_derivationVars
             PROVE  DerivationInv'
  OBVIOUS
<1>1. OracleInv'
  BY DerivationServes, OracleStep DEF DerivationInv
<1>2. CASE Started
  <2>1. PICK k \in 0..MaxLines : leftover' = Calls!Says(0, "after", k)
    BY <1>2 DEF Started, Calls!Ready
  <2>2. leftover' \in Seq(SomeLine)
    BY <2>1, SaysLines DEF Calls!Parts
  <2>3. late' \in Seq({NoName} \cup DOMAIN declared) /\ Len(late') = Len(leftover')
    <3>1. PICK d, n : d = declared /\ n = Len(leftover')
      OBVIOUS
    <3>2. n \in Nat /\ late' \in Reports(d, n)
      BY <1>2, <2>2, <3>1 DEF Started
    <3> QED
      BY <3>1, <3>2, ReportsAreNames
  <2> QED
    BY <1>1, <1>2, <2>2, <2>3 DEF DerivationInv, Started, Calls!Ready, oracleVars
<1>3. CASE SubmitFact
  BY <1>1, <1>3 DEF DerivationInv, SubmitFact, Calls!Call, oracleVars
<1>4. CASE FactAnswered
  <2>1. Calls!Answer /\ declared' = declared /\ late' \in Reports(declared, Len(leftover'))
    BY <1>4 DEF FactAnswered, Load, oracleVars
  <2>2. late' \in Seq({NoName} \cup DOMAIN declared') /\ Len(late') = Len(leftover')
    <3>1. PICK d, n : d = declared' /\ n = Len(leftover')
      OBVIOUS
    <3>2. n \in Nat /\ late' \in Reports(d, n)
      BY <2>1, <3>1, AnswerLines
    <3> QED
      BY <3>1, <3>2, ReportsAreNames
  <2> QED
    BY <1>1, <2>1, <2>2, AnswerLines DEF DerivationInv
<1>5. CASE SubmitQuery
  <2>1. Open' = Open
    BY <1>5 DEF SubmitQuery, oracleVars, Open, Left
  <2> QED
    BY <1>1, <1>5, <2>1 DEF DerivationInv, SubmitQuery, Calls!Call, oracleVars
<1>6. CASE QueryAnswered(TRUE) \/ QueryAnswered(FALSE)
  <2>1. Calls!Answer /\ late' \in Reports(declared', Len(leftover'))
    BY <1>6 DEF QueryAnswered
  <2>2. late' \in Seq({NoName} \cup DOMAIN declared') /\ Len(late') = Len(leftover')
    <3>1. PICK d, n : d = declared' /\ n = Len(leftover')
      OBVIOUS
    <3>2. n \in Nat /\ late' \in Reports(d, n)
      BY <2>1, <3>1, AnswerLines
    <3> QED
      BY <3>1, <3>2, ReportsAreNames
  <2> QED
    BY <1>1, <2>1, <2>2, AnswerLines DEF DerivationInv
<1>7. CASE Raised
  BY <1>1, <1>7 DEF DerivationInv, Raised, Calls!Raise, oracleVars
<1>8. CASE ReasonerEnds
  <2>1. PICK k \in 0..Len(leftover) : leftover' = SubSeq(leftover, 1, k)
    BY <1>8 DEF ReasonerEnds, Calls!End
  <2>2. leftover' \in Seq(SomeLine) /\ Len(leftover') = k
    BY <2>1 DEF DerivationInv
  <2>3. late' = SubSeq(late, 1, k)
    BY <1>8, <2>2 DEF ReasonerEnds
  <2>4. late' \in Seq({NoName} \cup DOMAIN declared) /\ Len(late') = k
    BY <2>3 DEF DerivationInv
  <2>5. UNCHANGED oracleVars /\ UNCHANGED <<state, calls, asking>>
    BY <1>8 DEF ReasonerEnds, Calls!End
  <2>6. Open' = Open
    BY <2>5 DEF oracleVars, Open, Left
  <2> QED
    BY <1>1, <2>2, <2>4, <2>5, <2>6 DEF DerivationInv, oracleVars
<1>9. CASE Leave
  BY <1>1, <1>9 DEF DerivationInv, Leave, Calls!Close, oracleVars
<1>10. CASE Conclude
  BY <1>1, <1>10 DEF DerivationInv, Conclude, Project, driverVars
<1>11. CASE UNCHANGED derivationVars
  <2>1. Open' = Open
    BY <1>11 DEF derivationVars, oracleVars, Open, Left
  <2> QED
    BY <1>1, <1>11, <2>1 DEF DerivationInv, derivationVars, oracleVars, driverVars
<1>12. CASE Aborted
  BY <1>1, <1>12 DEF DerivationInv, Aborted, Calls!Abort, oracleVars
<1> QED
  BY <1>2, <1>3, <1>4, <1>5, <1>6, <1>7, <1>8, <1>9, <1>10, <1>11, <1>12 DEF Derive

(* On its driver the oracle's invariant is inductive too.                  *)
LEMMA DerivationInvariance == DerivationSpec => []DerivationInv
<1> QED
  BY DerivationInitInv, DerivationStep, PTL DEF DerivationSpec

(* The oracle on its driver implements the one whose queries are answered  *)
(* at once: a violation reported late is never taken for another query's.  *)
THEOREM DerivationServesOracle == DerivationSpec => ServesOracle
<1>1. DerivationInit => Init
  BY DEF DerivationInit
<1>2. DerivationInv /\ [Derive \/ ReasonerEnds]_derivationVars => [Next]_oracleVars
  BY DerivationServes
<1> QED
  BY <1>1, <1>2, DerivationInvariance, PTL DEF DerivationSpec, ServesOracle

(* So what it expects on the driver is the policy's decision, if the         *)
(* reasoner rejected no phrase.                                            *)
THEOREM DerivationIsExact == DerivationSpec => []OracleExact
<1>1. DerivationInv => OracleExact
  BY DEF DerivationInv, OracleInv, OracleExact, Decision, FullBase
<1> QED
  BY <1>1, DerivationInvariance, PTL

(* And what it denies there is false, whichever phrases are rejected.      *)
THEOREM DerivationDeniesTruly == DerivationSpec => []DenialsAreTrue
<1>1. DerivationInv => DenialsAreTrue
  BY DEF DerivationInv, OracleInv, AnswersInv, DenialsAreTrue
<1> QED
  BY <1>1, DerivationInvariance, PTL
=============================================================================
