------------------------------- MODULE Oracle -------------------------------
(***************************************************************************)
(* derive_expected: the expected ValidationResponse of a manifest, read    *)
(* off an eflint-repl process one query at a time.  Every query declares a *)
(* fresh invariant and counts as holding unless the output of that very    *)
(* submission reports the invariant violated.  Invariants stay declared,   *)
(* so the names the oracle generates decide which query an answer is for.  *)
(*                                                                         *)
(* The reasoner itself is external: it evaluates Policy over the facts it  *)
(* accepted, and reports a violated invariant when it is declared (and     *)
(* possibly again later).  It may reject a phrase it cannot parse or type, *)
(* and then reports nothing.                                               *)
(***************************************************************************)
EXTENDS Naturals, FiniteSets, Sequences, Policy
LOCAL INSTANCE SequencesExt

CONSTANTS
    Manifests,          \* scenario manifests
    Requester,          \* Requester[m]: request.user.user_name
    Requested,          \* Requested[m]: request.data_providers
    Files,              \* Files[m][s]: the facts of m's agreement file for s
    Mentioned,          \* Mentioned[m]: the +archetype("x"). and +compute-provider("x").
                        \* in the text of m's agreement files, comments included
    ListedArchetypes,   \* ListedArchetypes[m]: candidates.archetypes, {} if not listed
    ListedProviders,    \* ListedProviders[m]: candidates.compute_providers
    Letters,            \* Letters[n]: the letters _sanitize keeps of the identifier n
    Rejecting           \* the manifests with phrases the reasoner may reject

ASSUME OracleAssumption ==
    /\ Rejecting \subseteq Manifests
    /\ \A m \in Manifests : Requested[m] # {}

-----------------------------------------------------------------------------
(* The candidate universe: what the manifest lists, or else every archetype *)
(* and provider that the regular expressions find in an agreement file. It *)
(* need not be a fact, nor every fact be found.                            *)

Discovered(m, type) == {f[2] : f \in {g \in Mentioned[m] : g[1] = type}}

Candidates(listed, m, type) == IF listed = {} THEN Discovered(m, type) ELSE listed

Archetypes(m) == Candidates(ListedArchetypes[m], m, "archetype")
Providers(m)  == Candidates(ListedProviders[m], m, "compute-provider")

-----------------------------------------------------------------------------
(* The queries, in the four rounds in which they are submitted.            *)

Rounds(m) ==
    << {<<"perm_req">>},
       {<<"perm", s>> : s \in Requested[m]},
       {<<"arch", s, a>> : s \in Requested[m], a \in Archetypes(m)},
       {<<"cp", s, c>> : s \in Requested[m], c \in Providers(m)} >>

(* The predicate a query asks about.                                       *)
Truth(kb, r, q) ==
    \/ q[1] = "perm_req" /\ PermittedRequest(kb, r)
    \/ q[1] = "perm" /\ PermittedAtSteward(kb, r, q[2])
    \/ q[1] = "arch" /\ ValidArchetype(kb, r, q[2], q[3])
    \/ q[1] = "cp" /\ ValidProvider(kb, r, q[2], q[3])

(* _NameGen.next: the letters of the hint, run together, and a suffix that  *)
(* counts the names.  The hint of a query is its kind and its arguments.    *)
KindLetters == [perm_req |-> <<"perm", "req">>, perm |-> <<"perm">>,
                arch |-> <<"arch">>, cp |-> <<"cp">>]

Hint(q) == FlattenSeq([i \in 1..Len(q) |-> IF i = 1 THEN KindLetters[q[1]] ELSE Letters[q[i]]])

(* Variant: no counter.                                                    *)
InvariantNameBare(q, n) == <<Hint(q)>>

InvariantName(q, n) == <<Hint(q), n>>

-----------------------------------------------------------------------------
VARIABLES
    man,        \* the manifest
    phase,      \* "start", "loaded", "done"
    kb,         \* the facts the reasoner accepted
    declared,   \* declared[n]: the query invariant n was declared for
    accepted,   \* the queries the reasoner accepted
    asked,      \* asked[q]: the name under which query q was submitted
    holds,      \* holds_results[n]
    expected    \* the ExpectedValidationResponse, once there is one

oracleVars == <<man, phase, kb, declared, accepted, asked, holds, expected>>

NoResponse == [request_approved |-> FALSE, valid_dataproviders |-> <<>>,
               invalid_dataproviders |-> {}]

Init ==
    /\ man \in Manifests
    /\ phase = "start"
    /\ kb = {}
    /\ declared = <<>> /\ asked = <<>> /\ holds = <<>>
    /\ accepted = {}
    /\ expected = NoResponse

(* submit_many of the fixture files, then of the layer-3 facts.  Their     *)
(* output is not looked at.                                                *)
Load ==
    /\ phase = "start"
    /\ phase' = "loaded"
    /\ LET all == KnowledgeBase(Files[man], DOMAIN Files[man], Requester[man], Requested[man])
       IN  \/ kb' = all
           \/ man \in Rejecting /\ \E f \in all : kb' = all \ {f}
    /\ UNCHANGED <<man, declared, accepted, asked, holds, expected>>

Extend(f, x, y) == [z \in DOMAIN f \cup {x} |-> IF z = x THEN y ELSE f[z]]

(* The open queries: those left in the first round that is not complete.   *)
Left(i) == Rounds(man)[i] \ DOMAIN asked

Open == UNION {Left(i) : i \in {k \in 1..4 : \A j \in 1..(k - 1) : Left(j) = {}}}

(* The reasoner's report on the invariant just submitted: a newly declared *)
(* one is reported exactly when it is violated, a rejected phrase reports  *)
(* nothing of its own.                                                     *)
Violated(name, q, ok) ==
    IF ok THEN ~Truth(kb, Requester[man], q)
    ELSE name \in DOMAIN declared /\ ~Truth(kb, Requester[man], declared[name])

Query(q, ok) ==
    LET name == InvariantName(q, Cardinality(DOMAIN asked))
    IN  /\ phase = "loaded"
        /\ declared' = IF ok THEN Extend(declared, name, q) ELSE declared
        /\ accepted' = IF ok THEN accepted \cup {q} ELSE accepted
        /\ asked' = Extend(asked, q, name)
        /\ holds' = Extend(holds, name, ~Violated(name, q, ok))
        /\ UNCHANGED <<man, phase, kb, expected>>

(* holds(qname) of the final projection.                                   *)
Holds(q) == holds[asked[q]]

Project ==
    /\ phase = "loaded"
    /\ Open = {}
    /\ phase' = "done"
    /\ LET valid == {s \in Requested[man] : Holds(<<"perm", s>>)}
       IN  expected' =
             [request_approved      |-> Holds(<<"perm_req">>),
              valid_dataproviders   |->
                [s \in valid |->
                  [archetypes        |-> {a \in Archetypes(man) : Holds(<<"arch", s, a>>)},
                   compute_providers |-> {c \in Providers(man) : Holds(<<"cp", s, c>>)}]],
              invalid_dataproviders |-> Requested[man] \ valid]
    /\ UNCHANGED <<man, kb, declared, accepted, asked, holds>>

Next ==
    \/ Load
    \/ \E q \in Open : Query(q, TRUE) \/ (man \in Rejecting /\ Query(q, FALSE))
    \/ Project

(* derive_expected runs to completion: nothing here waits for anyone else. *)
Spec == Init /\ [][Next]_oracleVars /\ WF_oracleVars(Next)

-----------------------------------------------------------------------------
TypeOK ==
    /\ man \in Manifests
    /\ phase \in {"start", "loaded", "done"}
    /\ DOMAIN holds = {asked[q] : q \in DOMAIN asked}
    /\ \A n \in DOMAIN holds : holds[n] \in BOOLEAN
    /\ accepted \subseteq DOMAIN asked

(* SAFETY.  When the reasoner accepts every phrase, the expected response  *)
(* is the policy's decision on the manifest's fixtures and request, however *)
(* alike the identifiers look once sanitised.                               *)
OracleExact == phase = "done" /\ man \notin Rejecting =>
    LET all == KnowledgeBase(Files[man], DOMAIN Files[man], Requester[man], Requested[man])
    IN  expected = Projection(all, Requester[man], Requested[man],
                              Archetypes(man), Providers(man))

(* SAFETY.  Even when phrases are rejected, a query the oracle reports as  *)
(* not holding does not hold in the facts the reasoner has: errors are     *)
(* one-sided, towards permission.                                          *)
DenialsAreTrue == \A q \in DOMAIN asked :
    ~Holds(q) => ~Truth(kb, Requester[man], q)

(* SAFETY, of the comment at VIOLATED_RE and the module docstring of       *)
(* eflint_repl: the positive marker "+<name>()" confirms that an invariant *)
(* holds, so a query reported as holding is one the reasoner accepted.     *)
HoldsOnlyWhenConfirmed == \A q \in DOMAIN asked : Holds(q) => q \in accepted
=============================================================================
