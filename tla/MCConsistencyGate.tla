------------------------- MODULE MCConsistencyGate -------------------------
(***************************************************************************)
(* The gate on files of up to three phrases with at most two submissions,  *)
(* against a reasoner that prints up to two lines for each, about the      *)
(* facts f(a) and f(b), the invariant i and the act f(a); and on the       *)
(* shipped self-tests, against the reasoner of SelfTests.                  *)
(***************************************************************************)
EXTENDS SelfTests, FiniteSets

fa  == Composite("f", <<"a">>)
fb  == Composite("f", <<"b">>)
any == Composite("f", <<"*">>)
inv == Composite("i", <<>>)

Comment(kind, p, existance) == [kind |-> kind, instance |-> p, existance |-> existance]
RawPhrases ==
    {Comment("assert", fa, TRUE), Comment("assert", any, FALSE),
     Comment("violated", fa, TRUE), Comment("violated", Wildcard, FALSE),
     Comment("violated", inv, TRUE)}
    \cup {[kind |-> k] : k \in {"eflint", "import", "malformed", "blank"}}

(* A malformed phrase may submit the one before it again.                   *)
Submissions(f) == {n \in DOMAIN f : f[n].kind \in Submits \cup {"malformed"}}
MCFiles == {f \in UNION {[1..n -> RawPhrases] : n \in 0..3} :
              /\ Cardinality(Submissions(f)) <= 2
              /\ \A n \in DOMAIN f : f[n].kind = "import" => n = 1 /\ Len(f) < 3}

Effect(kind, p) == [kind |-> kind, instance |-> p]
Effects ==
    {Effect("Create", fa), Effect("Create", fb), Effect("Terminate", fa),
     Effect("Obfuscate", fa),
     Effect("ActViolation", fa), Effect("InvariantViolation", inv)}
Lines == Effects \cup {[kind |-> k] : k \in {"skipped", "unknown", "garbled"}}
MCChunks == {<<>>} \cup {<<l>> : l \in Lines} \cup {<<d, e>> : d, e \in Effects}
              \cup {<<Effect("Create", fa), [kind |-> "garbled"]>>}

GateFiles == MCFiles \cup Loaded \cup Misloaded
BareFiles == About_VU \cup About_Both
MCPrints(done, raw) == IF "says" \in DOMAIN raw THEN {PolicyPrints(done, raw)} ELSE MCChunks
=============================================================================
