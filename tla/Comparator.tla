----------------------------- MODULE Comparator -----------------------------
(***************************************************************************)
(* compare, and the normalisation ActualValidationResponse does before it: *)
(* the raw JSON body of the Policy Enforcer is read with safe defaults for *)
(* absent fields, then set against the oracle's expected response on the   *)
(* fields the manifest asserts.                                            *)
(***************************************************************************)

CONSTANTS
    Missing,    \* a JSON field that is absent, null, or of a value that counts as false
    ListOf      \* ListOf[x]: what list(x) yields of x that is no list, as of a text

Assertions == {"request_approved", "valid_dataproviders", "invalid_dataproviders",
               "auth_present_when_approved"}

-----------------------------------------------------------------------------
(* ActualValidationResponse: a raw body has the four fields, each possibly *)
(* Missing; a steward's body and its two lists may be Missing too.  Lists  *)
(* are read as sets, the comparator does so throughout.  A field of a type *)
(* of its own is converted: any text is true, "false" too.                 *)

Default(x, d) == IF x = Missing THEN d ELSE x

Bool(x) == x \notin {Missing, FALSE}
List(x) == IF x = Missing THEN {} ELSE IF x \in DOMAIN ListOf THEN ListOf[x] ELSE x

EmptyBody == [archetypes |-> Missing, compute_providers |-> Missing]

NormaliseSteward(body) ==
    [archetypes        |-> List(Default(body, EmptyBody).archetypes),
     compute_providers |-> List(Default(body, EmptyBody).compute_providers)]

(* auth counts as present when one of its tokens is not empty.             *)
(* Variant: an empty token counts.                                         *)
NonEmptyIfPresent(token) == token # Missing

NonEmpty(token) == token # Missing /\ token # ""
NoAuth == [access_token |-> Missing, refresh_token |-> Missing]

Normalise(body) ==
    LET valid == Default(body.valid_dataproviders, <<>>)
        auth  == Default(body.auth, NoAuth)
    IN  [request_approved      |-> Bool(body.request_approved),
         valid_dataproviders   |-> [s \in DOMAIN valid |-> NormaliseSteward(valid[s])],
         invalid_dataproviders |-> List(body.invalid_dataproviders),
         has_nonempty_auth     |-> NonEmpty(auth.access_token) \/ NonEmpty(auth.refresh_token)]

-----------------------------------------------------------------------------
(* compare: every asserted field agrees.                                   *)

OfferedArchetypes(valid, s) == IF s \in DOMAIN valid THEN valid[s].archetypes ELSE {}
OfferedProviders(valid, s)  == IF s \in DOMAIN valid THEN valid[s].compute_providers ELSE {}

(* Variant: the sets of valid stewards are not compared.                   *)
ValidAgreesOnOffers(e, a) == \A s \in DOMAIN e \cup DOMAIN a :
    /\ OfferedArchetypes(e, s) = OfferedArchetypes(a, s)
    /\ OfferedProviders(e, s) = OfferedProviders(a, s)

ValidAgrees(e, a) ==
    /\ DOMAIN e = DOMAIN a
    /\ \A s \in DOMAIN e \cup DOMAIN a :
          /\ OfferedArchetypes(e, s) = OfferedArchetypes(a, s)
          /\ OfferedProviders(e, s) = OfferedProviders(a, s)

(* Variant: stewards the response calls invalid without cause go unnoticed. *)
CompareInvalidLoosely(asserts, expected, actual) ==
    /\ "request_approved" \in asserts =>
          expected.request_approved = actual.request_approved
    /\ "invalid_dataproviders" \in asserts =>
          expected.invalid_dataproviders \subseteq actual.invalid_dataproviders
    /\ "valid_dataproviders" \in asserts =>
          ValidAgrees(expected.valid_dataproviders, actual.valid_dataproviders)

Compare(asserts, expected, actual) ==
    /\ "request_approved" \in asserts =>
          expected.request_approved = actual.request_approved
    /\ "invalid_dataproviders" \in asserts =>
          expected.invalid_dataproviders = actual.invalid_dataproviders
    /\ "valid_dataproviders" \in asserts =>
          ValidAgrees(expected.valid_dataproviders, actual.valid_dataproviders)
    /\ "auth_present_when_approved" \in asserts /\ expected.request_approved =>
          actual.request_approved /\ actual.has_nonempty_auth

(* A decision read as the set of what it states about the request and its  *)
(* stewards: the reference the comparison is measured against.             *)
Statements(d) ==
    LET v == d.valid_dataproviders
    IN  {<<"approved", x>> : x \in {d.request_approved}}
        \cup {<<"valid", s>> : s \in DOMAIN v}
        \cup {<<"invalid", s>> : s \in d.invalid_dataproviders}
        \cup (UNION {{<<"archetype", s, x>> : x \in v[s].archetypes} : s \in DOMAIN v})
        \cup (UNION {{<<"provider", s, x>> : x \in v[s].compute_providers} : s \in DOMAIN v})

DecisionFields == {"request_approved", "valid_dataproviders", "invalid_dataproviders"}
=============================================================================
