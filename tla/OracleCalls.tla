---------------------------- MODULE OracleCalls ----------------------------
(***************************************************************************)
(* derive_expected on the driver it uses.  Oracle answers a query in one   *)
(* step; here a phrase is submitted and answered in two, the reasoner may  *)
(* be gone in between, and an answer begins with what the reasoner still   *)
(* had to say about the phrase before.  query looks for the name of its    *)
(* invariant in all of it.                                                 *)
(*                                                                         *)
(* A line of an answer reports at most one violated invariant.  One that   *)
(* is violated is reported when it is declared, and may be reported again  *)
(* with every later phrase.                                                *)
(***************************************************************************)
EXTENDS Oracle

CONSTANTS
    NPhrases,       \* bound: phrases of one derivation
    MaxLines,       \* bound: lines of one part of a response
    Fixture,        \* Fixture[m]: the phrases of m's files and the layer-3 facts
    Place           \* Place[n]: where the manifests list the identifier n

ASSUME FixtureAssumption ==
    /\ MaxLines \in Nat \ {0}
    /\ NPhrases \in Nat
    /\ \A m \in Manifests :
         /\ Fixture[m] \in Nat \ {0}
         /\ Fixture[m] + Cardinality(UNION {Rounds(m)[i] : i \in 1..4}) <= NPhrases

VARIABLES
    state, calls, answer, leftover,     \* those of the driver
    asking,     \* the query last submitted
    late        \* late[i]: the invariant that line i of leftover reports

Calls == INSTANCE PhraseCalls

NoName == <<>>

driverVars == <<state, calls, answer, leftover>>
derivationVars == <<oracleVars, driverVars, asking, late>>

DerivationInit == Init /\ Calls!Init /\ asking = <<>> /\ late = <<>>

(* What a line may report when the invariants d are declared.              *)
Reportable(d) == {NoName} \cup {n \in DOMAIN d : ~Truth(kb, Requester[man], d[n])}
Reports(d, k) == [1..k -> Reportable(d)]

(* Variant: any report counts.                                             *)
SomeViolationIn(lines, name) == \E i \in DOMAIN lines : lines[i] # NoName

ViolatedIn(lines, name) == \E i \in DOMAIN lines : lines[i] = name

-----------------------------------------------------------------------------
Started ==
    /\ Calls!Ready
    /\ late' \in Reports(declared, Len(leftover'))
    /\ UNCHANGED <<oracleVars, asking>>

SubmitFact ==
    /\ phase = "start"
    /\ Calls!Call
    /\ UNCHANGED <<oracleVars, asking, late>>

(* With the last of them submit_many of the layer-3 facts returns.         *)
FactAnswered ==
    /\ phase = "start"
    /\ Calls!Answer
    /\ IF calls' = Fixture[man] THEN Load ELSE UNCHANGED oracleVars
    /\ late' \in Reports(declared, Len(leftover'))
    /\ UNCHANGED asking

(* The loops over stewards and candidates, within a round.                 *)
Sooner(p, q) == \E i \in DOMAIN p \ {1} :
    /\ \A j \in 2..(i - 1) : p[j] = q[j]
    /\ Place[p[i]] < Place[q[i]]

SubmitQuery ==
    /\ phase = "loaded"
    /\ Calls!Call
    /\ asking' \in {q \in Open : \A p \in Open : ~Sooner(p, q)}
    /\ UNCHANGED <<oracleVars, late>>

(* query, from the return of submit: said are the reports in the lines     *)
(* that answer this submission.                                            *)
QueryAnswered(ok) ==
    LET name == InvariantName(asking, Cardinality(DOMAIN asked))
    IN  /\ phase = "loaded"
        /\ Calls!Answer
        /\ declared' = IF ok THEN Extend(declared, name, asking) ELSE declared
        /\ accepted' = IF ok THEN accepted \cup {asking} ELSE accepted
        /\ asked' = Extend(asked, asking, name)
        /\ \E said \in Reports(declared', Len(answer') - Len(late)) :
              /\ ok /\ ~Truth(kb, Requester[man], asking) =>
                   \E i \in DOMAIN said :
                      said[i] = name /\ answer'[Len(late) + i].part = "own"
              /\ holds' = Extend(holds, name, ~ViolatedIn(late \o said, name))
        /\ late' \in Reports(declared', Len(leftover'))
        /\ UNCHANGED <<man, phase, kb, expected, asking>>

(* The constructor raises: the with block is never entered, and no close   *)
(* gives the process back.                                                 *)
Aborted ==
    /\ Calls!Abort
    /\ UNCHANGED <<oracleVars, asking, late>>

(* A submission raises, and so does every one the oracle would make of a   *)
(* reasoner that is gone.  The exception leaves the with block.            *)
Raised ==
    /\ state = "idle" => phase = "start" \/ Open # {}
    /\ Calls!Raise
    /\ late' = <<>>
    /\ UNCHANGED <<oracleVars, asking>>

ReasonerEnds ==
    /\ Calls!End
    /\ late' = SubSeq(late, 1, Len(leftover'))
    /\ UNCHANGED <<oracleVars, asking>>

(* Variant: no with block.                                                 *)
LeaveInOrder ==
    /\ state = "idle" /\ phase = "loaded" /\ Open = {}
    /\ Calls!Close
    /\ late' = <<>>
    /\ UNCHANGED <<oracleVars, asking>>

(* __exit__, whether the block was completed or left by an exception.      *)
Leave ==
    /\ state = "idle" => phase = "loaded" /\ Open = {}
    /\ Calls!Close
    /\ late' = <<>>
    /\ UNCHANGED <<oracleVars, asking>>

Conclude ==
    /\ state = "closed"
    /\ Project
    /\ UNCHANGED <<driverVars, asking, late>>

Derive ==
    \/ Started \/ SubmitFact \/ FactAnswered \/ SubmitQuery
    \/ QueryAnswered(TRUE) \/ (man \in Rejecting /\ QueryAnswered(FALSE))
    \/ Aborted \/ Raised \/ Leave \/ Conclude

Waiting == state \in {"starting", "calling"}

(* The oracle's thread keeps running.  Nothing is assumed of a call it has *)
(* made: the driver reads its answer without a timeout.                    *)
DerivationSpec ==
    /\ DerivationInit
    /\ [][Derive \/ ReasonerEnds]_derivationVars
    /\ WF_derivationVars(~Waiting /\ Derive)

-----------------------------------------------------------------------------
(* SAFETY, refinement.  However the lines of two answers run together, and *)
(* wherever the reasoner ends, the oracle on its driver takes the steps of *)
(* the oracle whose queries are answered at once: each answer kept is the  *)
(* one to its own query, and nothing is projected from an unfinished       *)
(* derivation.                                                             *)
ServesOracle == Init /\ [][Next]_oracleVars

(* LIVENESS.  A derivation gives back the reasoner's process, whether a    *)
(* phrase was rejected, a submission raised or the reasoner ended, and then *)
(* has an expected response unless it raised half-way.  Two things keep    *)
(* the process: a line it never says, and an exception of the constructor. *)
DerivationEnds ==
    \/ <>[]Waiting
    \/ <>(state = "aborted")
    \/ <>(state = "closed" /\ (phase = "done" \/ phase = "start" \/ Open # {}))
=============================================================================
