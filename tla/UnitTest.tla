------------------------------ MODULE UnitTest ------------------------------
(***************************************************************************)
(* One UnitTest thread of eflint-test.py: it parses a scenario file into   *)
(* phrases, starts a reasoner, and goes through the phrases: eFLINT is     *)
(* submitted and the effects the reasoner prints are appended to a         *)
(* history, `//#assert' and `//#violated' are judged against the history.  *)
(* How text is split is abstracted: a file is the sequence of raw phrases  *)
(* PhraseParser finds in it, an answer the sequence of lines up to the     *)
(* trigger's echo.  The include directories, which are only handed to the  *)
(* reasoner, are left out.  An exception ends the thread: DoneContext      *)
(* swallows it, and the reports made so far are all that is left.          *)
(***************************************************************************)
EXTENDS Naturals, FiniteSets, Sequences, Functions, Ordering

CONSTANTS
    Files,      \* the test files: sequences of raw phrases
    Prints(_, _), \* what the reasoner may print for a phrase, after others
    Strict      \* -s/--strict

-----------------------------------------------------------------------------
(* Instances: a name and its arguments.  "*" stands for any argument, and  *)
(* Wildcard for any instance.                                              *)
Composite(name, args) == [name |-> name, args |-> args]
Wildcard == Composite("*", <<>>)

Same(a, b) ==
    \/ Wildcard \in {a, b}
    \/ /\ a.name = b.name
       /\ DOMAIN a.args = DOMAIN b.args
       /\ \A n \in DOMAIN a.args : a.args[n] = b.args[n] \/ "*" \in {a.args[n], b.args[n]}

(* Phrases.  A malformed one makes Phrase.parse raise ValueError.          *)
Comments == {"assert", "violated"}
Submits  == {"eflint", "import"}
PhraseKinds == Comments \cup Submits \cup {"malformed", "blank"}

(* Lines of the reasoner that parse to an effect; the other kinds of line  *)
(* are the ones submit skips, does not know, and fails to parse.           *)
Removals   == {"Terminate", "Obfuscate"}
Violations == {"InvariantViolation", "ActViolation", "DutyViolation"}
EffectKinds == {"Create"} \cup Removals \cup Violations
LineKinds   == EffectKinds \cup {"skipped", "unknown", "garbled"}

ASSUME UnitTestAssumption ==
    /\ \A f \in Files : f \in Seq(Range(f)) /\ \A r \in Range(f) : r.kind \in PhraseKinds
    /\ Strict \in BOOLEAN

-----------------------------------------------------------------------------
VARIABLES
    pc,             \* "parse", "start", "phrases", "stuck", "ended", "died"
    file,           \* the raw phrases of the file
    phrases,        \* the parsed phrases, each with its place in the file
    next,           \* the phrase the loop is at
    effects,        \* Reasoner.effects: the history
    handled,        \* Reasoner.handled_violations
    checked_ever,
    output,         \* the reports, debug ones left out
    mark            \* history variable: mark[k] effects were known at phrase k

vars == <<pc, file, phrases, next, effects, handled, checked_ever, output, mark>>

Report(kind, about) == [kind |-> kind, about |-> about]
Failed(phrase) == Report("Err", <<"assertion", phrase.at>>)
BadPhrase(n)   == Report("Err", <<"phrase", n>>)
Unknown        == Report(IF Strict THEN "Err" ELSE "Warn", <<"line">>)
Unhandled(e)   == Report("Warn", <<"violation", e>>)
Total          == Report("Info", <<"time">>)

Init ==
    /\ pc = "parse"
    /\ file \in Files
    /\ phrases = <<>> /\ next = 1
    /\ effects = <<>> /\ handled = {} /\ checked_ever = FALSE
    /\ output = <<>> /\ mark = <<>>

(* An exception of the thread.                                             *)
Raise == pc' = "died"

-----------------------------------------------------------------------------
(* PhraseParser.phrases: a phrase that does not parse is reported, and the *)
(* phrase before it is yielded a second time; with none before it, reading *)
(* the unbound variable raises.  All of this happens before the reasoner   *)
(* is started.                                                             *)
Places(kinds) == Ascending({n \in DOMAIN file : file[n].kind \in kinds})
Written == Places(PhraseKinds \ {"blank"})
Bad     == Places({"malformed"})

Yielded(n) ==
    LET m == CHOOSE m \in 1..n : /\ file[m].kind \in Comments \cup Submits
                                /\ \A o \in m+1..n : file[o].kind \in {"malformed", "blank"}
    IN  [at |-> m, kind |-> file[m].kind, raw |-> file[m]]

(* Variant of Parse: what does not parse is passed over without a word.     *)
ParseSilently ==
    /\ pc = "parse"
    /\ phrases' = [k \in DOMAIN Places(Comments \cup Submits) |->
                     Yielded(Places(Comments \cup Submits)[k])]
    /\ pc' = "start"
    /\ UNCHANGED <<file, next, effects, handled, checked_ever, output, mark>>

Parse ==
    /\ pc = "parse"
    /\ IF Bad # <<>> /\ Bad[1] = Written[1]
       THEN /\ Raise
            /\ output' = <<BadPhrase(Bad[1])>>
            /\ UNCHANGED phrases
       ELSE /\ pc' = "start"
            /\ phrases' = [k \in DOMAIN Written |-> Yielded(Written[k])]
            /\ output' = [k \in DOMAIN Bad |-> BadPhrase(Bad[k])]
    /\ UNCHANGED <<file, next, effects, handled, checked_ever, mark>>

(* The file cannot be opened.                                              *)
Unreadable ==
    /\ pc = "parse"
    /\ pc' = "ended"
    /\ output' = <<Report("Err", <<"file">>)>>
    /\ UNCHANGED <<file, phrases, next, effects, handled, checked_ever, mark>>

(* A part of it that is no text raises on the way, and no IOError: what    *)
(* was reported of the phrases before is left.                             *)
Undecodable ==
    /\ pc = "parse"
    /\ Raise
    /\ \E n \in 0..Len(Bad) :
          /\ n > 0 => Bad[1] # Written[1]
          /\ output' = [k \in 1..n |-> BadPhrase(Bad[k])]
    /\ UNCHANGED <<file, phrases, next, effects, handled, checked_ever, mark>>

(* Reasoner.__init__: the banner comes, or the process ends without it and *)
(* readline returns the empty line for ever, or it cannot be started.      *)
Start ==
    /\ pc = "start"
    /\ pc' \in {"phrases", "stuck", "died"}
    /\ UNCHANGED <<file, phrases, next, effects, handled, checked_ever, output, mark>>

At(kinds) == pc = "phrases" /\ next \in DOMAIN phrases /\ phrases[next].kind \in kinds
Phrase == phrases[next].raw
Submitted ==
    LET sent == Ascending({k \in 1..next-1 : phrases[k].kind \in Submits})
    IN  [k \in DOMAIN sent |-> phrases[sent[k]].raw]

(* The loop of run goes on to the next phrase.                             *)
Advance(known) ==
    /\ next' = next + 1
    /\ mark' = Append(mark, Len(known))

-----------------------------------------------------------------------------
(* A change of an instance that p stands for.                               *)
About(e, p) == e.kind \notin Violations /\ Same(p, e.instance)

(* Variant of Derived: an obfuscation is passed over.                       *)
DerivedDespiteObfuscate(p) ==
    LET d[n \in 0..Len(effects)] ==
          IF n = 0 THEN {}
          ELSE LET e == effects[n]
               IN  IF e.kind = "Obfuscate" \/ ~About(e, p) THEN d[n-1]
                   ELSE IF e.kind = "Create" THEN d[n-1] \cup {e.instance}
                   ELSE d[n-1] \ {e.instance}
    IN  d

(* Variant of Derived: what is collected is the pattern that was asked for. *)
DerivedPattern(p) ==
    LET d[n \in 0..Len(effects)] ==
          IF n = 0 THEN {}
          ELSE LET e == effects[n]
               IN  IF ~About(e, p) THEN d[n-1]
                   ELSE IF e.kind = "Create" THEN d[n-1] \cup {p} ELSE d[n-1] \ {p}
    IN  d

(* Reasoner.check.  Derived(p)[n] is derived_instances after n effects.    *)
Derived(p) ==
    LET d[n \in 0..Len(effects)] ==
          IF n = 0 THEN {}
          ELSE LET e == effects[n]
               IN  IF ~About(e, p) THEN d[n-1]
                   ELSE IF e.kind = "Create" THEN d[n-1] \cup {e.instance}
                   ELSE d[n-1] \ {e.instance}
    IN  d

(* set.remove of an instance that is not in the set.                       *)
KeyError(p) == \E n \in DOMAIN effects :
    /\ effects[n].kind \in Removals
    /\ Same(p, effects[n].instance)
    /\ effects[n].instance \notin Derived(p)[n-1]

Check ==
    /\ At({"assert"})
    /\ checked_ever' = TRUE
    /\ IF KeyError(Phrase.instance)
       THEN Raise /\ UNCHANGED <<output, next, mark>>
       ELSE /\ output' = IF (Derived(Phrase.instance)[Len(effects)] # {}) = Phrase.existance
                         THEN output ELSE Append(output, Failed(phrases[next]))
            /\ Advance(effects)
            /\ UNCHANGED pc
    /\ UNCHANGED <<file, phrases, effects, handled>>

(* Reasoner.violated: a `//#violated' covers the violations of the history *)
(* that match; an invariant matches by its name alone, and no wildcard.    *)
Covers(p, e) ==
    /\ e.kind \in Violations
    /\ IF e.kind = "InvariantViolation" THEN p.name = e.instance.name ELSE Same(p, e.instance)

Covered(p) == {e \in Range(effects) : Covers(p, e)}

(* Variant of Violated: what is set aside is the pattern.                   *)
ViolatedByPattern ==
    /\ At({"violated"})
    /\ checked_ever' = TRUE
    /\ handled' = handled \cup {[e EXCEPT !.instance = Phrase.instance] : e \in Covered(Phrase.instance)}
    /\ output' = IF (Covered(Phrase.instance) # {}) = Phrase.existance
                 THEN output ELSE Append(output, Failed(phrases[next]))
    /\ Advance(effects)
    /\ UNCHANGED <<pc, file, phrases, effects>>

Violated ==
    /\ At({"violated"})
    /\ checked_ever' = TRUE
    /\ handled' = handled \cup Covered(Phrase.instance)
    /\ output' = IF (Covered(Phrase.instance) # {}) = Phrase.existance
                 THEN output ELSE Append(output, Failed(phrases[next]))
    /\ Advance(effects)
    /\ UNCHANGED <<pc, file, phrases, effects>>

(* Reasoner.submit: the lines up to the echo are parsed one by one; one    *)
(* that begins like an effect but holds no instance raises, with what the  *)
(* lines before it added left in place.                                    *)
Submit ==
    /\ At(Submits)
    /\ \E chunk \in Prints(Submitted, Phrase) :
          LET garbled == {n \in DOMAIN chunk : chunk[n].kind = "garbled"}
              read    == {n \in DOMAIN chunk : \A g \in garbled : n < g}
              changes == Ascending({n \in read : chunk[n].kind \in EffectKinds})
              strange == {n \in read : chunk[n].kind = "unknown"}
          IN  /\ effects' = effects \o [k \in DOMAIN changes |-> chunk[changes[k]]]
              /\ \E warned \in IF garbled = {} THEN {<<>>}
                                ELSE {<<>>, <<Report("Warn", <<"effect">>)>>} :
                    output' = output \o [n \in 1..Cardinality(strange) |-> Unknown] \o warned
              /\ IF garbled = {} THEN Advance(effects') /\ UNCHANGED pc
                 ELSE Raise /\ UNCHANGED <<next, mark>>
    /\ UNCHANGED <<file, phrases, handled, checked_ever>>

(* The reasoner has ended: the write raises, or the echo never comes and   *)
(* readline returns the empty line for ever.                               *)
SubmitToDead ==
    /\ At(Submits)
    /\ pc' \in {"died", "stuck"}
    /\ UNCHANGED <<file, phrases, next, effects, handled, checked_ever, output, mark>>

(* run is through: the warnings, and the response time.                    *)
Left == Ascending({n \in DOMAIN effects :
            /\ effects[n].kind \in Violations
            /\ effects[n] \notin handled
            /\ \A o \in 1..n-1 : effects[o] # effects[n]})

(* Variant of End: a violation is warned about as often as it occurred.     *)
EndRepeats ==
    /\ pc = "phrases" /\ next = Len(phrases) + 1
    /\ LET left == SelectSeq(effects, LAMBDA e : e.kind \in Violations /\ e \notin handled)
       IN  output' = output \o (IF checked_ever THEN <<>> ELSE <<Report("Warn", <<"unchecked">>)>>)
                            \o [n \in DOMAIN left |-> Unhandled(left[n])] \o <<Total>>
    /\ pc' = "ended"
    /\ UNCHANGED <<file, phrases, next, effects, handled, checked_ever, mark>>

End ==
    /\ pc = "phrases" /\ next = Len(phrases) + 1
    /\ output' = output \o (IF checked_ever THEN <<>> ELSE <<Report("Warn", <<"unchecked">>)>>)
                        \o [n \in DOMAIN Left |-> Unhandled(effects[Left[n]])] \o <<Total>>
    /\ handled' = handled \cup {effects[Left[n]] : n \in DOMAIN Left}
    /\ pc' = "ended"
    /\ UNCHANGED <<file, phrases, next, effects, checked_ever, mark>>

Next ==
    \/ Parse \/ Unreadable \/ Undecodable
    \/ Start \/ Check \/ Violated \/ Submit \/ SubmitToDead \/ End

Spec == Init /\ [][Next]_vars

-----------------------------------------------------------------------------
UnitTypeOK ==
    /\ pc \in {"parse", "start", "phrases", "stuck", "ended", "died"}
    /\ file \in Files
    /\ \A k \in DOMAIN phrases : phrases[k].at \in DOMAIN file
    /\ next \in 1..Len(phrases) + 1
    /\ \A e \in Range(effects) : e.kind \in EffectKinds
    /\ handled \subseteq {e \in Range(effects) : e.kind \in Violations}
    /\ checked_ever \in BOOLEAN
    /\ \A r \in Range(output) : r.kind \in {"Info", "Warn", "Err"}
    /\ Len(mark) = next - 1 /\ \A k \in DOMAIN mark : mark[k] \in 0..Len(effects)

(* After n effects an instance that p stands for was created and not       *)
(* removed again.                                                          *)
Standing(p, n) == \E m \in 1..n :
    /\ effects[m].kind = "Create" /\ Same(p, effects[m].instance)
    /\ \A o \in m+1..n : effects[o].instance = effects[m].instance =>
                            effects[o].kind \notin Removals

Occurred(p, n) == \E m \in 1..n : Covers(p, effects[m])

(* SAFETY.  The report on a `//#assert' or `//#violated' says what the     *)
(* reasoner had printed when the comment's turn came, whatever it prints   *)
(* later: an assertion fails exactly when the last effects on the          *)
(* instances it names speak against it, a `//#violated' when no matching   *)
(* violation had occurred.                                                 *)
VerdictsSound == \A k \in DOMAIN mark : phrases[k].kind \in Comments =>
    LET c == phrases[k].raw
        seen == IF c.kind = "assert" THEN Standing(c.instance, mark[k])
                ELSE Occurred(c.instance, mark[k])
    IN  Failed(phrases[k]) \in Range(output) <=> seen # c.existance

(* SAFETY.  No violation is overlooked: at the end each one was matched by *)
(* a `//#violated' whose turn came after it first occurred, or is warned   *)
(* about, once.                                                            *)
Matched(e) == \E k \in DOMAIN mark :
    /\ phrases[k].kind = "violated"
    /\ Covers(phrases[k].raw.instance, e)
    /\ e \in {effects[m] : m \in 1..mark[k]}

NothingOverlooked == Total \in Range(output) =>
    \A e \in Range(effects) : e.kind \in Violations =>
        Cardinality({n \in DOMAIN output : output[n] = Unhandled(e)}) = IF Matched(e) THEN 0 ELSE 1

(* SAFETY.  The response time at the end of the reports vouches for the    *)
(* file: every phrase of it was judged, submitted, or reported as          *)
(* malformed, in the order of the file, and none twice unless a malformed  *)
(* one is reported.                                                        *)
TotalVouches == Total \in Range(output) =>
    /\ \A n \in DOMAIN file :
          \/ file[n].kind = "blank"
          \/ n \in {phrases[k].at : k \in DOMAIN mark}
          \/ BadPhrase(n) \in Range(output)
    /\ \A j, k \in DOMAIN mark : j < k =>
          \/ phrases[j].at < phrases[k].at
          \/ phrases[j].at = phrases[k].at /\ \E n \in DOMAIN file : BadPhrase(n) \in Range(output)

(* SAFETY.  An assertion cannot make its test end without a word unless    *)
(* the reasoner printed the removal of an instance that did not stand: a   *)
(* reasoner that prints changes only never kills a test this way.          *)
ChangesOnly == \A n \in DOMAIN effects :
    effects[n].kind \in Removals => Standing(effects[n].instance, n - 1)

DiedInCheck ==
    pc = "died" /\ checked_ever /\ next \in DOMAIN phrases /\ phrases[next].kind = "assert"

IdleRemovalsKill == DiedInCheck => ~ChangesOnly
=============================================================================
