----------------------------- MODULE Instances -----------------------------
(***************************************************************************)
(* How eflint-test.py reads the instances of comments and of the lines of  *)
(* the reasoner: Instance.parse tries the literals, then a name with       *)
(* arguments, each an instance again.  A text is a sequence of tokens:     *)
(* words, single digits, blanks and single marks; words that touch are    *)
(* one word.  A token stands for its characters, none of which the readers *)
(* tell apart any further.                                                 *)
(***************************************************************************)
EXTENDS Readers
LOCAL INSTANCE SequencesExt
LOCAL INSTANCE FiniteSetsExt

CONSTANTS
    Lower,      \* words in small letters
    Capitals,   \* words that begin with a capital
    Value       \* Value[d]: the number that is the digit d

Blank   == " "
Letters == Lower \cup Capitals
Digits  == DOMAIN Value
InName  == Letters \cup {"-"}

Literal(is, value)    == [is |-> is, value |-> value]
Composite(name, args) == [is |-> "composite", name |-> name, args |-> args]
Wildcard == [is |-> "wildcard"]
None     == [is |-> "none"]         \* None
Raised   == [is |-> "raised"]       \* a ValueError

Strip(text) ==
    LET ink == {n \in DOMAIN text : text[n] # Blank}
    IN  IF ink = {} THEN <<>> ELSE SubSeq(text, Min(ink), Max(ink))

(* What a character between quotes begins, or ends.                        *)
Special == Escape :> "escape" @@ Quote :> "closed"

(* Variant of Character: what follows the closing quote is passed over.     *)
CharacterPastEnd(read, c) ==
    CASE read.at = "escape" -> [at |-> "quoted", value |-> Append(read.value, c)]
      [] read.at = "quoted" -> IF c \in DOMAIN Special THEN [read EXCEPT !.at = Special[c]]
                               ELSE [read EXCEPT !.value = Append(@, c)]
      [] OTHER              -> read

Character(read, c) ==
    CASE read.at = "escape" -> [at |-> "quoted", value |-> Append(read.value, c)]
      [] read.at = "quoted" -> IF c \in DOMAIN Special THEN [read EXCEPT !.at = Special[c]]
                               ELSE [read EXCEPT !.value = Append(@, c)]
      [] OTHER              -> [read EXCEPT !.at = "left over"]

(* LitStr._parse: one capitalised word, or a text in quotes; a closing     *)
(* quote that is missing is not missed.                                    *)
String(text) ==
    IF Head(text) \in Capitals
    THEN IF Range(text) \subseteq Letters THEN Literal("str", text) ELSE None
    ELSE LET read == FoldLeft(Character, [at |-> "quoted", value |-> <<>>], Tail(text))
         IN  IF Head(text) = Quote /\ read.at # "left over" THEN Literal("str", read.value) ELSE None

(* LitInt._parse: its value.  No digits at all are the number 0.           *)
Number(text) == FoldLeft(LAMBDA n, d : n * 10 + Value[d], 0, text)

(* How many parentheses are open after n tokens; quotes are not looked at.  *)
Depth(text, n) == CountBefore(text, n + 1, "(") - CountBefore(text, n + 1, ")")

(* Variant of Arguments: every comma ends an argument.                      *)
ArgumentsFlat(inner) ==
    LET cuts == SelectSeq([n \in DOMAIN inner |-> n], LAMBDA n : inner[n] = ",")
        ends == <<0>> \o cuts \o <<Len(inner) + 1>>
    IN  IF inner = <<>> THEN <<>>
        ELSE [k \in 1..Len(cuts) + 1 |-> SubSeq(inner, ends[k] + 1, ends[k+1] - 1)]

(* The arguments are what stands between the commas in no inner pair.       *)
Arguments(inner) ==
    LET cuts == SelectSeq([n \in DOMAIN inner |-> n],
                          LAMBDA n : inner[n] = "," /\ Depth(inner, n) = 0)
        ends == <<0>> \o cuts \o <<Len(inner) + 1>>
    IN  IF inner = <<>> THEN <<>>
        ELSE [k \in 1..Len(cuts) + 1 |-> SubSeq(inner, ends[k] + 1, ends[k+1] - 1)]

(* Variant of Whole: what follows a name is passed over.                    *)
WholeOrNot(name, args, rest) == Composite(name, args)

(* Everything must be consumed; ref("x") is "x".                           *)
Whole(name, args, rest) ==
    IF rest # <<>> THEN None
    ELSE IF name = <<"ref">> /\ Len(args) = 1 /\ args[1].is = "str" THEN args[1]
    ELSE Composite(name, args)

RECURSIVE ParseInstance(_)

(* Composite._parse.                                                        *)
ParseComposite(text) ==
    LET stop  == SelectInSeq(text, LAMBDA c : c \notin InName)
        name  == IF stop = 0 THEN text ELSE SubSeq(text, 1, stop - 1)
        rest  == IF stop = 0 THEN <<>> ELSE SubSeq(text, stop, Len(text))
        close == {n \in DOMAIN rest : Depth(rest, n) = 0}
        args  == LET raw == Arguments(SubSeq(rest, 2, Min(close) - 1))
                 IN  [k \in DOMAIN raw |-> ParseInstance(raw[k])]
    IN  IF name = <<>> THEN None
        ELSE IF rest = <<>> \/ Head(rest) # "(" THEN Whole(name, <<>>, rest)
        ELSE IF close = {} THEN None
        ELSE IF {None, Raised} \cap Range(args) # {} THEN Raised
        ELSE Whole(name, args, SubSeq(rest, Min(close) + 1, Len(rest)))

(* Instance.parse.                                                         *)
ParseInstance(raw) ==
    LET text == Strip(raw)
    IN  IF text \in {<<"True">>, <<"False">>} THEN Literal("bool", text)
        ELSE IF Range(text) \subseteq Digits THEN Literal("int", Number(text))
        ELSE IF String(text) # None THEN String(text)
        ELSE IF text = <<"*">> THEN Wildcard
        ELSE ParseComposite(text)

-----------------------------------------------------------------------------
(* Phrase.parse of a comment: `//#assert' or `//#violated', a negation if  *)
(* the text begins with one, and the instance.                             *)
Negations == {"!", "not", "Not"}
Malformed == [kind |-> "malformed"]     \* a ValueError

ParseComment(kind, raw) ==
    LET text    == Strip(raw)
        negated == text # <<>> /\ Head(text) \in Negations
        about   == ParseInstance(IF negated THEN Tail(text) ELSE text)
    IN  IF about \in {None, Raised} THEN Malformed
        ELSE [kind |-> kind, instance |-> about, existance |-> ~negated]

(* Effect.parse of a line that begins like an effect: without an instance  *)
(* reporting it raises, as parsing an argument does.                       *)
Garbled == [kind |-> "garbled"]

ParseEffect(kind, raw) ==
    LET about == ParseInstance(raw)
    IN  IF kind = "InvariantViolation" THEN [kind |-> kind, name |-> raw]
        ELSE IF about \in {None, Raised} THEN Garbled
        ELSE [kind |-> kind, instance |-> about]

(* Reasoner.violated: a comment is about an invariant of its name.         *)
AboutInvariant(phrase, effect) ==
    phrase.instance.is = "composite" /\ phrase.instance.name = effect.name

-----------------------------------------------------------------------------
(* Instance._to_eflint, with comma the text between two arguments.         *)
RECURSIVE Numeral(_)

Numeral(n) == (IF n < 10 THEN <<>> ELSE Numeral(n \div 10))
                \o <<CHOOSE d \in Digits : Value[d] = n % 10>>

RECURSIVE ToEflint(_, _)

ToEflint(i, comma) ==
    CASE i.is = "bool"          -> i.value
      [] i.is = "int"             -> Numeral(i.value)
      [] i.is = "str"             -> <<Quote>> \o i.value \o <<Quote>>
      [] i.is = "wildcard"        -> <<"*">>
      [] i.is = "composite"       ->
            LET text == [k \in DOMAIN i.args |-> ToEflint(i.args[k], comma)]
            IN  i.name \o <<"(">> \o FoldLeft(LAMBDA t, k : t \o (IF k = 1 THEN <<>> ELSE comma) \o text[k],
                                              <<>>, [k \in DOMAIN text |-> k]) \o <<")">>

RECURSIVE Parts(_)

Parts(i) == {i} \cup (IF i.is = "composite" THEN UNION {Parts(i.args[k]) : k \in DOMAIN i.args}
                      ELSE {})

Holding(i, tokens) == \E s \in Parts(i) : s.is = "str" /\ Range(s.value) \cap tokens # {}

(* No negation is mistaken for the name, and ref, which is another way to  *)
(* write a string, is not used.  No string has to be escaped or has a      *)
(* comma: f(",") is split into two strings that both lack a quote, and     *)
(* read as f("", "").                                                      *)
Writable(i) ==
    /\ i.is = "composite" => Head(i.name) \notin Negations
    /\ ~Holding(i, {",", Quote, Escape})
    /\ \A c \in Parts(i) : c.is = "composite" => c.name # <<"ref">>

(* Names of letters and hyphens, strings without parentheses.             *)
PlainInstance(i) ==
    /\ Writable(i)
    /\ ~Holding(i, {"(", ")"})
    /\ \A c \in Parts(i) : c.is = "composite" => Range(c.name) \subseteq InName

(* SAFETY.  What is written about a plain instance is read as that         *)
(* instance, in a comment, negated or not, and in a line of the reasoner,  *)
(* whatever the blanks: the comment and the line find each other.          *)
ReadsPlain(kind, negation, i, comma) == PlainInstance(i) =>
    /\ ParseComment(kind, negation \o ToEflint(i, comma))
         = [kind |-> kind, instance |-> i, existance |-> negation = <<>>]
    /\ ParseEffect("Create", ToEflint(i, comma)) = [kind |-> "Create", instance |-> i]

(* SAFETY.  What the reader cannot cope with is malformed, which is        *)
(* reported, or ends the test: it is never taken for another instance.     *)
NeverMisreads(kind, negation, i, comma) == Writable(i) =>
    /\ ParseComment(kind, negation \o ToEflint(i, comma))
         \in {Malformed, [kind |-> kind, instance |-> i, existance |-> negation = <<>>]}
    /\ ParseEffect("Create", ToEflint(i, comma)) \in {Garbled, [kind |-> "Create", instance |-> i]}

(* SAFETY.  A `//#violated' comment on the name of an invariant is judged  *)
(* by the violations of that invariant, or is reported as malformed; but   *)
(* a capitalised word is a string, which names no invariant, and "not"     *)
(* a negation.                                                             *)
FindsInvariant(negation, name) ==
    LET comment == ParseComment("violated", negation \o name)
        line    == ParseEffect("InvariantViolation", name)
    IN  \/ comment = Malformed
        \/ AboutInvariant(comment, line) /\ comment.existance = (negation = <<>>)
        \/ Head(name) \in Negations
        \/ Head(name) \in Capitals /\ Range(name) \subseteq Letters
=============================================================================
