------------------------------- MODULE Readers -------------------------------
(***************************************************************************)
(* How eFLINT text becomes phrases.  The oracle reads the policy and the   *)
(* agreements with flatten_file, which goes by lines and indentation; the  *)
(* consistency gate reads scenarios with the PhraseParser of               *)
(* eflint-test.py, which goes by periods, brackets and quotes; flatten.py  *)
(* is the script for a reasoner at the terminal.                           *)
(*                                                                         *)
(* A text is a sequence of lines, a line says whether it is indented and   *)
(* holds a sequence of tokens: words, the marks below, and the openings    *)
(* of comments.  Blanks between tokens are left out; all readers keep the  *)
(* tokens apart and none counts the blanks.                                *)
(***************************************************************************)
EXTENDS Naturals, Sequences, Ordering

Quote      == "quote"        \* "
Escape     == "backslash"    \* \
LeftBrace  == "left brace"   \* {
RightBrace == "right brace"  \* }
Slashes    == "//"           \* the start of a comment
Guard      == "//#"          \* //#assert or //#violated

Directives == {"#require", "#include"}

Line(indented, text) == [indented |-> indented, text |-> text]

StartsWith(line, tokens) == line.text # <<>> /\ Head(line.text) \in tokens

-----------------------------------------------------------------------------
(* flatten_file and flatten.py: the loop over the lines.                   *)
Flushed(acc) == IF acc.current = <<>> THEN acc.phrases ELSE Append(acc.phrases, acc.current)

(* Variant of Join: a line that is skipped also ends the phrase.           *)
JoinEndsAtSkipped(acc, line, skipped) ==
    IF line.text = <<>> \/ StartsWith(line, skipped)
    THEN [phrases |-> Flushed(acc), current |-> <<>>]
    ELSE IF line.indented /\ acc.current # <<>>
         THEN [acc EXCEPT !.current = @ \o line.text]
         ELSE [phrases |-> Flushed(acc), current |-> line.text]

Join(acc, line, skipped) ==
    IF line.text = <<>> \/ StartsWith(line, skipped) THEN acc
    ELSE IF line.indented /\ acc.current # <<>>
         THEN [acc EXCEPT !.current = @ \o line.text]
         ELSE [phrases |-> Flushed(acc), current |-> line.text]

Flattened(lines, skipped) ==
    LET read[n \in 0..Len(lines)] ==
            IF n = 0 THEN [phrases |-> <<>>, current |-> <<>>]
            ELSE Join(read[n - 1], lines[n], skipped)
    IN  Flushed(read[Len(lines)])

FlattenScript(lines) == Flattened(lines, {Slashes, Guard})

(* Variant of FlattenFile: the copy skips what the script skips.           *)
FlattenFileLikeScript(lines) == Flattened(lines, {Slashes, Guard})

FlattenFile(lines) == Flattened(lines, {Slashes, Guard} \cup Directives)

-----------------------------------------------------------------------------
(* PhraseParser.__init__: from `//' to the end of the line everything is   *)
(* dropped, in a string too, but for the two guards.                       *)
Uncommented(text) == Picked(text, {i \in DOMAIN text : \A j \in 1..i : text[j] # Slashes})

Input(lines) == Seqs!FlattenSeq([n \in DOMAIN lines |-> Uncommented(lines[n].text)])

(* PhraseParser.phrases: the stack of modes before and after a token.      *)
(* Variant of Modes: quotes are not looked at.                             *)
ModesNoString(modes, token) ==
    LET mode == Seqs!Last(modes)
    IN  CASE mode = "phrase" /\ token = LeftBrace         -> <<"group">>
          [] mode \in {"phrase", "parens"} /\ token = "(" -> Append(modes, "parens")
          [] mode = "parens" /\ token = ")"               -> Seqs!Front(modes)
          [] OTHER                                        -> modes

Modes(modes, token) ==
    LET mode == Seqs!Last(modes)
    IN  CASE mode = "phrase" /\ token = LeftBrace           -> <<"group">>
          [] mode \in {"phrase", "parens"} /\ token = "("   -> Append(modes, "parens")
          [] mode \in {"phrase", "group"} /\ token = Quote  -> Append(modes, "string")
          [] mode = "string" /\ token = Escape              -> Append(modes, "escape")
          [] \/ mode = "string" /\ token = Quote
             \/ mode = "escape"
             \/ mode = "parens" /\ token = ")"              -> Seqs!Front(modes)
          [] OTHER                                          -> modes

Kept(phrases, raw) == IF raw = <<>> THEN phrases ELSE Append(phrases, raw)

Split(acc, token) ==
    CASE Seqs!Last(acc.modes) = "phrase" /\ token = "." ->
            [modes |-> <<"phrase">>, raw |-> <<>>, phrases |-> Kept(acc.phrases, acc.raw)]
      [] Seqs!Last(acc.modes) = "group" /\ token = RightBrace ->
            [modes |-> <<"phrase">>, raw |-> <<>>, phrases |-> Append(acc.phrases, Append(acc.raw, token))]
      [] OTHER -> [acc EXCEPT !.modes = Modes(@, token), !.raw = Append(@, token)]

(* What is left at the end of the text is a phrase too.                    *)
RawPhrases(lines) ==
    LET input == Input(lines)
        read[n \in 0..Len(input)] ==
            IF n = 0 THEN [modes |-> <<"phrase">>, raw |-> <<>>, phrases |-> <<>>]
            ELSE Split(read[n - 1], input[n])
    IN  Kept(read[Len(input)].phrases, read[Len(input)].raw)

-----------------------------------------------------------------------------
(* What the author of a text means by it.  A line that is neither blank, a *)
(* comment, a guard nor a directive is code; code at the margin opens a    *)
(* phrase and the indented code after it belongs to it.                    *)
IsCode(line)    == line.text # <<>> /\ ~StartsWith(line, {Slashes, Guard} \cup Directives)
IsOpening(line) == IsCode(line) /\ ~line.indented

Openings(lines) == {n \in DOMAIN lines : IsOpening(lines[n])}

(* The lines of the phrase that line n opens.                              *)
Block(lines, n) ==
    {m \in n..Len(lines) : IsCode(lines[m]) /\ \A o \in n+1..m : ~IsOpening(lines[o])}

Texts(lines) == [n \in DOMAIN lines |-> lines[n].text]

Meant(lines, n) == Seqs!FlattenSeq(Picked(Texts(lines), Block(lines, n)))

MeantPhrases(lines) == Picked([n \in DOMAIN lines |-> Meant(lines, n)], Openings(lines))

(* Texts laid out as the shipped ones: the first code is at the margin,    *)
(* and a comment stands on a line of its own.                              *)
LaidOut(lines) ==
    /\ \A n \in DOMAIN lines : IsCode(lines[n]) =>
          /\ \E m \in 1..n : IsOpening(lines[m])
          /\ \A i \in DOMAIN lines[n].text : lines[n].text[i] \notin {Slashes, Guard}

(* A phrase whose brackets match and that ends with its only period        *)
(* outside strings, parentheses and braces, or is one pair of braces.      *)
CountBefore(text, i, token) == Cardinality({j \in 1..i-1 : text[j] = token})
Quoted(text, i)   == CountBefore(text, i, Quote) % 2 = 1
Bracketed(text, i) == CountBefore(text, i, "(") > CountBefore(text, i, ")")
Braced(text, i)   == CountBefore(text, i, LeftBrace) > CountBefore(text, i, RightBrace)

EndsOnce(text) ==
    /\ Len(text) > 1
    /\ \A i \in DOMAIN text :
          /\ text[i] # Slashes
          /\ text[i] \in {"(", ")", LeftBrace, RightBrace, Escape} => ~Quoted(text, i)
          /\ text[i] = ")" => Bracketed(text, i)
          /\ text[i] = LeftBrace => i = 1
          /\ text[i] = RightBrace => text[1] = LeftBrace
          /\ \/ text[i] = "." /\ ~Quoted(text, i) /\ ~Bracketed(text, i) /\ ~Braced(text, i)
             \/ text[i] = RightBrace
             <=> i = Len(text)

(* A scenario file: laid out, every phrase ends once, and so does every    *)
(* guard, and guards stand between phrases.                                *)
IsScenario(lines) ==
    /\ LaidOut(lines)
    /\ \A n \in DOMAIN lines :
          /\ IsOpening(lines[n]) => EndsOnce(Meant(lines, n))
          /\ StartsWith(lines[n], {Guard} \cup Directives) =>
                /\ EndsOnce(lines[n].text)
                /\ \A m \in n+1..Len(lines) : IsCode(lines[m]) =>
                      \E o \in n+1..m : IsOpening(lines[o])

(* Guards, directives and phrases of a scenario, in the order of the text. *)
Marked(lines) == {n \in DOMAIN lines : StartsWith(lines[n], {Guard} \cup Directives)}

Items(lines) ==
    Picked([n \in DOMAIN lines |-> IF IsOpening(lines[n]) THEN Meant(lines, n) ELSE lines[n].text],
           Openings(lines) \cup Marked(lines))

WithoutPeriod(text) == IF Seqs!Last(text) = "." THEN Seqs!Front(text) ELSE text

(* The phrases that start with none of these tokens.                       *)
Besides(phrases, tokens) == Picked(phrases, {i \in DOMAIN phrases : Head(phrases[i]) \notin tokens})

(* Directives stand at the margin, and no indented code follows one.       *)
DirectivesApart(lines) == \A n \in DOMAIN lines : StartsWith(lines[n], Directives) =>
    /\ ~lines[n].indented
    /\ \A m \in n+1..Len(lines) : IsCode(lines[m]) => \E o \in n+1..m : IsOpening(lines[o])

-----------------------------------------------------------------------------
(* SAFETY.  The oracle gets the policy as its author laid it out: one      *)
(* phrase for each piece of code at the margin, with the indented lines    *)
(* after it, whatever blank lines, comments, guards and directives stand   *)
(* in between.                                                             *)
FlattenKeepsPhrases(lines) == LaidOut(lines) => FlattenFile(lines) = MeantPhrases(lines)

(* SAFETY.  Gate and oracle read alike, although one goes by periods and   *)
(* the other by indentation: the unit tester finds every phrase of a       *)
(* scenario, without its period, and every guard and directive, in the     *)
(* order of the text, so that a guard judges what stands above it; what    *)
(* is neither is what flatten_file finds.                                  *)
GateReadsAlike(lines) == IsScenario(lines) =>
    /\ RawPhrases(lines) = [i \in DOMAIN Items(lines) |-> WithoutPeriod(Items(lines)[i])]
    /\ Besides(RawPhrases(lines), {Guard} \cup Directives)
         = [i \in DOMAIN FlattenFile(lines) |-> WithoutPeriod(FlattenFile(lines)[i])]

(* SAFETY.  The copy in the harness and the script read the same phrases,  *)
(* directives aside, as long as these stand apart.                         *)
CopiesAgree(lines) == DirectivesApart(lines) =>
    FlattenFile(lines) = Besides(FlattenScript(lines), Directives)
=============================================================================
