-------------------------- MODULE ReplDriverProofs --------------------------
(***************************************************************************)
(* The driver of the reasoner stays in step with it: the types of its      *)
(* state, InStep, and the refinement of PhraseCalls, but for its fairness. *)
(* The argument follows one stream, that of the lines read, in the pipe    *)
(* and still to be said: it is cut into blocks by what each line is about, *)
(* and holds at most one echo.                                             *)
(***************************************************************************)
EXTENDS ReplDriver, SequenceFacts

(* The stream of one exchange: what was still to be said of call n, what   *)
(* answers the phrase of call m, up to the places a, o and b; then the     *)
(* echo, and what follows it.  A prefix of such a stream is one too.       *)
Piece(i, sign, n, m, a, o, b) ==
    IF i <= a THEN Line(n, "after")
    ELSE IF i <= o THEN Line(m, "own")
    ELSE IF i <= b THEN Line(m, "before")
    ELSE IF i = b + 1 THEN Echo(sign)
    ELSE Line(m, "after")

Shape(s, sign, n, m, a, o, b) ==
    /\ a \in 0..MaxLines /\ o \in a..a + MaxLines /\ b \in o..o + MaxLines
    /\ Len(s) <= b + 1 + MaxLines
    /\ \A i \in 1..Len(s) : s[i] = Piece(i, sign, n, m, a, o, b)

(* What is left of exchange n when its echo was read.                      *)
Remains(s, n) == Len(s) <= MaxLines /\ \A i \in 1..Len(s) : s[i] = Line(n, "after")

(* Between two exchanges, of which n was the last.                         *)
Quiet(n) ==
    /\ captured = <<>>
    /\ Remains(Stream, n)
    /\ repl = "up" => inp = <<>> /\ fact = trigger /\ turn = n

(* The phrase of exchange m was written, its toggle was not.               *)
Sent(phrase, n, m) ==
    /\ captured = <<>>
    /\ \E a \in 0..MaxLines : \E o \in a..a + MaxLines :
          /\ Shape(Stream, ~trigger, n, m, a, o, o) /\ Len(Stream) <= o
          /\ repl = "up" =>
                \/ inp = <<phrase>> /\ turn = n /\ fact = trigger /\ Len(Stream) <= a
                \/ inp = <<>> /\ turn = m /\ fact = trigger

(* Both were written, and the echo of the toggle was not read.             *)
Toggled(phrase, n, m) ==
    \E a \in 0..MaxLines : \E o \in a..a + MaxLines : \E b \in o..o + MaxLines :
        /\ Shape(Stream, trigger, n, m, a, o, b) /\ Len(captured) <= b
        /\ repl = "up" =>
              \/ inp = <<phrase, Toggle(trigger)>> /\ turn = n /\ fact = ~trigger /\ Len(Stream) <= a
              \/ inp = <<Toggle(trigger)>> /\ turn = m /\ fact = ~trigger /\ Len(Stream) <= o
              \/ inp = <<>> /\ turn = m /\ fact = trigger

(* The variables, each for itself.                                         *)
Basics ==
    /\ pc \in {"ready", "banner", "declare", "plant", "setup", "idle", "toggle", "drain",
               "raised", "failed", "closed"}
    /\ timedOut \in BOOLEAN /\ trigger \in BOOLEAN /\ fact \in BOOLEAN
    /\ captured \in Seq(Reports)
    /\ answers \in Seq(Seq(Reports)) /\ Len(answers) <= NPhrases
    /\ turn \in 0..NPhrases
    /\ IsSeq(captured) /\ IsSeq(out) /\ IsSeq(saying) /\ IsSeq(inp)
    /\ Len(inp) <= InCap /\ Len(out) <= OutCap
    /\ repl \in {"booting", "up", "dead"}
    /\ repl = "dead" => saying = <<>>
    /\ captured # <<>> => pc \in {"setup", "drain", "failed"}

(* Until the reasoner is ready nothing is written to it, and all it says   *)
(* is its banner.                                                          *)
Silent == answers = <<>> /\ trigger = FALSE

Greets(s) == \A i \in 1..Len(s) : s[i] = Banner \/ (s[i] = ReadyLine /\ i = Len(s))

Booted ==
    /\ repl = "booting" => pc \in {"ready", "banner", "failed"} /\ out = <<>> /\ saying = <<>>
    /\ pc \in {"ready", "banner"} => Silent /\ inp = <<>> /\ turn = 0 /\ fact = FALSE /\ Greets(Stream)

Phases ==
    /\ pc = "declare" => Silent /\ Quiet(0)
    /\ pc = "plant"   => Silent /\ Sent(Declaration, 0, 0)
    /\ pc = "setup"   => answers = <<>> /\ Toggled(Declaration, 0, 0)
    /\ pc = "idle"    => Quiet(Len(answers))
    /\ pc = "toggle"  => Len(answers) < NPhrases /\ Sent(Phrase, Len(answers), Len(answers) + 1)
    /\ pc = "drain"   => Len(answers) < NPhrases /\ Toggled(Phrase, Len(answers), Len(answers) + 1)
    /\ pc \in {"raised", "closed"} => repl = "dead"
    /\ pc = "failed"  => repl = "dead" \/ inp = <<>>

ReplInv == Basics /\ Booted /\ Phases

-----------------------------------------------------------------------------
(* The stream.                                                             *)

(* Its parts, place by place.                                              *)
LEMMA StreamParts ==
    ASSUME Basics
    PROVE  /\ IsSeq(Stream) /\ Len(Stream) \in Nat
           /\ Len(captured) \in Nat /\ Len(out) \in Nat /\ Len(saying) \in Nat
           /\ Len(Stream) = Len(captured) + Len(out) + Len(saying)
           /\ \A i \in 1..Len(captured) : Stream[i] = captured[i]
           /\ \A i \in 1..Len(out) : Stream[Len(captured) + i] = out[i]
           /\ \A i \in 1..Len(saying) : Stream[Len(captured) + Len(out) + i] = saying[i]
           /\ Range(Stream) = Range(captured) \cup Range(out) \cup Range(saying)
<1>1. IsSeq(captured) /\ IsSeq(out) /\ IsSeq(saying)
  BY DEF Basics
<1>2. /\ IsSeq(Stream) /\ Len(captured) \in Nat /\ Len(out) \in Nat /\ Len(saying) \in Nat
      /\ Len(Stream) = Len(captured) + Len(out) + Len(saying)
      /\ \A i \in 1..Len(captured) : Stream[i] = captured[i]
      /\ \A i \in 1..Len(out) : Stream[Len(captured) + i] = out[i]
      /\ \A i \in 1..Len(saying) : Stream[Len(captured) + Len(out) + i] = saying[i]
      /\ Range(Stream) = Range(captured) \cup Range(out) \cup Range(saying)
  BY <1>1, ThreeParts DEF Stream
<1>3. Len(Stream) \in Nat
  BY <1>2
<1> QED
  BY <1>2, <1>3

(* A line written by the reasoner, or read and kept by the driver, stays   *)
(* where it is in the stream.                                              *)
LEMMA StreamKeeps ==
    ASSUME Basics,
           \/ saying # <<>> /\ out' = Append(out, Head(saying)) /\ saying' = Tail(saying) /\ captured' = captured
           \/ out # <<>> /\ captured' = Append(captured, Head(out)) /\ out' = Tail(out) /\ saying' = saying
    PROVE  /\ Stream' = Stream
           /\ IsSeq(captured') /\ IsSeq(out') /\ IsSeq(saying')
<1>1. IsSeq(captured) /\ IsSeq(out) /\ IsSeq(saying)
  BY DEF Basics
<1>2. CASE saying # <<>> /\ out' = Append(out, Head(saying)) /\ saying' = Tail(saying) /\ captured' = captured
  <2>1. Stream' = captured \o Append(out, Head(saying)) \o Tail(saying)
    BY <1>2 DEF Stream
  <2>2. captured \o Append(out, Head(saying)) \o Tail(saying) = captured \o out \o saying
    BY <1>1, <1>2, HeadMovesOn
  <2>3. IsSeq(Tail(saying))
    BY <1>1, <1>2, TailFacts
  <2>4. IsSeq(Append(out, Head(saying)))
    <3> DEFINE x == Head(saying)
    <3> HIDE DEF x
    <3>1. IsSeq(Append(out, x))
      BY <1>1, AppendFacts
    <3> QED
      BY <3>1 DEF x
  <2> QED
    BY <1>1, <1>2, <2>1, <2>2, <2>3, <2>4 DEF Stream, IsSeq
<1>3. CASE out # <<>> /\ captured' = Append(captured, Head(out)) /\ out' = Tail(out) /\ saying' = saying
  <2>1. Stream' = Append(captured, Head(out)) \o Tail(out) \o saying
    BY <1>3 DEF Stream
  <2>2. Append(captured, Head(out)) \o Tail(out) \o saying = captured \o out \o saying
    BY <1>1, <1>3, HeadMovesOn
  <2>3. IsSeq(Tail(out))
    BY <1>1, <1>3, TailFacts
  <2>4. IsSeq(Append(captured, Head(out)))
    <3> DEFINE x == Head(out)
    <3> HIDE DEF x
    <3>1. IsSeq(Append(captured, x))
      BY <1>1, AppendFacts
    <3> QED
      BY <3>1 DEF x
  <2> QED
    BY <1>1, <1>3, <2>1, <2>2, <2>3, <2>4 DEF Stream, IsSeq
<1> QED
  BY <1>2, <1>3

(* When what was read is dropped, the line read with it, the stream begins *)
(* behind them.                                                            *)
LEMMA StreamDrops ==
    ASSUME Basics, out # <<>>, captured' = <<>>, out' = Tail(out), saying' = saying
    PROVE  /\ IsSeq(captured') /\ IsSeq(out') /\ IsSeq(saying') /\ Len(out') <= Len(out)
           /\ Head(out) = Stream[Len(captured) + 1] /\ Len(captured) + 1 \in 1..Len(Stream)
           /\ Len(Stream') \in Nat /\ Len(Stream') = Len(Stream) - (Len(captured) + 1)
           /\ \A i \in 1..Len(Stream') :
                 /\ Len(captured) + 1 + i \in 1..Len(Stream)
                 /\ Stream'[i] = Stream[Len(captured) + 1 + i]
<1>1. IsSeq(captured) /\ IsSeq(out) /\ IsSeq(saying)
  BY DEF Basics
<1>2. /\ IsSeq(Tail(out)) /\ Len(out) \in Nat \ {0} /\ Len(Tail(out)) = Len(out) - 1
      /\ Head(out) = out[1]
      /\ \A i \in 1..Len(out) - 1 : Tail(out)[i] = out[i + 1]
  BY <1>1, TailFacts
<1>3. IsSeq(<<>>) /\ Len(<<>>) = 0
  BY SmallSeqs
<1>4. PICK t : t = Tail(out)
  OBVIOUS
<1>5. PICK e : e = <<>>
  OBVIOUS
<1>6. Stream' = e \o t \o saying
  BY <1>4, <1>5 DEF Stream
<1>7. IsSeq(e) /\ Len(e) = 0 /\ IsSeq(t) /\ Len(t) = Len(out) - 1
      /\ \A i \in 1..Len(out) - 1 : t[i] = out[i + 1]
  BY <1>2, <1>3, <1>4, <1>5
<1>8. /\ Len(e \o t \o saying) = Len(e) + Len(t) + Len(saying)
      /\ Len(saying) \in Nat
      /\ \A i \in 1..Len(t) : (e \o t \o saying)[Len(e) + i] = t[i]
      /\ \A i \in 1..Len(saying) : (e \o t \o saying)[Len(e) + Len(t) + i] = saying[i]
  <2>1. IsSeq(e) /\ IsSeq(t) /\ IsSeq(saying)
    BY <1>1, <1>7
  <2> QED
    BY <2>1, ThreeParts
<1> DEFINE c == Len(captured)
           q == Len(out)
           r == Len(saying)
<1>9. /\ c \in Nat /\ q \in Nat \ {0} /\ r \in Nat
      /\ Len(Stream) = c + q + r
      /\ \A i \in 1..q : Stream[c + i] = out[i]
      /\ \A i \in 1..r : Stream[c + q + i] = saying[i]
  BY <1>2, StreamParts
<1>10. /\ Len(Stream') = (q - 1) + r
       /\ \A i \in 1..q - 1 : Stream'[i] = out[i + 1]
       /\ \A i \in 1..r : Stream'[(q - 1) + i] = saying[i]
  <2>1. Len(Stream') = (q - 1) + r
    BY <1>6, <1>7, <1>8, <1>9
  <2>2. ASSUME NEW i \in 1..q - 1 PROVE Stream'[i] = out[i + 1]
    <3>1. i \in 1..Len(t) /\ Len(e) + i = i
      BY <1>7, <1>9
    <3> QED
      BY <1>6, <1>7, <1>8, <3>1
  <2>3. ASSUME NEW i \in 1..r PROVE Stream'[(q - 1) + i] = saying[i]
    <3>1. Len(e) + Len(t) + i = (q - 1) + i
      BY <1>7, <1>9
    <3> QED
      BY <1>6, <1>8, <3>1
  <2> QED
    BY <2>1, <2>2, <2>3
<1> HIDE DEF c, q, r
<1>11. Head(out) = Stream[c + 1] /\ c + 1 \in 1..Len(Stream)
  <2>1. 1 \in 1..q /\ c + 1 \in 1..Len(Stream)
    BY <1>9
  <2> QED
    BY <1>2, <1>9, <2>1
<1>12. Len(Stream') \in Nat /\ Len(Stream') = Len(Stream) - (c + 1)
  BY <1>9, <1>10
<1>13. ASSUME NEW i \in 1..Len(Stream')
       PROVE  c + 1 + i \in 1..Len(Stream) /\ Stream'[i] = Stream[c + 1 + i]
  <2>1. i \in 1..(q - 1) + r /\ c + 1 + i \in 1..Len(Stream)
    BY <1>9, <1>10
  <2>2. CASE i <= q - 1
    <3>1. i \in 1..q - 1 /\ i + 1 \in 1..q /\ c + (i + 1) = c + 1 + i
      BY <1>9, <2>1, <2>2
    <3> QED
      BY <1>9, <1>10, <2>1, <3>1
  <2>3. CASE i > q - 1
    <3> DEFINE j == i - (q - 1)
    <3>1. j \in 1..r /\ i = (q - 1) + j /\ c + q + j = c + 1 + i
      BY <1>9, <2>1, <2>3
    <3> HIDE DEF j
    <3> QED
      BY <1>9, <1>10, <2>1, <3>1
  <2> QED
    BY <1>9, <2>1, <2>2, <2>3
<1>14. IsSeq(captured') /\ IsSeq(out') /\ IsSeq(saying') /\ Len(out') <= Len(out)
  BY <1>1, <1>2, <1>3 DEF IsSeq
<1> QED
  BY <1>11, <1>12, <1>13, <1>14 DEF c

(* A reasoner that has said all it had to say and takes a line adds to the *)
(* end of the stream; one that ends cuts its end off.                      *)
LEMMA StreamEnds ==
    ASSUME Basics, captured' = captured, out' = out, IsSeq(saying')
    PROVE  /\ IsSeq(captured') /\ IsSeq(out') /\ IsSeq(Stream') /\ Len(Stream') \in Nat
           /\ Len(saying') \in Nat
           /\ Len(Stream') = Len(captured) + Len(out) + Len(saying')
           /\ saying = <<>> =>
                 /\ Len(Stream') = Len(Stream) + Len(saying')
                 /\ \A i \in 1..Len(Stream) : Stream'[i] = Stream[i]
                 /\ \A i \in 1..Len(saying') : Stream'[Len(Stream) + i] = saying'[i]
           /\ saying' = <<>> =>
                 /\ Len(Stream') <= Len(Stream)
                 /\ \A i \in 1..Len(Stream') : Stream'[i] = Stream[i]
<1>1. IsSeq(captured) /\ IsSeq(out) /\ IsSeq(saying)
  BY DEF Basics
<1>2. SUFFICES ASSUME NEW w, w = saying', IsSeq(w)
      PROVE  /\ IsSeq(Stream') /\ Len(Stream') \in Nat
             /\ Len(w) \in Nat
             /\ Len(Stream') = Len(captured) + Len(out) + Len(w)
             /\ saying = <<>> =>
                   /\ Len(Stream') = Len(Stream) + Len(w)
                   /\ \A i \in 1..Len(Stream) : Stream'[i] = Stream[i]
                   /\ \A i \in 1..Len(w) : Stream'[Len(Stream) + i] = w[i]
             /\ w = <<>> =>
                   /\ Len(Stream') <= Len(Stream)
                   /\ \A i \in 1..Len(Stream') : Stream'[i] = Stream[i]
  BY <1>1 DEF IsSeq
<1>3. Stream' = captured \o out \o w
  BY <1>2 DEF Stream
<1>4. /\ IsSeq(captured \o out \o w) /\ Len(w) \in Nat
      /\ Len(captured \o out \o w) = Len(captured) + Len(out) + Len(w)
      /\ \A i \in 1..Len(captured) : (captured \o out \o w)[i] = captured[i]
      /\ \A i \in 1..Len(out) : (captured \o out \o w)[Len(captured) + i] = out[i]
      /\ \A i \in 1..Len(w) : (captured \o out \o w)[Len(captured) + Len(out) + i] = w[i]
  BY <1>1, <1>2, ThreeParts
<1> DEFINE c == Len(captured)
           q == Len(out)
<1>5. /\ c \in Nat /\ q \in Nat /\ Len(saying) \in Nat
      /\ Len(Stream) = c + q + Len(saying)
      /\ \A i \in 1..c : Stream[i] = captured[i]
      /\ \A i \in 1..q : Stream[c + i] = out[i]
  BY StreamParts
<1>6. /\ IsSeq(Stream') /\ Len(Stream') = c + q + Len(w) /\ Len(Stream') \in Nat
      /\ \A i \in 1..c : Stream'[i] = captured[i]
      /\ \A i \in 1..q : Stream'[c + i] = out[i]
      /\ \A i \in 1..Len(w) : Stream'[c + q + i] = w[i]
  BY <1>3, <1>4, <1>5
<1> HIDE DEF c, q
<1>7. ASSUME NEW i \in 1..c + q PROVE Stream'[i] = Stream[i]
  <2>1. CASE i <= c
    <3>1. i \in 1..c
      BY <1>5, <2>1
    <3> QED
      BY <1>5, <1>6, <3>1
  <2>2. CASE i > c
    <3> DEFINE j == i - c
    <3>1. j \in 1..q /\ i = c + j
      BY <1>5, <2>2
    <3> HIDE DEF j
    <3> QED
      BY <1>5, <1>6, <3>1
  <2> QED
    BY <1>5, <2>1, <2>2
<1>8. ASSUME saying = <<>>
      PROVE  /\ Len(Stream') = Len(Stream) + Len(w)
             /\ \A i \in 1..Len(Stream) : Stream'[i] = Stream[i]
             /\ \A i \in 1..Len(w) : Stream'[Len(Stream) + i] = w[i]
  <2>1. Len(saying) = 0
    BY <1>8, SmallSeqs
  <2>2. Len(Stream) = c + q
    BY <1>5, <2>1
  <2> QED
    BY <1>6, <1>7, <2>2
<1>9. ASSUME w = <<>>
      PROVE  /\ Len(Stream') <= Len(Stream)
             /\ \A i \in 1..Len(Stream') : Stream'[i] = Stream[i]
  <2>1. Len(w) = 0
    BY <1>9, SmallSeqs
  <2>2. Len(Stream') = c + q
    BY <1>5, <1>6, <2>1
  <2> QED
    BY <1>5, <1>7, <2>2
<1> QED
  BY <1>4, <1>6, <1>8, <1>9 DEF c, q

-----------------------------------------------------------------------------
(* The lines, and the streams of one exchange.                             *)

(* An echo is no line, and lines and phrases of different kinds differ.    *)
LEMMA LinesDiffer ==
    /\ \A n, part, b : Line(n, part) # Echo(b)
    /\ \A n, m, p, q : Line(n, p) = Line(m, q) => n = m /\ p = q
    /\ \A a, b : Toggle(a) = Toggle(b) => a = b
    /\ \A b : Toggle(b) # Phrase /\ Toggle(b) # Declaration
    /\ Phrase # Declaration
<1>1. ASSUME NEW n, NEW part, NEW b PROVE Line(n, part) # Echo(b)
  <2>1. "of" \in DOMAIN Line(n, part)
    BY DEF Line
  <2>2. "of" \notin DOMAIN Echo(b)
    BY DEF Echo
  <2> QED
    BY <2>1, <2>2
<1>2. ASSUME NEW n, NEW m, NEW p, NEW q, Line(n, p) = Line(m, q) PROVE n = m /\ p = q
  <2>1. Line(n, p).of = n /\ Line(n, p).part = p /\ Line(m, q).of = m /\ Line(m, q).part = q
    BY DEF Line
  <2> QED
    BY <1>2, <2>1
<1>3. ASSUME NEW a, NEW b, Toggle(a) = Toggle(b) PROVE a = b
  <2>1. Toggle(a)[2] = a /\ Toggle(b)[2] = b
    BY DEF Toggle
  <2> QED
    BY <1>3, <2>1
<1>4. ASSUME NEW b PROVE Toggle(b) # Phrase /\ Toggle(b) # Declaration
  BY DEF Toggle, Phrase, Declaration
<1>5. Phrase # Declaration
  BY DEF Phrase, Declaration
<1> QED
  BY <1>1, <1>2, <1>3, <1>4, <1>5

(* The blocks of a stream.                                                 *)
BlocksAt(g, n, m, a, o, b) ==
    /\ a \in Nat /\ o \in Nat /\ b \in Nat /\ a <= o /\ o <= b
    /\ \A i \in 1..a : Piece(i, g, n, m, a, o, b) = Line(n, "after")
    /\ \A i \in a + 1..o : Piece(i, g, n, m, a, o, b) = Line(m, "own")
    /\ \A i \in o + 1..b : Piece(i, g, n, m, a, o, b) = Line(m, "before")
    /\ Piece(b + 1, g, n, m, a, o, b) = Echo(g)
    /\ \A i \in Nat : i > b + 1 => Piece(i, g, n, m, a, o, b) = Line(m, "after")

(* A stream's shape is one of blocks.                                      *)
LEMMA Blocks ==
    ASSUME NEW g, NEW n, NEW m,
           NEW a \in 0..MaxLines, NEW o \in a..a + MaxLines, NEW b \in o..o + MaxLines
    PROVE  BlocksAt(g, n, m, a, o, b)
<1>1. a \in Nat /\ o \in Nat /\ b \in Nat /\ a <= o /\ o <= b
  BY ReplAssumption
<1>2. \A i \in 1..a : Piece(i, g, n, m, a, o, b) = Line(n, "after")
  BY <1>1 DEF Piece
<1>3. \A i \in a + 1..o : Piece(i, g, n, m, a, o, b) = Line(m, "own")
  BY <1>1 DEF Piece
<1>4. \A i \in o + 1..b : Piece(i, g, n, m, a, o, b) = Line(m, "before")
  BY <1>1 DEF Piece
<1>5. Piece(b + 1, g, n, m, a, o, b) = Echo(g)
  BY <1>1 DEF Piece
<1>6. \A i \in Nat : i > b + 1 => Piece(i, g, n, m, a, o, b) = Line(m, "after")
  BY <1>1 DEF Piece
<1> QED
  BY <1>1, <1>2, <1>3, <1>4, <1>5, <1>6 DEF BlocksAt

(* A prefix keeps the shape.                                               *)
LEMMA ShapePrefix ==
    ASSUME NEW s, NEW t, NEW g, NEW n, NEW m, NEW a, NEW o, NEW b, Shape(s, g, n, m, a, o, b),
           Len(s) \in Nat, Len(t) \in Nat, Len(t) <= Len(s), \A i \in 1..Len(t) : t[i] = s[i]
    PROVE  Shape(t, g, n, m, a, o, b)
<1>1. a \in 0..MaxLines /\ o \in a..a + MaxLines /\ b \in o..o + MaxLines
  BY DEF Shape
<1>2. a \in Nat /\ o \in Nat /\ b \in Nat
  <2>1. BlocksAt(g, n, m, a, o, b)
    BY <1>1, Blocks
  <2> QED
    BY <2>1 DEF BlocksAt
<1>3. Len(t) <= b + 1 + MaxLines
  <2>1. Len(s) <= b + 1 + MaxLines
    BY DEF Shape
  <2> QED
    BY <1>2, <2>1, ReplAssumption
<1>4. ASSUME NEW i \in 1..Len(t) PROVE t[i] = Piece(i, g, n, m, a, o, b)
  <2>1. i \in 1..Len(s)
    OBVIOUS
  <2>2. s[i] = Piece(i, g, n, m, a, o, b)
    BY <2>1 DEF Shape
  <2> QED
    BY <2>2
<1> QED
  BY <1>1, <1>3, <1>4 DEF Shape

(* What remains of an exchange has the shape of the next one.              *)
LEMMA RemainsShape ==
    ASSUME NEW s, NEW g, NEW n, NEW m, IsSeq(s), Remains(s, n)
    PROVE  /\ Len(s) \in 0..MaxLines /\ Len(s) \in Len(s)..Len(s) + MaxLines
           /\ Shape(s, g, n, m, Len(s), Len(s), Len(s))
<1>1. Len(s) \in Nat
  BY SeqPlaces
<1>2. Len(s) \in 0..MaxLines /\ Len(s) \in Len(s)..Len(s) + MaxLines
  BY <1>1, ReplAssumption DEF Remains
<1>3. ASSUME NEW i \in 1..Len(s) PROVE s[i] = Piece(i, g, n, m, Len(s), Len(s), Len(s))
  BY <1>1 DEF Remains, Piece
<1>4. Len(s) <= Len(s) + 1 + MaxLines
  BY <1>1, ReplAssumption
<1> QED
  BY <1>2, <1>3, <1>4 DEF Shape

(* The reasoner answers the phrase.                                        *)
LEMMA OwnFollows ==
    ASSUME NEW s, NEW t, NEW g, NEW h, NEW n, NEW m, NEW a, NEW o, NEW b, NEW k \in 0..MaxLines,
           Shape(s, g, n, m, a, o, b), Len(s) \in Nat, Len(s) <= a,
           Len(t) = Len(s) + k, \A i \in 1..Len(s) : t[i] = s[i],
           \A i \in 1..k : t[Len(s) + i] = Line(m, "own")
    PROVE  /\ Len(s) \in 0..MaxLines /\ Len(t) \in Len(s)..Len(s) + MaxLines
           /\ Len(t) \in Len(t)..Len(t) + MaxLines
           /\ Shape(t, h, n, m, Len(s), Len(t), Len(t))
<1>1. a \in 0..MaxLines /\ o \in a..a + MaxLines /\ b \in o..o + MaxLines
  BY DEF Shape
<1>2. /\ a \in Nat /\ o \in Nat /\ b \in Nat
      /\ \A i \in 1..a : Piece(i, g, n, m, a, o, b) = Line(n, "after")
  <2>1. BlocksAt(g, n, m, a, o, b)
    BY <1>1, Blocks
  <2> QED
    BY <2>1 DEF BlocksAt
<1>3. /\ Len(s) \in 0..MaxLines /\ Len(t) \in Len(s)..Len(s) + MaxLines
      /\ Len(t) \in Nat /\ Len(t) \in Len(t)..Len(t) + MaxLines /\ Len(t) <= Len(t) + 1 + MaxLines
  BY <1>1, ReplAssumption
<1>4. ASSUME NEW i \in 1..Len(t) PROVE t[i] = Piece(i, h, n, m, Len(s), Len(t), Len(t))
  <2>1. CASE i <= Len(s)
    <3>1. i \in 1..Len(s) /\ i \in 1..a
      BY <1>2, <1>3, <2>1
    <3>2. t[i] = Line(n, "after")
      BY <1>2, <3>1 DEF Shape
    <3> QED
      BY <2>1, <3>2 DEF Piece
  <2>2. CASE i > Len(s)
    <3> DEFINE j == i - Len(s)
    <3>1. j \in 1..k /\ i = Len(s) + j
      BY <1>3, <2>2
    <3> HIDE DEF j
    <3>2. t[i] = Line(m, "own")
      BY <3>1
    <3>3. ~(i <= Len(s)) /\ i <= Len(t)
      BY <1>3, <2>2
    <3> QED
      BY <3>2, <3>3 DEF Piece
  <2> QED
    BY <1>3, <2>1, <2>2
<1> QED
  BY <1>3, <1>4 DEF Shape

(* The reasoner echoes the toggle.                                         *)
LEMMA EchoFollows ==
    ASSUME NEW s, NEW t, NEW g, NEW n, NEW m, NEW a, NEW o, NEW b,
           NEW j \in 0..MaxLines, NEW k \in 0..MaxLines,
           Shape(s, g, n, m, a, o, b), Len(s) \in Nat, Len(s) <= o,
           Len(t) = Len(s) + j + 1 + k, \A i \in 1..Len(s) : t[i] = s[i],
           \A i \in 1..j : t[Len(s) + i] = Line(m, "before"),
           t[Len(s) + j + 1] = Echo(g),
           \A i \in 1..k : t[Len(s) + j + 1 + i] = Line(m, "after")
    PROVE  \E a1 \in 0..MaxLines : \E o1 \in a1..a1 + MaxLines : \E b1 \in o1..o1 + MaxLines :
              /\ Shape(t, g, n, m, a1, o1, b1)
              /\ Len(s) <= b1
<1>1. a \in 0..MaxLines /\ o \in a..a + MaxLines /\ b \in o..o + MaxLines
  BY DEF Shape
<1>2. /\ a \in Nat /\ o \in Nat /\ b \in Nat /\ a <= o
      /\ \A i \in 1..a : Piece(i, g, n, m, a, o, b) = Line(n, "after")
      /\ \A i \in a + 1..o : Piece(i, g, n, m, a, o, b) = Line(m, "own")
  <2>1. BlocksAt(g, n, m, a, o, b)
    BY <1>1, Blocks
  <2> QED
    BY <2>1 DEF BlocksAt
<1> DEFINE a1 == IF Len(s) <= a THEN Len(s) ELSE a
           o1 == Len(s)
           b1 == Len(s) + j
<1>3. a1 \in 0..MaxLines /\ o1 \in a1..a1 + MaxLines /\ b1 \in o1..o1 + MaxLines /\ Len(s) <= b1
  BY <1>1, <1>2, ReplAssumption
<1>4. /\ a1 \in Nat /\ o1 \in Nat /\ b1 \in Nat /\ a1 <= o1
      /\ a1 <= a /\ (a1 < o1 => a1 = a)
  BY <1>2
<1>5. o1 = Len(s) /\ b1 = Len(s) + j
  OBVIOUS
<1> HIDE DEF a1, o1, b1
<1>6. ASSUME NEW i \in 1..Len(t) PROVE t[i] = Piece(i, g, n, m, a1, o1, b1)
  <2>1. CASE i <= a1
    <3>1. i \in 1..Len(s) /\ i \in 1..a
      BY <1>2, <1>4, <1>5, <2>1
    <3>2. t[i] = Line(n, "after")
      BY <1>2, <3>1 DEF Shape
    <3> QED
      BY <2>1, <3>2 DEF Piece
  <2>2. CASE i > a1 /\ i <= o1
    <3>1. i \in 1..Len(s) /\ i \in a + 1..o
      BY <1>2, <1>4, <1>5, <2>2
    <3>2. t[i] = Line(m, "own")
      BY <1>2, <3>1 DEF Shape
    <3>3. ~(i <= a1) /\ i <= o1
      BY <1>4, <2>2
    <3> QED
      BY <3>2, <3>3 DEF Piece
  <2>3. CASE i > o1 /\ i <= b1
    <3> DEFINE q == i - Len(s)
    <3>1. q \in 1..j /\ i = Len(s) + q
      BY <1>5, <2>3
    <3> HIDE DEF q
    <3>2. t[i] = Line(m, "before")
      BY <3>1
    <3>3. ~(i <= a1) /\ ~(i <= o1) /\ i <= b1
      BY <1>4, <2>3
    <3> QED
      BY <3>2, <3>3 DEF Piece
  <2>4. CASE i = b1 + 1
    <3>1. ~(i <= a1) /\ ~(i <= o1) /\ ~(i <= b1) /\ i = Len(s) + j + 1
      BY <1>4, <1>5, <2>4
    <3> QED
      BY <2>4, <3>1 DEF Piece
  <2>5. CASE i > b1 + 1
    <3> DEFINE q == i - (Len(s) + j + 1)
    <3>1. q \in 1..k /\ i = Len(s) + j + 1 + q
      BY <1>5, <2>5
    <3> HIDE DEF q
    <3>2. t[i] = Line(m, "after")
      BY <3>1
    <3>3. ~(i <= a1) /\ ~(i <= o1) /\ ~(i <= b1) /\ ~(i = b1 + 1)
      BY <1>4, <1>5, <2>5
    <3> QED
      BY <3>2, <3>3 DEF Piece
  <2>6. i \in Nat
    OBVIOUS
  <2> QED
    BY <1>4, <2>1, <2>2, <2>3, <2>4, <2>5, <2>6
<1>7. Len(t) <= b1 + 1 + MaxLines
  BY <1>5, ReplAssumption
<1>8. Shape(t, g, n, m, a1, o1, b1)
  BY <1>3, <1>6, <1>7 DEF Shape
<1> QED
  BY <1>3, <1>8

(* Whoever has read no more than what goes before the echo finds it next   *)
(* exactly when it has read all of that, and a line of this exchange or of *)
(* the end of the last one before.                                         *)
EchoNext(s, g, n, m, b, c) ==
    /\ s[c + 1] = Echo(g) <=> c = b
    /\ c < b => \/ s[c + 1] = Line(n, "after")
                \/ s[c + 1] = Line(m, "own")
                \/ s[c + 1] = Line(m, "before")

(* That holds in a stream of that shape.                                   *)
LEMMA EchoIsAtItsPlace ==
    ASSUME NEW s, NEW g, NEW n, NEW m, NEW a, NEW o, NEW b, NEW c,
           Shape(s, g, n, m, a, o, b), c \in Nat, c <= b, c + 1 \in 1..Len(s)
    PROVE  EchoNext(s, g, n, m, b, c)
<1>1. a \in 0..MaxLines /\ o \in a..a + MaxLines /\ b \in o..o + MaxLines
  BY DEF Shape
<1>2. /\ a \in Nat /\ o \in Nat /\ b \in Nat /\ a <= o /\ o <= b
      /\ \A i \in 1..a : Piece(i, g, n, m, a, o, b) = Line(n, "after")
      /\ \A i \in a + 1..o : Piece(i, g, n, m, a, o, b) = Line(m, "own")
      /\ \A i \in o + 1..b : Piece(i, g, n, m, a, o, b) = Line(m, "before")
      /\ Piece(b + 1, g, n, m, a, o, b) = Echo(g)
  <2>1. BlocksAt(g, n, m, a, o, b)
    BY <1>1, Blocks
  <2> QED
    BY <2>1 DEF BlocksAt
<1>3. s[c + 1] = Piece(c + 1, g, n, m, a, o, b)
  BY DEF Shape
<1>4. c = b => s[c + 1] = Echo(g)
  BY <1>2, <1>3
<1>5. ASSUME c < b
      PROVE  \/ s[c + 1] = Line(n, "after")
             \/ s[c + 1] = Line(m, "own")
             \/ s[c + 1] = Line(m, "before")
  <2>1. c + 1 \in 1..a \/ c + 1 \in a + 1..o \/ c + 1 \in o + 1..b
    BY <1>2, <1>5
  <2> QED
    BY <1>2, <1>3, <2>1
<1>6. c < b => s[c + 1] # Echo(g)
  BY <1>5, LinesDiffer
<1>7. c < b \/ c = b
  BY <1>2
<1> QED
  BY <1>2, <1>4, <1>5, <1>6, <1>7 DEF EchoNext

(* What follows the echo remains of the exchange.                          *)
LEMMA AfterTheEcho ==
    ASSUME NEW s, NEW t, NEW g, NEW n, NEW m, NEW a, NEW o, NEW b,
           Shape(s, g, n, m, a, o, b), Len(s) \in Nat, Len(t) \in Nat, Len(t) = Len(s) - (b + 1),
           \A i \in 1..Len(t) : t[i] = s[b + 1 + i]
    PROVE  Remains(t, m)
<1>1. a \in 0..MaxLines /\ o \in a..a + MaxLines /\ b \in o..o + MaxLines /\ Len(s) <= b + 1 + MaxLines
  BY DEF Shape
<1>2. /\ b \in Nat
      /\ \A i \in Nat : i > b + 1 => Piece(i, g, n, m, a, o, b) = Line(m, "after")
  <2>1. BlocksAt(g, n, m, a, o, b)
    BY <1>1, Blocks
  <2> QED
    BY <2>1 DEF BlocksAt
<1>3. Len(t) <= MaxLines
  BY <1>1, <1>2, ReplAssumption
<1>4. ASSUME NEW i \in 1..Len(t) PROVE t[i] = Line(m, "after")
  <2>1. b + 1 + i \in 1..Len(s) /\ b + 1 + i \in Nat /\ b + 1 + i > b + 1
    BY <1>2
  <2>2. s[b + 1 + i] = Piece(b + 1 + i, g, n, m, a, o, b)
    BY <2>1 DEF Shape
  <2> QED
    BY <1>2, <2>1, <2>2
<1> QED
  BY <1>3, <1>4 DEF Remains

-----------------------------------------------------------------------------
(* The reasoner's steps.                                                   *)

(* What the reasoner says about a line, one part of it.                    *)
LEMMA LinesFacts ==
    ASSUME NEW n, NEW part, NEW x \in Lines(n, part)
    PROVE  /\ IsSeq(x) /\ Len(x) \in 0..MaxLines
           /\ \A i \in 1..Len(x) : x[i] = Line(n, part)
<1>1. PICK k \in 0..MaxLines : x = [i \in 1..k |-> Line(n, part)]
  BY DEF Lines
<1>2. k \in Nat
  BY ReplAssumption
<1>3. DOMAIN x = 1..k /\ x = [i \in 1..k |-> x[i]] /\ \A i \in 1..k : x[i] = Line(n, part)
  BY <1>1
<1>4. IsSeq(x) /\ Len(x) = k
  BY <1>2, <1>3, FunctionIsSeq
<1> QED
  BY <1>3, <1>4

(* The next line of the reasoner's input.                                  *)
LEMMA InputFacts ==
    ASSUME NEW x, NEW y
    PROVE  /\ <<x>> # <<>> /\ Head(<<x>>) = x /\ Tail(<<x>>) = <<>>
           /\ <<x, y>> # <<>> /\ Head(<<x, y>>) = x /\ Tail(<<x, y>>) = <<y>>
           /\ Append(<<>>, x) = <<x>> /\ Append(<<x>>, y) = <<x, y>>
<1>1. <<x>> # <<>> /\ Head(<<x>>) = x
  OBVIOUS
<1>2. Tail(<<x>>) = <<>>
  OBVIOUS
<1>3. <<x, y>> # <<>> /\ Head(<<x, y>>) = x
  OBVIOUS
<1>4. Tail(<<x, y>>) = <<y>>
  OBVIOUS
<1>5. Append(<<>>, x) = <<x>>
  OBVIOUS
<1>6. Append(<<x>>, y) = <<x, y>>
  <2> DEFINE e == <<x>>
             p == Append(e, y)
             q == <<x, y>>
  <2>1. IsSeq(e) /\ Len(e) = 1 /\ e[1] = x
    BY SmallSeqs
  <2>2. q \in Seq({x, y}) /\ Range(q) = {x, y} /\ Len(q) = 2 /\ q[1] = x /\ q[2] = y
    BY DEF Range
  <2>3. IsSeq(q)
    BY <2>2 DEF IsSeq
  <2> HIDE DEF e
  <2>7. /\ IsSeq(p) /\ Len(p) = Len(e) + 1 /\ p[Len(e) + 1] = y
        /\ \A i \in 1..Len(e) : p[i] = e[i]
    BY <2>1, AppendFacts
  <2>4. IsSeq(p) /\ Len(p) = 2 /\ p[1] = x /\ p[2] = y
    <3> HIDE DEF p
    <3> QED
      BY <2>1, <2>7
  <2> HIDE DEF p, q
  <2>5. \A i \in 1..Len(p) : p[i] = q[i]
    <3>1. 1..Len(p) = {1, 2}
      BY <2>4
    <3> QED
      BY <2>2, <2>4, <3>1
  <2>6. p = q
    BY <2>2, <2>3, <2>4, <2>5, SeqEqual
  <2> QED
    BY <2>6 DEF p, q, e
<1> QED
  BY <1>1, <1>2, <1>3, <1>4, <1>5, <1>6

(* The reasoner takes the phrase of exchange m, or the declaration.        *)
LEMMA TakesPhrase ==
    ASSUME NEW phrase, NEW m, Take, Head(inp) = phrase,
           \/ phrase = Declaration /\ m = turn
           \/ phrase = Phrase /\ m = turn + 1
    PROVE  saying = <<>> /\ saying' \in Lines(m, "own") /\ turn' = m /\ fact' = fact
<1>1. saying = <<>>
  BY DEF Take
<1>2. CASE Head(inp) = Declaration /\ saying' \in Lines(turn, "own") /\ UNCHANGED <<fact, turn>>
  BY <1>1, <1>2, LinesDiffer
<1>3. CASE /\ Head(inp) = Phrase
           /\ turn' = turn + 1
           /\ saying' \in Lines(turn + 1, "own")
           /\ UNCHANGED fact
  BY <1>1, <1>3, LinesDiffer
<1>4. CASE \E b \in BOOLEAN : Head(inp) = Toggle(b)
  BY <1>4, LinesDiffer
<1> QED
  BY <1>2, <1>3, <1>4 DEF Take

(* The reasoner takes a toggle that changes its fact.                      *)
LEMMA TakesToggle ==
    ASSUME NEW b, Take, Head(inp) = Toggle(b), fact # b
    PROVE  /\ saying = <<>> /\ fact' = b /\ turn' = turn
           /\ \E x \in Lines(turn, "before"), y \in Lines(turn, "after") : saying' = x \o <<Echo(b)>> \o y
<1>1. saying = <<>>
  BY DEF Take
<1>2. Head(inp) # Declaration /\ Head(inp) # Phrase
  BY LinesDiffer
<1>3. PICK d \in BOOLEAN :
          /\ Head(inp) = Toggle(d)
          /\ fact' = d
          /\ \E x \in Lines(turn, "before"), y \in Lines(turn, "after") :
                saying' = x \o (IF fact # d THEN <<Echo(d)>> ELSE <<>>) \o y
          /\ turn' = turn
  BY <1>2 DEF Take
<1>4. d = b
  BY <1>3, LinesDiffer
<1> QED
  BY <1>1, <1>3, <1>4

(* What the reasoner says about such a toggle.                             *)
EchoAmid(w, n, g, j, k) ==
    /\ IsSeq(w) /\ Len(w) = j + 1 + k
    /\ \A i \in 1..j : w[i] = Line(n, "before")
    /\ w[j + 1] = Echo(g)
    /\ \A i \in 1..k : w[j + 1 + i] = Line(n, "after")

(* That is an echo amid other lines.                                       *)
LEMMA EchoFacts ==
    ASSUME NEW n, NEW g, NEW x \in Lines(n, "before"), NEW y \in Lines(n, "after"),
           NEW w, w = x \o <<Echo(g)>> \o y
    PROVE  \E j \in 0..MaxLines, k \in 0..MaxLines : EchoAmid(w, n, g, j, k)
<1>1. /\ IsSeq(x) /\ Len(x) \in 0..MaxLines /\ \A i \in 1..Len(x) : x[i] = Line(n, "before")
      /\ IsSeq(y) /\ Len(y) \in 0..MaxLines /\ \A i \in 1..Len(y) : y[i] = Line(n, "after")
  BY LinesFacts
<1>2. PICK e : e = <<Echo(g)>> /\ IsSeq(e) /\ Len(e) = 1 /\ e[1] = Echo(g)
  BY SmallSeqs
<1>3. w = x \o e \o y
  BY <1>2
<1>4. IsSeq(x) /\ IsSeq(e) /\ IsSeq(y)
  BY <1>1, <1>2
<1>5. /\ IsSeq(x \o e \o y)
      /\ Len(x \o e \o y) = Len(x) + Len(e) + Len(y)
      /\ \A i \in 1..Len(x) : (x \o e \o y)[i] = x[i]
      /\ \A i \in 1..Len(e) : (x \o e \o y)[Len(x) + i] = e[i]
      /\ \A i \in 1..Len(y) : (x \o e \o y)[Len(x) + Len(e) + i] = y[i]
  BY <1>4, ThreeParts
<1>6. 1 \in 1..Len(e)
  BY <1>2
<1>7. /\ IsSeq(w) /\ Len(w) = Len(x) + 1 + Len(y)
      /\ \A i \in 1..Len(x) : w[i] = x[i]
      /\ w[Len(x) + 1] = e[1]
      /\ \A i \in 1..Len(y) : w[Len(x) + 1 + i] = y[i]
  BY <1>2, <1>3, <1>5, <1>6
<1>8. EchoAmid(w, n, g, Len(x), Len(y))
  BY <1>1, <1>2, <1>7 DEF EchoAmid
<1> QED
  BY <1>1, <1>8

(* The phrase is taken before its toggle is written.                       *)
LEMMA SentTake ==
    ASSUME NEW phrase, NEW n, NEW m, Basics, Take, Sent(phrase, n, m),
           \/ phrase = Declaration /\ m = n
           \/ phrase = Phrase /\ m = n + 1
    PROVE  /\ Head(inp) = phrase /\ turn = n /\ turn' = m
           /\ Sent(phrase, n, m)'
<1>1. repl = "up" /\ inp # <<>> /\ inp' = Tail(inp) /\ captured' = captured /\ out' = out /\ trigger' = trigger
  BY DEF Take, driverVars
<1>2. PICK a \in 0..MaxLines : \E o \in a..a + MaxLines :
          /\ Shape(Stream, ~trigger, n, m, a, o, o)
          /\ inp = <<phrase>> /\ turn = n /\ fact = trigger /\ Len(Stream) <= a
  BY <1>1 DEF Sent
<1>3. PICK o \in a..a + MaxLines : Shape(Stream, ~trigger, n, m, a, o, o)
  BY <1>2
<1>4. Head(inp) = phrase /\ inp' = <<>>
  BY <1>1, <1>2, InputFacts
<1>5. saying = <<>> /\ saying' \in Lines(m, "own") /\ turn' = m /\ fact' = fact
  BY <1>2, <1>4, TakesPhrase
<1>6. PICK w : w = saying'
  OBVIOUS
<1>7. IsSeq(w) /\ Len(w) \in 0..MaxLines /\ \A i \in 1..Len(w) : w[i] = Line(m, "own")
  BY <1>5, <1>6, LinesFacts
<1>8. /\ Len(Stream') = Len(Stream) + Len(w) /\ Len(Stream) \in Nat
      /\ \A i \in 1..Len(Stream) : Stream'[i] = Stream[i]
      /\ \A i \in 1..Len(w) : Stream'[Len(Stream) + i] = w[i]
  BY <1>1, <1>5, <1>6, <1>7, StreamEnds, StreamParts
<1>9. PICK s : s = Stream
  OBVIOUS
<1>10. PICK t : t = Stream'
  OBVIOUS
<1>11. /\ Len(t) = Len(s) + Len(w) /\ Len(s) \in Nat /\ Len(s) <= a
       /\ \A i \in 1..Len(s) : t[i] = s[i]
       /\ \A i \in 1..Len(w) : t[Len(s) + i] = Line(m, "own")
       /\ Shape(s, ~trigger, n, m, a, o, o)
  BY <1>2, <1>3, <1>7, <1>8, <1>9, <1>10
<1>12. /\ Len(s) \in 0..MaxLines /\ Len(t) \in Len(s)..Len(s) + MaxLines
       /\ Shape(t, ~trigger, n, m, Len(s), Len(t), Len(t))
  <2>1. PICK g : g = ~trigger
    OBVIOUS
  <2>2. Shape(s, g, n, m, a, o, o)
    BY <1>11, <2>1
  <2>3. PICK k \in 0..MaxLines : k = Len(w)
    BY <1>7
  <2>4. Len(t) = Len(s) + k /\ \A i \in 1..k : t[Len(s) + i] = Line(m, "own")
    BY <1>11, <2>3
  <2>5. /\ Len(s) \in 0..MaxLines /\ Len(t) \in Len(s)..Len(s) + MaxLines
        /\ Shape(t, g, n, m, Len(s), Len(t), Len(t))
    BY <1>11, <2>2, <2>4, OwnFollows
  <2> QED
    BY <2>1, <2>5
<1>13. Len(t) <= Len(t)
  BY <1>11, <1>7
<1>14. captured' = <<>>
  BY <1>1 DEF Sent
<1> QED
  BY <1>1, <1>2, <1>4, <1>5, <1>10, <1>12, <1>13, <1>14 DEF Sent

(* Afterwards phrase and toggle are taken one after the other.             *)
LEMMA ToggledTake ==
    ASSUME NEW phrase, NEW n, NEW m, Basics, Take, Toggled(phrase, n, m),
           \/ phrase = Declaration /\ m = n
           \/ phrase = Phrase /\ m = n + 1
    PROVE  /\ turn' = m
           /\ turn = n \/ turn' = turn
           /\ Toggled(phrase, n, m)'
<1>1. /\ repl = "up" /\ repl' = "up" /\ inp # <<>> /\ inp' = Tail(inp)
      /\ captured' = captured /\ out' = out /\ trigger' = trigger
  BY DEF Take, driverVars
<1>2. PICK a \in 0..MaxLines : \E o \in a..a + MaxLines : \E b \in o..o + MaxLines :
          /\ Shape(Stream, trigger, n, m, a, o, b) /\ Len(captured) <= b
          /\ \/ inp = <<phrase, Toggle(trigger)>> /\ turn = n /\ fact = ~trigger /\ Len(Stream) <= a
             \/ inp = <<Toggle(trigger)>> /\ turn = m /\ fact = ~trigger /\ Len(Stream) <= o
  BY <1>1 DEF Toggled
<1>3. PICK o \in a..a + MaxLines : \E b \in o..o + MaxLines :
          /\ Shape(Stream, trigger, n, m, a, o, b) /\ Len(captured) <= b
          /\ \/ inp = <<phrase, Toggle(trigger)>> /\ turn = n /\ fact = ~trigger /\ Len(Stream) <= a
             \/ inp = <<Toggle(trigger)>> /\ turn = m /\ fact = ~trigger /\ Len(Stream) <= o
  BY <1>2
<1>4. PICK b \in o..o + MaxLines :
          /\ Shape(Stream, trigger, n, m, a, o, b) /\ Len(captured) <= b
          /\ \/ inp = <<phrase, Toggle(trigger)>> /\ turn = n /\ fact = ~trigger /\ Len(Stream) <= a
             \/ inp = <<Toggle(trigger)>> /\ turn = m /\ fact = ~trigger /\ Len(Stream) <= o
  BY <1>3
<1>5. PICK s : s = Stream
  OBVIOUS
<1>6. PICK t : t = Stream'
  OBVIOUS
<1>7. PICK g : g = trigger
  OBVIOUS
<1>8. /\ Len(captured) \in Nat /\ Len(s) \in Nat /\ Len(captured) <= Len(s)
      /\ Shape(s, g, n, m, a, o, b)
  BY <1>4, <1>5, <1>7, StreamParts
<1>9. CASE inp = <<phrase, Toggle(trigger)>> /\ turn = n /\ fact = ~trigger /\ Len(Stream) <= a
  <2>1. Head(inp) = phrase /\ inp' = <<Toggle(trigger)>>
    BY <1>1, <1>9, InputFacts
  <2>2. saying = <<>> /\ saying' \in Lines(m, "own") /\ turn' = m /\ fact' = fact
    BY <1>9, <2>1, TakesPhrase
  <2>3. PICK w : w = saying'
    OBVIOUS
  <2>4. IsSeq(w) /\ Len(w) \in 0..MaxLines /\ \A i \in 1..Len(w) : w[i] = Line(m, "own")
    BY <2>2, <2>3, LinesFacts
  <2>5. /\ Len(Stream') = Len(Stream) + Len(w)
        /\ \A i \in 1..Len(Stream) : Stream'[i] = Stream[i]
        /\ \A i \in 1..Len(w) : Stream'[Len(Stream) + i] = w[i]
    BY <1>1, <2>2, <2>3, <2>4, StreamEnds
  <2>6. PICK k \in 0..MaxLines : k = Len(w)
    BY <2>4
  <2>7. /\ Len(t) = Len(s) + k /\ Len(s) <= a
        /\ \A i \in 1..Len(s) : t[i] = s[i]
        /\ \A i \in 1..k : t[Len(s) + i] = Line(m, "own")
    BY <1>5, <1>6, <1>9, <2>4, <2>5, <2>6
  <2>8. /\ Len(s) \in 0..MaxLines /\ Len(t) \in Len(s)..Len(s) + MaxLines
        /\ Len(t) \in Len(t)..Len(t) + MaxLines
        /\ Shape(t, g, n, m, Len(s), Len(t), Len(t))
    BY <1>8, <2>7, OwnFollows
  <2>9. Len(captured) <= Len(t) /\ Len(t) <= Len(t)
    BY <1>8, <2>7, ReplAssumption
  <2>10. \E a1 \in 0..MaxLines : \E o1 \in a1..a1 + MaxLines : \E b1 \in o1..o1 + MaxLines :
            Shape(t, g, n, m, a1, o1, b1) /\ Len(captured) <= b1 /\ Len(t) <= o1
    BY <2>8, <2>9
  <2>11. Toggled(phrase, n, m)'
    BY <1>1, <1>6, <1>7, <1>9, <2>1, <2>2, <2>10 DEF Toggled
  <2> QED
    BY <1>9, <2>1, <2>2, <2>11
<1>10. CASE inp = <<Toggle(trigger)>> /\ turn = m /\ fact = ~trigger /\ Len(Stream) <= o
  <2>1. Head(inp) = Toggle(trigger) /\ inp' = <<>>
    BY <1>1, <1>10, InputFacts
  <2>2. Head(inp) = Toggle(g) /\ fact # g
    <3>1. trigger \in BOOLEAN
      BY DEF Basics
    <3> QED
      BY <1>7, <1>10, <2>1, <3>1
  <2>3. /\ saying = <<>> /\ fact' = g /\ turn' = turn
        /\ \E x \in Lines(turn, "before"), y \in Lines(turn, "after") : saying' = x \o <<Echo(g)>> \o y
    BY <2>2, TakesToggle
  <2>4. PICK x \in Lines(m, "before"), y \in Lines(m, "after") : saying' = x \o <<Echo(g)>> \o y
    BY <1>10, <2>3
  <2>5. PICK w : w = saying'
    OBVIOUS
  <2>6. w = x \o <<Echo(g)>> \o y
    BY <2>4, <2>5
  <2>7. PICK j \in 0..MaxLines, k \in 0..MaxLines : EchoAmid(w, m, g, j, k)
    BY <2>6, EchoFacts
  <2>9. IsSeq(w)
    BY <2>7 DEF EchoAmid
  <2>8. /\ Len(Stream') = Len(Stream) + Len(w)
        /\ \A i \in 1..Len(Stream) : Stream'[i] = Stream[i]
        /\ \A i \in 1..Len(w) : Stream'[Len(Stream) + i] = w[i]
    BY <1>1, <2>3, <2>5, <2>9, StreamEnds
  <2>11. /\ Len(t) = Len(s) + Len(w) /\ Len(w) = j + 1 + k /\ Len(s) <= o
         /\ \A i \in 1..Len(s) : t[i] = s[i]
         /\ \A i \in 1..Len(w) : t[Len(s) + i] = w[i]
         /\ \A i \in 1..j : w[i] = Line(m, "before")
         /\ w[j + 1] = Echo(g)
         /\ \A i \in 1..k : w[j + 1 + i] = Line(m, "after")
    BY <1>5, <1>6, <1>10, <2>7, <2>8 DEF EchoAmid
  <2>12. j \in Nat /\ k \in Nat
    BY ReplAssumption
  <2>13. Len(t) = Len(s) + j + 1 + k
    BY <1>8, <2>11, <2>12
  <2>14. \A i \in 1..j : t[Len(s) + i] = Line(m, "before")
    <3>1. \A i \in 1..j : i \in 1..Len(w)
      BY <2>11, <2>12
    <3> QED
      BY <2>11, <3>1
  <2>15. t[Len(s) + j + 1] = Echo(g)
    <3>1. j + 1 \in 1..Len(w) /\ Len(s) + j + 1 = Len(s) + (j + 1)
      BY <1>8, <2>11, <2>12
    <3> QED
      BY <2>11, <3>1
  <2>16. ASSUME NEW i \in 1..k PROVE t[Len(s) + j + 1 + i] = Line(m, "after")
    <3>1. j + 1 + i \in 1..Len(w) /\ Len(s) + j + 1 + i = Len(s) + (j + 1 + i)
      BY <1>8, <2>11, <2>12
    <3> QED
      BY <2>11, <3>1
  <2>17. \E a1 \in 0..MaxLines : \E o1 \in a1..a1 + MaxLines : \E b1 \in o1..o1 + MaxLines :
            Shape(t, g, n, m, a1, o1, b1) /\ Len(s) <= b1
    BY <1>8, <2>11, <2>13, <2>14, <2>15, <2>16, EchoFollows
  <2>18. \E a1 \in 0..MaxLines : \E o1 \in a1..a1 + MaxLines : \E b1 \in o1..o1 + MaxLines :
            Shape(t, g, n, m, a1, o1, b1) /\ Len(captured) <= b1
    <3>1. PICK a1 \in 0..MaxLines : \E o1 \in a1..a1 + MaxLines : \E b1 \in o1..o1 + MaxLines :
              Shape(t, g, n, m, a1, o1, b1) /\ Len(s) <= b1
      BY <2>17
    <3>2. PICK o1 \in a1..a1 + MaxLines : \E b1 \in o1..o1 + MaxLines :
              Shape(t, g, n, m, a1, o1, b1) /\ Len(s) <= b1
      BY <3>1
    <3>3. PICK b1 \in o1..o1 + MaxLines : Shape(t, g, n, m, a1, o1, b1) /\ Len(s) <= b1
      BY <3>2
    <3>4. a1 \in Nat /\ o1 \in Nat /\ b1 \in Nat
      BY ReplAssumption
    <3>5. Len(captured) <= b1
      BY <1>8, <3>3, <3>4
    <3> QED
      BY <3>3, <3>5
  <2>19. Toggled(phrase, n, m)'
    BY <1>1, <1>6, <1>7, <1>10, <2>1, <2>3, <2>18 DEF Toggled
  <2> QED
    BY <1>10, <2>3, <2>19
<1> QED
  BY <1>4, <1>9, <1>10

-----------------------------------------------------------------------------
(* Each step keeps the invariant.                                          *)

(* The start.                                                              *)
LEMMA ReplInit == Init => ReplInv
<1> SUFFICES ASSUME Init PROVE ReplInv
  OBVIOUS
<1>1. IsSeq(<<>>) /\ Len(<<>>) = 0
  BY SmallSeqs
<1>2. Basics
  <2>1. <<>> \in Seq(Reports) /\ <<>> \in Seq(Seq(Reports))
    OBVIOUS
  <2>2. captured \in Seq(Reports) /\ answers \in Seq(Seq(Reports))
    BY <2>1 DEF Init
  <2>3. IsSeq(captured) /\ IsSeq(out) /\ IsSeq(saying) /\ IsSeq(inp)
    BY <1>1 DEF Init
  <2>4. Len(answers) <= NPhrases /\ Len(inp) <= InCap /\ Len(out) <= OutCap /\ turn \in 0..NPhrases
    BY <1>1, ReplAssumption DEF Init
  <2>5. /\ pc = "ready" /\ timedOut \in BOOLEAN /\ trigger \in BOOLEAN /\ fact \in BOOLEAN
        /\ repl = "booting" /\ captured = <<>>
    BY DEF Init
  <2> QED
    BY <2>2, <2>3, <2>4, <2>5 DEF Basics
<1>3. Len(Stream) = 0
  BY <1>1, <1>2, StreamParts DEF Init
<1>4. Booted
  BY <1>3 DEF Init, Booted, Silent, Greets
<1>5. Phases
  BY DEF Init, Phases
<1> QED
  BY <1>2, <1>4, <1>5 DEF ReplInv

(* The constructor waits for the reasoner.                                 *)
LEMMA CheckDeadlineStep == ReplInv /\ CheckDeadline => ReplInv'
<1> SUFFICES ASSUME ReplInv, CheckDeadline PROVE ReplInv'
  OBVIOUS
<1>1. Stream' = Stream
  BY DEF CheckDeadline, RaiseInInit, reasonerVars, Stream
<1>2. Basics'
  BY DEF ReplInv, Basics, CheckDeadline, RaiseInInit, reasonerVars
<1>3. Booted'
  BY <1>1 DEF ReplInv, Booted, CheckDeadline, RaiseInInit, reasonerVars, Silent, Greets
<1>4. Phases'
  BY DEF ReplInv, Booted, Phases, CheckDeadline, RaiseInInit, reasonerVars
<1> QED
  BY <1>2, <1>3, <1>4 DEF ReplInv

(* It reads the banner.                                                    *)
LEMMA ReadBannerStep == ReplInv /\ ReadBanner => ReplInv'
<1> SUFFICES ASSUME ReplInv, ReadBanner PROVE ReplInv'
  OBVIOUS
<1>1. /\ pc = "banner" /\ out # <<>> /\ out' = Tail(out) /\ captured' = captured /\ saying' = saying
      /\ pc' = IF Head(out) = ReadyLine THEN "declare" ELSE "ready"
      /\ timedOut' = timedOut /\ trigger' = trigger /\ answers' = answers /\ inp' = inp
      /\ repl' = repl /\ fact' = fact /\ turn' = turn
  BY DEF ReadBanner, CanRead, reasonerVars
<1>2. Basics /\ captured = <<>> /\ Len(captured) = 0
  BY <1>1, SmallSeqs DEF ReplInv, Basics
<1>3. /\ Silent /\ inp = <<>> /\ turn = 0 /\ fact = FALSE /\ Greets(Stream)
      /\ repl # "booting"
  BY <1>1 DEF ReplInv, Booted
<1>4. /\ IsSeq(captured') /\ IsSeq(out') /\ IsSeq(saying') /\ Len(out') <= Len(out)
      /\ Head(out) = Stream[1] /\ 1 \in 1..Len(Stream)
      /\ Len(Stream') \in Nat /\ Len(Stream') = Len(Stream) - 1
      /\ \A i \in 1..Len(Stream') : 1 + i \in 1..Len(Stream) /\ Stream'[i] = Stream[1 + i]
  BY <1>1, <1>2, StreamDrops
<1>5. Basics'
  <2>1. Len(out') <= OutCap
    <3>1. Len(out) \in Nat /\ Len(out) <= OutCap
      BY <1>2, StreamParts DEF Basics
    <3>2. Len(out') \in Nat
      BY <1>4, SeqPlaces
    <3> QED
      BY <1>4, <3>1, <3>2, ReplAssumption
  <2> QED
    BY <1>1, <1>2, <1>4, <2>1 DEF Basics
<1>6. Silent'
  BY <1>1, <1>3 DEF Silent
<1>7. CASE Head(out) = ReadyLine
  <2>1. Len(Stream) = 1
    <3>1. Stream[1] # Banner
      BY <1>4, <1>7, LinesDiffer DEF Banner, ReadyLine
    <3> QED
      BY <1>3, <1>4, <3>1 DEF Greets
  <2>2. Len(Stream') = 0
    BY <1>4, <2>1
  <2>3. Remains(Stream', 0)
    BY <2>2, ReplAssumption DEF Remains
  <2>4. Quiet(0)'
    BY <1>1, <1>2, <1>3, <2>3 DEF Quiet, Silent
  <2>5. Booted' /\ Phases'
    BY <1>1, <1>3, <1>6, <1>7, <2>4 DEF Booted, Phases
  <2> QED
    BY <1>5, <2>5 DEF ReplInv
<1>8. CASE Head(out) # ReadyLine
  <2>1. Greets(Stream')
    <3> SUFFICES ASSUME NEW i \in 1..Len(Stream')
                 PROVE  Stream'[i] = Banner \/ (Stream'[i] = ReadyLine /\ i = Len(Stream'))
      BY DEF Greets
    <3>1. Stream[1 + i] = Banner \/ (Stream[1 + i] = ReadyLine /\ 1 + i = Len(Stream))
      BY <1>3, <1>4 DEF Greets
    <3>2. 1 + i = Len(Stream) => i = Len(Stream')
      BY <1>4
    <3> QED
      BY <1>4, <3>1, <3>2
  <2>2. Booted' /\ Phases'
    BY <1>1, <1>3, <1>6, <1>8, <2>1 DEF Booted, Phases
  <2> QED
    BY <1>5, <2>2 DEF ReplInv
<1> QED
  BY <1>7, <1>8

(* Its timer runs out.                                                     *)
LEMMA TimerStep == ReplInv /\ Timer => ReplInv'
<1> SUFFICES ASSUME ReplInv, Timer PROVE ReplInv'
  OBVIOUS
<1>1. Stream' = Stream
  BY DEF Timer, reasonerVars, Stream
<1>2. Basics'
  BY DEF ReplInv, Basics, Timer, reasonerVars
<1>3. Booted'
  BY <1>1 DEF ReplInv, Booted, Timer, reasonerVars, Silent, Greets
<1>4. Phases'
  BY DEF Phases, Timer
<1> QED
  BY <1>2, <1>3, <1>4 DEF ReplInv

(* A write puts one more line into the pipe to the reasoner.               *)
LEMMA WriteFacts ==
    ASSUME NEW from, NEW x, NEW to, Basics, Booted, Write(from, x, to), captured' = captured,
           from \notin {"ready", "banner", "failed"}, to \in {"plant", "setup", "toggle", "drain"},
           trigger' \in BOOLEAN, captured = <<>>
    PROVE  /\ pc = from /\ pc' = to /\ repl = "up" /\ repl' = "up" /\ inp' = Append(inp, x)
           /\ timedOut' = timedOut /\ answers' = answers /\ fact' = fact /\ turn' = turn
           /\ captured' = <<>>
           /\ Stream' = Stream
           /\ Basics' /\ Booted'
<1>1. /\ pc = from /\ repl # "dead" /\ Len(inp) < InCap /\ inp' = Append(inp, x) /\ pc' = to
      /\ timedOut' = timedOut /\ answers' = answers /\ out' = out
      /\ repl' = repl /\ fact' = fact /\ turn' = turn /\ saying' = saying
  BY DEF Write, reasonerVars
<1>2. repl = "up"
  BY <1>1 DEF Basics, Booted
<1>3. Stream' = Stream
  BY <1>1 DEF Stream
<1>4. IsSeq(inp') /\ Len(inp') <= InCap
  <2>1. PICK s : s = inp
    OBVIOUS
  <2>2. IsSeq(s)
    BY <2>1 DEF Basics
  <2>3. IsSeq(Append(s, x)) /\ Len(Append(s, x)) = Len(s) + 1 /\ Len(s) \in Nat
    BY <2>2, AppendFacts, SeqPlaces
  <2> QED
    BY <1>1, <2>1, <2>3, ReplAssumption
<1>5. Basics'
  BY <1>1, <1>4 DEF Basics
<1>6. Booted'
  BY <1>1, <1>2 DEF Booted
<1> QED
  BY <1>1, <1>2, <1>3, <1>5, <1>6

(* The phrase of an exchange is written when the last one is over.         *)
LEMMA WritesPhrase ==
    ASSUME NEW phrase, NEW n, NEW m, Basics, Quiet(n), repl = "up", repl' = "up",
           inp' = Append(inp, phrase), trigger' = trigger, fact' = fact, turn' = turn,
           captured' = <<>>, Stream' = Stream
    PROVE  Sent(phrase, n, m)'
<1>1. inp' = <<phrase>>
  BY InputFacts DEF Quiet
<1>2. PICK s : s = Stream
  OBVIOUS
<1>3. PICK g : g = ~trigger
  OBVIOUS
<1>4. IsSeq(s) /\ Remains(s, n) /\ Len(s) \in Nat
  BY <1>2, StreamParts DEF Quiet
<1>5. /\ Len(s) \in 0..MaxLines /\ Len(s) \in Len(s)..Len(s) + MaxLines
      /\ Shape(s, g, n, m, Len(s), Len(s), Len(s))
  BY <1>4, RemainsShape
<1>6. turn = n /\ fact = trigger
  BY DEF Quiet
<1>7. \E a \in 0..MaxLines : \E o \in a..a + MaxLines :
         Shape(s, g, n, m, a, o, o) /\ Len(s) <= o /\ Len(s) <= a
  <2>1. Len(s) <= Len(s)
    BY <1>4
  <2> QED
    BY <1>5, <2>1
<1> QED
  BY <1>1, <1>2, <1>3, <1>6, <1>7 DEF Sent

(* Its toggle follows.                                                     *)
LEMMA WritesToggle ==
    ASSUME NEW phrase, NEW n, NEW m, Basics, Sent(phrase, n, m), repl = "up", repl' = "up",
           inp' = Append(inp, Toggle(~trigger)), trigger' = ~trigger, fact' = fact, turn' = turn,
           captured' = <<>>, Stream' = Stream
    PROVE  Toggled(phrase, n, m)'
<1>1. PICK a \in 0..MaxLines : \E o \in a..a + MaxLines :
          /\ Shape(Stream, ~trigger, n, m, a, o, o) /\ Len(Stream) <= o
          /\ \/ inp = <<phrase>> /\ turn = n /\ fact = trigger /\ Len(Stream) <= a
             \/ inp = <<>> /\ turn = m /\ fact = trigger
  BY DEF Sent
<1>2. PICK o \in a..a + MaxLines :
          /\ Shape(Stream, ~trigger, n, m, a, o, o) /\ Len(Stream) <= o
          /\ \/ inp = <<phrase>> /\ turn = n /\ fact = trigger /\ Len(Stream) <= a
             \/ inp = <<>> /\ turn = m /\ fact = trigger
  BY <1>1
<1>3. trigger \in BOOLEAN
  BY DEF Basics
<1>4. fact' = ~trigger'
  BY <1>2, <1>3
<1>5. o \in o..o + MaxLines /\ Len(captured') <= o
  <2>1. o \in Nat /\ o \in o..o + MaxLines
    BY ReplAssumption
  <2> QED
    BY <2>1, SmallSeqs
<1>6. \/ inp' = <<phrase, Toggle(trigger')>> /\ turn' = n /\ Len(Stream) <= a
      \/ inp' = <<Toggle(trigger')>> /\ turn' = m
  BY <1>2, InputFacts
<1>7. Shape(Stream', trigger', n, m, a, o, o) /\ Len(Stream') <= o
  BY <1>2
<1> QED
  BY <1>2, <1>4, <1>5, <1>6, <1>7 DEF Toggled

(* The trigger is declared, and toggled for the first time.                *)
LEMMA DeclareTriggerStep == ReplInv /\ DeclareTrigger => ReplInv'
<1> SUFFICES ASSUME ReplInv, DeclareTrigger PROVE ReplInv'
  OBVIOUS
<1>1. /\ Write("declare", Declaration, "plant") /\ trigger' = trigger /\ captured' = captured
      /\ pc = "declare" /\ Basics /\ Booted /\ Silent /\ Quiet(0) /\ trigger \in BOOLEAN
  BY DEF DeclareTrigger, Write, ReplInv, Phases, Basics
<1>2. captured = <<>>
  BY <1>1 DEF Quiet
<1>3. /\ pc' = "plant" /\ repl = "up" /\ repl' = "up" /\ inp' = Append(inp, Declaration)
      /\ answers' = answers /\ fact' = fact /\ turn' = turn /\ captured' = <<>> /\ Stream' = Stream
      /\ Basics' /\ Booted'
  BY <1>1, <1>2, WriteFacts
<1>4. Sent(Declaration, 0, 0)'
  BY <1>1, <1>3, WritesPhrase
<1>5. Silent'
  BY <1>1, <1>3 DEF Silent
<1> QED
  BY <1>3, <1>4, <1>5 DEF ReplInv, Phases

(* That first toggle.                                                      *)
LEMMA PlantTriggerStep == ReplInv /\ PlantTrigger => ReplInv'
<1> SUFFICES ASSUME ReplInv, PlantTrigger PROVE ReplInv'
  OBVIOUS
<1>1. /\ Write("plant", Toggle(TRUE), "setup") /\ trigger' = TRUE /\ captured' = captured
      /\ pc = "plant" /\ Basics /\ Booted /\ Silent /\ Sent(Declaration, 0, 0)
  BY DEF PlantTrigger, Write, ReplInv, Phases
<1>2. captured = <<>> /\ trigger = FALSE /\ answers = <<>> /\ trigger' \in BOOLEAN
  BY <1>1 DEF Sent, Silent
<1>3. /\ pc' = "setup" /\ repl = "up" /\ repl' = "up" /\ inp' = Append(inp, Toggle(TRUE))
      /\ answers' = answers /\ fact' = fact /\ turn' = turn /\ captured' = <<>> /\ Stream' = Stream
      /\ Basics' /\ Booted'
  BY <1>1, <1>2, WriteFacts
<1>4. trigger' = ~trigger /\ inp' = Append(inp, Toggle(~trigger))
  <2>1. ~trigger = TRUE
    BY <1>2
  <2> QED
    BY <1>1, <1>3, <2>1
<1>5. Toggled(Declaration, 0, 0)'
  BY <1>1, <1>3, <1>4, WritesToggle
<1> QED
  BY <1>2, <1>3, <1>5 DEF ReplInv, Phases

(* The same of a phrase submitted.                                         *)
LEMMA SubmitStep == ReplInv /\ Submit => ReplInv'
<1> SUFFICES ASSUME ReplInv, Submit PROVE ReplInv'
  OBVIOUS
<1>1. /\ Write("idle", Phrase, "toggle") /\ trigger' = trigger /\ captured' = captured
      /\ pc = "idle" /\ Basics /\ Booted /\ Quiet(Len(answers)) /\ trigger \in BOOLEAN
      /\ Len(answers) < NPhrases
  BY DEF Submit, Write, ReplInv, Phases, Basics
<1>2. captured = <<>>
  BY <1>1 DEF Quiet
<1>3. /\ pc' = "toggle" /\ repl = "up" /\ repl' = "up" /\ inp' = Append(inp, Phrase)
      /\ answers' = answers /\ fact' = fact /\ turn' = turn /\ captured' = <<>> /\ Stream' = Stream
      /\ Basics' /\ Booted'
  BY <1>1, <1>2, WriteFacts
<1>4. ASSUME NEW n, n = Len(answers) PROVE Sent(Phrase, n, n + 1)'
  <2>1. Quiet(n)
    BY <1>1, <1>4
  <2> QED
    BY <1>1, <1>3, <2>1, WritesPhrase
<1>5. Sent(Phrase, Len(answers), Len(answers) + 1)'
  BY <1>3, <1>4
<1> QED
  BY <1>1, <1>3, <1>5 DEF ReplInv, Phases

(* And of its toggle.                                                      *)
LEMMA ToggleTriggerStep == ReplInv /\ ToggleTrigger => ReplInv'
<1> SUFFICES ASSUME ReplInv, ToggleTrigger PROVE ReplInv'
  OBVIOUS
<1>1. /\ Write("toggle", Toggle(~trigger), "drain") /\ trigger' = ~trigger /\ captured' = captured
      /\ pc = "toggle" /\ Basics /\ Booted /\ Sent(Phrase, Len(answers), Len(answers) + 1)
      /\ Len(answers) < NPhrases /\ trigger' \in BOOLEAN
  BY DEF ToggleTrigger, Write, ReplInv, Phases
<1>2. captured = <<>>
  BY <1>1 DEF Sent
<1>3. /\ pc' = "drain" /\ repl = "up" /\ repl' = "up" /\ inp' = Append(inp, Toggle(~trigger))
      /\ answers' = answers /\ fact' = fact /\ turn' = turn /\ captured' = <<>> /\ Stream' = Stream
      /\ Basics' /\ Booted'
  BY <1>1, <1>2, WriteFacts
<1>4. ASSUME NEW n, n = Len(answers) PROVE Toggled(Phrase, n, n + 1)'
  <2>1. Sent(Phrase, n, n + 1)
    BY <1>1, <1>4
  <2> QED
    BY <1>1, <1>3, <2>1, WritesToggle
<1>5. Toggled(Phrase, Len(answers), Len(answers) + 1)'
  BY <1>3, <1>4
<1> QED
  BY <1>1, <1>3, <1>5 DEF ReplInv, Phases

(* Where the driver reads next, and what.                                  *)
LEMMA NextLine ==
    ASSUME Basics, out # <<>>
    PROVE  /\ Len(captured) \in Nat /\ Len(captured) + 1 \in 1..Len(Stream)
           /\ Head(out) = Stream[Len(captured) + 1]
<1>1. IsSeq(out)
  BY DEF Basics
<1>2. Len(out) \in Nat \ {0} /\ Head(out) = out[1]
  BY <1>1, TailFacts
<1>3. /\ Len(captured) \in Nat /\ Len(saying) \in Nat
      /\ Len(Stream) = Len(captured) + Len(out) + Len(saying)
      /\ \A i \in 1..Len(out) : Stream[Len(captured) + i] = out[i]
  BY StreamParts
<1>4. 1 \in 1..Len(out) /\ Len(captured) + 1 \in 1..Len(Stream)
  BY <1>2, <1>3
<1> QED
  BY <1>2, <1>3, <1>4

(* A line that is not the echo is kept: it goes before the echo.           *)
LEMMA DrainKeeps ==
    ASSUME NEW phrase, NEW n \in 0..NPhrases, NEW m \in 0..NPhrases, Basics, Toggled(phrase, n, m),
           out # <<>>, Head(out) # Echo(trigger),
           captured' = Append(captured, Head(out)), out' = Tail(out), saying' = saying,
           trigger' = trigger, inp' = inp, repl' = repl, fact' = fact, turn' = turn
    PROVE  Toggled(phrase, n, m)' /\ captured' \in Seq(Reports) /\ Stream' = Stream
<1>1. PICK a \in 0..MaxLines : \E o \in a..a + MaxLines : \E b \in o..o + MaxLines :
          /\ Shape(Stream, trigger, n, m, a, o, b) /\ Len(captured) <= b
          /\ repl = "up" =>
                \/ inp = <<phrase, Toggle(trigger)>> /\ turn = n /\ fact = ~trigger /\ Len(Stream) <= a
                \/ inp = <<Toggle(trigger)>> /\ turn = m /\ fact = ~trigger /\ Len(Stream) <= o
                \/ inp = <<>> /\ turn = m /\ fact = trigger
  BY DEF Toggled
<1>2. PICK o \in a..a + MaxLines : \E b \in o..o + MaxLines :
          /\ Shape(Stream, trigger, n, m, a, o, b) /\ Len(captured) <= b
          /\ repl = "up" =>
                \/ inp = <<phrase, Toggle(trigger)>> /\ turn = n /\ fact = ~trigger /\ Len(Stream) <= a
                \/ inp = <<Toggle(trigger)>> /\ turn = m /\ fact = ~trigger /\ Len(Stream) <= o
                \/ inp = <<>> /\ turn = m /\ fact = trigger
  BY <1>1
<1>3. PICK b \in o..o + MaxLines :
          /\ Shape(Stream, trigger, n, m, a, o, b) /\ Len(captured) <= b
          /\ repl = "up" =>
                \/ inp = <<phrase, Toggle(trigger)>> /\ turn = n /\ fact = ~trigger /\ Len(Stream) <= a
                \/ inp = <<Toggle(trigger)>> /\ turn = m /\ fact = ~trigger /\ Len(Stream) <= o
                \/ inp = <<>> /\ turn = m /\ fact = trigger
  BY <1>2
<1>4. a \in Nat /\ o \in Nat /\ b \in Nat
  BY ReplAssumption
<1>5. PICK c : c = Len(captured)
  OBVIOUS
<1>6. PICK s : s = Stream
  OBVIOUS
<1>7. PICK g : g = trigger
  OBVIOUS
<1>8. /\ c \in Nat /\ c <= b /\ c + 1 \in 1..Len(s) /\ Head(out) = s[c + 1]
      /\ Shape(s, g, n, m, a, o, b) /\ s[c + 1] # Echo(g)
  BY <1>3, <1>5, <1>6, <1>7, NextLine
<1>9. /\ s[c + 1] = Echo(g) <=> c = b
      /\ c < b => \/ s[c + 1] = Line(n, "after")
                  \/ s[c + 1] = Line(m, "own")
                  \/ s[c + 1] = Line(m, "before")
  <2>1. EchoNext(s, g, n, m, b, c)
    BY <1>8, EchoIsAtItsPlace
  <2> QED
    BY <2>1 DEF EchoNext
<1>10. c < b
  BY <1>4, <1>8, <1>9
<1>11. Head(out) \in Reports
  BY <1>8, <1>9, <1>10 DEF Reports
<1>12. captured' \in Seq(Reports) /\ Len(captured') = Len(captured) + 1
  <2>1. captured \in Seq(Reports)
    BY DEF Basics
  <2> QED
    BY <1>11, <2>1
<1>13. Len(captured') <= b
  BY <1>4, <1>5, <1>8, <1>10, <1>12
<1>14. Stream' = Stream
  BY StreamKeeps
<1>15. Toggled(phrase, n, m)'
  BY <1>3, <1>13, <1>14 DEF Toggled
<1> QED
  BY <1>12, <1>14, <1>15

(* The echo ends the exchange.                                             *)
LEMMA DrainEnds ==
    ASSUME NEW phrase, NEW n, NEW m, Basics, Toggled(phrase, n, m),
           out # <<>>, Head(out) = Echo(trigger),
           captured' = <<>>, out' = Tail(out), saying' = saying,
           trigger' = trigger, inp' = inp, repl' = repl, fact' = fact, turn' = turn
    PROVE  /\ Quiet(m)'
           /\ \E a \in 0..MaxLines : \E o \in a..a + MaxLines : \E b \in o..o + MaxLines :
                 Shape(Stream, trigger, n, m, a, o, b) /\ Len(captured) = b
<1>1. PICK a \in 0..MaxLines : \E o \in a..a + MaxLines : \E b \in o..o + MaxLines :
          /\ Shape(Stream, trigger, n, m, a, o, b) /\ Len(captured) <= b
          /\ repl = "up" =>
                \/ Len(Stream) <= a
                \/ Len(Stream) <= o
                \/ inp = <<>> /\ turn = m /\ fact = trigger
  BY DEF Toggled
<1>2. PICK o \in a..a + MaxLines : \E b \in o..o + MaxLines :
          /\ Shape(Stream, trigger, n, m, a, o, b) /\ Len(captured) <= b
          /\ repl = "up" =>
                \/ Len(Stream) <= a
                \/ Len(Stream) <= o
                \/ inp = <<>> /\ turn = m /\ fact = trigger
  BY <1>1
<1>3. PICK b \in o..o + MaxLines :
          /\ Shape(Stream, trigger, n, m, a, o, b) /\ Len(captured) <= b
          /\ repl = "up" =>
                \/ Len(Stream) <= a
                \/ Len(Stream) <= o
                \/ inp = <<>> /\ turn = m /\ fact = trigger
  BY <1>2
<1>4. a \in Nat /\ o \in Nat /\ b \in Nat /\ a <= o /\ o <= b
  BY ReplAssumption
<1>5. PICK c : c = Len(captured)
  OBVIOUS
<1>6. PICK s : s = Stream
  OBVIOUS
<1>7. PICK g : g = trigger
  OBVIOUS
<1>8. /\ c \in Nat /\ c <= b /\ c + 1 \in 1..Len(s)
      /\ Shape(s, g, n, m, a, o, b) /\ s[c + 1] = Echo(g)
  BY <1>3, <1>5, <1>6, <1>7, NextLine
<1>9. c = b
  <2>1. EchoNext(s, g, n, m, b, c)
    BY <1>8, EchoIsAtItsPlace
  <2> QED
    BY <1>8, <2>1 DEF EchoNext
<1>10. PICK t : t = Stream'
  OBVIOUS
<1>11. /\ Len(t) \in Nat /\ Len(t) = Len(s) - (b + 1)
       /\ \A i \in 1..Len(t) : t[i] = s[b + 1 + i]
  <2>1. /\ Len(Stream') \in Nat /\ Len(Stream') = Len(Stream) - (Len(captured) + 1)
        /\ \A i \in 1..Len(Stream') : Stream'[i] = Stream[Len(captured) + 1 + i]
    BY StreamDrops
  <2> QED
    BY <1>5, <1>6, <1>9, <1>10, <2>1
<1>12. Len(s) \in Nat
  BY <1>6, StreamParts
<1>13. Remains(t, m)
  BY <1>8, <1>11, <1>12, AfterTheEcho
<1>14. repl = "up" => inp = <<>> /\ turn = m /\ fact = trigger
  <2>1. ~(Len(Stream) <= a) /\ ~(Len(Stream) <= o)
    BY <1>4, <1>6, <1>8, <1>9, <1>12
  <2> QED
    BY <1>3, <2>1
<1>15. Quiet(m)'
  BY <1>10, <1>13, <1>14 DEF Quiet
<1> QED
  BY <1>3, <1>5, <1>9, <1>15

(* One line is read after a toggle.                                        *)
LEMMA DrainStep == ReplInv /\ Drain => ReplInv'
<1> SUFFICES ASSUME ReplInv, Drain PROVE ReplInv'
  OBVIOUS
<1>1. /\ pc \in {"setup", "drain"} /\ out # <<>> /\ out' = Tail(out) /\ saying' = saying
      /\ timedOut' = timedOut /\ trigger' = trigger /\ inp' = inp
      /\ repl' = repl /\ fact' = fact /\ turn' = turn
      /\ Basics /\ Booted
  BY DEF Drain, CanRead, reasonerVars, ReplInv
<1>2. Len(out') <= OutCap
  <2>1. PICK s : s = out
    OBVIOUS
  <2>2. IsSeq(s) /\ s # <<>> /\ Len(s) <= OutCap
    BY <1>1, <2>1 DEF Basics
  <2>3. Len(s) \in Nat \ {0} /\ Len(Tail(s)) = Len(s) - 1
    BY <2>2, TailFacts
  <2> QED
    BY <1>1, <2>1, <2>2, <2>3, ReplAssumption
<1>3. repl # "booting"
  BY <1>1 DEF Booted
<1>4. CASE Head(out) # Echo(trigger)
  <2>1. captured' = Append(captured, Head(out)) /\ pc' = pc /\ answers' = answers
    BY <1>4 DEF Drain
  <2>2. IsSeq(captured') /\ IsSeq(out') /\ IsSeq(saying')
    BY <1>1, <2>1, StreamKeeps
  <2>3. CASE pc = "setup"
    <3>1. answers = <<>> /\ Toggled(Declaration, 0, 0) /\ 0 \in 0..NPhrases
      BY <2>3, ReplAssumption DEF ReplInv, Phases
    <3>2. Toggled(Declaration, 0, 0)' /\ captured' \in Seq(Reports)
      BY <1>1, <1>4, <2>1, <3>1, DrainKeeps
    <3>3. Basics'
      BY <1>1, <1>2, <2>1, <2>2, <3>2 DEF Basics
    <3>4. Booted' /\ Phases'
      BY <1>1, <1>3, <2>1, <2>3, <3>1, <3>2 DEF Booted, Phases
    <3> QED
      BY <3>3, <3>4 DEF ReplInv
  <2>4. CASE pc = "drain"
    <3>1. PICK n : n = Len(answers)
      OBVIOUS
    <3>2. /\ Toggled(Phrase, n, n + 1) /\ n < NPhrases
          /\ n \in 0..NPhrases /\ n + 1 \in 0..NPhrases
      <4>1. answers \in Seq(Seq(Reports))
        BY <1>1 DEF Basics
      <4>2. Len(answers) \in Nat
        BY <4>1
      <4>3. Toggled(Phrase, n, n + 1) /\ n < NPhrases
        BY <2>4, <3>1 DEF ReplInv, Phases
      <4> QED
        BY <3>1, <4>2, <4>3, ReplAssumption
    <3>3. Toggled(Phrase, n, n + 1)' /\ captured' \in Seq(Reports)
      BY <1>1, <1>4, <2>1, <3>2, DrainKeeps
    <3>4. Basics'
      BY <1>1, <1>2, <2>1, <2>2, <3>3 DEF Basics
    <3>5. Booted' /\ Phases'
      BY <1>1, <1>3, <2>1, <2>4, <3>1, <3>2, <3>3 DEF Booted, Phases
    <3> QED
      BY <3>4, <3>5 DEF ReplInv
  <2> QED
    BY <1>1, <2>3, <2>4
<1>5. CASE Head(out) = Echo(trigger)
  <2>1. /\ captured' = <<>> /\ pc' = "idle"
        /\ answers' = IF pc = "drain" THEN Append(answers, captured) ELSE answers
    BY <1>5 DEF Drain
  <2>2. IsSeq(captured') /\ IsSeq(out') /\ IsSeq(saying')
    BY <1>1, <2>1, StreamDrops
  <2>3. captured' \in Seq(Reports)
    <3>1. <<>> \in Seq(Reports)
      OBVIOUS
    <3> QED
      BY <2>1, <3>1
  <2>4. Booted'
    BY <1>1, <1>3, <2>1 DEF Booted
  <2>5. CASE pc = "setup"
    <3>1. answers = <<>> /\ Toggled(Declaration, 0, 0) /\ answers' = answers
      BY <2>1, <2>5 DEF ReplInv, Phases
    <3>2. Quiet(0)'
      BY <1>1, <1>5, <2>1, <3>1, DrainEnds
    <3>3. Len(answers') = 0
      BY <3>1, SmallSeqs
    <3>4. Phases'
      BY <2>1, <3>2, <3>3 DEF Phases
    <3>5. Basics'
      BY <1>1, <1>2, <2>1, <2>2, <2>3, <3>1 DEF Basics
    <3> QED
      BY <2>4, <3>4, <3>5 DEF ReplInv
  <2>6. CASE pc = "drain"
    <3>1. PICK n : n = Len(answers)
      OBVIOUS
    <3>2. Toggled(Phrase, n, n + 1) /\ n < NPhrases
      BY <2>6, <3>1 DEF ReplInv, Phases
    <3>3. Quiet(n + 1)'
      BY <1>1, <1>5, <2>1, <3>2, DrainEnds
    <3>4. answers' \in Seq(Seq(Reports)) /\ Len(answers') = n + 1 /\ n \in Nat
      <4>1. answers \in Seq(Seq(Reports)) /\ captured \in Seq(Reports)
        BY <1>1 DEF Basics
      <4>2. answers' = Append(answers, captured)
        BY <2>1, <2>6
      <4> HIDE DEF Reports
      <4> QED
        BY <3>1, <4>1, <4>2
    <3>5. Len(answers') <= NPhrases
      BY <3>2, <3>4, ReplAssumption
    <3>6. Phases'
      BY <2>1, <3>3, <3>4 DEF Phases
    <3>7. Basics'
      BY <1>1, <1>2, <2>1, <2>2, <2>3, <3>4, <3>5 DEF Basics
    <3> QED
      BY <2>4, <3>6, <3>7 DEF ReplInv
  <2> QED
    BY <1>1, <2>5, <2>6
<1> QED
  BY <1>4, <1>5

(* The driver sees that the reasoner has ended.                            *)
LEMMA EndSeenInInitStep == ReplInv /\ EndSeenInInit => ReplInv'
<1> SUFFICES ASSUME ReplInv, EndSeenInInit PROVE ReplInv'
  OBVIOUS
<1>1. /\ repl = "dead" /\ pc' = "failed" /\ timedOut' = timedOut /\ trigger' = trigger
      /\ captured' = captured /\ answers' = answers /\ inp' = inp /\ out' = out
      /\ repl' = repl /\ fact' = fact /\ saying' = saying /\ turn' = turn
  BY DEF EndSeenInInit, Eof, RaiseInInit, reasonerVars
<1>2. Basics' /\ Booted' /\ Phases'
  BY <1>1 DEF ReplInv, Basics, Booted, Phases
<1> QED
  BY <1>2 DEF ReplInv

(* The same in submit.                                                     *)
LEMMA EndSeenInSubmitStep == ReplInv /\ EndSeenInSubmit => ReplInv'
<1> SUFFICES ASSUME ReplInv, EndSeenInSubmit PROVE ReplInv'
  OBVIOUS
<1>1. /\ repl = "dead" /\ pc' = "raised" /\ timedOut' = timedOut /\ trigger' = trigger
      /\ captured' = <<>> /\ answers' = answers /\ inp' = inp /\ out' = out
      /\ repl' = repl /\ fact' = fact /\ saying' = saying /\ turn' = turn
  BY DEF EndSeenInSubmit, Eof, RaiseInSubmit, reasonerVars
<1>2. IsSeq(captured') /\ captured' \in Seq(Reports)
  <2>1. <<>> \in Seq(Reports)
    OBVIOUS
  <2> QED
    BY <1>1, <2>1, SmallSeqs
<1>3. Basics' /\ Booted' /\ Phases'
  BY <1>1, <1>2 DEF ReplInv, Basics, Booted, Phases
<1> QED
  BY <1>3 DEF ReplInv

(* It closes.                                                              *)
LEMMA CloseStep == ReplInv /\ Close => ReplInv'
<1> SUFFICES ASSUME ReplInv, Close PROVE ReplInv'
  OBVIOUS
<1>1. /\ pc \in {"raised", "idle"} /\ pc' = "closed" /\ repl' = "dead" /\ saying' = <<>>
      /\ timedOut' = timedOut /\ trigger' = trigger
      /\ captured' = captured /\ answers' = answers /\ inp' = inp /\ out' = out
      /\ fact' = fact /\ turn' = turn
  BY DEF Close
<1>2. Basics'
  BY <1>1, SmallSeqs DEF ReplInv, Basics
<1>3. Booted' /\ Phases'
  BY <1>1 DEF ReplInv, Booted, Phases
<1> QED
  BY <1>2, <1>3 DEF ReplInv

(* The reasoner boots.                                                     *)
LEMMA BootStep == ReplInv /\ Boot => ReplInv'
<1> SUFFICES ASSUME ReplInv, Boot PROVE ReplInv'
  OBVIOUS
<1>1. /\ repl = "booting" /\ repl' = "up"
      /\ pc' = pc /\ timedOut' = timedOut /\ trigger' = trigger
      /\ captured' = captured /\ answers' = answers /\ inp' = inp /\ out' = out
      /\ fact' = fact /\ turn' = turn
      /\ pc \in {"ready", "banner", "failed"} /\ out = <<>> /\ saying = <<>>
      /\ Basics
  BY DEF Boot, driverVars, ReplInv, Booted
<1>2. PICK k \in 0..MaxLines : saying' = Append([i \in 1..k |-> Banner], ReadyLine)
  BY DEF Boot
<1>3. PICK w : w = saying'
  OBVIOUS
<1>4. IsSeq(w) /\ Len(w) = k + 1 /\ (\A i \in 1..k : w[i] = Banner) /\ w[k + 1] = ReadyLine /\ k \in Nat
  <2>1. k \in Nat
    BY ReplAssumption
  <2>2. PICK r : r = [i \in 1..k |-> Banner]
    OBVIOUS
  <2>3. DOMAIN r = 1..k /\ r = [i \in 1..k |-> r[i]] /\ \A i \in 1..k : r[i] = Banner
    BY <2>2
  <2>4. IsSeq(r) /\ Len(r) = k
    BY <2>1, <2>3, FunctionIsSeq
  <2>5. w = Append(r, ReadyLine)
    BY <1>2, <1>3, <2>2
  <2>6. PICK x : x = ReadyLine
    OBVIOUS
  <2>7. /\ IsSeq(Append(r, x)) /\ Len(Append(r, x)) = Len(r) + 1
        /\ \A i \in 1..Len(r) : Append(r, x)[i] = r[i]
        /\ Append(r, x)[Len(r) + 1] = x
    BY <2>4, AppendFacts
  <2> QED
    BY <2>1, <2>3, <2>4, <2>5, <2>6, <2>7
<1>5. CASE pc \in {"ready", "banner"}
  <2>1. captured = <<>> /\ Len(captured) = 0 /\ Len(out) = 0
    BY <1>1, <1>5, SmallSeqs DEF Basics
  <2>2. /\ Len(Stream') = Len(Stream) + Len(w)
        /\ Len(Stream') = Len(captured) + Len(out) + Len(w)
        /\ \A i \in 1..Len(w) : Stream'[Len(Stream) + i] = w[i]
    BY <1>1, <1>3, <1>4, StreamEnds
  <2>3. Len(Stream') = k + 1 /\ \A i \in 1..k + 1 : Stream'[i] = w[i]
    <3>1. Len(Stream) = 0
      BY <1>1, <2>1, SmallSeqs, StreamParts
    <3>2. Len(Stream') = k + 1
      BY <1>4, <2>2, <3>1
    <3>3. ASSUME NEW i \in 1..k + 1 PROVE Stream'[i] = w[i]
      <4>1. i \in 1..Len(w) /\ Len(Stream) + i = i
        BY <1>4, <3>1
      <4> QED
        BY <2>2, <4>1
    <3> QED
      BY <3>2, <3>3
  <2>4. Greets(Stream')
    <3> SUFFICES ASSUME NEW i \in 1..Len(Stream')
                 PROVE  Stream'[i] = Banner \/ (Stream'[i] = ReadyLine /\ i = Len(Stream'))
      BY DEF Greets
    <3>1. i \in 1..k \/ i = k + 1
      BY <1>4, <2>3
    <3>2. i \in 1..k + 1
      BY <2>3
    <3> QED
      BY <1>4, <2>3, <3>1, <3>2
  <2>5. Booted'
    BY <1>1, <1>5, <2>4 DEF ReplInv, Booted, Silent
  <2>6. Phases'
    BY <1>1, <1>5 DEF Phases
  <2>7. Basics'
    BY <1>1, <1>3, <1>4 DEF Basics
  <2> QED
    BY <2>5, <2>6, <2>7 DEF ReplInv
<1>6. CASE pc = "failed"
  <2>1. Booted' /\ Phases'
    BY <1>1, <1>6 DEF ReplInv, Booted, Phases
  <2>2. Basics'
    BY <1>1, <1>3, <1>4 DEF Basics
  <2> QED
    BY <2>1, <2>2 DEF ReplInv
<1> QED
  BY <1>1, <1>5, <1>6

(* It writes a line.                                                       *)
LEMMA SayStep == ReplInv /\ Say => ReplInv' /\ Stream' = Stream
<1> SUFFICES ASSUME ReplInv, Say PROVE ReplInv' /\ Stream' = Stream
  OBVIOUS
<1>1. /\ saying # <<>> /\ Len(out) < OutCap /\ out' = Append(out, Head(saying)) /\ saying' = Tail(saying)
      /\ pc' = pc /\ timedOut' = timedOut /\ trigger' = trigger
      /\ captured' = captured /\ answers' = answers /\ inp' = inp
      /\ repl' = repl /\ fact' = fact /\ turn' = turn
      /\ Basics /\ Booted /\ Phases
  BY DEF Say, driverVars, ReplInv
<1>2. Stream' = Stream /\ IsSeq(captured') /\ IsSeq(out') /\ IsSeq(saying')
  BY <1>1, StreamKeeps
<1>3. repl = "up"
  BY <1>1 DEF Basics, Booted
<1>4. Len(out') <= OutCap
  <2>1. PICK s : s = out
    OBVIOUS
  <2>2. PICK x : x = Head(saying)
    OBVIOUS
  <2>3. IsSeq(s)
    BY <1>1, <2>1 DEF Basics
  <2>4. Len(Append(s, x)) = Len(s) + 1 /\ Len(s) \in Nat
    BY <2>3, AppendFacts, SeqPlaces
  <2> QED
    BY <1>1, <2>1, <2>2, <2>4, ReplAssumption
<1>5. Basics'
  BY <1>1, <1>2, <1>3, <1>4 DEF Basics
<1>6. Booted'
  BY <1>1, <1>2, <1>3 DEF Booted, Silent
<1>7. Phases'
  BY <1>1, <1>2 DEF Phases, Silent, Quiet, Sent, Toggled
<1> QED
  BY <1>2, <1>5, <1>6, <1>7 DEF ReplInv

(* It takes a line.                                                        *)
LEMMA TakeStep == ReplInv /\ Take => ReplInv'
<1> SUFFICES ASSUME ReplInv, Take PROVE ReplInv'
  OBVIOUS
<1>1. /\ repl = "up" /\ saying = <<>> /\ inp # <<>> /\ inp' = Tail(inp)
      /\ pc' = pc /\ timedOut' = timedOut /\ trigger' = trigger
      /\ captured' = captured /\ answers' = answers /\ out' = out /\ repl' = repl
      /\ Basics /\ Booted /\ Phases
  BY DEF Take, driverVars, ReplInv
<1>2. IsSeq(inp') /\ Len(inp') <= InCap
  <2>1. PICK s : s = inp
    OBVIOUS
  <2>2. IsSeq(s) /\ s # <<>> /\ Len(s) <= InCap
    BY <1>1, <2>1 DEF Basics
  <2>3. IsSeq(Tail(s)) /\ Len(s) \in Nat \ {0} /\ Len(Tail(s)) = Len(s) - 1
    BY <2>2, TailFacts
  <2> QED
    BY <1>1, <2>1, <2>2, <2>3, ReplAssumption
<1>3. fact' \in BOOLEAN /\ IsSeq(saying')
  <2>1. CASE Head(inp) = Declaration /\ saying' \in Lines(turn, "own") /\ UNCHANGED <<fact, turn>>
    BY <1>1, <2>1, LinesFacts DEF Basics
  <2>2. CASE saying' \in Lines(turn + 1, "own") /\ UNCHANGED fact
    BY <1>1, <2>2, LinesFacts DEF Basics
  <2>3. ASSUME NEW b \in BOOLEAN, fact' = b,
               NEW x \in Lines(turn, "before"), NEW y \in Lines(turn, "after"),
               saying' = x \o (IF fact # b THEN <<Echo(b)>> ELSE <<>>) \o y
        PROVE  fact' \in BOOLEAN /\ IsSeq(saying')
    <3>1. IsSeq(x) /\ IsSeq(y)
      BY LinesFacts
    <3>2. PICK e : e = IF fact # b THEN <<Echo(b)>> ELSE <<>>
      OBVIOUS
    <3>3. IsSeq(e)
      BY <3>2, SmallSeqs
    <3>4. IsSeq(x \o e \o y)
      BY <3>1, <3>3, ThreeParts
    <3> QED
      BY <2>3, <3>2, <3>4
  <2> QED
    BY <2>1, <2>2, <2>3 DEF Take
<1>4. pc \in {"plant", "setup", "toggle", "drain"}
  BY <1>1 DEF Basics, Booted, Phases, Quiet
<1>5. Booted'
  BY <1>1, <1>4 DEF Booted
<1>6. turn' \in 0..NPhrases => Basics'
  BY <1>1, <1>2, <1>3 DEF Basics
<1>7. CASE pc = "plant"
  <2>1. Silent /\ Sent(Declaration, 0, 0)
    BY <1>1, <1>7 DEF Phases
  <2>2. turn' = 0 /\ Sent(Declaration, 0, 0)'
    BY <1>1, <2>1, SentTake
  <2>3. Silent'
    BY <1>1, <2>1 DEF Silent
  <2>4. Phases' /\ Basics'
    BY <1>1, <1>6, <1>7, <2>2, <2>3, ReplAssumption DEF Phases
  <2> QED
    BY <1>5, <2>4 DEF ReplInv
<1>8. CASE pc = "setup"
  <2>1. answers = <<>> /\ Toggled(Declaration, 0, 0)
    BY <1>1, <1>8 DEF Phases
  <2>2. turn' = 0 /\ Toggled(Declaration, 0, 0)'
    BY <1>1, <2>1, ToggledTake
  <2>3. turn' \in 0..NPhrases
    BY <2>2, ReplAssumption
  <2>4. Phases' /\ Basics'
    BY <1>1, <1>6, <1>8, <2>1, <2>2, <2>3 DEF Phases
  <2> QED
    BY <1>5, <2>4 DEF ReplInv
<1>9. CASE pc = "toggle"
  <2>1. PICK n : n = Len(answers)
    OBVIOUS
  <2>2. Sent(Phrase, n, n + 1) /\ n < NPhrases /\ Len(answers) < NPhrases
    BY <1>1, <1>9, <2>1 DEF Phases
  <2>3. turn = n /\ turn' = n + 1 /\ Sent(Phrase, n, n + 1)'
    BY <1>1, <2>2, SentTake
  <2>4. turn' \in 0..NPhrases
    BY <1>1, <2>2, <2>3, ReplAssumption DEF Basics
  <2>5. Phases' /\ Basics'
    BY <1>1, <1>6, <1>9, <2>1, <2>2, <2>3, <2>4 DEF Phases
  <2> QED
    BY <1>5, <2>5 DEF ReplInv
<1>10. CASE pc = "drain"
  <2>1. PICK n : n = Len(answers)
    OBVIOUS
  <2>2. Toggled(Phrase, n, n + 1) /\ n < NPhrases /\ Len(answers) < NPhrases
    BY <1>1, <1>10, <2>1 DEF Phases
  <2>3. (turn = n \/ turn' = turn) /\ turn' = n + 1 /\ Toggled(Phrase, n, n + 1)'
    BY <1>1, <2>2, ToggledTake
  <2>4. turn' \in 0..NPhrases
    BY <1>1, <2>2, <2>3, ReplAssumption DEF Basics
  <2>5. Phases' /\ Basics'
    BY <1>1, <1>6, <1>10, <2>1, <2>2, <2>3, <2>4 DEF Phases
  <2> QED
    BY <1>5, <2>5 DEF ReplInv
<1> QED
  BY <1>4, <1>7, <1>8, <1>9, <1>10

(* Nothing more is demanded of a stream when it was cut off by the end of  *)
(* the reasoner.                                                           *)
LEMMA EndStep == ReplInv /\ End => ReplInv'
<1> SUFFICES ASSUME ReplInv, End PROVE ReplInv'
  OBVIOUS
<1>1. /\ repl' = "dead" /\ saying' = <<>>
      /\ pc' = pc /\ timedOut' = timedOut /\ trigger' = trigger
      /\ captured' = captured /\ answers' = answers /\ inp' = inp /\ out' = out
      /\ fact' = fact /\ turn' = turn
      /\ Basics /\ Booted /\ Phases /\ repl # "dead"
  BY DEF End, driverVars, ReplInv
<1>2. Basics'
  BY <1>1, SmallSeqs DEF Basics
<1>3. /\ Len(Stream) \in Nat /\ Len(Stream') \in Nat /\ Len(Stream') <= Len(Stream)
      /\ \A i \in 1..Len(Stream') : Stream'[i] = Stream[i]
  BY <1>1, SmallSeqs, StreamEnds, StreamParts
<1>4. PICK s : s = Stream
  OBVIOUS
<1>5. PICK t : t = Stream'
  OBVIOUS
<1>6. /\ Len(s) \in Nat /\ Len(t) \in Nat /\ Len(t) <= Len(s) /\ \A i \in 1..Len(t) : t[i] = s[i]
  BY <1>3, <1>4, <1>5
<1>7. ASSUME NEW n, Quiet(n) PROVE Quiet(n)'
  <2>1. Remains(t, n)
    BY <1>4, <1>6, <1>7, ReplAssumption DEF Quiet, Remains
  <2> QED
    BY <1>1, <1>5, <1>7, <2>1 DEF Quiet
<1>8. ASSUME NEW g, NEW n, NEW m, NEW a \in 0..MaxLines, NEW o \in a..a + MaxLines, NEW b \in o..o + MaxLines,
             Shape(s, g, n, m, a, o, b)
      PROVE  Shape(t, g, n, m, a, o, b)
  BY <1>6, <1>8, ShapePrefix
<1>9. ASSUME NEW phrase, NEW n, NEW m, Sent(phrase, n, m) PROVE Sent(phrase, n, m)'
  <2>1. PICK a \in 0..MaxLines : \E o \in a..a + MaxLines :
            Shape(Stream, ~trigger, n, m, a, o, o) /\ Len(Stream) <= o
    BY <1>9 DEF Sent
  <2>2. PICK o \in a..a + MaxLines :
            Shape(Stream, ~trigger, n, m, a, o, o) /\ Len(Stream) <= o
    BY <2>1
  <2>3. a \in Nat /\ o \in Nat /\ o \in o..o + MaxLines
    BY ReplAssumption
  <2>4. Shape(t, ~trigger, n, m, a, o, o)
    BY <1>4, <1>8, <2>2, <2>3
  <2>5. Len(t) <= o
    BY <1>4, <1>6, <2>2, <2>3
  <2>6. captured = <<>>
    BY <1>9 DEF Sent
  <2> QED
    BY <1>1, <1>5, <2>4, <2>5, <2>6 DEF Sent
<1>10. ASSUME NEW phrase, NEW n, NEW m, Toggled(phrase, n, m) PROVE Toggled(phrase, n, m)'
  <2>1. PICK a \in 0..MaxLines : \E o \in a..a + MaxLines : \E b \in o..o + MaxLines :
            Shape(Stream, trigger, n, m, a, o, b) /\ Len(captured) <= b
    BY <1>10 DEF Toggled
  <2>2. PICK o \in a..a + MaxLines : \E b \in o..o + MaxLines :
            Shape(Stream, trigger, n, m, a, o, b) /\ Len(captured) <= b
    BY <2>1
  <2>3. PICK b \in o..o + MaxLines :
            Shape(Stream, trigger, n, m, a, o, b) /\ Len(captured) <= b
    BY <2>2
  <2>4. Shape(t, trigger, n, m, a, o, b)
    BY <1>4, <1>8, <2>3
  <2> QED
    BY <1>1, <1>5, <2>3, <2>4 DEF Toggled
<1>11. Booted'
  <2>2. Greets(s) => Greets(t)
    <3> SUFFICES ASSUME Greets(s), NEW i \in 1..Len(t)
                 PROVE  t[i] = Banner \/ (t[i] = ReadyLine /\ i = Len(t))
      BY DEF Greets
    <3>1. i \in 1..Len(s)
      BY <1>6
    <3>2. t[i] = Banner \/ (t[i] = ReadyLine /\ i = Len(s))
      BY <1>6, <3>1 DEF Greets
    <3>3. i = Len(s) => i = Len(t)
      BY <1>6
    <3> QED
      BY <3>2, <3>3
  <2> QED
    BY <1>1, <1>4, <1>5, <2>2 DEF Booted, Silent
<1>12. Phases'
  <2>1. PICK n : n = Len(answers)
    OBVIOUS
  <2>2. /\ pc = "declare" => Silent /\ Quiet(0)
        /\ pc = "plant"   => Silent /\ Sent(Declaration, 0, 0)
        /\ pc = "setup"   => answers = <<>> /\ Toggled(Declaration, 0, 0)
        /\ pc = "idle"    => Quiet(n)
        /\ pc = "toggle"  => n < NPhrases /\ Sent(Phrase, n, n + 1)
        /\ pc = "drain"   => n < NPhrases /\ Toggled(Phrase, n, n + 1)
    BY <1>1, <2>1 DEF Phases
  <2>3. /\ pc' = "declare" => Silent' /\ Quiet(0)'
        /\ pc' = "plant"   => Silent' /\ Sent(Declaration, 0, 0)'
        /\ pc' = "setup"   => answers' = <<>> /\ Toggled(Declaration, 0, 0)'
        /\ pc' = "idle"    => Quiet(n)'
        /\ pc' = "toggle"  => n < NPhrases /\ Sent(Phrase, n, n + 1)'
        /\ pc' = "drain"   => n < NPhrases /\ Toggled(Phrase, n, n + 1)'
    BY <1>1, <1>7, <1>9, <1>10, <2>2 DEF Silent
  <2> QED
    BY <1>1, <2>1, <2>3 DEF Phases
<1> QED
  BY <1>2, <1>11, <1>12 DEF ReplInv

(* Nothing happens.                                                        *)
LEMMA ReplStutter == ReplInv /\ UNCHANGED vars => ReplInv'
<1> SUFFICES ASSUME ReplInv, UNCHANGED vars PROVE ReplInv'
  OBVIOUS
<1>1. /\ pc' = pc /\ timedOut' = timedOut /\ trigger' = trigger
      /\ captured' = captured /\ answers' = answers /\ inp' = inp /\ out' = out
      /\ repl' = repl /\ fact' = fact /\ turn' = turn /\ saying' = saying
  BY DEF vars, driverVars, reasonerVars
<1>2. Stream' = Stream
  BY <1>1 DEF Stream
<1>3. Basics'
  BY <1>1 DEF ReplInv, Basics
<1>4. Booted'
  BY <1>1, <1>2 DEF ReplInv, Booted, Silent
<1>5. Phases'
  BY <1>1, <1>2 DEF ReplInv, Phases, Silent, Quiet, Sent, Toggled
<1> QED
  BY <1>3, <1>4, <1>5 DEF ReplInv

-----------------------------------------------------------------------------
(* The theorems.                                                           *)

(* The invariant holds of driver and reasoner however they interleave,     *)
(* also when the reasoner ends at any time.                                *)
THEOREM ReplInvariance == SafeSpec => []ReplInv
<1>1. Init => ReplInv
  BY ReplInit
<1>2. ReplInv /\ [Next]_vars => ReplInv'
  BY CheckDeadlineStep, ReadBannerStep, TimerStep, DeclareTriggerStep, PlantTriggerStep, SubmitStep,
     ToggleTriggerStep, DrainStep, EndSeenInInitStep, EndSeenInSubmitStep, CloseStep, BootStep,
     SayStep, TakeStep, EndStep, ReplStutter DEF Next, DriverStep
<1> QED
  BY <1>1, <1>2, PTL DEF SafeSpec

(* Types: no echo is ever part of what submit returns, and the pipes hold  *)
(* what they can.                                                          *)
THEOREM ReplTypes == SafeSpec => []ReplTypeOK
<1>1. ReplInv => ReplTypeOK
  BY DEF ReplInv, Basics, ReplTypeOK
<1> QED
  BY <1>1, ReplInvariance, PTL

(* Between two submissions the reasoner has taken all it was sent, its     *)
(* fact is what the driver believes, and what it has yet to say is about   *)
(* the last toggle.                                                        *)
THEOREM DriverInStep == SafeSpec => []InStep
<1>1. ASSUME ReplInv, pc = "idle", repl = "up"
      PROVE  /\ inp = <<>> /\ fact = trigger /\ turn = Len(answers)
             /\ \A x \in Range(out \o saying) : x = Line(turn, "after")
  <2>1. Basics /\ Quiet(Len(answers))
    BY <1>1 DEF ReplInv, Phases
  <2>2. inp = <<>> /\ fact = trigger /\ turn = Len(answers) /\ Remains(Stream, turn)
    BY <1>1, <2>1 DEF Quiet
  <2>3. ASSUME NEW x \in Range(out \o saying) PROVE x = Line(turn, "after")
    <3>1. IsSeq(out) /\ IsSeq(saying) /\ IsSeq(Stream)
      BY <2>1, StreamParts DEF Basics
    <3>2. Range(out \o saying) = Range(out) \cup Range(saying)
      BY <3>1, ConcatFacts
    <3>3. x \in Range(Stream)
      BY <2>1, <3>2, StreamParts
    <3>4. PICK i \in 1..Len(Stream) : Stream[i] = x
      BY <3>1, <3>3, SeqPlaces
    <3> QED
      BY <2>2, <3>4 DEF Remains
  <2> QED
    BY <2>2, <2>3
<1>2. ReplInv => InStep
  BY <1>1 DEF InStep
<1> QED
  BY <1>2, ReplInvariance, PTL

-----------------------------------------------------------------------------
(* A submission is a call.                                                 *)

(* The lines of a stream that were said too late for exchange n.           *)
LateLines(s, n) ==
    [k \in 1..Cardinality({i \in DOMAIN s : s[i] = Line(n, "after")}) |-> Line(n, "after")]

(* They depend on the stream and on the number of answers alone.           *)
LEMMA LeftoverIs ==
    /\ Leftover = LateLines(Stream, Len(answers))
    /\ Leftover' = LateLines(Stream', Len(answers'))
BY DEF Leftover, LateLines

(* All of what remains of an exchange was said too late for it.            *)
LEMMA LateRemains ==
    ASSUME NEW s, NEW n, IsSeq(s), Remains(s, n)
    PROVE  \E k \in 0..MaxLines : LateLines(s, n) = Calls!Says(n, "after", k)
<1>1. Len(s) \in Nat /\ DOMAIN s = 1..Len(s)
  BY SeqPlaces
<1>2. {i \in DOMAIN s : s[i] = Line(n, "after")} = 1..Len(s)
  BY <1>1 DEF Remains
<1>3. Cardinality(1..Len(s)) = Len(s)
  <2>1. PICK j \in Nat : j = Len(s)
    BY <1>1
  <2>2. Cardinality(1..j) = j
    BY FS_Interval
  <2> QED
    BY <2>1, <2>2
<1>4. Len(s) \in 0..MaxLines
  BY <1>1, ReplAssumption DEF Remains
<1>5. LateLines(s, n) = [k \in 1..Len(s) |-> Line(n, "after")]
  BY <1>2, <1>3 DEF LateLines
<1>6. LateLines(s, n) = Calls!Says(n, "after", Len(s))
  BY <1>5 DEF Calls!Says, Line
<1> QED
  BY <1>4, <1>6

(* A stream with an echo begins with the lines too late for the exchange   *)
(* before, and what goes before the echo are those and the answer.         *)
Answered(c, s, n, m) ==
    \E own \in 0..MaxLines, before \in 0..MaxLines :
        c = LateLines(s, n) \o Calls!Says(m, "own", own) \o Calls!Says(m, "before", before)

(* That is so of what was read when the echo comes.                        *)
LEMMA LateBeforeEcho ==
    ASSUME NEW s, NEW c, NEW g, NEW n \in Nat, NEW m, m = n + 1, NEW a, NEW o, NEW b,
           IsSeq(s), IsSeq(c), Shape(s, g, n, m, a, o, b), Len(c) = b, b + 1 \in 1..Len(s),
           \A i \in 1..b : s[i] = c[i]
    PROVE  Answered(c, s, n, m)
<1>1. a \in 0..MaxLines /\ o \in a..a + MaxLines /\ b \in o..o + MaxLines
  BY DEF Shape
<1>2. BlocksAt(g, n, m, a, o, b)
  BY <1>1, Blocks
<1>3. /\ a \in Nat /\ o \in Nat /\ b \in Nat /\ a <= o /\ o <= b
      /\ \A i \in 1..a : Piece(i, g, n, m, a, o, b) = Line(n, "after")
      /\ \A i \in a + 1..o : Piece(i, g, n, m, a, o, b) = Line(m, "own")
      /\ \A i \in o + 1..b : Piece(i, g, n, m, a, o, b) = Line(m, "before")
      /\ Piece(b + 1, g, n, m, a, o, b) = Echo(g)
      /\ \A i \in Nat : i > b + 1 => Piece(i, g, n, m, a, o, b) = Line(m, "after")
  BY <1>2 DEF BlocksAt
<1>4. Len(s) \in Nat /\ DOMAIN s = 1..Len(s) /\ \A i \in 1..Len(s) : s[i] = Piece(i, g, n, m, a, o, b)
  BY SeqPlaces DEF Shape
<1>5. /\ \A i \in 1..a : s[i] = Line(n, "after")
      /\ \A i \in a + 1..o : s[i] = Line(m, "own")
      /\ \A i \in o + 1..b : s[i] = Line(m, "before")
  <2>1. \A i \in 1..b : i \in 1..Len(s)
    BY <1>3, <1>4
  <2>2. /\ \A i \in 1..a : i \in 1..b
        /\ \A i \in a + 1..o : i \in 1..b
        /\ \A i \in o + 1..b : i \in 1..b
    BY <1>3
  <2> QED
    BY <1>3, <1>4, <2>1, <2>2
<1>6. ASSUME NEW i \in 1..Len(s), s[i] = Line(n, "after") PROVE i \in 1..a
  <2>1. m # n
    OBVIOUS
  <2>2. i \notin a + 1..o
    BY <1>5, <1>6, <2>1, LinesDiffer
  <2>3. i \notin o + 1..b
    BY <1>5, <1>6, <2>1, LinesDiffer
  <2>4. i # b + 1
    BY <1>3, <1>4, <1>6, LinesDiffer
  <2>5. ~(i > b + 1)
    BY <1>3, <1>4, <1>6, <2>1, LinesDiffer
  <2> QED
    BY <1>3, <1>4, <2>2, <2>3, <2>4, <2>5
<1>7. {i \in DOMAIN s : s[i] = Line(n, "after")} = 1..a
  <2>1. \A i \in 1..a : i \in 1..Len(s)
    BY <1>3, <1>4
  <2> QED
    BY <1>4, <1>5, <1>6, <2>1
<1>8. LateLines(s, n) = [k \in 1..a |-> Line(n, "after")]
  <2>1. Cardinality(1..a) = a
    BY <1>3, FS_Interval
  <2> QED
    BY <1>7, <2>1 DEF LateLines
<1>9. PICK x : x = LateLines(s, n)
  OBVIOUS
<1>10. PICK y : y = Calls!Says(m, "own", o - a)
  OBVIOUS
<1>11. PICK z : z = Calls!Says(m, "before", b - o)
  OBVIOUS
<1>12. o - a \in 0..MaxLines /\ b - o \in 0..MaxLines /\ o - a \in Nat /\ b - o \in Nat
  BY <1>1, <1>3, ReplAssumption
<1>13. IsSeq(x) /\ Len(x) = a /\ \A i \in 1..a : x[i] = Line(n, "after")
  <2>1. DOMAIN x = 1..a /\ x = [i \in 1..a |-> x[i]] /\ \A i \in 1..a : x[i] = Line(n, "after")
    BY <1>8, <1>9
  <2> QED
    BY <1>3, <2>1, FunctionIsSeq
<1>14. IsSeq(y) /\ Len(y) = o - a /\ \A i \in 1..o - a : y[i] = Line(m, "own")
  <2>1. PICK k \in Nat : k = o - a
    BY <1>12
  <2>2. y = [i \in 1..k |-> Line(m, "own")]
    BY <1>10, <2>1 DEF Calls!Says, Line
  <2>3. DOMAIN y = 1..k /\ y = [i \in 1..k |-> y[i]] /\ \A i \in 1..k : y[i] = Line(m, "own")
    BY <2>2
  <2>4. IsSeq(y) /\ Len(y) = k
    BY <2>3, FunctionIsSeq
  <2> QED
    BY <2>1, <2>3, <2>4
<1>15. IsSeq(z) /\ Len(z) = b - o /\ \A i \in 1..b - o : z[i] = Line(m, "before")
  <2>1. PICK k \in Nat : k = b - o
    BY <1>12
  <2>2. z = [i \in 1..k |-> Line(m, "before")]
    BY <1>11, <2>1 DEF Calls!Says, Line
  <2>3. DOMAIN z = 1..k /\ z = [i \in 1..k |-> z[i]] /\ \A i \in 1..k : z[i] = Line(m, "before")
    BY <2>2
  <2>4. IsSeq(z) /\ Len(z) = k
    BY <2>3, FunctionIsSeq
  <2> QED
    BY <2>1, <2>3, <2>4
<1>16. PICK w : w = x \o y \o z
  OBVIOUS
<1>17. /\ IsSeq(w) /\ Len(w) = Len(x) + Len(y) + Len(z)
       /\ \A i \in 1..Len(x) : w[i] = x[i]
       /\ \A i \in 1..Len(y) : w[Len(x) + i] = y[i]
       /\ \A i \in 1..Len(z) : w[Len(x) + Len(y) + i] = z[i]
  <2>1. IsSeq(x) /\ IsSeq(y) /\ IsSeq(z)
    BY <1>13, <1>14, <1>15
  <2>2. /\ IsSeq(x \o y \o z) /\ Len(x \o y \o z) = Len(x) + Len(y) + Len(z)
        /\ \A i \in 1..Len(x) : (x \o y \o z)[i] = x[i]
        /\ \A i \in 1..Len(y) : (x \o y \o z)[Len(x) + i] = y[i]
        /\ \A i \in 1..Len(z) : (x \o y \o z)[Len(x) + Len(y) + i] = z[i]
    BY <2>1, ThreeParts
  <2> QED
    BY <1>16, <2>2
<1>18. Len(w) = Len(c)
  BY <1>3, <1>13, <1>14, <1>15, <1>17
<1>19. ASSUME NEW i \in 1..Len(c) PROVE c[i] = w[i]
  <2>1. c[i] = s[i] /\ i \in 1..b
    OBVIOUS
  <2>2. CASE i <= a
    <3>1. i \in 1..a
      BY <1>3, <2>1, <2>2
    <3> QED
      BY <1>5, <1>13, <1>17, <2>1, <3>1
  <2>3. CASE i > a /\ i <= o
    <3> DEFINE j == i - a
    <3>1. j \in 1..o - a /\ i = a + j /\ i \in a + 1..o
      BY <1>3, <2>1, <2>3
    <3> HIDE DEF j
    <3>2. w[a + j] = y[j] /\ y[j] = Line(m, "own")
      BY <1>13, <1>14, <1>17, <3>1
    <3> QED
      BY <1>5, <2>1, <3>1, <3>2
  <2>4. CASE i > o
    <3> DEFINE j == i - o
    <3>1. j \in 1..b - o /\ i = o + j /\ i \in o + 1..b /\ a + (o - a) = o
      BY <1>3, <2>1, <2>4
    <3> HIDE DEF j
    <3>2. w[o + j] = z[j] /\ z[j] = Line(m, "before")
      BY <1>13, <1>14, <1>15, <1>17, <3>1
    <3> QED
      BY <1>5, <2>1, <3>1, <3>2
  <2> QED
    BY <1>3, <2>1, <2>2, <2>3, <2>4
<1>20. c = w
  BY <1>17, <1>18, <1>19, SeqEqual
<1> QED
  BY <1>9, <1>10, <1>11, <1>12, <1>16, <1>20 DEF Answered

(* A stream cut off has a part of the late lines left.                     *)
LEMMA LateCut ==
    ASSUME NEW s, NEW t, NEW n, IsSeq(s), IsSeq(t), Len(t) <= Len(s),
           \A i \in 1..Len(t) : t[i] = s[i]
    PROVE  \E k \in 0..Len(LateLines(s, n)) : LateLines(t, n) = SubSeq(LateLines(s, n), 1, k)
<1> DEFINE S == {i \in DOMAIN s : s[i] = Line(n, "after")}
           T == {i \in DOMAIN t : t[i] = Line(n, "after")}
<1>1. /\ Len(s) \in Nat /\ DOMAIN s = 1..Len(s) /\ IsFiniteSet(DOMAIN s)
      /\ Len(t) \in Nat /\ DOMAIN t = 1..Len(t)
  BY SeqPlaces
<1>2. T \subseteq S /\ S \subseteq DOMAIN s
  BY <1>1
<1>3. IsFiniteSet(S)
  BY <1>1, <1>2, FS_Subset
<1> HIDE DEF S, T
<1>4. Cardinality(T) \in Nat /\ Cardinality(S) \in Nat /\ Cardinality(T) <= Cardinality(S)
  BY <1>2, <1>3, FS_Subset, FS_CardinalityType
<1>5. PICK p \in Nat, q \in Nat : p = Cardinality(S) /\ q = Cardinality(T)
  BY <1>4
<1>6. PICK x : x = Line(n, "after")
  OBVIOUS
<1>7. LateLines(s, n) = [k \in 1..p |-> x] /\ LateLines(t, n) = [k \in 1..q |-> x]
  BY <1>5, <1>6 DEF LateLines, S, T
<1>8. PICK u : u = [k \in 1..p |-> x]
  OBVIOUS
<1>9. u \in Seq({x}) /\ Len(u) = p /\ \A k \in 1..p : u[k] = x
  BY <1>8
<1>10. q <= p
  BY <1>4, <1>5
<1>11. SubSeq(u, 1, q) = [k \in 1..q |-> x]
  BY <1>9, <1>10
<1> QED
  BY <1>7, <1>8, <1>9, <1>10, <1>11

(* What the reasoner says when it takes a line is about the last phrase it *)
(* took.                                                                   *)
LEMMA TakeSays ==
    ASSUME Take, NEW n, n # turn'
    PROVE  IsSeq(saying') /\ \A i \in 1..Len(saying') : saying'[i] # Line(n, "after")
<1>1. SUFFICES ASSUME NEW w, w = saying'
      PROVE  IsSeq(w) /\ \A i \in 1..Len(w) : w[i] # Line(n, "after")
  OBVIOUS
<1>2. CASE saying' \in Lines(turn, "own") /\ UNCHANGED <<fact, turn>>
  <2>1. IsSeq(w) /\ \A i \in 1..Len(w) : w[i] = Line(turn, "own")
    BY <1>1, <1>2, LinesFacts
  <2> QED
    BY <1>2, <2>1, LinesDiffer
<1>3. CASE turn' = turn + 1 /\ saying' \in Lines(turn + 1, "own")
  <2>1. IsSeq(w) /\ \A i \in 1..Len(w) : w[i] = Line(turn', "own")
    BY <1>1, <1>3, LinesFacts
  <2> QED
    BY <2>1, LinesDiffer
<1>4. ASSUME NEW b \in BOOLEAN, turn' = turn,
             NEW x \in Lines(turn, "before"), NEW y \in Lines(turn, "after"),
             saying' = x \o (IF fact # b THEN <<Echo(b)>> ELSE <<>>) \o y
      PROVE  IsSeq(w) /\ \A i \in 1..Len(w) : w[i] # Line(n, "after")
  <2>1. /\ IsSeq(x) /\ \A i \in 1..Len(x) : x[i] = Line(turn, "before")
        /\ IsSeq(y) /\ \A i \in 1..Len(y) : y[i] = Line(turn, "after")
    BY LinesFacts
  <2>2. PICK e : e = IF fact # b THEN <<Echo(b)>> ELSE <<>>
    OBVIOUS
  <2>3. IsSeq(e) /\ Range(e) \subseteq {Echo(b)}
    BY <2>2, SmallSeqs
  <2>4. IsSeq(x \o e \o y) /\ Range(x \o e \o y) = Range(x) \cup Range(e) \cup Range(y)
    BY <2>1, <2>3, ThreeParts
  <2>5. w = x \o e \o y
    BY <1>1, <1>4, <2>2
  <2>6. ASSUME NEW i \in 1..Len(w) PROVE w[i] # Line(n, "after")
    <3>1. w[i] \in Range(x) \cup Range(e) \cup Range(y)
      BY <2>4, <2>5, SeqPlaces
    <3>2. CASE w[i] \in Range(x)
      <4>1. \E j \in 1..Len(x) : x[j] = w[i]
        BY <2>1, <3>2, SeqPlaces
      <4> QED
        BY <1>4, <2>1, <4>1, LinesDiffer
    <3>3. CASE w[i] \in Range(e)
      BY <2>3, <3>3, LinesDiffer
    <3>4. CASE w[i] \in Range(y)
      <4>1. \E j \in 1..Len(y) : y[j] = w[i]
        BY <2>1, <3>4, SeqPlaces
      <4> QED
        BY <1>4, <2>1, <4>1, LinesDiffer
    <3> QED
      BY <3>1, <3>2, <3>3, <3>4
  <2> QED
    BY <2>4, <2>5, <2>6
<1> QED
  BY <1>2, <1>3, <1>4 DEF Take

(* So it adds nothing to the late lines of the exchange before.            *)
LEMMA TakeAddsNoneLate ==
    ASSUME Basics, Take, NEW n, n # turn'
    PROVE  LateLines(Stream', n) = LateLines(Stream, n)
<1>1. saying = <<>> /\ captured' = captured /\ out' = out
  BY DEF Take, driverVars
<1>2. IsSeq(saying') /\ \A i \in 1..Len(saying') : saying'[i] # Line(n, "after")
  BY TakeSays
<1>3. /\ IsSeq(Stream') /\ Len(Stream') = Len(Stream) + Len(saying') /\ Len(saying') \in Nat
      /\ \A i \in 1..Len(Stream) : Stream'[i] = Stream[i]
      /\ \A i \in 1..Len(saying') : Stream'[Len(Stream) + i] = saying'[i]
  BY <1>1, <1>2, StreamEnds
<1>4. PICK s : s = Stream
  OBVIOUS
<1>5. PICK t : t = Stream'
  OBVIOUS
<1>6. PICK k \in Nat : k = Len(saying')
  BY <1>3
<1>7. /\ IsSeq(s) /\ IsSeq(t) /\ Len(t) = Len(s) + k
      /\ \A i \in 1..Len(s) : t[i] = s[i]
      /\ \A i \in 1..k : t[Len(s) + i] # Line(n, "after")
  BY <1>2, <1>3, <1>4, <1>5, <1>6, StreamParts
<1>8. DOMAIN s = 1..Len(s) /\ DOMAIN t = 1..Len(t) /\ Len(s) \in Nat
  BY <1>7, SeqPlaces
<1>9. {i \in DOMAIN t : t[i] = Line(n, "after")} = {i \in DOMAIN s : s[i] = Line(n, "after")}
  <2>1. \A i \in DOMAIN s : i \in DOMAIN t /\ t[i] = s[i]
    BY <1>7, <1>8
  <2>2. ASSUME NEW i \in DOMAIN t, t[i] = Line(n, "after") PROVE i \in DOMAIN s
    <3>1. CASE i > Len(s)
      <4> DEFINE j == i - Len(s)
      <4>1. j \in 1..k /\ i = Len(s) + j
        BY <1>7, <1>8, <3>1
      <4> HIDE DEF j
      <4> QED
        BY <1>7, <2>2, <4>1
    <3>2. CASE i <= Len(s)
      BY <1>7, <1>8, <3>2
    <3> QED
      BY <1>7, <1>8, <3>1, <3>2
  <2> QED
    BY <2>1, <2>2
<1> QED
  BY <1>4, <1>5, <1>9 DEF LateLines

-----------------------------------------------------------------------------
(* Every step is one of a caller, or none that a caller sees.              *)

(* The start of the driver is the start of the caller.                     *)
LEMMA CallsInit == Init => Calls!Init
<1> SUFFICES ASSUME Init PROVE Calls!Init
  OBVIOUS
<1>1. CallState = "starting" /\ answers = <<>>
  BY DEF Init, CallState
<1>2. Len(answers) = 0
  BY <1>1, SmallSeqs
<1> QED
  BY <1>1, <1>2 DEF Calls!Init

(* A caller sees nothing of a step that leaves state, answers and late     *)
(* lines as they are.                                                      *)
LEMMA CallsStutter ==
    ASSUME CallState' = CallState, answers' = answers,
           CallState \in {"idle", "calling"} => Leftover' = Leftover
    PROVE  UNCHANGED Calls!callVars
BY DEF Calls!callVars

(* Starting.                                                               *)
LEMMA CallsStart ==
    ASSUME ReplInv, CheckDeadline \/ ReadBanner \/ Timer \/ DeclareTrigger \/ PlantTrigger \/ Boot
    PROVE  [Calls!Next]_Calls!callVars
<1>1. CASE CheckDeadline /\ timedOut
  <2>1. CallState = "starting" /\ CallState' = "aborted" /\ answers' = answers
    BY <1>1 DEF CheckDeadline, RaiseInInit, CallState
  <2>2. Calls!Abort
    BY <2>1 DEF Calls!Abort
  <2> QED
    BY <2>2 DEF Calls!Next
<1>2. CASE (CheckDeadline /\ ~timedOut) \/ ReadBanner \/ Timer \/ DeclareTrigger \/ PlantTrigger
  <2>1. CallState = "starting" /\ CallState' = "starting" /\ answers' = answers
    BY <1>2 DEF CheckDeadline, ReadBanner, Timer, DeclareTrigger, PlantTrigger, Write, CallState
  <2> QED
    BY <2>1, CallsStutter
<1>3. CASE Boot
  <2>1. pc \in {"ready", "banner", "failed"} /\ pc' = pc /\ answers' = answers
    BY <1>3 DEF ReplInv, Booted, Boot, driverVars
  <2>2. CallState \in {"starting", "aborted"} /\ CallState' = CallState
    BY <2>1 DEF CallState
  <2> QED
    BY <2>1, <2>2, CallsStutter
<1> QED
  BY <1>1, <1>2, <1>3

(* Calling.                                                                *)
LEMMA CallsCall ==
    ASSUME ReplInv, Submit \/ ToggleTrigger
    PROVE  [Calls!Next]_Calls!callVars
<1>1. answers' = answers /\ captured' = captured /\ out' = out /\ saying' = saying
  BY DEF Submit, ToggleTrigger, Write, reasonerVars
<1>2. Leftover' = Leftover
  <2>1. Stream' = Stream
    BY <1>1 DEF Stream
  <2> QED
    BY <1>1, <2>1, LeftoverIs
<1>3. CASE Submit
  <2>1. CallState = "idle" /\ CallState' = "calling" /\ Len(answers) < NPhrases
    BY <1>3 DEF Submit, Write, CallState
  <2>2. Calls!Call
    BY <1>1, <1>2, <2>1 DEF Calls!Call
  <2> QED
    BY <2>2 DEF Calls!Next
<1>4. CASE ToggleTrigger
  <2>1. CallState = "calling" /\ CallState' = "calling"
    BY <1>4 DEF ToggleTrigger, Write, CallState
  <2> QED
    BY <1>1, <1>2, <2>1, CallsStutter
<1> QED
  BY <1>3, <1>4

(* An exception, and the end.                                              *)
LEMMA CallsRaise ==
    ASSUME ReplInv, EndSeenInInit \/ EndSeenInSubmit \/ Close
    PROVE  [Calls!Next]_Calls!callVars
<1>1. CASE EndSeenInInit
  <2>1. CallState = "starting" /\ CallState' = "aborted" /\ answers' = answers
    BY <1>1 DEF EndSeenInInit, RaiseInInit, CallState
  <2>2. Calls!Abort
    BY <2>1 DEF Calls!Abort
  <2> QED
    BY <2>2 DEF Calls!Next
<1>2. CASE EndSeenInSubmit
  <2>1. CallState \in {"idle", "calling"} /\ CallState' = "failed" /\ answers' = answers
    BY <1>2 DEF EndSeenInSubmit, RaiseInSubmit, CallState
  <2>2. Calls!Raise
    BY <2>1 DEF Calls!Raise
  <2> QED
    BY <2>2 DEF Calls!Next
<1>3. CASE Close
  <2>1. CallState \in {"idle", "failed"} /\ CallState' = "closed" /\ answers' = answers
    BY <1>3 DEF Close, CallState
  <2>2. Calls!Close
    BY <2>1 DEF Calls!Close
  <2> QED
    BY <2>2 DEF Calls!Next
<1> QED
  BY <1>1, <1>2, <1>3

(* The reasoner speaks.                                                    *)
LEMMA CallsSpeak ==
    ASSUME ReplInv, Say \/ Take
    PROVE  [Calls!Next]_Calls!callVars
<1>1. pc' = pc /\ answers' = answers
  BY DEF Say, Take, driverVars
<1>2. CallState' = CallState
  BY <1>1 DEF CallState
<1>3. CASE Say
  <2>1. Stream' = Stream
    BY <1>3, SayStep
  <2>2. Leftover' = Leftover
    BY <1>1, <2>1, LeftoverIs
  <2> QED
    BY <1>1, <1>2, <2>2, CallsStutter
<1>4. CASE Take
  <2>1. ASSUME CallState \in {"idle", "calling"} PROVE Leftover' = Leftover
    <3>1. PICK n : n = Len(answers)
      OBVIOUS
    <3>2. Basics /\ repl = "up" /\ inp # <<>>
      BY <1>4 DEF ReplInv, Take
    <3>3. pc \in {"toggle", "drain"}
      BY <2>1, <3>2 DEF CallState, ReplInv, Phases, Quiet
    <3>4. turn' = n + 1
      <4>1. CASE pc = "toggle"
        <5>1. Sent(Phrase, n, n + 1)
          BY <3>1, <4>1 DEF ReplInv, Phases
        <5> QED
          BY <1>4, <3>2, <5>1, SentTake
      <4>2. CASE pc = "drain"
        <5>1. Toggled(Phrase, n, n + 1)
          BY <3>1, <4>2 DEF ReplInv, Phases
        <5> QED
          BY <1>4, <3>2, <5>1, ToggledTake
      <4> QED
        BY <3>3, <4>1, <4>2
    <3>5. n # turn'
      <4>1. answers \in Seq(Seq(Reports))
        BY <3>2 DEF Basics
      <4>2. n \in Nat
        BY <3>1, <4>1
      <4> QED
        BY <3>4, <4>2
    <3>6. LateLines(Stream', n) = LateLines(Stream, n)
      BY <1>4, <3>2, <3>5, TakeAddsNoneLate
    <3> QED
      BY <1>1, <3>1, <3>6, LeftoverIs
  <2> QED
    BY <1>1, <1>2, <2>1, CallsStutter
<1> QED
  BY <1>3, <1>4

(* The reasoner ends.                                                      *)
LEMMA CallsEnd ==
    ASSUME ReplInv, End
    PROVE  [Calls!Next]_Calls!callVars
<1>1. pc' = pc /\ answers' = answers /\ captured' = captured /\ out' = out /\ saying' = <<>>
  BY DEF End, driverVars
<1>2. CallState' = CallState
  BY <1>1 DEF CallState
<1>3. CASE CallState \notin {"idle", "calling"}
  BY <1>1, <1>2, <1>3, CallsStutter
<1>4. CASE CallState \in {"idle", "calling"}
  <2>1. Basics
    BY DEF ReplInv
  <2>2. /\ IsSeq(Stream) /\ IsSeq(Stream') /\ Len(Stream') <= Len(Stream)
        /\ \A i \in 1..Len(Stream') : Stream'[i] = Stream[i]
    BY <1>1, <2>1, SmallSeqs, StreamEnds, StreamParts
  <2>3. PICK s, t, n : s = Stream /\ t = Stream' /\ n = Len(answers)
    OBVIOUS
  <2>4. \E k \in 0..Len(LateLines(s, n)) : LateLines(t, n) = SubSeq(LateLines(s, n), 1, k)
    <3>1. IsSeq(s) /\ IsSeq(t) /\ Len(t) <= Len(s) /\ \A i \in 1..Len(t) : t[i] = s[i]
      BY <2>2, <2>3
    <3> QED
      BY <3>1, LateCut
  <2>5. LateLines(s, n) = Leftover /\ LateLines(t, n) = Leftover'
    BY <1>1, <2>3, LeftoverIs
  <2>6. \E k \in 0..Len(Leftover) : Leftover' = SubSeq(Leftover, 1, k)
    BY <2>4, <2>5
  <2>7. Calls!End
    BY <1>1, <1>2, <1>4, <2>6 DEF Calls!End
  <2> QED
    BY <2>7 DEF Calls!Next
<1> QED
  BY <1>3, <1>4

(* The driver reads what it waits for.                                     *)
LEMMA CallsDrain ==
    ASSUME ReplInv, Drain
    PROVE  [Calls!Next]_Calls!callVars
<1>1. /\ pc \in {"setup", "drain"} /\ out # <<>> /\ out' = Tail(out) /\ saying' = saying
      /\ trigger' = trigger /\ inp' = inp /\ repl' = repl /\ fact' = fact /\ turn' = turn
      /\ Basics
  BY DEF Drain, CanRead, reasonerVars, ReplInv
<1>2. CASE Head(out) # Echo(trigger)
  <2>1. captured' = Append(captured, Head(out)) /\ pc' = pc /\ answers' = answers
    BY <1>2 DEF Drain
  <2>2. Stream' = Stream
    BY <1>1, <2>1, StreamKeeps
  <2>3. CallState' = CallState
    BY <2>1 DEF CallState
  <2>4. Leftover' = Leftover
    BY <2>1, <2>2, LeftoverIs
  <2> QED
    BY <2>1, <2>3, <2>4, CallsStutter
<1>3. CASE Head(out) = Echo(trigger)
  <2>1. /\ captured' = <<>> /\ pc' = "idle" /\ CallState' = "idle"
        /\ answers' = IF pc = "drain" THEN Append(answers, captured) ELSE answers
    BY <1>3 DEF Drain, CallState
  <2>2. IsSeq(Stream')
    <3>1. ReplInv'
      BY DrainStep
    <3>2. IsSeq(captured') /\ IsSeq(out') /\ IsSeq(saying')
      BY <3>1 DEF ReplInv, Basics
    <3>3. Basics /\ captured' = <<>>
      BY <1>1, <2>1
    <3>4. PICK x, y, z : x = captured' /\ y = out' /\ z = saying'
      OBVIOUS
    <3>5. IsSeq(x) /\ IsSeq(y) /\ IsSeq(z)
      BY <3>2, <3>4
    <3>6. IsSeq(x \o y \o z)
      BY <3>5, ThreeParts
    <3> QED
      BY <3>4, <3>6 DEF Stream
  <2>3. ASSUME NEW m, Quiet(m)', Len(answers') = m
        PROVE  \E k \in 0..MaxLines : Leftover' = Calls!Says(m, "after", k)
    <3>1. PICK t : t = Stream'
      OBVIOUS
    <3>2. IsSeq(t) /\ Remains(t, m)
      BY <2>2, <2>3, <3>1 DEF Quiet
    <3>3. \E k \in 0..MaxLines : LateLines(t, m) = Calls!Says(m, "after", k)
      BY <3>2, LateRemains
    <3> QED
      BY <2>3, <3>1, <3>3, LeftoverIs
  <2>4. CASE pc = "setup"
    <3>1. answers = <<>> /\ Toggled(Declaration, 0, 0) /\ answers' = answers
      BY <2>1, <2>4 DEF ReplInv, Phases
    <3>2. Quiet(0)'
      BY <1>1, <1>3, <2>1, <3>1, DrainEnds
    <3>3. Len(answers') = 0
      BY <3>1, SmallSeqs
    <3>4. \E k \in 0..MaxLines : Leftover' = Calls!Says(0, "after", k)
      BY <2>3, <3>2, <3>3
    <3>5. CallState = "starting"
      BY <2>4 DEF CallState
    <3>6. Calls!Ready
      BY <2>1, <3>1, <3>4, <3>5 DEF Calls!Ready
    <3> QED
      BY <3>6 DEF Calls!Next
  <2>5. CASE pc = "drain"
    <3>1. PICK n : n = Len(answers)
      OBVIOUS
    <3>2. Toggled(Phrase, n, n + 1)
      BY <2>5, <3>1 DEF ReplInv, Phases
    <3>3. /\ Quiet(n + 1)'
          /\ \E a \in 0..MaxLines : \E o \in a..a + MaxLines : \E b \in o..o + MaxLines :
                Shape(Stream, trigger, n, n + 1, a, o, b) /\ Len(captured) = b
      BY <1>1, <1>3, <2>1, <3>2, DrainEnds
    <3>4. answers' = Append(answers, captured) /\ Len(answers') = n + 1 /\ n \in Nat
      <4>1. answers \in Seq(Seq(Reports)) /\ captured \in Seq(Reports)
        BY <1>1 DEF Basics
      <4>2. answers' = Append(answers, captured)
        BY <2>1, <2>5
      <4> HIDE DEF Reports
      <4> QED
        BY <3>1, <4>1, <4>2
    <3>5. \E k \in 0..MaxLines : Leftover' = Calls!Says(n + 1, "after", k)
      BY <2>3, <3>3, <3>4
    <3>6. PICK a \in 0..MaxLines : \E o \in a..a + MaxLines : \E b \in o..o + MaxLines :
              Shape(Stream, trigger, n, n + 1, a, o, b) /\ Len(captured) = b
      BY <3>3
    <3>7. PICK o \in a..a + MaxLines : \E b \in o..o + MaxLines :
              Shape(Stream, trigger, n, n + 1, a, o, b) /\ Len(captured) = b
      BY <3>6
    <3>8. PICK b \in o..o + MaxLines : Shape(Stream, trigger, n, n + 1, a, o, b) /\ Len(captured) = b
      BY <3>7
    <3>9. PICK s, c, g, m : s = Stream /\ c = captured /\ g = trigger /\ m = n + 1
      OBVIOUS
    <3>10. /\ IsSeq(s) /\ IsSeq(c) /\ Shape(s, g, n, m, a, o, b) /\ Len(c) = b /\ b + 1 \in 1..Len(s)
           /\ \A i \in 1..b : s[i] = c[i]
      BY <1>1, <3>8, <3>9, StreamParts, NextLine DEF Basics
    <3>11. m = n + 1
      BY <3>9
    <3>12. Answered(c, s, n, m)
      BY <3>4, <3>10, <3>11, LateBeforeEcho
    <3>13. LateLines(s, n) = Leftover
      BY <3>1, <3>9, LeftoverIs
    <3>14. PICK own \in 0..MaxLines, before \in 0..MaxLines :
              c = LateLines(s, n) \o Calls!Says(m, "own", own) \o Calls!Says(m, "before", before)
      BY <3>12 DEF Answered
    <3>15. captured = Leftover \o Calls!Says(n + 1, "own", own) \o Calls!Says(n + 1, "before", before)
      BY <3>9, <3>13, <3>14
    <3>16. CallState = "calling"
      BY <2>5 DEF CallState
    <3>17. PICK after \in 0..MaxLines : Leftover' = Calls!Says(n + 1, "after", after)
      BY <3>5
    <3>18. /\ Len(answers') = n + 1 /\ answers' # <<>>
           /\ answers'[Len(answers')] =
                 Leftover \o Calls!Says(n + 1, "own", own) \o Calls!Says(n + 1, "before", before)
      <4>1. IsSeq(answers)
        BY <1>1 DEF Basics, IsSeq, Range
      <4>2. Len(Append(answers, c)) = n + 1 /\ Append(answers, c)[n + 1] = c
        BY <3>1, <4>1, AppendFacts
      <4>3. PICK t : t = Append(answers, c)
        OBVIOUS
      <4>4. answers' = t /\ Len(t) = n + 1 /\ t[n + 1] = captured
        BY <3>4, <3>9, <4>2, <4>3
      <4>5. n + 1 # 0
        BY <3>1
      <4>6. t # <<>>
        BY <4>4, <4>5, SmallSeqs
      <4> QED
        BY <3>15, <4>4, <4>6
    <3>19. Calls!Answer
      BY <2>1, <3>1, <3>16, <3>17, <3>18 DEF Calls!Answer
    <3> QED
      BY <3>19 DEF Calls!Next
  <2> QED
    BY <1>1, <2>4, <2>5
<1> QED
  BY <1>2, <1>3

(* The driver implements the calls its users rely on, whatever the         *)
(* reasoner does and whenever it ends: a submission returns the lines left *)
(* from the one before, all that is said about its phrase, what is said    *)
(* before the echo of its toggle, and nothing else, in this order; or it   *)
(* raises.  That it does return or raise is ImplementsCalls, less its safety.*)
THEOREM DriverServesCalls == SafeSpec => Calls!Spec
<1>1. Init => Calls!Init
  BY CallsInit
<1>2. ReplInv /\ [Next]_vars => [Calls!Next]_Calls!callVars
  <2> SUFFICES ASSUME ReplInv, [Next]_vars PROVE [Calls!Next]_Calls!callVars
    OBVIOUS
  <2>1. CASE UNCHANGED vars
    <3>1. /\ pc' = pc /\ captured' = captured /\ answers' = answers /\ out' = out /\ saying' = saying
      BY <2>1 DEF vars, driverVars, reasonerVars
    <3>2. CallState' = CallState
      BY <3>1 DEF CallState
    <3>3. Stream' = Stream
      BY <3>1 DEF Stream
    <3>4. Leftover' = Leftover
      BY <3>1, <3>3, LeftoverIs
    <3> QED
      BY <3>1, <3>2, <3>4, CallsStutter
  <2> QED
    BY <2>1, CallsStart, CallsCall, CallsRaise, CallsSpeak, CallsEnd, CallsDrain DEF Next, DriverStep
<1> QED
  BY <1>1, <1>2, ReplInvariance, PTL DEF SafeSpec, Calls!Spec

(* Driver and reasoner never block each other for ever, submit writing and *)
(* the reasoner writing while neither reads, if the pipe to the reasoner   *)
(* holds a phrase and its toggle, or the pipe back all the reasoner may    *)
(* say after an echo: the phrase is taken only once all that is said.      *)
THEOREM NeverChoked ==
    ASSUME PipesSuffice
    PROVE  SafeSpec => []~Choked
<1>1. ReplInv => ~Choked
  <2> SUFFICES ASSUME ReplInv, Choked PROVE FALSE
    OBVIOUS
  <2>1. pc = "toggle" /\ Len(inp) = InCap /\ saying # <<>> /\ Len(out) = OutCap
    BY DEF Choked
  <2>2. Basics /\ Sent(Phrase, Len(answers), Len(answers) + 1)
    BY <2>1 DEF ReplInv, Phases
  <2>3. repl = "up"
    <3>1. repl # "booting"
      BY <2>1 DEF ReplInv, Booted
    <3>2. repl # "dead"
      BY <2>1, <2>2 DEF Basics
    <3> QED
      BY <2>2, <3>1, <3>2 DEF Basics
  <2>4. /\ captured = <<>>
        /\ inp = <<>> \/ (inp = <<Phrase>> /\ Len(Stream) <= MaxLines)
    <3>1. \E a \in 0..MaxLines : inp = <<>> \/ (inp = <<Phrase>> /\ Len(Stream) <= a)
      BY <2>2, <2>3 DEF Sent
    <3>2. Len(Stream) \in Nat /\ MaxLines \in Nat
      BY <2>2, StreamParts, ReplAssumption
    <3> QED
      BY <2>2, <3>1, <3>2 DEF Sent
  <2>5. Len(inp) # 0
    BY <2>1, ReplAssumption
  <2>6. Len(inp) = 1 /\ Len(Stream) <= MaxLines
    BY <2>4, <2>5, SmallSeqs
  <2>7. Len(saying) # 0 /\ Len(saying) \in Nat /\ Len(out) \in Nat
        /\ Len(Stream) = Len(out) + Len(saying)
    <3>1. IsSeq(saying) /\ Len(captured) = 0
      BY <2>2, <2>4, SmallSeqs DEF Basics
    <3>2. Len(saying) # 0
      BY <2>1, <3>1, TailFacts
    <3> QED
      BY <2>2, <3>1, <3>2, StreamParts
  <2>8. OutCap >= MaxLines
    BY <2>1, <2>6, ReplAssumption DEF PipesSuffice
  <2> QED
    BY <2>1, <2>6, <2>7, <2>8, ReplAssumption
<1> QED
  BY <1>1, ReplInvariance, PTL
=============================================================================
