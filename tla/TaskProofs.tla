----------------------------- MODULE TaskProofs -----------------------------
(***************************************************************************)
(* Proofs about what the harness only computes: the comparison passes what *)
(* it should, for every response; the command line leaves nothing out, for *)
(* every directory of manifests; and the readers of eFLINT text find what  *)
(* its author means, in every text.                                        *)
(***************************************************************************)
EXTENDS Tasks, DecisionProofs, SequenceFacts

-----------------------------------------------------------------------------
(* The directory and its table of ids.                                     *)

IdAt(dir, n) == Discovered(dir)[n].id

(* What follows the last manifest of an id has another id.                 *)
LastOf(dir, id, n) ==
    /\ n \in DOMAIN dir /\ IdAt(dir, n) = id
    /\ \A o \in n+1..Len(dir) : IdAt(dir, o) # id

(* An id is resolved to the last manifest that has it.                     *)
LEMMA ResolvedIsLast ==
    ASSUME NEW dir, IsSeq(dir), NEW id \in Ids(dir)
    PROVE  \E n \in DOMAIN dir : LastOf(dir, id, n) /\ Resolved(dir, id) = Discovered(dir)[n]
<1>1. Len(dir) \in Nat /\ DOMAIN dir = 1..Len(dir)
  BY SeqPlaces
<1> DEFINE S == {n \in DOMAIN dir : IdAt(dir, n) = id}
           last(n) == /\ Discovered(dir)[n].id = id
                      /\ \A o \in n+1..Len(dir) : Discovered(dir)[o].id # id
<1>2. S \in SUBSET Nat /\ S # {} /\ \A k \in S : k <= Len(dir)
  BY <1>1 DEF Ids, IdAt
<1>3. PICK m \in S : \A k \in S : k <= m
  <2> HIDE DEF S
  <2> QED
    BY <1>1, <1>2, GreatestElement
<1>4. m \in DOMAIN dir /\ last(m)
  <2>1. ASSUME NEW o \in m+1..Len(dir), Discovered(dir)[o].id = id PROVE FALSE
    <3>1. o \in S /\ ~(o <= m)
      BY <1>1, <1>3, <2>1 DEF IdAt
    <3> QED
      BY <1>3, <3>1
  <2> QED
    BY <1>3, <2>1 DEF IdAt
<1> DEFINE c == CHOOSE n \in DOMAIN dir : last(n)
<1>5. c \in DOMAIN dir /\ last(c)
  <2> HIDE DEF last
  <2> QED
    BY <1>4
<1>6. Resolved(dir, id) = Discovered(dir)[c]
  BY DEF Resolved
<1> HIDE DEF c
<1> QED
  BY <1>5, <1>6 DEF LastOf, IdAt

(* There is one last manifest of an id.                                    *)
LEMMA LastIsUnique ==
    ASSUME NEW dir, IsSeq(dir), NEW id, NEW m, NEW n, LastOf(dir, id, m), LastOf(dir, id, n)
    PROVE  m = n
<1>1. Len(dir) \in Nat /\ DOMAIN dir = 1..Len(dir)
  BY SeqPlaces
<1> QED
  BY <1>1 DEF LastOf

(* The table lists every id once.                                          *)
LEMMA InOrderFacts ==
    ASSUME NEW dir, IsSeq(dir)
    PROVE  /\ \A i \in DOMAIN InOrder(dir) : InOrder(dir)[i] \in Ids(dir)
           /\ \A id \in Ids(dir) : \E i \in DOMAIN InOrder(dir) : InOrder(dir)[i] = id
           /\ \A i, j \in DOMAIN InOrder(dir) : InOrder(dir)[i] = InOrder(dir)[j] => i = j
<1>1. Len(dir) \in Nat /\ DOMAIN dir = 1..Len(dir) /\ IsFiniteSet(DOMAIN dir)
  BY SeqPlaces
<1> DEFINE S == {n \in DOMAIN dir : \A o \in 1..n-1 : Discovered(dir)[o].id # Discovered(dir)[n].id}
           c == Cardinality(S)
           firsts == Ascending(S)
<1>2. S \in SUBSET Nat /\ IsFiniteSet(S)
  <2>1. S \subseteq DOMAIN dir
    OBVIOUS
  <2> HIDE DEF S
  <2> QED
    BY <1>1, <2>1, FS_Subset
<1>3. \A m, n \in S : IdAt(dir, m) = IdAt(dir, n) => m = n
  BY <1>1 DEF IdAt
<1>4. \A n \in DOMAIN dir : \E m \in S : IdAt(dir, m) = IdAt(dir, n)
  <2> SUFFICES ASSUME NEW n \in DOMAIN dir PROVE \E m \in S : IdAt(dir, m) = IdAt(dir, n)
    OBVIOUS
  <2> DEFINE T == {m \in DOMAIN dir : IdAt(dir, m) = IdAt(dir, n)}
  <2>1. T \in SUBSET Nat /\ T # {}
    BY <1>1
  <2>2. PICK m \in T : \A k \in T : m <= k
    <3> HIDE DEF T
    <3> QED
      BY <2>1, LeastElement
  <2>3. ASSUME NEW o \in 1..m-1, Discovered(dir)[o].id = Discovered(dir)[m].id PROVE FALSE
    <3>1. o \in T /\ ~(m <= o)
      BY <1>1, <2>2, <2>3 DEF IdAt
    <3> QED
      BY <2>2, <3>1
  <2> QED
    BY <2>2, <2>3
<1>5. S \subseteq DOMAIN dir
  OBVIOUS
<1>6. /\ DOMAIN InOrder(dir) = DOMAIN firsts
      /\ \A i \in DOMAIN firsts : InOrder(dir)[i] = IdAt(dir, firsts[i])
  BY DEF InOrder, IdAt
<1> HIDE DEF S
<1>7. /\ c \in Nat /\ DOMAIN firsts = 1..c
      /\ \A k \in 1..c : firsts[k] \in S
      /\ \A n \in S : \E k \in 1..c : firsts[k] = n
      /\ \A j, k \in 1..c : j < k => firsts[j] < firsts[k]
  BY <1>2, AscendingFacts
<1> HIDE DEF c, firsts
<1>8. \A j, k \in 1..c : firsts[j] = firsts[k] => j = k
  <2> SUFFICES ASSUME NEW j \in 1..c, NEW k \in 1..c, firsts[j] = firsts[k], j # k PROVE FALSE
    OBVIOUS
  <2>1. j < k \/ k < j
    BY <1>7
  <2>2. firsts[j] < firsts[k] \/ firsts[k] < firsts[j]
    BY <1>7, <2>1
  <2>3. firsts[j] \in Nat
    BY <1>2, <1>7
  <2> QED
    BY <2>2, <2>3
<1>9. Ids(dir) = {IdAt(dir, n) : n \in DOMAIN dir}
  BY DEF Ids, IdAt
<1>10. \A i \in DOMAIN InOrder(dir) : InOrder(dir)[i] \in Ids(dir)
  BY <1>5, <1>6, <1>7, <1>9
<1>11. \A id \in Ids(dir) : \E i \in DOMAIN InOrder(dir) : InOrder(dir)[i] = id
  <2> SUFFICES ASSUME NEW n \in DOMAIN dir
               PROVE  \E i \in DOMAIN InOrder(dir) : InOrder(dir)[i] = IdAt(dir, n)
    BY <1>9
  <2>1. PICK m \in S : IdAt(dir, m) = IdAt(dir, n)
    BY <1>4
  <2>2. PICK k \in 1..c : firsts[k] = m
    BY <1>7
  <2> QED
    BY <1>6, <1>7, <2>1, <2>2
<1>12. \A i, j \in DOMAIN InOrder(dir) : InOrder(dir)[i] = InOrder(dir)[j] => i = j
  BY <1>3, <1>6, <1>7, <1>8
<1> QED
  BY <1>10, <1>11, <1>12

-----------------------------------------------------------------------------
(* The command line.                                                       *)

IsCommand(cmd) ==
    /\ cmd.name \in {"list", "run"} \cup OneScenario
    /\ IsSeq(cmd.ids)
    /\ cmd.name \in OneScenario => cmd.ids # <<>>

(* A command that is accepted asks for ids of the table only.              *)
LEMMA AskedAreIds ==
    ASSUME NEW dir, IsSeq(dir), NEW cmd, IsCommand(cmd), Accepts(dir, cmd), cmd.name # "list"
    PROVE  /\ Asked(dir, cmd) = IF cmd.ids = <<>> THEN InOrder(dir) ELSE cmd.ids
           /\ \A i \in DOMAIN Asked(dir, cmd) : Asked(dir, cmd)[i] \in Ids(dir)
           /\ DOMAIN Chosen(dir, cmd) = DOMAIN Asked(dir, cmd)
           /\ \A i \in DOMAIN Asked(dir, cmd) : Chosen(dir, cmd)[i] = Resolved(dir, Asked(dir, cmd)[i])
<1>1. Asked(dir, cmd) = IF cmd.ids = <<>> THEN InOrder(dir) ELSE cmd.ids
  <2>1. CASE cmd.ids = <<>>
    <3>1. cmd.name = "run"
      BY <2>1 DEF IsCommand
    <3> QED
      BY <2>1, <3>1 DEF Asked
  <2>2. CASE cmd.ids # <<>>
    BY <2>2 DEF Asked
  <2> QED
    BY <2>1, <2>2
<1>2. \A i \in DOMAIN InOrder(dir) : InOrder(dir)[i] \in Ids(dir)
  BY InOrderFacts
<1>3. \A i \in DOMAIN cmd.ids : cmd.ids[i] \in Ids(dir)
  BY DEF Accepts, Range
<1>4. \A i \in DOMAIN Asked(dir, cmd) : Asked(dir, cmd)[i] \in Ids(dir)
  BY <1>1, <1>2, <1>3
<1>5. Chosen(dir, cmd) = [i \in DOMAIN Asked(dir, cmd) |-> Resolved(dir, Asked(dir, cmd)[i])]
  BY DEF Chosen
<1> QED
  BY <1>1, <1>4, <1>5

(* What is run is what the directory holds, each scenario once, or what    *)
(* the ids ask for.                                                        *)
LEMMA CommandRunsAll ==
    ASSUME NEW dir, IsSeq(dir), NEW cmd, IsCommand(cmd)
    PROVE  RunsWhatIsThere(dir, cmd)
<1> SUFFICES ASSUME Accepts(dir, cmd), cmd.name # "list" PROVE RunsWhatIsThere(dir, cmd)
  BY DEF RunsWhatIsThere
<1> DEFINE chosen == Chosen(dir, cmd)
           asked  == Asked(dir, cmd)
           Shadowed(n) == \E o \in n+1..Len(dir) : Discovered(dir)[o].id = Discovered(dir)[n].id
           plain == {n \in DOMAIN dir : ~Shadowed(n)}
<1>1. /\ asked = IF cmd.ids = <<>> THEN InOrder(dir) ELSE cmd.ids
      /\ \A i \in DOMAIN asked : asked[i] \in Ids(dir)
      /\ DOMAIN chosen = DOMAIN asked
      /\ \A i \in DOMAIN asked : chosen[i] = Resolved(dir, asked[i])
  BY AskedAreIds
<1>2. \A n \in DOMAIN dir : n \in plain <=> LastOf(dir, IdAt(dir, n), n)
  BY DEF LastOf, IdAt
<1> HIDE DEF chosen, asked, plain
<1>3. \A i \in DOMAIN chosen : \E n \in DOMAIN dir :
          /\ LastOf(dir, asked[i], n) /\ chosen[i] = Discovered(dir)[n] /\ chosen[i].id = asked[i]
  <2> SUFFICES ASSUME NEW i \in DOMAIN chosen
               PROVE  \E n \in DOMAIN dir :
                        /\ LastOf(dir, asked[i], n) /\ chosen[i] = Discovered(dir)[n] /\ chosen[i].id = asked[i]
    OBVIOUS
  <2>1. asked[i] \in Ids(dir) /\ chosen[i] = Resolved(dir, asked[i])
    BY <1>1
  <2>2. PICK n \in DOMAIN dir : LastOf(dir, asked[i], n) /\ Resolved(dir, asked[i]) = Discovered(dir)[n]
    BY <2>1, ResolvedIsLast
  <2> QED
    BY <2>1, <2>2 DEF LastOf, IdAt
<1>4. ASSUME cmd.ids = <<>>
      PROVE  /\ Range(chosen) = {Discovered(dir)[n] : n \in plain}
             /\ \A i, j \in DOMAIN chosen : chosen[i].id = chosen[j].id => i = j
  <2>1. /\ asked = InOrder(dir)
        /\ \A id \in Ids(dir) : \E i \in DOMAIN asked : asked[i] = id
        /\ \A i, j \in DOMAIN asked : asked[i] = asked[j] => i = j
    BY <1>1, <1>4, InOrderFacts
  <2>2. ASSUME NEW i \in DOMAIN chosen PROVE \E n \in plain : chosen[i] = Discovered(dir)[n]
    <3>1. PICK n \in DOMAIN dir : LastOf(dir, asked[i], n) /\ chosen[i] = Discovered(dir)[n]
      BY <1>3
    <3>2. LastOf(dir, IdAt(dir, n), n)
      BY <3>1 DEF LastOf
    <3> QED
      BY <1>2, <3>1, <3>2
  <2>3. ASSUME NEW n \in plain PROVE \E i \in DOMAIN chosen : chosen[i] = Discovered(dir)[n]
    <3>1. n \in DOMAIN dir /\ LastOf(dir, IdAt(dir, n), n)
      BY <1>2 DEF plain
    <3>2. IdAt(dir, n) \in Ids(dir)
      BY <3>1 DEF Ids, IdAt
    <3>3. PICK i \in DOMAIN asked : asked[i] = IdAt(dir, n)
      BY <2>1, <3>2
    <3>4. PICK m \in DOMAIN dir : LastOf(dir, asked[i], m) /\ chosen[i] = Discovered(dir)[m]
      BY <1>1, <1>3
    <3>5. m = n
      BY <3>1, <3>3, <3>4, LastIsUnique
    <3> QED
      BY <1>1, <3>4, <3>5
  <2>4. Range(chosen) = {Discovered(dir)[n] : n \in plain}
    BY <2>2, <2>3 DEF Range
  <2>5. \A i, j \in DOMAIN chosen : chosen[i].id = chosen[j].id => i = j
    BY <1>1, <1>3, <2>1
  <2> QED
    BY <2>4, <2>5
<1>5. ASSUME cmd.ids # <<>> PROVE cmd.ids = [i \in DOMAIN chosen |-> chosen[i].id]
  <2> DEFINE s == cmd.ids
  <2>1. asked = s /\ DOMAIN chosen = DOMAIN s
    BY <1>1, <1>5
  <2>2. s \in Seq(Range(s))
    BY DEF IsCommand, IsSeq
  <2> HIDE DEF s
  <2>3. s = [i \in DOMAIN s |-> s[i]]
    BY <2>2
  <2>4. \A i \in DOMAIN chosen : chosen[i].id = s[i]
    BY <1>3, <2>1
  <2>5. s = [i \in DOMAIN chosen |-> chosen[i].id]
    BY <2>1, <2>3, <2>4
  <2> QED
    BY <2>5 DEF s
<1> QED
  BY <1>4, <1>5 DEF RunsWhatIsThere, chosen, plain

(* Success means that all that was run passed, and that something was run  *)
(* if there was anything; every manifest could be read.                    *)
LEMMA CommandSucceeds ==
    ASSUME NEW dir, IsSeq(dir), NEW cmd, IsCommand(cmd), NEW ok
    PROVE  SuccessIsEarned(dir, cmd, ok)
<1> SUFFICES ASSUME ExitCode(dir, cmd, ok) = 0, cmd.name # "list" PROVE SuccessIsEarned(dir, cmd, ok)
  BY DEF SuccessIsEarned
<1>1. Accepts(dir, cmd) /\ \A i \in DOMAIN Chosen(dir, cmd) : ok[i]
  BY DEF ExitCode
<1>2. ASSUME NEW n \in DOMAIN dir
      PROVE  /\ Range(OneOf(IF Empty(dir[n].assertions) THEN Missing ELSE dir[n].assertions, <<>>))
                  \subseteq Assertions
             /\ dir[n].request.data_providers # <<>>
  <2>1. Loads(dir[n])
    BY <1>1 DEF Accepts, Discoverable
  <2>2. dir[n].request.data_providers # <<>>
    BY <2>1 DEF Loads
  <2>3. CASE Empty(dir[n].assertions)
    BY <2>2, <2>3, SmallSeqs DEF OneOf
  <2>4. CASE ~Empty(dir[n].assertions)
    BY <2>1, <2>2, <2>4 DEF OneOf, Empty, NoValue, Loads
  <2> QED
    BY <2>3, <2>4
<1>3. ASSUME Chosen(dir, cmd) = <<>> PROVE dir = <<>>
  <2>1. DOMAIN Asked(dir, cmd) = {} /\ Asked(dir, cmd) = IF cmd.ids = <<>> THEN InOrder(dir) ELSE cmd.ids
    BY <1>1, <1>3, AskedAreIds
  <2>2. cmd.ids = <<>>
    <3>1. ASSUME cmd.ids # <<>> PROVE FALSE
      <4>1. DOMAIN cmd.ids = {} /\ IsSeq(cmd.ids)
        BY <2>1, <3>1 DEF IsCommand
      <4> DEFINE s == cmd.ids
      <4>2. IsSeq(s) /\ DOMAIN s = {}
        BY <4>1
      <4> HIDE DEF s
      <4>3. Len(s) = 0 /\ IsSeq(<<>>) /\ Len(<<>>) = 0
        BY <4>2, SeqPlaces, SmallSeqs
      <4>4. s = <<>>
        BY <4>2, <4>3, SeqEqual
      <4> QED
        BY <3>1, <4>4 DEF s
    <3> QED
      BY <3>1
  <2>3. Ids(dir) = {}
    BY <2>1, <2>2, InOrderFacts
  <2>4. DOMAIN dir = {}
    BY <2>3 DEF Ids
  <2>5. Len(dir) = 0 /\ IsSeq(<<>>) /\ Len(<<>>) = 0
    BY <2>4, SeqPlaces, SmallSeqs
  <2> QED
    BY <2>5, SeqEqual
<1> QED
  BY <1>1, <1>2, <1>3 DEF SuccessIsEarned

-----------------------------------------------------------------------------
(* flatten_file and flatten.py.  A text: its lines hold sequences.         *)
AreLines(lines) == IsSeq(lines) /\ \A n \in 1..Len(lines) : IsSeq(lines[n].text)

(* What the loop holds before the first line and after each.               *)
NothingRead == [phrases |-> <<>>, current |-> <<>>]

IsReading(r, lines, skipped) ==
    r[0] = NothingRead /\ \A n \in 1..Len(lines) : r[n] = Join(r[n-1], lines[n], skipped)

(* The loop has an accumulator before every line.                          *)
LEMMA FlattenedReads ==
    ASSUME NEW lines, AreLines(lines), NEW skipped
    PROVE  \E r : IsReading(r, lines, skipped) /\ Flattened(lines, skipped) = Flushed(r[Len(lines)])
<1>1. PICK N : N = Len(lines)
  OBVIOUS
<1>2. N \in Nat
  BY <1>1, SeqPlaces DEF AreLines
<1> DEFINE T == UNION {Range(lines[n].text) : n \in 1..N}
           Y == Seq(T)
           X == [phrases : Seq(Y), current : Y]
           step == [n \in 1..N |-> [a \in X |-> Join(a, lines[n], skipped)]]
<1>3. NothingRead \in X
  BY DEF NothingRead
<1>4. ASSUME NEW n \in 1..N, NEW a \in X PROVE Join(a, lines[n], skipped) \in X
  <2>1. PICK line, text : line = lines[n] /\ text = line.text
    OBVIOUS
  <2>2. text \in Seq(Range(text)) /\ Range(text) \subseteq T
    <3>1. IsSeq(lines[n].text)
      BY <1>1 DEF AreLines
    <3>2. Range(lines[n].text) \subseteq T
      OBVIOUS
    <3> HIDE DEF T
    <3> QED
      BY <2>1, <3>1, <3>2 DEF IsSeq
  <2> HIDE DEF T
  <2>3. text \in Seq(T)
    BY <2>2
  <2>4. \A p \in Y : p \o text \in Y
    BY <2>3
  <2> HIDE DEF Y
  <2>5. PICK p, c : p = a.phrases /\ c = a.current /\ p \in Seq(Y) /\ c \in Y
    OBVIOUS
  <2>6. /\ [a EXCEPT !.current = a.current \o text] \in X
        /\ Flushed(a) \in Seq(Y)
    <3>1. Append(p, c) \in Seq(Y)
      BY <2>5
    <3> QED
      BY <2>4, <2>5, <3>1 DEF Flushed
  <2>7. [phrases |-> Flushed(a), current |-> text] \in X
    BY <2>3, <2>6 DEF Y
  <2> HIDE DEF X
  <2>8. Join(a, line, skipped) \in X
    BY <2>1, <2>6, <2>7 DEF Join
  <2> QED
    BY <2>1, <2>8
<1> HIDE DEF X
<1>5. \A n \in 1..N : \A a \in X : step[n][a] = Join(a, lines[n], skipped)
  OBVIOUS
<1>6. PICK f \in [0..N -> X] : IsTrace(f, NothingRead, step, N)
  <2>1. StaysIn(X, step, N)
    BY <1>4, <1>5 DEF StaysIn
  <2> HIDE DEF step
  <2> QED
    BY <1>2, <1>3, <2>1, LoopHasTrace
<1> HIDE DEF step
<1>7. f[0] = NothingRead /\ \A n \in 1..N : f[n] = Join(f[n-1], lines[n], skipped)
  <2> SUFFICES ASSUME NEW n \in 1..N PROVE f[n] = Join(f[n-1], lines[n], skipped)
    BY <1>6 DEF IsTrace
  <2>1. n - 1 \in 0..N
    BY <1>2
  <2>2. f[n-1] \in X /\ f[n] = step[n][f[n-1]]
    BY <1>6, <2>1 DEF IsTrace
  <2> QED
    BY <1>5, <2>2
<1> DEFINE Solves(g) == g = [n \in 0..N |-> IF n = 0 THEN NothingRead ELSE Join(g[n-1], lines[n], skipped)]
           r == CHOOSE g : Solves(g)
<1>8. Solves(f)
  <2>1. \A n \in 0..N : f[n] = IF n = 0 THEN NothingRead ELSE Join(f[n-1], lines[n], skipped)
    BY <1>2, <1>7
  <2>2. f = [n \in 0..N |-> f[n]]
    BY <1>6
  <2> QED
    BY <2>1, <2>2
<1>9. Solves(r)
  <2> HIDE DEF Solves
  <2> QED
    BY <1>8
<1>10. Flattened(lines, skipped) = Flushed(r[N])
  BY <1>1 DEF Flattened, NothingRead
<1> HIDE DEF r
<1>11. r[0] = NothingRead /\ \A n \in 1..N : r[n] = Join(r[n-1], lines[n], skipped)
  <2>1. r[0] = NothingRead
    BY <1>2, <1>9
  <2>2. ASSUME NEW n \in 1..N PROVE r[n] = Join(r[n-1], lines[n], skipped)
    <3>1. n \in 0..N /\ n # 0
      BY <1>2
    <3> QED
      BY <1>9, <3>1
  <2> QED
    BY <2>1, <2>2
<1> QED
  BY <1>1, <1>10, <1>11 DEF IsReading

(* An accumulator of the loop.                                             *)
IsAcc(acc) ==
    /\ acc = [phrases |-> acc.phrases, current |-> acc.current]
    /\ IsSeq(acc.phrases) /\ IsSeq(acc.current)

Skips(line, skipped) == line.text = <<>> \/ StartsWith(line, skipped)

Joined(acc, line, skipped, next) ==
    /\ IsAcc(next)
    /\ Skips(line, skipped) => next = acc
    /\ ~Skips(line, skipped) /\ line.indented /\ acc.current # <<>> =>
         next.phrases = acc.phrases /\ next.current = acc.current \o line.text
    /\ ~Skips(line, skipped) /\ ~(line.indented /\ acc.current # <<>>) =>
         next.phrases = Flushed(acc) /\ next.current = line.text

(* What one line does to the accumulator.                                  *)
LEMMA JoinFacts ==
    ASSUME NEW acc, IsAcc(acc), NEW line, IsSeq(line.text), NEW skipped
    PROVE  Joined(acc, line, skipped, Join(acc, line, skipped))
<1>1. PICK next, p, c, text : next = Join(acc, line, skipped) /\ p = acc.phrases /\ c = acc.current /\ text = line.text
  OBVIOUS
<1>2. acc = [phrases |-> p, current |-> c] /\ IsSeq(p) /\ IsSeq(c) /\ IsSeq(text)
  BY <1>1 DEF IsAcc
<1>3. IsSeq(c \o text) /\ IsSeq(Append(p, c))
  BY <1>2, ConcatFacts, AppendFacts
<1>4. PICK q, f : q = c \o text /\ f = Flushed(acc)
  OBVIOUS
<1>5. IsSeq(q) /\ IsSeq(f)
  <2>1. f = IF c = <<>> THEN p ELSE Append(p, c)
    BY <1>1, <1>4 DEF Flushed
  <2> QED
    BY <1>2, <1>3, <1>4, <2>1
<1>6. CASE Skips(line, skipped)
  BY <1>1, <1>6 DEF Join, Skips, Joined
<1>7. CASE ~Skips(line, skipped) /\ line.indented /\ acc.current # <<>>
  <2>1. next = [phrases |-> p, current |-> q]
    BY <1>1, <1>2, <1>4, <1>7 DEF Join, Skips
  <2>2. IsAcc(next)
    BY <1>2, <1>5, <2>1 DEF IsAcc
  <2>3. next.phrases = p /\ next.current = q
    BY <2>1
  <2> HIDE DEF IsAcc, Skips
  <2> QED
    BY <1>1, <1>4, <1>7, <2>2, <2>3 DEF Joined
<1>8. CASE ~Skips(line, skipped) /\ ~(line.indented /\ acc.current # <<>>)
  <2>1. next = [phrases |-> f, current |-> text]
    BY <1>1, <1>4, <1>8 DEF Join, Skips
  <2>2. IsAcc(next)
    BY <1>2, <1>5, <2>1 DEF IsAcc
  <2>3. next.phrases = f /\ next.current = text
    BY <2>1
  <2> HIDE DEF IsAcc, Skips
  <2> QED
    BY <1>1, <1>4, <1>8, <2>2, <2>3 DEF Joined
<1> QED
  BY <1>6, <1>7, <1>8

-----------------------------------------------------------------------------
(* The phrases up to a line.                                               *)
Opened(lines, n) == {m \in 1..n : IsOpening(lines[m])}

BlockTo(lines, o, n) ==
    {m \in o..n : IsCode(lines[m]) /\ \A q \in o+1..m : ~IsOpening(lines[q])}

MeantTo(lines, o, n) == Gathered(Texts(lines), BlockTo(lines, o, n))

(* A line opens a phrase, belongs to the last one, or is not code.         *)
LEMMA OpenedGrows ==
    ASSUME NEW lines, NEW n \in Nat
    PROVE  /\ Opened(lines, 0) = {} /\ Opened(lines, n) \subseteq 1..n
           /\ IsOpening(lines[n+1]) => Opened(lines, n+1) = Opened(lines, n) \cup {n+1}
           /\ ~IsOpening(lines[n+1]) => Opened(lines, n+1) = Opened(lines, n)
  BY DEF Opened

(* The lines of the last phrase, one line further.                         *)
LEMMA BlockGrows ==
    ASSUME NEW lines, NEW n \in Nat, NEW o \in Opened(lines, n), \A m \in Opened(lines, n) : m <= o
    PROVE  /\ BlockTo(lines, o, n) \subseteq 1..n
           /\ IsCode(lines[n+1]) /\ ~IsOpening(lines[n+1]) =>
                BlockTo(lines, o, n+1) = BlockTo(lines, o, n) \cup {n+1}
           /\ ~IsCode(lines[n+1]) => BlockTo(lines, o, n+1) = BlockTo(lines, o, n)
           /\ IsOpening(lines[n+1]) => \A k \in Nat : k > n => BlockTo(lines, o, k) = BlockTo(lines, o, n)
<1>1. o \in 1..n /\ IsOpening(lines[o]) /\ \A q \in o+1..n : ~IsOpening(lines[q])
  BY DEF Opened
<1>2. BlockTo(lines, o, n) \subseteq 1..n
  BY <1>1 DEF BlockTo
<1>3. CASE IsCode(lines[n+1]) /\ ~IsOpening(lines[n+1])
  <2>1. \A q \in o+1..n+1 : ~IsOpening(lines[q])
    BY <1>1, <1>3
  <2>2. BlockTo(lines, o, n+1) = BlockTo(lines, o, n) \cup {n+1}
    BY <1>1, <1>3, <2>1 DEF BlockTo
  <2> QED
    BY <1>2, <1>3, <2>2
<1>4. CASE ~IsCode(lines[n+1])
  <2>1. BlockTo(lines, o, n+1) = BlockTo(lines, o, n)
    BY <1>1, <1>4 DEF BlockTo
  <2> QED
    BY <1>2, <1>4, <2>1 DEF IsOpening
<1>5. CASE IsOpening(lines[n+1])
  <2> SUFFICES ASSUME NEW k \in Nat, k > n PROVE BlockTo(lines, o, k) = BlockTo(lines, o, n)
    BY <1>2, <1>5 DEF IsOpening
  <2>1. ASSUME NEW m \in BlockTo(lines, o, k) PROVE m \in BlockTo(lines, o, n)
    <3>1. m \in o..k /\ n + 1 \notin o+1..m
      BY <1>5, <2>1 DEF BlockTo
    <3>2. m \in o..n
      BY <1>1, <3>1
    <3> QED
      BY <2>1, <3>2 DEF BlockTo
  <2>2. ASSUME NEW m \in BlockTo(lines, o, n) PROVE m \in BlockTo(lines, o, k)
    BY <1>1, <2>2 DEF BlockTo
  <2> QED
    BY <2>1, <2>2
<1> QED
  BY <1>3, <1>4, <1>5

(* They start with the line that opens it.                                 *)
LEMMA BlockBegins ==
    ASSUME NEW lines, NEW n \in Nat, IsOpening(lines[n])
    PROVE  BlockTo(lines, n, n) = {n}
  BY DEF BlockTo, IsOpening

(* The text of a phrase grows with its lines.                              *)
LEMMA MeantGrows ==
    ASSUME NEW lines, AreLines(lines), NEW n \in Nat, n < Len(lines)
    PROVE  /\ IsCode(lines[n+1]) => lines[n+1].text # <<>>
           /\ IsOpening(lines[n+1]) => MeantTo(lines, n+1, n+1) = lines[n+1].text
           /\ \A o \in Opened(lines, n) : (\A m \in Opened(lines, n) : m <= o) =>
                /\ IsSeq(MeantTo(lines, o, n))
                /\ IsCode(lines[n+1]) /\ ~IsOpening(lines[n+1]) =>
                     MeantTo(lines, o, n+1) = MeantTo(lines, o, n) \o lines[n+1].text
                /\ ~IsCode(lines[n+1]) => MeantTo(lines, o, n+1) = MeantTo(lines, o, n)
                /\ IsOpening(lines[n+1]) => Meant(lines, o) = MeantTo(lines, o, n)
<1>1. PICK N, t : N = Len(lines) /\ t = Texts(lines)
  OBVIOUS
<1>2. /\ N \in Nat /\ DOMAIN lines = 1..N
      /\ \A m \in 1..N : t[m] = lines[m].text /\ IsSeq(t[m])
  BY <1>1, SeqPlaces DEF AreLines, Texts
<1>3. n + 1 \in 1..N /\ t[n+1] = lines[n+1].text /\ IsSeq(t[n+1])
  BY <1>1, <1>2
<1>4. IsOpening(lines[n+1]) => MeantTo(lines, n+1, n+1) = lines[n+1].text
  <2> SUFFICES ASSUME IsOpening(lines[n+1]) PROVE MeantTo(lines, n+1, n+1) = lines[n+1].text
    OBVIOUS
  <2>1. PICK k : k = n + 1 /\ k \in Nat
    OBVIOUS
  <2>2. BlockTo(lines, k, k) = {k}
    BY <2>1, BlockBegins
  <2>3. Gathered(t, {k}) = t[k]
    BY <1>3, <2>1, GatheredFacts
  <2> QED
    BY <1>1, <1>3, <2>1, <2>2, <2>3 DEF MeantTo
<1>5. ASSUME NEW o \in Opened(lines, n), \A m \in Opened(lines, n) : m <= o
      PROVE  /\ IsSeq(MeantTo(lines, o, n))
             /\ IsCode(lines[n+1]) /\ ~IsOpening(lines[n+1]) =>
                  MeantTo(lines, o, n+1) = MeantTo(lines, o, n) \o lines[n+1].text
             /\ ~IsCode(lines[n+1]) => MeantTo(lines, o, n+1) = MeantTo(lines, o, n)
             /\ IsOpening(lines[n+1]) => Meant(lines, o) = MeantTo(lines, o, n)
  <2>1. PICK S : S = BlockTo(lines, o, n)
    OBVIOUS
  <2>2. /\ S \subseteq 1..n
        /\ IsCode(lines[n+1]) /\ ~IsOpening(lines[n+1]) => BlockTo(lines, o, n+1) = S \cup {n+1}
        /\ ~IsCode(lines[n+1]) => BlockTo(lines, o, n+1) = S
        /\ IsOpening(lines[n+1]) => BlockTo(lines, o, N) = S
    BY <1>1, <1>2, <1>5, <2>1, BlockGrows
  <2>3. S \in SUBSET Nat /\ IsFiniteSet(S) /\ (\A m \in S : m < n + 1) /\ \A m \in S : IsSeq(t[m])
    <3>1. S \in SUBSET Nat /\ IsFiniteSet(S)
      BY <2>2, SomePlaces
    <3> QED
      BY <1>1, <1>2, <2>2, <3>1
  <2>4. IsSeq(Gathered(t, S)) /\ Gathered(t, S \cup {n+1}) = Gathered(t, S) \o t[n+1]
    <3>1. PICK k : k = n + 1 /\ k \in Nat
      OBVIOUS
    <3>2. (\A m \in S : m < k) /\ IsSeq(t[k])
      BY <1>3, <2>3, <3>1
    <3>3. IsSeq(Gathered(t, S)) /\ Gathered(t, S \cup {k}) = Gathered(t, S) \o t[k]
      BY <2>3, <3>1, <3>2, GatheredFacts
    <3> QED
      BY <3>1, <3>3
  <2>5. Block(lines, o) = BlockTo(lines, o, N)
    BY <1>1 DEF Block, BlockTo
  <2> QED
    BY <1>1, <1>3, <2>1, <2>2, <2>4, <2>5 DEF MeantTo, Meant, Gathered
<1>6. IsCode(lines[n+1]) => lines[n+1].text # <<>>
  BY DEF IsCode
<1> QED
  BY <1>4, <1>5, <1>6

(* At the end every line of a phrase is in.                                *)
LEMMA MeantEnds ==
    ASSUME NEW lines, AreLines(lines)
    PROVE  /\ Opened(lines, Len(lines)) = Openings(lines)
           /\ \A o : MeantTo(lines, o, Len(lines)) = Meant(lines, o)
<1>1. DOMAIN lines = 1..Len(lines)
  BY SeqPlaces DEF AreLines
<1>2. \A o : Block(lines, o) = BlockTo(lines, o, Len(lines))
  BY DEF Block, BlockTo
<1> QED
  BY <1>1, <1>2 DEF Opened, Openings, MeantTo, Meant, Gathered

(* What flatten_file holds after n lines: the phrases that are closed, and *)
(* the last one as far as it is read.                                      *)
HoldsMeant(r, lines, n) ==
    LET opened == Opened(lines, n)
    IN  /\ IsAcc(r[n])
        /\ opened = {} => r[n] = NothingRead
        /\ \A o \in opened : (\A m \in opened : m <= o) =>
             /\ r[n].current = MeantTo(lines, o, n) /\ r[n].current # <<>>
             /\ r[n].phrases = Picked([m \in DOMAIN lines |-> Meant(lines, m)], opened \ {o})

(* One line of flatten_file.                                               *)
LEMMA MeantStep ==
    ASSUME NEW lines, AreLines(lines), LaidOut(lines), NEW r, NEW n \in Nat, n < Len(lines),
           r[n+1] = Join(r[n], lines[n+1], {Slashes, Guard} \cup Directives),
           HoldsMeant(r, lines, n)
    PROVE  HoldsMeant(r, lines, n+1)
<1>1. PICK N, k, line, skipped, opened, before, after, meant :
           /\ N = Len(lines) /\ k = n + 1 /\ line = lines[k]
           /\ skipped = {Slashes, Guard} \cup Directives
           /\ opened = Opened(lines, n) /\ before = r[n] /\ after = r[k]
           /\ meant = [m \in DOMAIN lines |-> Meant(lines, m)]
  OBVIOUS
<1>2. /\ N \in Nat /\ DOMAIN lines = 1..N /\ k \in 1..N /\ IsSeq(line.text)
  BY <1>1, SeqPlaces DEF AreLines
<1>3. /\ IsAcc(before)
      /\ opened = {} => before = NothingRead
      /\ \A o \in opened : (\A m \in opened : m <= o) =>
             /\ before.current = MeantTo(lines, o, n) /\ before.current # <<>>
             /\ before.phrases = Picked(meant, opened \ {o})
  BY <1>1 DEF HoldsMeant
<1>4. /\ opened \subseteq 1..n
      /\ IsOpening(line) => Opened(lines, k) = opened \cup {k}
      /\ ~IsOpening(line) => Opened(lines, k) = opened
  BY <1>1, OpenedGrows
<1>5. /\ IsAcc(after)
      /\ Skips(line, skipped) => after = before
      /\ ~Skips(line, skipped) /\ line.indented /\ before.current # <<>> =>
           after.phrases = before.phrases /\ after.current = before.current \o line.text
      /\ ~Skips(line, skipped) /\ ~(line.indented /\ before.current # <<>>) =>
           after.phrases = Flushed(before) /\ after.current = line.text
  <2>1. after = Join(before, line, skipped)
    BY <1>1
  <2>2. IsAcc(before) /\ IsSeq(line.text)
    BY <1>2, <1>3
  <2>3. Joined(before, line, skipped, after)
    BY <2>1, <2>2, JoinFacts
  <2> QED
    BY <2>3 DEF Joined
<1>6. IsCode(line) <=> ~Skips(line, skipped)
  BY <1>1 DEF IsCode, Skips
<1>7. opened \in SUBSET Nat /\ IsFiniteSet(opened) /\ \A m \in opened : m < k
  <2>1. \A m \in opened : m < k
    BY <1>1, <1>4
  <2> QED
    BY <1>4, <2>1, SomePlaces
<1>8. \A o \in opened : (\A m \in opened : m <= o) =>
         /\ IsSeq(MeantTo(lines, o, n))
         /\ IsCode(line) /\ ~IsOpening(line) => MeantTo(lines, o, k) = MeantTo(lines, o, n) \o line.text
         /\ ~IsCode(line) => MeantTo(lines, o, k) = MeantTo(lines, o, n)
         /\ IsOpening(line) => Meant(lines, o) = MeantTo(lines, o, n)
  BY <1>1, MeantGrows
<1>9. SUFFICES
        /\ Opened(lines, k) = {} => after = NothingRead
        /\ \A o \in Opened(lines, k) : (\A m \in Opened(lines, k) : m <= o) =>
             /\ after.current = MeantTo(lines, o, k) /\ after.current # <<>>
             /\ after.phrases = Picked(meant, Opened(lines, k) \ {o})
  BY <1>1, <1>5 DEF HoldsMeant
<1>10. CASE ~IsCode(line)
  <2>1. Opened(lines, k) = opened /\ after = before
    BY <1>4, <1>5, <1>6, <1>10 DEF IsOpening
  <2> QED
    BY <1>3, <1>8, <1>10, <2>1
<1>11. CASE IsCode(line) /\ ~IsOpening(line)
  <2>1. Opened(lines, k) = opened
    BY <1>4, <1>11
  <2>2. opened # {}
    <3>1. \E m \in 1..k : IsOpening(lines[m])
      BY <1>1, <1>2, <1>11 DEF LaidOut
    <3>2. Opened(lines, k) # {}
      BY <3>1 DEF Opened
    <3> QED
      BY <2>1, <3>2
  <2>3. line.indented
    BY <1>11 DEF IsOpening
  <2>4. ASSUME NEW o \in opened, \A m \in opened : m <= o
        PROVE  /\ after.current = MeantTo(lines, o, k) /\ after.current # <<>>
               /\ after.phrases = Picked(meant, opened \ {o})
    <3>1. PICK c, text : c = before.current /\ text = line.text
      OBVIOUS
    <3>2. c = MeantTo(lines, o, n) /\ c # <<>> /\ IsSeq(c) /\ before.phrases = Picked(meant, opened \ {o})
      BY <1>3, <1>8, <2>4, <3>1
    <3>3. after.phrases = before.phrases /\ after.current = c \o text
      BY <1>5, <1>6, <1>11, <2>3, <3>1, <3>2
    <3>4. MeantTo(lines, o, k) = c \o text
      BY <1>8, <1>11, <2>4, <3>1, <3>2
    <3>5. c \o text # <<>>
      <4>1. Len(c \o text) = Len(c) + Len(text) /\ Len(c) \in Nat /\ Len(text) \in Nat
        BY <1>2, <3>1, <3>2, ConcatFacts, SeqPlaces
      <4>2. Len(c) # 0
        BY <3>2, SmallSeqs, SeqEqual
      <4> QED
        BY <4>1, <4>2, SmallSeqs
    <3> QED
      BY <3>2, <3>3, <3>4, <3>5
  <2> QED
    BY <2>1, <2>2, <2>4
<1>12. CASE IsOpening(line)
  <2>1. IsCode(line) /\ ~line.indented /\ Opened(lines, k) = opened \cup {k}
    BY <1>4, <1>12 DEF IsOpening
  <2>2. after.phrases = Flushed(before) /\ after.current = line.text
    BY <1>5, <1>6, <2>1
  <2>3. line.text # <<>> /\ MeantTo(lines, k, k) = line.text
    BY <1>1, <1>12, <2>1, MeantGrows
  <2>4. Flushed(before) = Picked(meant, opened)
    <3>1. CASE opened = {}
      <4>1. Flushed(before) = <<>>
        BY <1>3, <3>1 DEF Flushed, NothingRead
      <4> QED
        BY <3>1, <4>1, PickedNone
    <3>2. CASE opened # {}
      <4>1. PICK o \in opened : \A m \in opened : m <= o
        <5>1. \A m \in opened : m <= n
          BY <1>4
        <5> QED
          BY <1>7, <3>2, <5>1, GreatestElement
      <4>2. PICK rest : rest = opened \ {o}
        OBVIOUS
      <4>3. rest \in SUBSET Nat /\ IsFiniteSet(rest) /\ o \in Nat /\ (\A m \in rest : m < o) /\ rest \cup {o} = opened
        <5>1. IsFiniteSet(rest)
          BY <1>7, <4>2, FS_Subset
        <5>2. \A m \in rest : m < o
          BY <1>7, <4>1, <4>2
        <5> QED
          BY <1>7, <4>1, <4>2, <5>1, <5>2
      <4>4. before.current = Meant(lines, o) /\ before.current # <<>> /\ before.phrases = Picked(meant, rest)
        BY <1>3, <1>8, <1>12, <4>1, <4>2
      <4>5. meant[o] = Meant(lines, o)
        BY <1>1, <1>2, <1>4, <4>1
      <4>6. Picked(meant, opened) = Append(Picked(meant, rest), meant[o])
        BY <4>3, PickedGrows
      <4> QED
        BY <4>4, <4>5, <4>6 DEF Flushed
    <3> QED
      BY <3>1, <3>2
  <2>5. ASSUME NEW o \in opened \cup {k}, \A m \in opened \cup {k} : m <= o
        PROVE  o = k /\ (opened \cup {k}) \ {o} = opened
    <3>1. o = k
      BY <1>2, <1>7, <2>5
    <3> QED
      BY <1>2, <1>7, <3>1
  <2> QED
    BY <2>1, <2>2, <2>3, <2>4, <2>5
<1> QED
  BY <1>10, <1>11, <1>12 DEF IsOpening

(* flatten_file reads the phrases the layout means, of any text.           *)
LEMMA FlattenReadsMeant ==
    ASSUME NEW lines, AreLines(lines)
    PROVE  FlattenKeepsPhrases(lines)
<1> SUFFICES ASSUME LaidOut(lines) PROVE FlattenFile(lines) = MeantPhrases(lines)
  BY DEF FlattenKeepsPhrases
<1>1. PICK N, skipped, meant :
         /\ N = Len(lines) /\ skipped = {Slashes, Guard} \cup Directives
         /\ meant = [m \in DOMAIN lines |-> Meant(lines, m)]
  OBVIOUS
<1>2. N \in Nat /\ DOMAIN lines = 1..N
  BY <1>1, SeqPlaces DEF AreLines
<1>3. PICK r : IsReading(r, lines, skipped) /\ FlattenFile(lines) = Flushed(r[N])
  BY <1>1, FlattenedReads DEF FlattenFile
<1> DEFINE S == {n \in Nat : n <= N => HoldsMeant(r, lines, n)}
<1>4. 0 \in S
  <2>1. r[0] = NothingRead /\ Opened(lines, 0) = {}
    BY <1>3, OpenedGrows DEF IsReading
  <2>2. IsAcc(NothingRead)
    BY SmallSeqs DEF IsAcc, NothingRead
  <2> QED
    BY <2>1, <2>2 DEF HoldsMeant
<1>5. ASSUME NEW n \in Nat, n \in S PROVE n + 1 \in S
  <2> SUFFICES ASSUME n + 1 <= N PROVE HoldsMeant(r, lines, n + 1)
    OBVIOUS
  <2>1. n < N /\ n + 1 \in 1..N /\ (n + 1) - 1 = n /\ HoldsMeant(r, lines, n)
    BY <1>2, <1>5
  <2>2. r[n+1] = Join(r[n], lines[n+1], skipped)
    BY <1>1, <1>3, <2>1 DEF IsReading
  <2> QED
    BY <1>1, <2>1, <2>2, MeantStep
<1>6. HoldsMeant(r, lines, N)
  <2> HIDE DEF S
  <2>1. N \in S
    BY <1>2, <1>4, <1>5, SetInduction
  <2> QED
    BY <2>1 DEF S
<1>7. PICK opened, last : opened = Openings(lines) /\ last = r[N]
  OBVIOUS
<1>8. /\ opened = Opened(lines, N) /\ MeantPhrases(lines) = Picked(meant, opened)
      /\ \A o : MeantTo(lines, o, N) = Meant(lines, o)
  BY <1>1, <1>7, MeantEnds DEF MeantPhrases
<1>9. /\ opened = {} => last = NothingRead
      /\ \A o \in opened : (\A m \in opened : m <= o) =>
           /\ last.current = Meant(lines, o) /\ last.current # <<>>
           /\ last.phrases = Picked(meant, opened \ {o})
  BY <1>1, <1>6, <1>7, <1>8 DEF HoldsMeant
<1>10. CASE opened = {}
  <2>1. Flushed(last) = <<>>
    BY <1>9, <1>10 DEF Flushed, NothingRead
  <2> QED
    BY <1>3, <1>7, <1>8, <1>10, <2>1, PickedNone
<1>11. CASE opened # {}
  <2>1. opened \subseteq 1..N /\ opened \in SUBSET Nat /\ IsFiniteSet(opened)
    BY <1>2, <1>8, OpenedGrows, SomePlaces
  <2>2. PICK o \in opened : \A m \in opened : m <= o
    <3>1. \A m \in opened : m <= N
      BY <2>1
    <3> QED
      BY <1>2, <1>11, <2>1, <3>1, GreatestElement
  <2>3. PICK rest : rest = opened \ {o}
    OBVIOUS
  <2>4. rest \in SUBSET Nat /\ IsFiniteSet(rest) /\ o \in Nat /\ (\A m \in rest : m < o) /\ rest \cup {o} = opened
    <3>1. IsFiniteSet(rest)
      BY <2>1, <2>3, FS_Subset
    <3>2. \A m \in rest : m < o
      BY <2>1, <2>2, <2>3
    <3> QED
      BY <2>1, <2>2, <2>3, <3>1, <3>2
  <2>5. Picked(meant, opened) = Append(Picked(meant, rest), meant[o])
    BY <2>4, PickedGrows
  <2>6. meant[o] = Meant(lines, o)
    BY <1>1, <1>2, <2>1, <2>2
  <2>7. last.current = Meant(lines, o) /\ last.current # <<>> /\ last.phrases = Picked(meant, rest)
    BY <1>9, <2>2, <2>3
  <2> QED
    BY <1>3, <1>7, <1>8, <2>5, <2>6, <2>7 DEF Flushed
<1> QED
  BY <1>10, <1>11

-----------------------------------------------------------------------------
(* What is left of phrases without those that start with a directive.      *)
LEMMA BesidesGrows ==
    ASSUME NEW p, IsSeq(p), NEW T
    PROVE  /\ Besides(<<>>, T) = <<>> /\ IsSeq(Besides(p, T))
           /\ \A x : Head(x) \in T => Besides(Append(p, x), T) = Besides(p, T)
           /\ \A x : Head(x) \notin T => Besides(Append(p, x), T) = Append(Besides(p, T), x)
<1>1. Besides(<<>>, T) = <<>>
  <2>1. PICK e : e = <<>>
    OBVIOUS
  <2>2. DOMAIN e = {}
    BY <2>1
  <2>3. {i \in DOMAIN e : Head(e[i]) \notin T} = {}
    BY <2>2
  <2>4. Besides(e, T) = Picked(e, {})
    BY <2>3 DEF Besides
  <2> QED
    BY <2>1, <2>4, PickedNone
<1>2. PICK N, S : N = Len(p) /\ S = {i \in DOMAIN p : Head(p[i]) \notin T}
  OBVIOUS
<1>3. N \in Nat /\ DOMAIN p = 1..N /\ S \subseteq 1..N /\ Besides(p, T) = Picked(p, S)
  BY <1>2, SeqPlaces DEF Besides
<1>4. S \in SUBSET Nat /\ IsFiniteSet(S) /\ \A m \in S : m < N + 1
  <2>1. \A m \in S : m < N + 1
    BY <1>3
  <2> QED
    BY <1>3, <2>1, SomePlaces
<1>5. IsSeq(Picked(p, S))
  BY <1>4, PickedFacts
<1>6. ASSUME NEW x
      PROVE  /\ Head(x) \in T => Besides(Append(p, x), T) = Besides(p, T)
             /\ Head(x) \notin T => Besides(Append(p, x), T) = Append(Besides(p, T), x)
  <2>1. PICK q, k, U : q = Append(p, x) /\ k = N + 1 /\ U = {i \in DOMAIN q : Head(q[i]) \notin T}
    OBVIOUS
  <2>2. IsSeq(q) /\ Len(q) = k /\ k \in Nat /\ q[k] = x /\ (\A i \in 1..N : q[i] = p[i])
    BY <1>2, <1>3, <2>1, AppendFacts
  <2>3. DOMAIN q = 1..k /\ Besides(q, T) = Picked(q, U)
    BY <2>1, <2>2, SeqPlaces DEF Besides
  <2>4. Picked(q, S) = Picked(p, S)
    <3>1. \A m \in S : q[m] = p[m]
      BY <1>3, <2>2
    <3> QED
      BY <1>4, <3>1, PickedSame
  <2>5. \A i : i \in 1..k <=> i \in 1..N \/ i = k
    BY <1>3, <2>1
  <2>6. CASE Head(x) \in T
    <3>1. U = S
      BY <1>2, <1>3, <2>1, <2>2, <2>3, <2>5, <2>6
    <3> QED
      BY <1>3, <2>1, <2>3, <2>4, <2>6, <3>1
  <2>7. CASE Head(x) \notin T
    <3>1. U = S \cup {k}
      BY <1>2, <1>3, <2>1, <2>2, <2>3, <2>5, <2>7
    <3>2. Picked(q, S \cup {k}) = Append(Picked(q, S), q[k])
      <4>1. \A m \in S : m < k
        BY <1>4, <2>1
      <4> QED
        BY <1>4, <2>2, <4>1, PickedGrows
    <3> QED
      BY <1>3, <2>1, <2>2, <2>3, <2>4, <2>7, <3>1, <3>2
  <2> QED
    BY <2>6, <2>7
<1> QED
  BY <1>1, <1>3, <1>5, <1>6

-----------------------------------------------------------------------------
(* The two copies of the loop, side by side.                               *)

(* The script has a directive in hand that the other copy skipped; it ends *)
(* before the next code.                                                   *)
DirectiveLast(lines, n) ==
    \E d \in 1..n : StartsWith(lines[d], Directives) /\ \A o \in d+1..n : ~IsOpening(lines[o])

InDirective(acc) == acc.current # <<>> /\ Head(acc.current) \in Directives

SideBySide(lines, n, file, script) ==
    /\ IsAcc(file) /\ IsAcc(script)
    /\ ~InDirective(script) => /\ file.current = script.current
                               /\ file.phrases = Besides(script.phrases, Directives)
    /\ InDirective(script) => /\ Flushed(file) = Besides(script.phrases, Directives)
                              /\ DirectiveLast(lines, n)

(* Either way the copies have closed the same phrases, directives aside.   *)
LEMMA FlushedAlike ==
    ASSUME NEW lines, NEW n, NEW file, NEW script, SideBySide(lines, n, file, script)
    PROVE  Flushed(file) = Besides(Flushed(script), Directives)
<1>1. PICK p, c : p = script.phrases /\ c = script.current
  OBVIOUS
<1>2. IsSeq(p) /\ Flushed(script) = IF c = <<>> THEN p ELSE Append(p, c)
  BY <1>1 DEF SideBySide, IsAcc, Flushed
<1>3. CASE InDirective(script)
  <2>1. c # <<>> /\ Head(c) \in Directives /\ Flushed(file) = Besides(p, Directives)
    BY <1>1, <1>3 DEF SideBySide, InDirective
  <2> QED
    BY <1>2, <2>1, BesidesGrows
<1>4. CASE ~InDirective(script)
  <2>1. file.current = c /\ file.phrases = Besides(p, Directives) /\ (c # <<>> => Head(c) \notin Directives)
    BY <1>1, <1>4 DEF SideBySide, InDirective
  <2>2. c # <<>> => Besides(Append(p, c), Directives) = Append(Besides(p, Directives), c)
    BY <1>2, <2>1, BesidesGrows
  <2> QED
    BY <1>2, <2>1, <2>2 DEF Flushed
<1> QED
  BY <1>3, <1>4

(* One line of both copies.                                                *)
LEMMA SideBySideStep ==
    ASSUME NEW lines, AreLines(lines), DirectivesApart(lines), NEW n \in Nat, n < Len(lines),
           NEW file, NEW script, SideBySide(lines, n, file, script)
    PROVE  SideBySide(lines, n+1, Join(file, lines[n+1], {Slashes, Guard} \cup Directives),
                                  Join(script, lines[n+1], {Slashes, Guard}))
<1>1. PICK N, k, line, some, all, f, s :
           /\ N = Len(lines) /\ k = n + 1 /\ line = lines[k]
           /\ some = {Slashes, Guard} /\ all = {Slashes, Guard} \cup Directives
           /\ f = Join(file, line, all) /\ s = Join(script, line, some)
  OBVIOUS
<1>2. /\ N \in Nat /\ DOMAIN lines = 1..N /\ k \in 1..N /\ IsSeq(line.text)
  BY <1>1, SeqPlaces DEF AreLines
<1>3. IsAcc(file) /\ IsAcc(script) /\ IsSeq(script.phrases) /\ IsSeq(script.current)
  BY DEF SideBySide, IsAcc
<1>4. Joined(file, line, all, f) /\ Joined(script, line, some, s)
  BY <1>1, <1>2, <1>3, JoinFacts
<1>5. /\ Skips(line, some) => Skips(line, all)
      /\ ~Skips(line, some) /\ Skips(line, all) => StartsWith(line, Directives) /\ line.text # <<>> /\ Head(line.text) \in Directives
      /\ IsCode(line) <=> ~Skips(line, all)
      /\ IsCode(line) => line.text # <<>> /\ Head(line.text) \notin Directives
  BY <1>1 DEF Skips, StartsWith, IsCode
<1>6. Flushed(file) = Besides(Flushed(script), Directives)
  BY FlushedAlike
<1>7. CASE Skips(line, some)
  <2>1. f = file /\ s = script
    BY <1>4, <1>5, <1>7 DEF Joined
  <2>2. DirectiveLast(lines, n) => DirectiveLast(lines, k)
    <3>1. ~IsOpening(line)
      BY <1>5, <1>7 DEF IsOpening
    <3>2. ASSUME NEW d \in 1..n, \A o \in d+1..n : ~IsOpening(lines[o])
          PROVE  d \in 1..k /\ \A o \in d+1..k : ~IsOpening(lines[o])
      BY <1>1, <3>1, <3>2
    <3> QED
      BY <3>2 DEF DirectiveLast
  <2> QED
    BY <1>1, <2>1, <2>2 DEF SideBySide
<1>8. CASE ~Skips(line, some) /\ Skips(line, all)
  <2>1. ~line.indented
    BY <1>1, <1>2, <1>5, <1>8 DEF DirectivesApart
  <2>2. f = file /\ s.phrases = Flushed(script) /\ s.current = line.text /\ IsAcc(s)
    BY <1>4, <1>8, <2>1 DEF Joined
  <2>3. InDirective(s)
    BY <1>5, <1>8, <2>2 DEF InDirective
  <2>4. DirectiveLast(lines, k)
    <3>1. k \in 1..k /\ \A o \in k+1..k : ~IsOpening(lines[o])
      BY <1>2
    <3> QED
      BY <1>1, <1>5, <1>8, <3>1 DEF DirectiveLast
  <2> QED
    BY <1>1, <1>3, <1>6, <2>2, <2>3, <2>4 DEF SideBySide
<1>9. CASE ~Skips(line, all)
  <2>1. CASE InDirective(script)
    <3>1. ~line.indented
      <4>1. PICK d \in 1..n : StartsWith(lines[d], Directives) /\ \A o \in d+1..n : ~IsOpening(lines[o])
        BY <2>1 DEF SideBySide, DirectiveLast
      <4>2. d \in DOMAIN lines /\ k \in d+1..Len(lines)
        BY <1>1, <1>2, <4>1
      <4>3. PICK o \in d+1..k : IsOpening(lines[o])
        BY <1>1, <1>5, <1>9, <4>1, <4>2 DEF DirectivesApart
      <4>4. o = k
        BY <1>1, <4>1, <4>3
      <4> QED
        BY <1>1, <4>3, <4>4 DEF IsOpening
    <3>2. f.phrases = Flushed(file) /\ f.current = line.text /\ IsAcc(f)
      BY <1>4, <1>9, <3>1 DEF Joined
    <3>3. s.phrases = Flushed(script) /\ s.current = line.text /\ IsAcc(s)
      BY <1>4, <1>5, <1>9, <3>1 DEF Joined
    <3>4. ~InDirective(s)
      BY <1>5, <1>9, <3>3 DEF InDirective
    <3> QED
      BY <1>1, <1>6, <3>2, <3>3, <3>4 DEF SideBySide
  <2>2. CASE ~InDirective(script)
    <3>1. file.current = script.current /\ file.phrases = Besides(script.phrases, Directives)
      BY <2>2 DEF SideBySide
    <3>2. CASE line.indented /\ script.current # <<>>
      <4>1. PICK c, text : c = script.current /\ text = line.text
        OBVIOUS
      <4>2. f.phrases = file.phrases /\ f.current = c \o text /\ IsAcc(f)
        BY <1>4, <1>9, <3>1, <3>2, <4>1 DEF Joined
      <4>3. s.phrases = script.phrases /\ s.current = c \o text /\ IsAcc(s)
        BY <1>4, <1>5, <1>9, <3>2, <4>1 DEF Joined
      <4>4. ~InDirective(s)
        <5>1. Head(c \o text) = Head(c)
          BY <1>2, <1>3, <3>2, <4>1, HeadStays
        <5> QED
          BY <2>2, <3>2, <4>1, <4>3, <5>1 DEF InDirective
      <4> QED
        BY <1>1, <3>1, <4>2, <4>3, <4>4 DEF SideBySide
    <3>3. CASE ~(line.indented /\ script.current # <<>>)
      <4>1. f.phrases = Flushed(file) /\ f.current = line.text /\ IsAcc(f)
        BY <1>4, <1>9, <3>1, <3>3 DEF Joined
      <4>2. s.phrases = Flushed(script) /\ s.current = line.text /\ IsAcc(s)
        BY <1>4, <1>5, <1>9, <3>3 DEF Joined
      <4>3. ~InDirective(s)
        BY <1>5, <1>9, <4>2 DEF InDirective
      <4> QED
        BY <1>1, <1>6, <4>1, <4>2, <4>3 DEF SideBySide
    <3> QED
      BY <3>2, <3>3
  <2> QED
    BY <2>1, <2>2
<1> QED
  BY <1>7, <1>8, <1>9

(* The harness's copy and the script read alike, of any text.              *)
LEMMA CopiesReadAlike ==
    ASSUME NEW lines, AreLines(lines)
    PROVE  CopiesAgree(lines)
<1> SUFFICES ASSUME DirectivesApart(lines)
             PROVE  FlattenFile(lines) = Besides(FlattenScript(lines), Directives)
  BY DEF CopiesAgree
<1>1. PICK N, some, all : N = Len(lines) /\ some = {Slashes, Guard} /\ all = {Slashes, Guard} \cup Directives
  OBVIOUS
<1>2. N \in Nat /\ DOMAIN lines = 1..N
  BY <1>1, SeqPlaces DEF AreLines
<1>3. PICK f : IsReading(f, lines, all) /\ FlattenFile(lines) = Flushed(f[N])
  BY <1>1, FlattenedReads DEF FlattenFile
<1>4. PICK s : IsReading(s, lines, some) /\ FlattenScript(lines) = Flushed(s[N])
  BY <1>1, FlattenedReads DEF FlattenScript
<1> DEFINE S == {n \in Nat : n <= N => SideBySide(lines, n, f[n], s[n])}
<1>5. 0 \in S
  <2>1. f[0] = NothingRead /\ s[0] = NothingRead
    BY <1>3, <1>4 DEF IsReading
  <2>2. IsAcc(NothingRead)
    BY SmallSeqs DEF IsAcc, NothingRead
  <2>3. NothingRead.current = <<>> /\ NothingRead.phrases = <<>> /\ ~InDirective(NothingRead)
    BY DEF NothingRead, InDirective
  <2>4. Besides(<<>>, Directives) = <<>>
    BY SmallSeqs, BesidesGrows
  <2> QED
    BY <2>1, <2>2, <2>3, <2>4 DEF SideBySide
<1>6. ASSUME NEW n \in Nat, n \in S PROVE n + 1 \in S
  <2> SUFFICES ASSUME n + 1 <= N PROVE SideBySide(lines, n + 1, f[n + 1], s[n + 1])
    OBVIOUS
  <2>1. n < N /\ n + 1 \in 1..N /\ (n + 1) - 1 = n /\ SideBySide(lines, n, f[n], s[n])
    BY <1>2, <1>6
  <2>2. f[n+1] = Join(f[n], lines[n+1], all) /\ s[n+1] = Join(s[n], lines[n+1], some)
    BY <1>1, <1>3, <1>4, <2>1 DEF IsReading
  <2> QED
    BY <1>1, <2>1, <2>2, SideBySideStep
<1>7. SideBySide(lines, N, f[N], s[N])
  <2> HIDE DEF S
  <2>1. N \in S
    BY <1>2, <1>5, <1>6, SetInduction
  <2> QED
    BY <2>1 DEF S
<1> QED
  BY <1>3, <1>4, <1>7, FlushedAlike

-----------------------------------------------------------------------------
(* PhraseParser.phrases: the tokens from one state to another.             *)

IsSplit(f, acc, text) ==
    f[0] = acc /\ \A i \in 1..Len(text) : f[i] = Split(f[i-1], text[i])

Reads(acc, text, after) == \E f : IsSplit(f, acc, text) /\ f[Len(text)] = after

(* The parser has a state before every token.                              *)
LEMMA SplitHasTrace ==
    ASSUME NEW text, IsSeq(text), NEW acc
    PROVE  \E f : IsSplit(f, acc, text)
<1>1. PICK N : N = Len(text) /\ N \in Nat
  BY SeqPlaces
<1> DEFINE Trace(f, n) == f[0] = acc /\ \A i \in 1..n : f[i] = Split(f[i-1], text[i])
           S == {n \in Nat : \E f : Trace(f, n)}
<1>2. 0 \in S
  <2>1. Trace([i \in 0..0 |-> acc], 0)
    OBVIOUS
  <2> HIDE DEF Trace
  <2> QED
    BY <2>1
<1>3. ASSUME NEW n \in Nat, n \in S PROVE n + 1 \in S
  <2>1. PICK f : Trace(f, n)
    BY <1>3
  <2> DEFINE x == Split(f[n], text[n+1])
             g == [i \in 0..n+1 |-> IF i = n + 1 THEN x ELSE f[i]]
  <2>2. g[0] = acc
    BY <2>1
  <2>3. ASSUME NEW i \in 1..n+1 PROVE g[i] = Split(g[i-1], text[i])
    <3>1. CASE i = n + 1
      <4>1. g[i] = x /\ i - 1 = n /\ n \in 0..n+1 /\ n # n + 1
        BY <3>1
      <4>2. g[n] = f[n]
        BY <4>1
      <4> QED
        BY <3>1, <4>1, <4>2
    <3>2. CASE i # n + 1
      <4>1. i \in 1..n /\ i \in 0..n+1 /\ i - 1 \in 0..n+1 /\ i - 1 # n + 1
        BY <3>2
      <4>2. g[i] = f[i] /\ g[i-1] = f[i-1]
        BY <3>2, <4>1
      <4> QED
        BY <2>1, <4>1, <4>2
    <3> QED
      BY <3>1, <3>2
  <2>4. Trace(g, n + 1)
    BY <2>2, <2>3
  <2> HIDE DEF Trace, g
  <2> QED
    BY <2>4
<1>4. N \in S
  <2> HIDE DEF S
  <2> QED
    BY <1>1, <1>2, <1>3, SetInduction
<1> QED
  BY <1>1, <1>4 DEF IsSplit

(* A state and a text lead to one state.                                   *)
LEMMA ReadsOnce ==
    ASSUME NEW text, IsSeq(text), NEW acc, NEW f, NEW g, IsSplit(f, acc, text), IsSplit(g, acc, text)
    PROVE  f[Len(text)] = g[Len(text)]
<1>1. PICK N : N = Len(text) /\ N \in Nat
  BY SeqPlaces
<1> DEFINE S == {n \in Nat : n <= N => f[n] = g[n]}
<1>2. 0 \in S
  BY DEF IsSplit
<1>3. ASSUME NEW n \in Nat, n \in S PROVE n + 1 \in S
  <2> SUFFICES ASSUME n + 1 <= N PROVE f[n + 1] = g[n + 1]
    OBVIOUS
  <2>1. n + 1 \in 1..N /\ (n + 1) - 1 = n /\ f[n] = g[n]
    BY <1>1, <1>3
  <2>2. f[n + 1] = Split(f[n], text[n + 1]) /\ g[n + 1] = Split(g[n], text[n + 1])
    BY <1>1, <2>1 DEF IsSplit
  <2> QED
    BY <2>1, <2>2
<1>4. N \in S
  <2> HIDE DEF S
  <2> QED
    BY <1>1, <1>2, <1>3, SetInduction
<1> QED
  BY <1>1, <1>4

(* One text after another.                                                 *)
LEMMA ReadsOn ==
    ASSUME NEW s, NEW t, IsSeq(s), IsSeq(t), NEW a, NEW b, NEW c, Reads(a, s, b), Reads(b, t, c)
    PROVE  Reads(a, s \o t, c)
<1>1. PICK f : IsSplit(f, a, s) /\ f[Len(s)] = b
  BY DEF Reads
<1>2. PICK g : IsSplit(g, b, t) /\ g[Len(t)] = c
  BY DEF Reads
<1>3. PICK m, n, u : m = Len(s) /\ n = Len(t) /\ u = s \o t
  OBVIOUS
<1>4. /\ m \in Nat /\ n \in Nat /\ Len(u) = m + n
      /\ (\A i \in 1..m : u[i] = s[i]) /\ (\A i \in 1..n : u[m + i] = t[i])
  BY <1>3, ConcatFacts, SeqPlaces
<1> DEFINE h == [i \in 0..m+n |-> IF i <= m THEN f[i] ELSE g[i - m]]
<1>5. h[0] = a
  BY <1>1, <1>4 DEF IsSplit
<1>6. h[m + n] = c
  <2>1. CASE n = 0
    BY <1>1, <1>2, <1>3, <1>4, <2>1 DEF IsSplit
  <2>2. CASE n # 0
    BY <1>2, <1>3, <1>4, <2>2
  <2> QED
    BY <2>1, <2>2
<1>7. ASSUME NEW i \in 1..m+n PROVE h[i] = Split(h[i-1], u[i])
  <2>1. CASE i <= m
    <3>1. i \in 1..m /\ i - 1 \in 0..m+n /\ i \in 0..m+n /\ i - 1 <= m
      BY <1>4, <2>1
    <3>2. h[i] = f[i] /\ h[i-1] = f[i-1] /\ u[i] = s[i]
      BY <1>4, <2>1, <3>1
    <3> QED
      BY <1>1, <1>3, <3>1, <3>2 DEF IsSplit
  <2>2. CASE i > m
    <3>1. PICK j : j = i - m /\ j \in 1..n /\ i = m + j
      BY <1>4, <2>2
    <3>2. h[i] = g[j] /\ u[i] = t[j]
      BY <1>4, <2>2, <3>1
    <3>3. h[i-1] = g[j-1]
      <4>1. CASE j = 1
        <5>1. i - 1 = m /\ i - 1 \in 0..m+n /\ j - 1 = 0
          BY <1>4, <3>1, <4>1
        <5>2. h[i-1] = f[m]
          BY <1>4, <5>1
        <5> QED
          BY <1>1, <1>2, <1>3, <5>1, <5>2 DEF IsSplit
      <4>2. CASE j # 1
        <5>1. i - 1 \in 0..m+n /\ ~(i - 1 <= m) /\ (i - 1) - m = j - 1
          BY <1>4, <3>1, <4>2
        <5> QED
          BY <5>1
      <4> QED
        BY <4>1, <4>2
    <3> QED
      BY <1>2, <1>3, <3>1, <3>2, <3>3 DEF IsSplit
  <2> QED
    BY <1>4, <2>1, <2>2
<1>8. IsSplit(h, a, u) /\ h[Len(u)] = c
  BY <1>4, <1>5, <1>6, <1>7 DEF IsSplit
<1> HIDE DEF h
<1> QED
  BY <1>3, <1>8 DEF Reads

(* The parser before its first token, and between two phrases.             *)
Fresh(phrases) == [modes |-> <<"phrase">>, raw |-> <<>>, phrases |-> phrases]

(* What the parser returns is what reading its input leads to.             *)
LEMMA RawPhrasesRead ==
    ASSUME NEW lines, IsSeq(Input(lines)), NEW phrases, Reads(Fresh(<<>>), Input(lines), Fresh(phrases))
    PROVE  RawPhrases(lines) = phrases
<1>1. PICK input, N : input = Input(lines) /\ N = Len(input) /\ N \in Nat
  BY SeqPlaces
<1>2. PICK f : IsSplit(f, Fresh(<<>>), input) /\ f[N] = Fresh(phrases)
  BY <1>1 DEF Reads
<1> DEFINE Solves(g) == g = [n \in 0..N |-> IF n = 0 THEN Fresh(<<>>) ELSE Split(g[n-1], input[n])]
           r == CHOOSE g : Solves(g)
           h == [n \in 0..N |-> f[n]]
<1>3. Solves(h)
  <2>1. ASSUME NEW n \in 0..N PROVE h[n] = IF n = 0 THEN Fresh(<<>>) ELSE Split(h[n-1], input[n])
    <3>1. CASE n = 0
      BY <1>2, <3>1 DEF IsSplit
    <3>2. CASE n # 0
      <4>1. n \in 1..N /\ n - 1 \in 0..N
        BY <1>1, <3>2
      <4>2. h[n] = f[n] /\ h[n-1] = f[n-1]
        BY <4>1
      <4>3. f[n] = Split(f[n-1], input[n])
        BY <1>1, <1>2, <4>1 DEF IsSplit
      <4> QED
        BY <3>2, <4>2, <4>3
    <3> QED
      BY <3>1, <3>2
  <2> QED
    BY <2>1
<1>4. Solves(r)
  <2> HIDE DEF Solves, h
  <2> QED
    BY <1>3
<1>5. RawPhrases(lines) = Kept(r[N].phrases, r[N].raw)
  BY <1>1 DEF RawPhrases, Fresh
<1> HIDE DEF r
<1>6. IsSplit(r, Fresh(<<>>), input)
  <2>1. r[0] = Fresh(<<>>)
    BY <1>1, <1>4
  <2>2. ASSUME NEW n \in 1..N PROVE r[n] = Split(r[n-1], input[n])
    <3>1. n \in 0..N /\ n # 0
      BY <1>1
    <3> QED
      BY <1>4, <3>1
  <2> QED
    BY <1>1, <2>1, <2>2 DEF IsSplit
<1>7. r[N] = Fresh(phrases)
  BY <1>1, <1>2, <1>6, ReadsOnce
<1> QED
  BY <1>5, <1>7 DEF Fresh, Kept

-----------------------------------------------------------------------------
(* Counting tokens.                                                        *)
LEMMA CountGrows ==
    ASSUME NEW text, NEW i \in Nat \ {0}, NEW token
    PROVE  /\ CountBefore(text, 1, token) = 0
           /\ CountBefore(text, i, token) \in Nat
           /\ CountBefore(text, i + 1, token)
                = IF text[i] = token THEN CountBefore(text, i, token) + 1 ELSE CountBefore(text, i, token)
<1>1. PICK S, T : /\ S = {j \in 1..i-1 : text[j] = token}
                  /\ T = {j \in 1..(i+1)-1 : text[j] = token}
  OBVIOUS
<1>2. IsFiniteSet(S) /\ Cardinality(S) \in Nat
  <2>1. S \subseteq 1..i-1 /\ i - 1 \in Nat
    BY <1>1
  <2>2. IsFiniteSet(S)
    BY <2>1, SomePlaces
  <2> QED
    BY <2>2, FS_CardinalityType
<1>3. Cardinality(T) = IF text[i] = token THEN Cardinality(S) + 1 ELSE Cardinality(S)
  <2>1. CASE text[i] = token
    <3>1. T = S \cup {i} /\ i \notin S
      BY <1>1, <2>1
    <3> QED
      BY <1>2, <2>1, <3>1, FS_AddElement
  <2>2. CASE text[i] # token
    <3>1. T = S
      BY <1>1, <2>2
    <3> QED
      BY <2>2, <3>1
  <2> QED
    BY <2>1, <2>2
<1>4. CountBefore(text, 1, token) = 0
  <2>1. {j \in 1..1-1 : text[j] = token} = {}
    OBVIOUS
  <2> QED
    BY <2>1, FS_EmptySet DEF CountBefore
<1> QED
  BY <1>1, <1>2, <1>3, <1>4 DEF CountBefore

(* Quotes alternate.                                                       *)
Parity(text, i) == CountBefore(text, i, Quote) % 2

(* The parity changes at a quote and only there.                           *)
LEMMA QuotesAlternate ==
    ASSUME NEW text, NEW i \in Nat \ {0}
    PROVE  /\ Parity(text, 1) = 0 /\ Parity(text, i) \in {0, 1}
           /\ Parity(text, i + 1) = IF text[i] = Quote THEN 1 - Parity(text, i) ELSE Parity(text, i)
           /\ Quoted(text, i) <=> Parity(text, i) = 1
<1>1. PICK a, b : a = CountBefore(text, i, Quote) /\ b = CountBefore(text, i + 1, Quote)
  OBVIOUS
<1>2. a \in Nat /\ b = IF text[i] = Quote THEN a + 1 ELSE a
  BY <1>1, CountGrows
<1>3. CountBefore(text, 1, Quote) = 0
  BY CountGrows
<1>4. Parity(text, 1) = 0
  BY <1>3 DEF Parity
<1>5. (a + 1) % 2 = 1 - (a % 2) /\ a % 2 \in {0, 1}
  BY <1>2
<1> QED
  BY <1>1, <1>2, <1>4, <1>5 DEF Quoted, Parity

-----------------------------------------------------------------------------
(* The modes within a phrase that ends once: a bracket is open for each    *)
(* "parens", and quotes count outside brackets only.                       *)
PhraseModes(modes, depth, quoted) ==
    /\ IsSeq(modes) /\ Len(modes) = 1 + depth + (IF depth = 0 /\ quoted = 1 THEN 1 ELSE 0)
    /\ modes[1] = "phrase"
    /\ \A j \in 2..1+depth : modes[j] = "parens"
    /\ depth = 0 /\ quoted = 1 => modes[2] = "string"

GroupModes(modes, quoted) ==
    /\ IsSeq(modes) /\ Len(modes) = IF quoted = 1 THEN 2 ELSE 1
    /\ modes[1] = "group"
    /\ quoted = 1 => modes[2] = "string"

Depth(text, i) == CountBefore(text, i, "(") - CountBefore(text, i, ")")

ModesFit(text, i, modes) ==
    /\ text[1] # LeftBrace => Depth(text, i) \in Nat /\ PhraseModes(modes, Depth(text, i), Parity(text, i))
    /\ text[1] = LeftBrace /\ i = 1 => modes = <<"phrase">>
    /\ text[1] = LeftBrace /\ i > 1 => GroupModes(modes, Parity(text, i))

Ends(modes, token) == \/ Seqs!Last(modes) = "phrase" /\ token = "."
                      \/ Seqs!Last(modes) = "group" /\ token = RightBrace

(* Brackets and braces of such a phrase.                                   *)
LEMMA DepthGrows ==
    ASSUME NEW text, NEW i \in Nat \ {0}, Depth(text, i) \in Nat, text[i] = ")" => Bracketed(text, i)
    PROVE  /\ Bracketed(text, i) <=> Depth(text, i) # 0
           /\ Depth(text, i + 1) \in Nat
           /\ Depth(text, i + 1) = IF text[i] = "(" THEN Depth(text, i) + 1
                                   ELSE IF text[i] = ")" THEN Depth(text, i) - 1 ELSE Depth(text, i)
<1>1. PICK a, b, c, d : /\ a = CountBefore(text, i, "(") /\ b = CountBefore(text, i, ")")
                        /\ c = CountBefore(text, i + 1, "(") /\ d = CountBefore(text, i + 1, ")")
  OBVIOUS
<1>2. /\ a \in Nat /\ b \in Nat
      /\ c = IF text[i] = "(" THEN a + 1 ELSE a
      /\ d = IF text[i] = ")" THEN b + 1 ELSE b
  BY <1>1, CountGrows
<1>3. Depth(text, i) = a - b /\ Depth(text, i + 1) = c - d /\ (Bracketed(text, i) <=> a > b)
  BY <1>1 DEF Depth, Bracketed
<1> QED
  BY <1>2, <1>3

(* A brace is open from the first token to the last, if at all.            *)
LEMMA BracesFit ==
    ASSUME NEW text, NEW i \in 1..Len(text), Len(text) \in Nat, Len(text) > 1,
           \A j \in 1..Len(text) : /\ text[j] = LeftBrace => j = 1
                                   /\ text[j] = RightBrace => text[1] = LeftBrace /\ j = Len(text)
    PROVE  Braced(text, i) <=> text[1] = LeftBrace /\ i > 1
<1>0. PICK N : /\ N = Len(text) /\ N \in Nat /\ i \in 1..N
               /\ \A j \in 1..N : (text[j] = LeftBrace => j = 1) /\ (text[j] = RightBrace => j = N)
  OBVIOUS
<1>1. PICK S, T : /\ S = {j \in 1..i-1 : text[j] = LeftBrace}
                  /\ T = {j \in 1..i-1 : text[j] = RightBrace}
  OBVIOUS
<1>2. T = {}
  <2> SUFFICES ASSUME NEW j \in T PROVE FALSE
    OBVIOUS
  <2>1. j \in 1..N /\ text[j] = RightBrace /\ j < N
    BY <1>0, <1>1
  <2> QED
    BY <1>0, <2>1
<1>3. CASE text[1] = LeftBrace /\ i > 1
  <2>1. ASSUME NEW j \in S PROVE j = 1
    <3>1. j \in 1..N /\ text[j] = LeftBrace
      BY <1>0, <1>1
    <3> QED
      BY <1>0, <3>1
  <2>2. 1 \in S
    BY <1>1, <1>3
  <2>3. S = {1}
    BY <2>1, <2>2
  <2>4. CountBefore(text, i, LeftBrace) = 1 /\ CountBefore(text, i, RightBrace) = 0
    BY <1>1, <1>2, <2>3, FS_EmptySet, FS_Singleton DEF CountBefore
  <2> QED
    BY <1>3, <2>4 DEF Braced
<1>4. CASE ~(text[1] = LeftBrace /\ i > 1)
  <2> SUFFICES ASSUME NEW j \in S PROVE FALSE
    <3>1. S = {}
      OBVIOUS
    <3>2. CountBefore(text, i, LeftBrace) = 0 /\ CountBefore(text, i, RightBrace) = 0
      BY <1>1, <1>2, <3>1, FS_EmptySet DEF CountBefore
    <3> QED
      BY <1>4, <3>2 DEF Braced
  <2>1. j \in 1..N /\ text[j] = LeftBrace /\ j < i
    BY <1>0, <1>1
  <2>2. j = 1
    BY <1>0, <2>1
  <2> QED
    BY <1>4, <2>1, <2>2
<1> QED
  BY <1>3, <1>4

-----------------------------------------------------------------------------
(* A token of a phrase that ends once: the modes fit, and tell its end.    *)
LEMMA PhraseModesStep ==
    ASSUME NEW modes, NEW depth \in Nat, NEW quoted \in {0, 1}, PhraseModes(modes, depth, quoted),
           NEW token, token # LeftBrace,
           token \in {"(", ")", Escape} => quoted = 0,
           token = ")" => depth # 0,
           NEW d, d = IF token = "(" THEN depth + 1 ELSE IF token = ")" THEN depth - 1 ELSE depth,
           NEW q, q = IF token = Quote THEN 1 - quoted ELSE quoted
    PROVE  PhraseModes(Modes(modes, token), d, q)
<1>1. PICK n, last, front : n = Len(modes) /\ last = Seqs!Last(modes) /\ front = Seqs!Front(modes)
  OBVIOUS
<1>2. /\ IsSeq(modes) /\ n = 1 + depth + (IF depth = 0 /\ quoted = 1 THEN 1 ELSE 0) /\ modes[1] = "phrase"
      /\ \A j \in 2..1+depth : modes[j] = "parens"
      /\ depth = 0 /\ quoted = 1 => modes[2] = "string"
  BY <1>1 DEF PhraseModes
<1>3. modes # <<>>
  <2>1. n # 0 /\ Len(modes) # 0
    BY <1>1, <1>2
  <2> QED
    BY <2>1, SmallSeqs
<1>4. /\ last = modes[n] /\ IsSeq(front) /\ Len(front) = n - 1 /\ \A i \in 1..n-1 : front[i] = modes[i]
  BY <1>1, <1>2, <1>3, FrontFacts
<1>5. \A x : /\ IsSeq(Append(modes, x)) /\ Len(Append(modes, x)) = n + 1 /\ Append(modes, x)[n + 1] = x
             /\ \A i \in 1..n : Append(modes, x)[i] = modes[i]
  <2> SUFFICES ASSUME NEW x
               PROVE  /\ IsSeq(Append(modes, x)) /\ Len(Append(modes, x)) = n + 1 /\ Append(modes, x)[n + 1] = x
                      /\ \A i \in 1..n : Append(modes, x)[i] = modes[i]
    OBVIOUS
  <2>1. IsSeq(modes)
    BY <1>2
  <2>2. /\ IsSeq(Append(modes, x)) /\ Len(Append(modes, x)) = Len(modes) + 1
        /\ \A i \in 1..Len(modes) : Append(modes, x)[i] = modes[i]
        /\ Append(modes, x)[Len(modes) + 1] = x
    BY <2>1, AppendFacts
  <2> QED
    BY <1>1, <2>2
<1>6. CASE depth = 0 /\ quoted = 0
  <2>1. n = 1 /\ last = "phrase"
    BY <1>2, <1>4, <1>6
  <2>2. CASE token = "("
    <3>1. PICK m : m = Append(modes, "parens")
      OBVIOUS
    <3>2. Modes(modes, token) = m
      BY <1>1, <2>1, <2>2, <3>1 DEF Modes, Quote, Escape, LeftBrace
    <3>3. d = 1 /\ q = 0
      BY <1>6, <2>2 DEF Quote
    <3>4. IsSeq(m) /\ Len(m) = 2 /\ m[2] = "parens" /\ m[1] = "phrase"
      BY <1>2, <1>5, <2>1, <3>1
    <3>5. PhraseModes(m, d, q)
      BY <3>3, <3>4 DEF PhraseModes
    <3> QED
      BY <3>2, <3>5
  <2>3. CASE token = Quote
    <3>1. PICK m : m = Append(modes, "string")
      OBVIOUS
    <3>2. Modes(modes, token) = m
      BY <1>1, <2>1, <2>3, <3>1 DEF Modes, Quote, Escape, LeftBrace
    <3>3. d = 0 /\ q = 1
      BY <1>6, <2>3 DEF Quote
    <3>4. IsSeq(m) /\ Len(m) = 2 /\ m[2] = "string" /\ m[1] = "phrase"
      BY <1>2, <1>5, <2>1, <3>1
    <3>5. PhraseModes(m, d, q)
      BY <3>3, <3>4 DEF PhraseModes
    <3> QED
      BY <3>2, <3>5
  <2>4. CASE token # "(" /\ token # Quote
    <3>1. Modes(modes, token) = modes
      BY <1>1, <2>1, <2>4 DEF Modes, Quote, Escape, LeftBrace
    <3>2. d = depth /\ q = quoted
      BY <1>6, <2>4
    <3> QED
      BY <3>1, <3>2
  <2> QED
    BY <2>2, <2>3, <2>4
<1>7. CASE depth = 0 /\ quoted = 1
  <2>1. n = 2 /\ last = "string"
    BY <1>2, <1>4, <1>7
  <2>2. token # "(" /\ token # ")" /\ token # Escape
    BY <1>7
  <2>3. CASE token = Quote
    <3>1. Modes(modes, token) = front
      BY <1>1, <2>1, <2>3 DEF Modes, Quote, Escape, LeftBrace
    <3>2. d = 0 /\ q = 0
      BY <1>7, <2>2, <2>3
    <3>3. IsSeq(front) /\ Len(front) = 1 /\ front[1] = "phrase"
      BY <1>2, <1>4, <2>1
    <3>4. PhraseModes(front, d, q)
      BY <3>2, <3>3 DEF PhraseModes
    <3> QED
      BY <3>1, <3>4
  <2>4. CASE token # Quote
    <3>1. Modes(modes, token) = modes
      BY <1>1, <2>1, <2>2, <2>4 DEF Modes, Quote, Escape, LeftBrace
    <3>2. d = depth /\ q = quoted
      BY <2>2, <2>4
    <3> QED
      BY <3>1, <3>2
  <2> QED
    BY <2>3, <2>4
<1>8. CASE depth # 0
  <2>1. n = 1 + depth /\ last = "parens"
    BY <1>2, <1>4, <1>8
  <2>2. CASE token = "("
    <3>1. PICK m : m = Append(modes, "parens")
      OBVIOUS
    <3>2. Modes(modes, token) = m
      BY <1>1, <2>1, <2>2, <3>1 DEF Modes, Quote, Escape, LeftBrace
    <3>3. d = depth + 1
      BY <2>2
    <3>4. /\ IsSeq(m) /\ Len(m) = 2 + depth /\ m[2 + depth] = "parens"
          /\ \A i \in 1..1+depth : m[i] = modes[i]
      BY <1>5, <2>1, <3>1
    <3>5. m[1] = "phrase" /\ \A j \in 2..1+d : m[j] = "parens"
      BY <1>2, <3>3, <3>4
    <3>6. PhraseModes(m, d, q)
      BY <3>3, <3>4, <3>5 DEF PhraseModes
    <3> QED
      BY <3>2, <3>6
  <2>3. CASE token = ")"
    <3>1. Modes(modes, token) = front
      BY <1>1, <2>1, <2>3 DEF Modes, Quote, Escape, LeftBrace
    <3>2. d = depth - 1 /\ d \in Nat /\ q = 0
      BY <1>8, <2>3 DEF Quote
    <3>3. Len(front) = 1 + d /\ front[1] = "phrase" /\ \A j \in 2..1+d : front[j] = "parens"
      BY <1>2, <1>4, <2>1, <3>2
    <3>4. PhraseModes(front, d, q)
      BY <1>4, <3>2, <3>3 DEF PhraseModes
    <3> QED
      BY <3>1, <3>4
  <2>4. CASE token # "(" /\ token # ")"
    <3>1. Modes(modes, token) = modes
      BY <1>1, <2>1, <2>4 DEF Modes, Quote, Escape, LeftBrace
    <3>2. d = depth
      BY <2>4
    <3>3. PhraseModes(modes, d, q)
      BY <1>1, <1>2, <1>8, <2>1, <3>2 DEF PhraseModes
    <3> QED
      BY <3>1, <3>3
  <2> QED
    BY <2>2, <2>3, <2>4
<1> QED
  BY <1>6, <1>7, <1>8

(* The same within braces.                                                 *)
LEMMA GroupModesStep ==
    ASSUME NEW modes, NEW quoted \in {0, 1}, GroupModes(modes, quoted), NEW token,
           token = Escape => quoted = 0,
           NEW q, q = IF token = Quote THEN 1 - quoted ELSE quoted
    PROVE  GroupModes(Modes(modes, token), q)
<1>1. PICK n, last, front : n = Len(modes) /\ last = Seqs!Last(modes) /\ front = Seqs!Front(modes)
  OBVIOUS
<1>2. /\ IsSeq(modes) /\ n = (IF quoted = 1 THEN 2 ELSE 1) /\ modes[1] = "group"
      /\ quoted = 1 => modes[2] = "string"
  BY <1>1 DEF GroupModes
<1>3. modes # <<>>
  <2>1. n # 0 /\ Len(modes) # 0
    BY <1>1, <1>2
  <2> QED
    BY <2>1, SmallSeqs
<1>4. /\ last = modes[n] /\ IsSeq(front) /\ Len(front) = n - 1 /\ \A i \in 1..n-1 : front[i] = modes[i]
  BY <1>1, <1>2, <1>3, FrontFacts
<1>5. CASE quoted = 0
  <2>1. n = 1 /\ last = "group"
    BY <1>2, <1>4, <1>5
  <2>2. CASE token = Quote
    <3>1. PICK m : m = Append(modes, "string")
      OBVIOUS
    <3>2. Modes(modes, token) = m
      BY <1>1, <2>1, <2>2, <3>1 DEF Modes, Quote, Escape, LeftBrace
    <3>3. IsSeq(m) /\ Len(m) = 2 /\ m[2] = "string" /\ m[1] = "group"
      <4>1. /\ IsSeq(Append(modes, "string")) /\ Len(Append(modes, "string")) = Len(modes) + 1
            /\ \A i \in 1..Len(modes) : Append(modes, "string")[i] = modes[i]
            /\ Append(modes, "string")[Len(modes) + 1] = "string"
        BY <1>2, AppendFacts
      <4> QED
        BY <1>1, <1>2, <2>1, <3>1, <4>1
    <3>4. GroupModes(m, q)
      BY <1>5, <2>2, <3>3 DEF GroupModes
    <3> QED
      BY <3>2, <3>4
  <2>3. CASE token # Quote
    <3>1. Modes(modes, token) = modes
      BY <1>1, <2>1, <2>3 DEF Modes, Quote, Escape, LeftBrace
    <3> QED
      BY <2>3, <3>1
  <2> QED
    BY <2>2, <2>3
<1>6. CASE quoted = 1
  <2>1. n = 2 /\ last = "string"
    BY <1>2, <1>4, <1>6
  <2>2. CASE token = Quote
    <3>1. Modes(modes, token) = front
      BY <1>1, <2>1, <2>2 DEF Modes, Quote, Escape, LeftBrace
    <3>2. IsSeq(front) /\ Len(front) = 1 /\ front[1] = "group" /\ q = 0
      BY <1>2, <1>4, <1>6, <2>1, <2>2
    <3>3. GroupModes(front, q)
      BY <3>2 DEF GroupModes
    <3> QED
      BY <3>1, <3>3
  <2>3. CASE token # Quote
    <3>1. Modes(modes, token) = modes
      BY <1>1, <1>6, <2>1, <2>3 DEF Modes, Quote, Escape, LeftBrace
    <3> QED
      BY <2>3, <3>1
  <2> QED
    BY <2>2, <2>3
<1> QED
  BY <1>5, <1>6

(* The mode the parser is in.                                              *)
LEMMA LastMode ==
    /\ \A modes, depth, quoted : depth \in Nat /\ quoted \in {0, 1} /\ PhraseModes(modes, depth, quoted) =>
         Seqs!Last(modes) = IF depth # 0 THEN "parens" ELSE IF quoted = 1 THEN "string" ELSE "phrase"
    /\ \A modes, quoted : quoted \in {0, 1} /\ GroupModes(modes, quoted) =>
         Seqs!Last(modes) = IF quoted = 1 THEN "string" ELSE "group"
<1>1. ASSUME NEW modes, NEW depth \in Nat, NEW quoted \in {0, 1}, PhraseModes(modes, depth, quoted)
      PROVE  Seqs!Last(modes) = IF depth # 0 THEN "parens" ELSE IF quoted = 1 THEN "string" ELSE "phrase"
  <2>1. PICK n : n = Len(modes)
    OBVIOUS
  <2>2. /\ IsSeq(modes) /\ n = 1 + depth + (IF depth = 0 /\ quoted = 1 THEN 1 ELSE 0) /\ modes[1] = "phrase"
        /\ \A j \in 2..1+depth : modes[j] = "parens"
        /\ depth = 0 /\ quoted = 1 => modes[2] = "string"
    BY <1>1, <2>1 DEF PhraseModes
  <2>3. Seqs!Last(modes) = modes[n]
    BY <2>1 DEF Seqs!Last
  <2> QED
    BY <2>2, <2>3
<1>2. ASSUME NEW modes, NEW quoted \in {0, 1}, GroupModes(modes, quoted)
      PROVE  Seqs!Last(modes) = IF quoted = 1 THEN "string" ELSE "group"
  <2>1. PICK n : n = Len(modes)
    OBVIOUS
  <2>2. n = (IF quoted = 1 THEN 2 ELSE 1) /\ modes[1] = "group" /\ (quoted = 1 => modes[2] = "string")
    BY <1>2, <2>1 DEF GroupModes
  <2>3. Seqs!Last(modes) = modes[n]
    BY <2>1 DEF Seqs!Last
  <2> QED
    BY <2>2, <2>3
<1> QED
  BY <1>1, <1>2

(* Before its first token the parser is in a phrase.                       *)
LEMMA FitsFirst == \A text : ModesFit(text, 1, <<"phrase">>)
<1> SUFFICES ASSUME NEW text PROVE ModesFit(text, 1, <<"phrase">>)
  OBVIOUS
<1>1. PICK modes : modes = <<"phrase">>
  OBVIOUS
<1>2. IsSeq(modes) /\ Len(modes) = 1 /\ modes[1] = "phrase"
  BY <1>1, SmallSeqs
<1>3. Depth(text, 1) = 0 /\ Parity(text, 1) = 0
  <2>1. CountBefore(text, 1, "(") = 0 /\ CountBefore(text, 1, ")") = 0
    BY CountGrows
  <2> QED
    BY <2>1, QuotesAlternate DEF Depth
<1>4. PhraseModes(modes, 0, 0)
  BY <1>2 DEF PhraseModes
<1> QED
  BY <1>1, <1>3, <1>4 DEF ModesFit

(* One token of a phrase that ends once.                                   *)
LEMMA ModesStep ==
    ASSUME NEW text, IsSeq(text), EndsOnce(text), NEW i \in 1..Len(text), NEW modes, ModesFit(text, i, modes)
    PROVE  /\ i < Len(text) => /\ ~Ends(modes, text[i])
                               /\ ModesFit(text, i + 1, Modes(modes, text[i]))
           /\ i = Len(text) => Ends(modes, text[i])
<1>1. PICK N, token, next, d, q : /\ N = Len(text) /\ token = text[i] /\ next = Modes(modes, token)
                                  /\ d = Depth(text, i) /\ q = Parity(text, i)
  OBVIOUS
<1>2. /\ N \in Nat /\ N > 1 /\ i \in 1..N /\ i \in Nat \ {0}
      /\ \A j \in 1..N : /\ text[j] = LeftBrace => j = 1
                         /\ text[j] = RightBrace => text[1] = LeftBrace /\ j = N
  <2>1. N \in Nat /\ DOMAIN text = 1..N
    BY <1>1, SeqPlaces
  <2> QED
    BY <1>1, <2>1 DEF EndsOnce
<1>3. /\ token \in {"(", ")", LeftBrace, RightBrace, Escape} => ~Quoted(text, i)
      /\ token = ")" => Bracketed(text, i)
      /\ \/ token = "." /\ ~Quoted(text, i) /\ ~Bracketed(text, i) /\ ~Braced(text, i)
         \/ token = RightBrace
         <=> i = N
  <2>1. DOMAIN text = 1..N
    BY <1>1, SeqPlaces
  <2> QED
    BY <1>1, <2>1 DEF EndsOnce
<1>4. Braced(text, i) <=> text[1] = LeftBrace /\ i > 1
  BY <1>1, <1>2, BracesFit
<1>5. /\ q \in {0, 1} /\ (Quoted(text, i) <=> q = 1)
      /\ Parity(text, i + 1) = IF token = Quote THEN 1 - q ELSE q
  BY <1>1, <1>2, QuotesAlternate
<1>6. CASE text[1] # LeftBrace
  <2>1. d \in Nat /\ PhraseModes(modes, d, q)
    BY <1>1, <1>6 DEF ModesFit
  <2>2. token # LeftBrace /\ token # RightBrace
    BY <1>1, <1>2, <1>6
  <2>3. /\ Bracketed(text, i) <=> d # 0
        /\ Depth(text, i + 1) \in Nat
        /\ Depth(text, i + 1) = IF token = "(" THEN d + 1 ELSE IF token = ")" THEN d - 1 ELSE d
    BY <1>1, <1>2, <1>3, <2>1, DepthGrows
  <2>4. PhraseModes(next, Depth(text, i + 1), Parity(text, i + 1))
    <3>1. token \in {"(", ")", Escape} => q = 0
      BY <1>3, <1>5
    <3>2. token = ")" => d # 0
      BY <1>3, <2>3
    <3>3. PICK d2, q2 : d2 = Depth(text, i + 1) /\ q2 = Parity(text, i + 1)
      OBVIOUS
    <3>4. /\ d2 = IF token = "(" THEN d + 1 ELSE IF token = ")" THEN d - 1 ELSE d
          /\ q2 = IF token = Quote THEN 1 - q ELSE q
      BY <1>5, <2>3, <3>3
    <3>5. PhraseModes(Modes(modes, token), d2, q2)
      BY <1>5, <2>1, <2>2, <3>1, <3>2, <3>4, PhraseModesStep
    <3> QED
      BY <1>1, <3>3, <3>5
  <2>5. ModesFit(text, i + 1, next)
    BY <1>6, <2>3, <2>4 DEF ModesFit
  <2>6. Seqs!Last(modes) = IF d # 0 THEN "parens" ELSE IF q = 1 THEN "string" ELSE "phrase"
    BY <1>5, <2>1, LastMode
  <2>7. Ends(modes, token) <=> i = N
    BY <1>3, <1>4, <1>5, <1>6, <2>2, <2>3, <2>6 DEF Ends
  <2> QED
    BY <1>1, <2>5, <2>7
<1>7. CASE text[1] = LeftBrace /\ i = 1
  <2>1. token = LeftBrace /\ i < N
    BY <1>1, <1>2, <1>7
  <2>2. modes = <<"phrase">>
    BY <1>7 DEF ModesFit
  <2>3. Seqs!Last(modes) = "phrase"
    BY <2>2, SmallSeqs DEF Seqs!Last
  <2>4. next = <<"group">>
    BY <1>1, <2>1, <2>3 DEF Modes, LeftBrace, Quote, Escape
  <2>5. Parity(text, i + 1) = 0
    <3>1. Parity(text, 1) = 0
      BY QuotesAlternate
    <3> QED
      BY <1>1, <1>5, <1>7, <2>1, <3>1 DEF LeftBrace, Quote
  <2>6. GroupModes(next, 0)
    BY <2>4, SmallSeqs DEF GroupModes
  <2>7. ModesFit(text, i + 1, next)
    BY <1>7, <2>5, <2>6 DEF ModesFit
  <2>8. ~Ends(modes, token)
    BY <2>1, <2>3 DEF Ends, LeftBrace, RightBrace
  <2> QED
    BY <1>1, <2>1, <2>7, <2>8
<1>8. CASE text[1] = LeftBrace /\ i > 1
  <2>1. GroupModes(modes, q)
    BY <1>1, <1>8 DEF ModesFit
  <2>2. token = Escape => q = 0
    BY <1>3, <1>5
  <2>3. PICK q2 : q2 = Parity(text, i + 1)
    OBVIOUS
  <2>4. q2 = IF token = Quote THEN 1 - q ELSE q
    BY <1>5, <2>3
  <2>5. GroupModes(Modes(modes, token), q2)
    BY <1>5, <2>1, <2>2, <2>4, GroupModesStep
  <2>6. ModesFit(text, i + 1, next)
    BY <1>1, <1>8, <2>3, <2>5 DEF ModesFit
  <2>7. Seqs!Last(modes) = IF q = 1 THEN "string" ELSE "group"
    BY <1>5, <2>1, LastMode
  <2>8. Ends(modes, token) <=> i = N
    BY <1>3, <1>4, <1>5, <1>8, <2>7 DEF Ends
  <2> QED
    BY <1>1, <2>6, <2>8
<1> QED
  BY <1>2, <1>6, <1>7, <1>8

-----------------------------------------------------------------------------
(* Within a phrase the parser keeps what it has read of it.                *)
IsStart(raw, text, n) == IsSeq(raw) /\ Len(raw) = n /\ \A j \in 1..n : raw[j] = text[j]

Mid(acc, text, n, phrases) ==
    /\ acc = [modes |-> acc.modes, raw |-> acc.raw, phrases |-> phrases]
    /\ IsStart(acc.raw, text, n)
    /\ ModesFit(text, n + 1, acc.modes)

(* A token that is not the last is added to what was read.                 *)
LEMMA SplitMid ==
    ASSUME NEW text, IsSeq(text), EndsOnce(text), NEW n \in Nat, n + 1 < Len(text),
           NEW acc, NEW phrases, Mid(acc, text, n, phrases)
    PROVE  Mid(Split(acc, text[n+1]), text, n + 1, phrases)
<1>1. PICK k, token, m, w, m2, w2 :
           /\ k = n + 1 /\ token = text[k] /\ m = acc.modes /\ w = acc.raw
           /\ m2 = Modes(m, token) /\ w2 = Append(w, token)
  OBVIOUS
<1>2. acc = [modes |-> m, raw |-> w, phrases |-> phrases] /\ IsStart(w, text, n) /\ ModesFit(text, k, m)
  BY <1>1 DEF Mid
<1>3. k \in 1..Len(text) /\ k < Len(text) /\ k \in Nat
  BY <1>1, SeqPlaces
<1>4. ~Ends(m, token) /\ ModesFit(text, k + 1, m2)
  BY <1>1, <1>2, <1>3, ModesStep
<1>5. Split(acc, token) = [modes |-> m2, raw |-> w2, phrases |-> phrases]
  <2>1. Split(acc, token) = [acc EXCEPT !.modes = m2, !.raw = w2]
    BY <1>1, <1>4 DEF Split, Ends
  <2>2. [[modes |-> m, raw |-> w, phrases |-> phrases] EXCEPT !.modes = m2, !.raw = w2]
          = [modes |-> m2, raw |-> w2, phrases |-> phrases]
    <3>1. [[modes |-> m, raw |-> w, phrases |-> phrases] EXCEPT !.modes = m2]
            = [modes |-> m2, raw |-> w, phrases |-> phrases]
      OBVIOUS
    <3>2. [[modes |-> m2, raw |-> w, phrases |-> phrases] EXCEPT !.raw = w2]
            = [modes |-> m2, raw |-> w2, phrases |-> phrases]
      OBVIOUS
    <3> QED
      BY <3>1, <3>2
  <2> QED
    BY <1>2, <2>1, <2>2
<1>6. IsStart(w2, text, k)
  <2>1. IsSeq(w) /\ Len(w) = n /\ \A j \in 1..n : w[j] = text[j]
    BY <1>2 DEF IsStart
  <2>2. /\ IsSeq(w2) /\ Len(w2) = Len(w) + 1 /\ w2[Len(w) + 1] = token
        /\ \A j \in 1..Len(w) : w2[j] = w[j]
    BY <1>1, <2>1, AppendFacts
  <2>3. Len(w2) = k /\ w2[k] = token /\ \A j \in 1..n : w2[j] = text[j]
    BY <1>1, <2>1, <2>2
  <2>4. \A j \in 1..k : w2[j] = text[j]
    <3> SUFFICES ASSUME NEW j \in 1..k PROVE w2[j] = text[j]
      OBVIOUS
    <3>1. j = k \/ j \in 1..n
      BY <1>1
    <3> QED
      BY <1>1, <2>3, <3>1
  <2> QED
    BY <2>2, <2>3, <2>4 DEF IsStart
<1>7. PICK next : next = Split(acc, token)
  OBVIOUS
<1>8. next = [modes |-> next.modes, raw |-> next.raw, phrases |-> phrases] /\ next.modes = m2 /\ next.raw = w2
  BY <1>5, <1>7
<1>9. Mid(next, text, k, phrases)
  BY <1>4, <1>6, <1>8 DEF Mid
<1> QED
  BY <1>1, <1>7, <1>9

(* Its last token closes it; the period is dropped.                        *)
LEMMA SplitEnd ==
    ASSUME NEW text, IsSeq(text), EndsOnce(text), NEW acc, NEW phrases,
           Mid(acc, text, Len(text) - 1, phrases)
    PROVE  Split(acc, text[Len(text)]) = Fresh(Append(phrases, WithoutPeriod(text)))
<1>1. PICK N, token, m, w, w2 : /\ N = Len(text) /\ token = text[N] /\ m = acc.modes /\ w = acc.raw
                                /\ w2 = Append(w, token)
  OBVIOUS
<1>2. N \in Nat /\ N > 1 /\ N \in 1..N /\ N - 1 \in Nat /\ (N - 1) + 1 = N
  <2>1. N \in Nat /\ N > 1
    BY <1>1, SeqPlaces DEF EndsOnce
  <2> QED
    BY <2>1
<1>3. acc = [modes |-> m, raw |-> w, phrases |-> phrases] /\ IsStart(w, text, N - 1) /\ ModesFit(text, N, m)
  BY <1>1, <1>2 DEF Mid
<1>4. Ends(m, token)
  BY <1>1, <1>2, <1>3, ModesStep
<1>5. IsSeq(w) /\ Len(w) = N - 1 /\ \A j \in 1..N-1 : w[j] = text[j]
  BY <1>3 DEF IsStart
<1>6. text # <<>>
  BY <1>1, <1>2, SmallSeqs
<1>7. /\ Seqs!Last(text) = token /\ IsSeq(Seqs!Front(text)) /\ Len(Seqs!Front(text)) = N - 1
      /\ \A j \in 1..N-1 : Seqs!Front(text)[j] = text[j]
  BY <1>1, <1>6, FrontFacts
<1>8. CASE Seqs!Last(m) = "phrase" /\ token = "."
  <2>1. w = Seqs!Front(text)
    BY <1>5, <1>7, SeqEqual
  <2>2. w # <<>>
    <3>1. Len(w) # 0
      BY <1>2, <1>5
    <3> QED
      BY <3>1, SmallSeqs
  <2>3. Split(acc, token) = [modes |-> <<"phrase">>, raw |-> <<>>, phrases |-> Kept(phrases, w)]
    BY <1>1, <1>3, <1>8 DEF Split
  <2>4. Kept(phrases, w) = Append(phrases, WithoutPeriod(text))
    BY <1>7, <1>8, <2>1, <2>2 DEF Kept, WithoutPeriod
  <2> QED
    BY <1>1, <2>3, <2>4 DEF Fresh
<1>9. CASE Seqs!Last(m) = "group" /\ token = RightBrace
  <2>1. w2 = text
    <3>1. /\ IsSeq(w2) /\ Len(w2) = Len(w) + 1 /\ w2[Len(w) + 1] = token
          /\ \A j \in 1..Len(w) : w2[j] = w[j]
      BY <1>1, <1>5, AppendFacts
    <3>2. Len(w2) = N /\ w2[N] = token /\ \A j \in 1..N-1 : w2[j] = text[j]
      BY <1>2, <1>5, <3>1
    <3>3. \A j \in 1..N : w2[j] = text[j]
      <4> SUFFICES ASSUME NEW j \in 1..N PROVE w2[j] = text[j]
        OBVIOUS
      <4>1. j = N \/ j \in 1..N-1
        BY <1>2
      <4> QED
        BY <1>1, <3>2, <4>1
    <3> QED
      BY <1>1, <3>1, <3>2, <3>3, SeqEqual
  <2>2. Split(acc, token) = [modes |-> <<"phrase">>, raw |-> <<>>, phrases |-> Append(phrases, w2)]
    <3>1. acc.phrases = phrases
      BY <1>3
    <3> QED
      BY <1>1, <1>9, <3>1 DEF Split, RightBrace
  <2>3. WithoutPeriod(text) = text
    BY <1>7, <1>9 DEF WithoutPeriod, RightBrace
  <2> QED
    BY <1>1, <2>1, <2>2, <2>3 DEF Fresh
<1> QED
  BY <1>4, <1>8, <1>9 DEF Ends

(* The parser reads a phrase that ends once as one.                        *)
LEMMA ReadsPhrase ==
    ASSUME NEW text, IsSeq(text), EndsOnce(text), NEW phrases
    PROVE  Reads(Fresh(phrases), text, Fresh(Append(phrases, WithoutPeriod(text))))
<1>1. PICK N : N = Len(text) /\ N \in Nat /\ N > 1
  BY SeqPlaces DEF EndsOnce
<1>2. PICK f : IsSplit(f, Fresh(phrases), text)
  BY SplitHasTrace
<1> DEFINE S == {n \in Nat : n < N => Mid(f[n], text, n, phrases)}
<1>3. 0 \in S
  <2>1. f[0] = Fresh(phrases)
    BY <1>2 DEF IsSplit
  <2>2. IsStart(<<>>, text, 0)
    BY SmallSeqs DEF IsStart
  <2>3. ModesFit(text, 0 + 1, <<"phrase">>)
    BY FitsFirst
  <2>4. Mid(Fresh(phrases), text, 0, phrases)
    BY <2>2, <2>3 DEF Mid, Fresh
  <2> QED
    BY <2>1, <2>4
<1>4. ASSUME NEW n \in Nat, n \in S PROVE n + 1 \in S
  <2> SUFFICES ASSUME n + 1 < N PROVE Mid(f[n + 1], text, n + 1, phrases)
    OBVIOUS
  <2>1. n + 1 \in 1..N /\ (n + 1) - 1 = n /\ n + 1 < N /\ Mid(f[n], text, n, phrases)
    BY <1>1, <1>4
  <2>2. f[n + 1] = Split(f[n], text[n + 1])
    BY <1>1, <1>2, <2>1 DEF IsSplit
  <2> QED
    BY <1>1, <2>1, <2>2, SplitMid
<1>5. Mid(f[N - 1], text, N - 1, phrases)
  <2> HIDE DEF S
  <2>1. N - 1 \in S /\ N - 1 < N
    BY <1>1, <1>3, <1>4, SetInduction
  <2> QED
    BY <2>1 DEF S
<1>6. f[N] = Split(f[N - 1], text[N])
  <2>1. N \in 1..N
    BY <1>1
  <2> QED
    BY <1>1, <1>2, <2>1 DEF IsSplit
<1>7. f[N] = Fresh(Append(phrases, WithoutPeriod(text)))
  BY <1>1, <1>5, <1>6, SplitEnd
<1> QED
  BY <1>1, <1>2, <1>7 DEF Reads

(* The parser reads phrases in a row.                                      *)
LEMMA ReadsAll ==
    ASSUME NEW s, IsSeq(s), \A i \in 1..Len(s) : IsSeq(s[i]) /\ EndsOnce(s[i])
    PROVE  Reads(Fresh(<<>>), Seqs!FlattenSeq(s), Fresh([i \in DOMAIN s |-> WithoutPeriod(s[i])]))
<1>1. PICK N : N = Len(s) /\ N \in Nat
  BY SeqPlaces
<1>2. PICK f : /\ RunsTogether(s, f) /\ Seqs!FlattenSeq(s) = f[N]
               /\ \A n \in 0..N : IsSeq(f[n])
  BY <1>1, FlattenTrace
<1> DEFINE W(n) == [i \in 1..n |-> WithoutPeriod(s[i])]
           S == {n \in Nat : n <= N => Reads(Fresh(<<>>), f[n], Fresh(W(n)))}
<1>3. \A n \in Nat : IsSeq(W(n)) /\ Len(W(n)) = n
  <2> SUFFICES ASSUME NEW n \in Nat PROVE IsSeq(W(n)) /\ Len(W(n)) = n
    OBVIOUS
  <2>1. PICK w : w = W(n)
    OBVIOUS
  <2>2. DOMAIN w = 1..n /\ w = [i \in 1..n |-> w[i]]
    BY <2>1
  <2> HIDE DEF W
  <2> QED
    BY <2>1, <2>2, FunctionIsSeq
<1>4. 0 \in S
  <2>1. f[0] = <<>>
    BY <1>2 DEF RunsTogether
  <2>2. W(0) = <<>>
    <3>1. IsSeq(W(0)) /\ Len(W(0)) = 0
      BY <1>3
    <3> HIDE DEF W
    <3> QED
      BY <3>1, SmallSeqs, SeqEqual
  <2>3. Reads(Fresh(<<>>), <<>>, Fresh(<<>>))
    <3>1. PICK g : g = [i \in 0..0 |-> Fresh(<<>>)]
      OBVIOUS
    <3>2. g[0] = Fresh(<<>>)
      BY <3>1
    <3>3. IsSplit(g, Fresh(<<>>), <<>>) /\ g[Len(<<>>)] = Fresh(<<>>)
      BY <3>2, SmallSeqs DEF IsSplit
    <3> QED
      BY <3>3 DEF Reads
  <2> HIDE DEF W
  <2> QED
    BY <2>1, <2>2, <2>3
<1>5. ASSUME NEW n \in Nat, n \in S PROVE n + 1 \in S
  <2> SUFFICES ASSUME n + 1 <= N PROVE Reads(Fresh(<<>>), f[n + 1], Fresh(W(n + 1)))
    OBVIOUS
  <2>1. n + 1 \in 1..N /\ (n + 1) - 1 = n /\ n \in 0..N /\ Reads(Fresh(<<>>), f[n], Fresh(W(n)))
    BY <1>1, <1>5
  <2>2. PICK text, p, w : text = s[n + 1] /\ p = W(n) /\ w = WithoutPeriod(text)
    OBVIOUS
  <2>3. f[n + 1] = f[n] \o text /\ IsSeq(f[n]) /\ IsSeq(text) /\ EndsOnce(text)
    BY <1>1, <1>2, <2>1, <2>2 DEF RunsTogether
  <2>4. IsSeq(p) /\ Len(p) = n /\ IsSeq(W(n + 1)) /\ Len(W(n + 1)) = n + 1
    BY <1>3, <2>2
  <2>5. W(n + 1) = Append(p, w)
    <3>1. PICK q, u : q = Append(p, w) /\ u = W(n + 1)
      OBVIOUS
    <3>2. IsSeq(q) /\ Len(q) = n + 1 /\ q[n + 1] = w /\ \A i \in 1..n : q[i] = p[i]
      BY <2>4, <3>1, AppendFacts
    <3>3. \A i \in 1..n+1 : u[i] = WithoutPeriod(s[i])
      BY <3>1
    <3>4. \A i \in 1..n : p[i] = WithoutPeriod(s[i])
      BY <2>2
    <3>5. \A i \in 1..n+1 : u[i] = q[i]
      <4> SUFFICES ASSUME NEW i \in 1..n+1 PROVE u[i] = q[i]
        OBVIOUS
      <4>1. i = n + 1 \/ i \in 1..n
        OBVIOUS
      <4> QED
        BY <2>2, <3>2, <3>3, <3>4, <4>1
    <3> HIDE DEF W
    <3>6. u = q
      BY <2>4, <3>1, <3>2, <3>5, SeqEqual
    <3> QED
      BY <3>1, <3>6
  <2> HIDE DEF W
  <2>6. Reads(Fresh(p), text, Fresh(Append(p, w)))
    BY <2>2, <2>3, ReadsPhrase
  <2> QED
    BY <2>1, <2>2, <2>3, <2>5, <2>6, ReadsOn
<1>6. Reads(Fresh(<<>>), f[N], Fresh(W(N)))
  <2> HIDE DEF S
  <2>1. N \in S
    BY <1>1, <1>4, <1>5, SetInduction
  <2> HIDE DEF W
  <2> QED
    BY <2>1 DEF S
<1>7. DOMAIN s = 1..N
  BY <1>1, SeqPlaces
<1> QED
  BY <1>2, <1>6, <1>7

-----------------------------------------------------------------------------
(* The text without comments.                                              *)

(* A text without // is kept, one that starts with it is dropped.          *)
LEMMA UncommentedFacts ==
    ASSUME NEW text, IsSeq(text)
    PROVE  /\ (\A i \in 1..Len(text) : text[i] # Slashes) => Uncommented(text) = text
           /\ text = <<>> \/ Head(text) = Slashes => Uncommented(text) = <<>>
<1>1. PICK N, S : N = Len(text) /\ S = {i \in DOMAIN text : \A j \in 1..i : text[j] # Slashes}
  OBVIOUS
<1>2. N \in Nat /\ DOMAIN text = 1..N /\ Uncommented(text) = Picked(text, S)
  BY <1>1, SeqPlaces DEF Uncommented
<1>3. CASE \A i \in 1..Len(text) : text[i] # Slashes
  <2>1. S = DOMAIN text
    BY <1>1, <1>2, <1>3
  <2>2. Uncommented(text) = text
    BY <1>2, <2>1, PickedAll
  <2>3. ~(text # <<>> /\ Head(text) = Slashes)
    <3> SUFFICES ASSUME text # <<>>, Head(text) = Slashes PROVE FALSE
      OBVIOUS
    <3>1. text[1] = Slashes /\ 1 \in 1..N
      BY <1>1, TailFacts
    <3> QED
      BY <1>1, <1>3, <3>1
  <2> QED
    BY <2>2, <2>3
<1>4. CASE text = <<>> \/ Head(text) = Slashes
  <2>1. S = {}
    <3>1. CASE text = <<>>
      <4>1. N = 0
        BY <1>1, <3>1, SmallSeqs
      <4> QED
        BY <1>1, <1>2, <4>1
    <3>2. CASE text # <<>>
      <4>1. text[1] = Slashes
        BY <1>4, <3>2, TailFacts
      <4>2. ASSUME NEW i \in S PROVE FALSE
        <5>1. i \in 1..N /\ 1 \in 1..i
          BY <1>1, <1>2
        <5> QED
          BY <1>1, <4>1, <5>1
      <4> QED
        BY <4>2
    <3> QED
      BY <3>1, <3>2
  <2>2. Uncommented(text) = <<>>
    BY <1>2, <2>1, PickedNone
  <2> QED
    BY <1>3, <2>2
<1> QED
  BY <1>3, <1>4

-----------------------------------------------------------------------------
(* The items of a scenario, and its input.                                 *)
MarkedTo(lines, n) == {m \in 1..n : StartsWith(lines[m], {Guard} \cup Directives)}

PlacedTo(lines, n) == Opened(lines, n) \cup MarkedTo(lines, n)

ItemTo(lines, o, n) == IF IsOpening(lines[o]) THEN MeantTo(lines, o, n) ELSE lines[o].text

(* Every line's item, whether it has one or not.                           *)
ItemAt(lines) == [n \in DOMAIN lines |-> IF IsOpening(lines[n]) THEN Meant(lines, n) ELSE lines[n].text]

(* The places of the items, one line further.                              *)
LEMMA PlacedGrows ==
    ASSUME NEW lines, NEW n \in Nat
    PROVE  /\ PlacedTo(lines, n) \subseteq 1..n
           /\ PlacedTo(lines, n) \in SUBSET Nat /\ IsFiniteSet(PlacedTo(lines, n))
           /\ IsOpening(lines[n+1]) \/ StartsWith(lines[n+1], {Guard} \cup Directives) =>
                PlacedTo(lines, n+1) = PlacedTo(lines, n) \cup {n+1}
           /\ ~IsOpening(lines[n+1]) /\ ~StartsWith(lines[n+1], {Guard} \cup Directives) =>
                PlacedTo(lines, n+1) = PlacedTo(lines, n)
<1>1. PlacedTo(lines, n) \subseteq 1..n
  BY DEF PlacedTo, Opened, MarkedTo
<1>2. PlacedTo(lines, n) \in SUBSET Nat /\ IsFiniteSet(PlacedTo(lines, n))
  BY <1>1, SomePlaces
<1>3. PICK T : T = {Guard} \cup Directives
  OBVIOUS
<1>4. /\ \A m : m \in PlacedTo(lines, n) <=> m \in 1..n /\ (IsOpening(lines[m]) \/ StartsWith(lines[m], T))
      /\ \A m : m \in PlacedTo(lines, n+1) <=> m \in 1..n+1 /\ (IsOpening(lines[m]) \/ StartsWith(lines[m], T))
  BY <1>3 DEF PlacedTo, Opened, MarkedTo
<1>5. \A m : m \in 1..n+1 <=> m \in 1..n \/ m = n+1
  OBVIOUS
<1> QED
  BY <1>1, <1>2, <1>3, <1>4, <1>5

(* The items are texts.                                                    *)
LEMMA MeantIsSeq ==
    ASSUME NEW lines, AreLines(lines), NEW n \in Nat, n <= Len(lines), NEW o \in 1..Len(lines)
    PROVE  IsSeq(MeantTo(lines, o, n)) /\ IsSeq(Meant(lines, o)) /\ IsSeq(ItemTo(lines, o, n))
           /\ ItemAt(lines)[o] = ItemTo(lines, o, Len(lines)) /\ IsSeq(ItemAt(lines)[o])
<1>1. PICK N, t : N = Len(lines) /\ t = Texts(lines)
  OBVIOUS
<1>2. /\ N \in Nat /\ DOMAIN lines = 1..N /\ o \in 1..N /\ n <= N
      /\ \A m \in 1..N : t[m] = lines[m].text /\ IsSeq(t[m])
  BY <1>1, SeqPlaces DEF AreLines, Texts
<1>3. ASSUME NEW e \in Nat, e <= N PROVE IsSeq(MeantTo(lines, o, e))
  <2>1. PICK S : S = BlockTo(lines, o, e)
    OBVIOUS
  <2>2. S \subseteq 1..e /\ S \subseteq 1..N
    BY <1>2, <1>3, <2>1 DEF BlockTo
  <2>3. S \in SUBSET Nat /\ IsFiniteSet(S) /\ \A m \in S : IsSeq(t[m])
    BY <1>2, <1>3, <2>2, SomePlaces
  <2>4. IsSeq(Gathered(t, S))
    BY <2>3, GatheredFacts
  <2> QED
    BY <1>1, <2>1, <2>4 DEF MeantTo
<1>4. MeantTo(lines, o, N) = Meant(lines, o) /\ IsSeq(MeantTo(lines, o, N)) /\ IsSeq(MeantTo(lines, o, n))
  BY <1>1, <1>2, <1>3, MeantEnds
<1>5. IsSeq(lines[o].text)
  BY <1>2
<1>6. ItemAt(lines)[o] = IF IsOpening(lines[o]) THEN Meant(lines, o) ELSE lines[o].text
  BY <1>2 DEF ItemAt
<1> QED
  BY <1>1, <1>4, <1>5, <1>6 DEF ItemTo

(* What the loop over the lines has gathered after n of them.              *)
HoldsItems(g, lines, n) ==
    LET placed == PlacedTo(lines, n)
    IN  /\ IsSeq(g[n])
        /\ placed = {} => g[n] = <<>>
        /\ \A o \in placed : (\A m \in placed : m <= o) =>
             g[n] = Gathered(ItemAt(lines), placed \ {o}) \o ItemTo(lines, o, n)

(* A line adds its text, or nothing.                                       *)
LEMMA UncommentedLine ==
    ASSUME NEW lines, AreLines(lines), IsScenario(lines), NEW k \in 1..Len(lines)
    PROVE  /\ IsCode(lines[k]) \/ StartsWith(lines[k], {Guard} \cup Directives) =>
                Uncommented(lines[k].text) = lines[k].text
           /\ ~IsCode(lines[k]) /\ ~StartsWith(lines[k], {Guard} \cup Directives) =>
                Uncommented(lines[k].text) = <<>>
<1>1. PICK line, text : line = lines[k] /\ text = lines[k].text /\ text = line.text
  OBVIOUS
<1>2. k \in DOMAIN lines /\ IsSeq(text) /\ DOMAIN text = 1..Len(text)
  BY <1>1, SeqPlaces DEF AreLines
<1>3. CASE IsCode(line)
  <2>1. \A i \in DOMAIN lines[k].text : lines[k].text[i] \notin {Slashes, Guard}
    BY <1>1, <1>2, <1>3 DEF IsScenario, LaidOut
  <2>2. \A i \in 1..Len(text) : text[i] # Slashes
    BY <1>1, <1>2, <2>1
  <2>3. Uncommented(text) = text
    BY <1>2, <2>2, UncommentedFacts
  <2> QED
    BY <1>1, <1>3, <2>3
<1>4. CASE StartsWith(line, {Guard} \cup Directives)
  <2>1. EndsOnce(text)
    BY <1>1, <1>2, <1>4 DEF IsScenario
  <2>2. \A i \in 1..Len(text) : text[i] # Slashes
    BY <1>2, <2>1 DEF EndsOnce
  <2>3. Uncommented(text) = text
    BY <1>2, <2>2, UncommentedFacts
  <2> QED
    BY <1>1, <1>4, <2>3
<1>5. CASE ~IsCode(line) /\ ~StartsWith(line, {Guard} \cup Directives)
  <2>1. text = <<>> \/ Head(text) = Slashes
    BY <1>1, <1>5 DEF IsCode, StartsWith
  <2>2. Uncommented(text) = <<>>
    BY <1>2, <2>1, UncommentedFacts
  <2> QED
    BY <1>1, <1>5, <2>2
<1> QED
  BY <1>1, <1>3, <1>4, <1>5

(* The last item is whole once a line opens or marks the next one.         *)
LEMMA ItemGrows ==
    ASSUME NEW lines, AreLines(lines), IsScenario(lines), NEW n \in Nat, n < Len(lines),
           NEW o \in PlacedTo(lines, n), \A m \in PlacedTo(lines, n) : m <= o
    PROVE  /\ IsOpening(lines[n+1]) \/ StartsWith(lines[n+1], {Guard} \cup Directives) =>
                ItemTo(lines, o, n) = ItemAt(lines)[o]
           /\ IsCode(lines[n+1]) /\ ~IsOpening(lines[n+1]) =>
                ItemTo(lines, o, n+1) = ItemTo(lines, o, n) \o lines[n+1].text
           /\ ~IsCode(lines[n+1]) => ItemTo(lines, o, n+1) = ItemTo(lines, o, n)
<1>1. PICK N, k, line, T : N = Len(lines) /\ k = n + 1 /\ line = lines[k] /\ T = {Guard} \cup Directives
  OBVIOUS
<1>2. N \in Nat /\ DOMAIN lines = 1..N /\ k \in 1..N /\ k \in Nat /\ n \in 1..N
  <2>1. N \in Nat /\ DOMAIN lines = 1..N
    BY <1>1, SeqPlaces DEF AreLines
  <2>2. o \in 1..n
    BY PlacedGrows
  <2> QED
    BY <1>1, <2>1, <2>2
<1>3. o \in 1..n /\ o \in 1..N /\ (IsOpening(lines[o]) \/ StartsWith(lines[o], T))
  <2>1. o \in 1..n /\ (IsOpening(lines[o]) \/ StartsWith(lines[o], T))
    BY <1>1 DEF PlacedTo, Opened, MarkedTo
  <2> QED
    BY <1>2, <2>1
<1>4. IsOpening(lines[o]) => o \in Opened(lines, n) /\ \A m \in Opened(lines, n) : m <= o
  BY <1>3 DEF PlacedTo, Opened
<1>5. ItemAt(lines)[o] = IF IsOpening(lines[o]) THEN Meant(lines, o) ELSE lines[o].text
  BY <1>2, <1>3 DEF ItemAt
<1>6. CASE IsOpening(lines[o])
  <2>1. /\ IsCode(line) /\ ~IsOpening(line) => MeantTo(lines, o, k) = MeantTo(lines, o, n) \o line.text
        /\ ~IsCode(line) => MeantTo(lines, o, k) = MeantTo(lines, o, n)
        /\ IsOpening(line) => Meant(lines, o) = MeantTo(lines, o, n)
    BY <1>1, <1>4, <1>6, MeantGrows
  <2>2. ASSUME StartsWith(line, T) PROVE Meant(lines, o) = MeantTo(lines, o, n)
    <3>1. \A m \in k+1..N : IsCode(lines[m]) => \E q \in k+1..m : IsOpening(lines[q])
      BY <1>1, <1>2, <2>2 DEF IsScenario
    <3>2. ~IsCode(line)
      BY <1>1, <2>2 DEF IsCode, StartsWith, Guard, Slashes, Directives
    <3>3. Block(lines, o) = BlockTo(lines, o, n)
      <4>1. ASSUME NEW m \in o..N, IsCode(lines[m]), \A q \in o+1..m : ~IsOpening(lines[q])
            PROVE  m \in o..n
        <5>1. m # k
          BY <1>1, <3>2, <4>1
        <5>2. ASSUME m > k PROVE FALSE
          <6>1. PICK q \in k+1..m : IsOpening(lines[q])
            BY <1>2, <3>1, <4>1, <5>2
          <6>2. q \in o+1..m
            BY <1>1, <1>2, <1>3, <4>1, <6>1
          <6> QED
            BY <4>1, <6>1, <6>2
        <5> QED
          BY <1>1, <1>2, <1>3, <4>1, <5>1, <5>2
      <4>2. o..n \subseteq o..N
        BY <1>1, <1>2, <1>3
      <4> QED
        BY <1>1, <4>1, <4>2 DEF Block, BlockTo
    <3> QED
      BY <3>3 DEF Meant, MeantTo, Gathered
  <2>3. \A e : ItemTo(lines, o, e) = MeantTo(lines, o, e)
    BY <1>6 DEF ItemTo
  <2>4. ItemAt(lines)[o] = Meant(lines, o)
    BY <1>5, <1>6
  <2> QED
    BY <1>1, <2>1, <2>2, <2>3, <2>4
<1>7. CASE ~IsOpening(lines[o])
  <2>1. \A e : ItemTo(lines, o, e) = lines[o].text
    BY <1>7 DEF ItemTo
  <2>2. StartsWith(lines[o], T)
    BY <1>3, <1>7
  <2>3. ASSUME IsCode(line), ~IsOpening(line) PROVE FALSE
    <3>1. \A m \in o+1..N : IsCode(lines[m]) => \E q \in o+1..m : IsOpening(lines[q])
      BY <1>1, <1>2, <1>3, <2>2 DEF IsScenario
    <3>2. k \in o+1..N
      BY <1>1, <1>2, <1>3
    <3>3. PICK q \in o+1..k : IsOpening(lines[q])
      BY <1>1, <2>3, <3>1, <3>2
    <3>4. q # k /\ q \in 1..n
      BY <1>1, <1>2, <1>3, <2>3, <3>3
    <3>5. q \in PlacedTo(lines, n)
      BY <3>3, <3>4 DEF PlacedTo, Opened
    <3>6. q <= o
      BY <3>5
    <3> QED
      BY <1>3, <3>3, <3>6
  <2>4. ItemAt(lines)[o] = lines[o].text
    BY <1>5, <1>7
  <2> QED
    BY <1>1, <2>1, <2>3, <2>4
<1> QED
  BY <1>6, <1>7

(* All items but the last, and the last, are the items.                    *)
LEMMA ItemsPart ==
    ASSUME NEW lines, AreLines(lines), NEW S, S \subseteq 1..Len(lines), NEW o \in S, \A m \in S : m <= o
    PROVE  /\ Gathered(ItemAt(lines), S) = Gathered(ItemAt(lines), S \ {o}) \o ItemAt(lines)[o]
           /\ IsSeq(Gathered(ItemAt(lines), S)) /\ IsSeq(Gathered(ItemAt(lines), S \ {o}))
<1>1. PICK N, rest, items : N = Len(lines) /\ rest = S \ {o} /\ items = ItemAt(lines)
  OBVIOUS
<1>2. N \in Nat
  BY <1>1, SeqPlaces DEF AreLines
<1>3. rest \subseteq 1..N /\ rest \in SUBSET Nat /\ IsFiniteSet(rest) /\ S \in SUBSET Nat /\ IsFiniteSet(S)
  <2>1. rest \subseteq 1..N
    BY <1>1
  <2> QED
    BY <1>1, <1>2, <2>1, SomePlaces
<1>4. o \in Nat /\ (\A m \in rest : m < o) /\ rest \cup {o} = S
  BY <1>1, <1>3
<1>5. \A m \in 1..N : IsSeq(items[m])
  <2>1. N <= Len(lines)
    BY <1>1, <1>2
  <2> QED
    BY <1>1, <1>2, <2>1, MeantIsSeq
<1>6. (\A m \in rest : IsSeq(items[m])) /\ (\A m \in S : IsSeq(items[m])) /\ IsSeq(items[o])
  BY <1>1, <1>3, <1>5
<1>7. IsSeq(Gathered(items, rest)) /\ Gathered(items, rest \cup {o}) = Gathered(items, rest) \o items[o]
  BY <1>3, <1>4, <1>6, GatheredFacts
<1>8. IsSeq(Gathered(items, S))
  BY <1>3, <1>6, GatheredFacts
<1> QED
  BY <1>1, <1>4, <1>7, <1>8

(* One line of a scenario.                                                 *)
LEMMA ItemsStep ==
    ASSUME NEW lines, AreLines(lines), IsScenario(lines), NEW g, NEW n \in Nat, n < Len(lines),
           g[n+1] = g[n] \o Uncommented(lines[n+1].text), HoldsItems(g, lines, n)
    PROVE  HoldsItems(g, lines, n+1)
<1>1. PICK N, k, line, text, T, placed, before, after, items :
           /\ N = Len(lines) /\ k = n + 1 /\ line = lines[k] /\ text = line.text
           /\ T = {Guard} \cup Directives
           /\ placed = PlacedTo(lines, n) /\ before = g[n] /\ after = g[k]
           /\ items = ItemAt(lines)
  OBVIOUS
<1>2. /\ N \in Nat /\ k \in 1..N /\ IsSeq(text)
  <2>1. IsSeq(lines) /\ \A m \in 1..N : IsSeq(lines[m].text)
    BY <1>1 DEF AreLines
  <2>2. N \in Nat
    BY <1>1, <2>1, SeqPlaces
  <2>3. k \in 1..N
    BY <1>1, <2>2
  <2> QED
    BY <1>1, <2>1, <2>2, <2>3
<1>3. /\ IsSeq(before)
      /\ placed = {} => before = <<>>
      /\ \A o \in placed : (\A m \in placed : m <= o) =>
           before = Gathered(items, placed \ {o}) \o ItemTo(lines, o, n)
  BY <1>1 DEF HoldsItems
<1>4. /\ placed \subseteq 1..n /\ placed \in SUBSET Nat /\ IsFiniteSet(placed)
      /\ IsOpening(line) \/ StartsWith(line, T) => PlacedTo(lines, k) = placed \cup {k}
      /\ ~IsOpening(line) /\ ~StartsWith(line, T) => PlacedTo(lines, k) = placed
  BY <1>1, PlacedGrows
<1>5. /\ IsCode(line) \/ StartsWith(line, T) => after = before \o text
      /\ ~IsCode(line) /\ ~StartsWith(line, T) => after = before
  <2>1. /\ IsCode(line) \/ StartsWith(line, T) => Uncommented(text) = text
        /\ ~IsCode(line) /\ ~StartsWith(line, T) => Uncommented(text) = <<>>
    BY <1>1, <1>2, UncommentedLine
  <2>2. after = before \o Uncommented(text)
    BY <1>1
  <2>3. before \o <<>> = before
    BY <1>3, EmptyBefore
  <2> QED
    BY <2>1, <2>2, <2>3
<1>6. \A o \in placed : (\A m \in placed : m <= o) =>
         /\ IsOpening(line) \/ StartsWith(line, T) => ItemTo(lines, o, n) = items[o]
         /\ IsCode(line) /\ ~IsOpening(line) => ItemTo(lines, o, k) = ItemTo(lines, o, n) \o text
         /\ ~IsCode(line) => ItemTo(lines, o, k) = ItemTo(lines, o, n)
  BY <1>1, ItemGrows
<1>7. IsSeq(after)
  <2>1. IsSeq(before \o text)
    BY <1>2, <1>3, ConcatFacts
  <2>2. after = before \o text \/ after = before
    BY <1>5
  <2> QED
    BY <1>3, <2>1, <2>2
<1>8. placed \subseteq 1..Len(lines)
  BY <1>1, <1>2, <1>4
<1>9. SUFFICES
        /\ PlacedTo(lines, k) = {} => after = <<>>
        /\ \A o \in PlacedTo(lines, k) : (\A m \in PlacedTo(lines, k) : m <= o) =>
             after = Gathered(items, PlacedTo(lines, k) \ {o}) \o ItemTo(lines, o, k)
  BY <1>1, <1>7 DEF HoldsItems
<1>10. CASE ~IsCode(line) /\ ~StartsWith(line, T)
  <2>1. PlacedTo(lines, k) = placed /\ after = before
    BY <1>4, <1>5, <1>10 DEF IsOpening
  <2> QED
    BY <1>3, <1>6, <1>10, <2>1
<1>11. CASE IsCode(line) /\ ~IsOpening(line)
  <2>1. ~StartsWith(line, T)
    BY <1>1, <1>11 DEF IsCode, StartsWith
  <2>2. PlacedTo(lines, k) = placed /\ after = before \o text
    BY <1>4, <1>5, <1>11, <2>1
  <2>3. placed # {}
    <3>1. \E m \in 1..k : IsOpening(lines[m])
      <4>1. k \in DOMAIN lines
        BY <1>1, <1>2, SeqPlaces DEF AreLines
      <4> QED
        BY <1>1, <1>11, <4>1 DEF IsScenario, LaidOut
    <3>2. PICK m \in 1..k : IsOpening(lines[m])
      BY <3>1
    <3>3. m \in 1..n
      BY <1>1, <1>2, <1>11, <3>2
    <3> QED
      BY <1>1, <3>2, <3>3 DEF PlacedTo, Opened
  <2>4. ASSUME NEW o \in placed, \A m \in placed : m <= o
        PROVE  after = Gathered(items, placed \ {o}) \o ItemTo(lines, o, k)
    <3>1. PICK a, b : a = Gathered(items, placed \ {o}) /\ b = ItemTo(lines, o, n)
      OBVIOUS
    <3>2. IsSeq(a)
      BY <1>1, <1>8, <2>4, <3>1, ItemsPart
    <3>3. IsSeq(b)
      <4>1. o \in 1..Len(lines) /\ n <= Len(lines)
        BY <1>1, <1>2, <1>8, <2>4
      <4> QED
        BY <3>1, <4>1, MeantIsSeq
    <3>4. before = a \o b /\ ItemTo(lines, o, k) = b \o text
      BY <1>3, <1>6, <1>11, <2>4, <3>1
    <3>5. (a \o b) \o text = a \o (b \o text)
      BY <1>2, <3>2, <3>3, ConcatAssoc
    <3> QED
      BY <2>2, <3>1, <3>4, <3>5
  <2> QED
    BY <2>2, <2>3, <2>4
<1>12. CASE IsOpening(line) \/ StartsWith(line, T)
  <2>1. PlacedTo(lines, k) = placed \cup {k} /\ after = before \o text
    BY <1>4, <1>5, <1>12 DEF IsOpening
  <2>2. ItemTo(lines, k, k) = text
    <3>1. CASE IsOpening(line)
      <4>1. MeantTo(lines, k, k) = text
        BY <1>1, <3>1, MeantGrows
      <4> QED
        BY <1>1, <3>1, <4>1 DEF ItemTo
    <3>2. CASE ~IsOpening(line)
      BY <1>1, <3>2 DEF ItemTo
    <3> QED
      BY <3>1, <3>2
  <2>3. before = Gathered(items, placed)
    <3>1. CASE placed = {}
      <4>1. before = <<>>
        BY <1>3, <3>1
      <4> QED
        BY <3>1, <4>1, GatheredFacts
    <3>2. CASE placed # {}
      <4>1. PICK o \in placed : \A m \in placed : m <= o
        <5>1. \A m \in placed : m <= n
          BY <1>4
        <5> QED
          BY <1>4, <3>2, <5>1, GreatestElement
      <4>2. before = Gathered(items, placed \ {o}) \o items[o]
        BY <1>3, <1>6, <1>12, <4>1
      <4> QED
        BY <1>1, <1>8, <4>1, <4>2, ItemsPart
    <3> QED
      BY <3>1, <3>2
  <2>4. ASSUME NEW o \in placed \cup {k}, \A m \in placed \cup {k} : m <= o
        PROVE  o = k /\ (placed \cup {k}) \ {o} = placed
    <3>1. \A m \in placed : m < k
      BY <1>1, <1>2, <1>4
    <3>2. o = k
      BY <1>2, <1>4, <2>4, <3>1
    <3> QED
      BY <1>2, <1>4, <3>1, <3>2
  <2> QED
    BY <2>1, <2>2, <2>3, <2>4
<1> QED
  BY <1>10, <1>11, <1>12

(* The items stand in the order of the text, and every one ends once.      *)
LEMMA ItemsFacts ==
    ASSUME NEW lines, AreLines(lines), IsScenario(lines)
    PROVE  /\ Openings(lines) \cup Marked(lines) = PlacedTo(lines, Len(lines))
           /\ Items(lines) = Picked(ItemAt(lines), PlacedTo(lines, Len(lines)))
           /\ IsSeq(Items(lines))
           /\ \A i \in 1..Len(Items(lines)) : IsSeq(Items(lines)[i]) /\ EndsOnce(Items(lines)[i])
<1>1. PICK N, S, items : N = Len(lines) /\ S = PlacedTo(lines, N) /\ items = ItemAt(lines)
  OBVIOUS
<1>2. N \in Nat /\ DOMAIN lines = 1..N
  BY <1>1, SeqPlaces DEF AreLines
<1>3. Openings(lines) \cup Marked(lines) = S
  BY <1>1, <1>2 DEF Openings, Marked, PlacedTo, Opened, MarkedTo
<1>4. Items(lines) = Picked(items, S)
  BY <1>1, <1>3 DEF Items, ItemAt
<1>5. S \subseteq 1..N /\ S \in SUBSET Nat /\ IsFiniteSet(S)
  BY <1>1, <1>2, PlacedGrows
<1>6. ASSUME NEW o \in S PROVE IsSeq(items[o]) /\ EndsOnce(items[o])
  <2>1. o \in 1..N /\ N <= Len(lines)
    BY <1>1, <1>2, <1>5
  <2>2. IsSeq(items[o])
    BY <1>1, <1>2, <2>1, MeantIsSeq
  <2>3. items[o] = IF IsOpening(lines[o]) THEN Meant(lines, o) ELSE lines[o].text
    BY <1>1, <1>2, <2>1 DEF ItemAt
  <2>4. o \in Openings(lines) \/ o \in Marked(lines)
    BY <1>3
  <2>5. CASE IsOpening(lines[o])
    <3>1. EndsOnce(Meant(lines, o))
      BY <1>2, <2>1, <2>5 DEF IsScenario
    <3> QED
      BY <2>2, <2>3, <2>5, <3>1
  <2>6. CASE ~IsOpening(lines[o])
    <3>1. StartsWith(lines[o], {Guard} \cup Directives)
      BY <2>4, <2>6 DEF Openings, Marked
    <3>2. EndsOnce(lines[o].text)
      BY <1>2, <2>1, <3>1 DEF IsScenario
    <3> QED
      BY <2>2, <2>3, <2>6, <3>2
  <2> QED
    BY <2>5, <2>6
<1>7. PICK p, c : p = Picked(items, S) /\ c = Cardinality(S)
  OBVIOUS
<1>8. IsSeq(p) /\ Len(p) = c /\ \A k \in 1..c : Ascending(S)[k] \in S /\ p[k] = items[Ascending(S)[k]]
  BY <1>5, <1>7, PickedFacts
<1>9. \A i \in 1..Len(p) : IsSeq(p[i]) /\ EndsOnce(p[i])
  BY <1>6, <1>8
<1> QED
  BY <1>1, <1>3, <1>4, <1>7, <1>8, <1>9

(* Without its comments a scenario is its items in a row.                  *)
LEMMA InputIsItems ==
    ASSUME NEW lines, AreLines(lines), IsScenario(lines)
    PROVE  Input(lines) = Seqs!FlattenSeq(Items(lines)) /\ IsSeq(Input(lines))
<1>1. PICK N, u, T : /\ N = Len(lines) /\ T = {Guard} \cup Directives
                     /\ u = [n \in 1..N |-> Uncommented(lines[n].text)]
  OBVIOUS
<1>2. N \in Nat /\ DOMAIN lines = 1..N /\ \A n \in 1..N : IsSeq(lines[n].text)
  BY <1>1, SeqPlaces DEF AreLines
<1>3. Input(lines) = Seqs!FlattenSeq(u)
  BY <1>1, <1>2 DEF Input
<1>4. IsSeq(u) /\ Len(u) = N /\ \A n \in 1..N : u[n] = Uncommented(lines[n].text)
  <2>1. DOMAIN u = 1..N /\ u = [n \in 1..N |-> u[n]]
    BY <1>1
  <2> QED
    BY <1>1, <1>2, <2>1, FunctionIsSeq
<1>5. ASSUME NEW n \in 1..N PROVE IsSeq(u[n])
  <2>1. u[n] = lines[n].text \/ u[n] = <<>>
    BY <1>1, <1>4, UncommentedLine
  <2> QED
    BY <1>2, <2>1, SmallSeqs
<1>6. PICK g : RunsTogether(u, g) /\ Seqs!FlattenSeq(u) = g[N] /\ \A n \in 0..N : IsSeq(g[n])
  BY <1>4, <1>5, FlattenTrace
<1> DEFINE S == {n \in Nat : n <= N => HoldsItems(g, lines, n)}
<1>7. 0 \in S
  <2>1. g[0] = <<>> /\ PlacedTo(lines, 0) = {}
    BY <1>6, PlacedGrows DEF RunsTogether
  <2> QED
    BY <2>1, SmallSeqs DEF HoldsItems
<1>8. ASSUME NEW n \in Nat, n \in S PROVE n + 1 \in S
  <2> SUFFICES ASSUME n + 1 <= N PROVE HoldsItems(g, lines, n + 1)
    OBVIOUS
  <2>1. n < N /\ n + 1 \in 1..N /\ (n + 1) - 1 = n /\ HoldsItems(g, lines, n)
    BY <1>2, <1>8
  <2>2. g[n+1] = g[n] \o u[n+1]
    BY <1>4, <1>6, <2>1 DEF RunsTogether
  <2>3. g[n+1] = g[n] \o Uncommented(lines[n+1].text)
    BY <1>4, <2>1, <2>2
  <2> QED
    BY <1>1, <2>1, <2>3, ItemsStep
<1>9. HoldsItems(g, lines, N)
  <2> HIDE DEF S
  <2>1. N \in S
    BY <1>2, <1>7, <1>8, SetInduction
  <2> QED
    BY <2>1 DEF S
<1>10. PICK placed, items, all : placed = PlacedTo(lines, N) /\ items = ItemAt(lines) /\ all = g[N]
  OBVIOUS
<1>11. /\ IsSeq(all)
       /\ placed = {} => all = <<>>
       /\ \A o \in placed : (\A m \in placed : m <= o) =>
            all = Gathered(items, placed \ {o}) \o ItemTo(lines, o, N)
  BY <1>9, <1>10 DEF HoldsItems
<1>12. placed \subseteq 1..N /\ placed \in SUBSET Nat
  BY <1>2, <1>10, PlacedGrows
<1>13. all = Gathered(items, placed)
  <2>1. CASE placed = {}
    <3>1. all = <<>>
      BY <1>11, <2>1
    <3> QED
      BY <2>1, <3>1, GatheredFacts
  <2>2. CASE placed # {}
    <3>1. PICK o \in placed : \A m \in placed : m <= o
      <4>1. \A m \in placed : m <= N
        BY <1>12
      <4> QED
        BY <1>2, <1>12, <2>2, <4>1, GreatestElement
    <3>2. items[o] = ItemTo(lines, o, N)
      <4>1. o \in 1..Len(lines) /\ N <= Len(lines)
        BY <1>1, <1>2, <1>12, <3>1
      <4> QED
        BY <1>1, <1>2, <1>10, <4>1, MeantIsSeq
    <3>3. all = Gathered(items, placed \ {o}) \o items[o]
      BY <1>11, <3>1, <3>2
    <3> QED
      BY <1>1, <1>10, <1>12, <3>1, <3>3, ItemsPart
  <2> QED
    BY <2>1, <2>2
<1>14. Items(lines) = Picked(items, placed)
  BY <1>1, <1>10, ItemsFacts
<1> QED
  BY <1>3, <1>6, <1>10, <1>11, <1>13, <1>14 DEF Gathered

(* The parser finds the items.                                             *)
LEMMA ParserReadsItems ==
    ASSUME NEW lines, AreLines(lines), IsScenario(lines)
    PROVE  RawPhrases(lines) = [i \in DOMAIN Items(lines) |-> WithoutPeriod(Items(lines)[i])]
<1>1. PICK s, p : s = Items(lines) /\ p = [i \in DOMAIN s |-> WithoutPeriod(s[i])]
  OBVIOUS
<1>2. IsSeq(s) /\ \A i \in 1..Len(s) : IsSeq(s[i]) /\ EndsOnce(s[i])
  BY <1>1, ItemsFacts
<1>3. Reads(Fresh(<<>>), Seqs!FlattenSeq(s), Fresh(p))
  BY <1>1, <1>2, ReadsAll
<1>4. IsSeq(Input(lines)) /\ Reads(Fresh(<<>>), Input(lines), Fresh(p))
  BY <1>1, <1>3, InputIsItems
<1>5. RawPhrases(lines) = p
  BY <1>4, RawPhrasesRead
<1> QED
  BY <1>1, <1>5

(* A phrase starts as the line that opens it.                              *)
LEMMA MeantStarts ==
    ASSUME NEW lines, AreLines(lines), NEW o \in 1..Len(lines), IsOpening(lines[o])
    PROVE  Meant(lines, o) # <<>> /\ Head(Meant(lines, o)) = Head(lines[o].text)
<1>1. PICK N, t, h : N = Len(lines) /\ t = Texts(lines) /\ h = Head(lines[o].text)
  OBVIOUS
<1>2. /\ N \in Nat /\ o \in 1..N
      /\ \A m \in 1..N : t[m] = lines[m].text /\ IsSeq(t[m])
  BY <1>1, SeqPlaces DEF AreLines, Texts
<1> DEFINE P(n) == IsSeq(MeantTo(lines, o, n)) /\ MeantTo(lines, o, n) # <<>> /\ Head(MeantTo(lines, o, n)) = h
           S == {n \in Nat : n \in o..N => P(n)}
<1>3. P(o)
  <2>1. BlockTo(lines, o, o) = {o}
    BY <1>2, BlockBegins
  <2>2. Gathered(t, {o}) = t[o]
    <3>1. o \in Nat /\ IsSeq(t[o])
      BY <1>2
    <3> QED
      BY <3>1, GatheredFacts
  <2>3. MeantTo(lines, o, o) = lines[o].text
    BY <1>1, <1>2, <2>1, <2>2 DEF MeantTo
  <2>4. lines[o].text # <<>> /\ IsSeq(lines[o].text)
    BY <1>2 DEF IsOpening, IsCode
  <2> QED
    BY <1>1, <2>3, <2>4
<1>4. 0 \in S
  BY <1>2
<1>5. ASSUME NEW n \in Nat, n \in S PROVE n + 1 \in S
  <2> SUFFICES ASSUME n + 1 \in o..N PROVE P(n + 1)
    OBVIOUS
  <2>1. CASE n + 1 = o
    <3> HIDE DEF P
    <3> QED
      BY <1>3, <2>1
  <2>2. CASE n + 1 # o
    <3>1. PICK k : k = n + 1 /\ k \in Nat /\ k \in 1..N /\ n \in o..N
      <4>1. n + 1 \in Nat /\ n + 1 \in 1..N /\ n \in o..N
        BY <1>2, <2>2
      <4> QED
        BY <4>1
    <3>2. P(n)
      BY <1>5, <3>1
    <3>3. PICK B : B = BlockTo(lines, o, n)
      OBVIOUS
    <3>4. B \subseteq 1..n
      BY <1>2, <3>3 DEF BlockTo
    <3>5. B \in SUBSET Nat /\ IsFiniteSet(B) /\ (\A m \in B : m < k) /\ \A m \in B : IsSeq(t[m])
      <4>1. \A m \in B : m < k
        BY <3>1, <3>4
      <4>2. \A m \in B : IsSeq(t[m])
        BY <1>2, <3>1, <3>4
      <4> QED
        BY <3>4, <4>1, <4>2, SomePlaces
    <3>6. BlockTo(lines, o, k) = B \/ BlockTo(lines, o, k) = B \cup {k}
      <4>1. o..k = (o..n) \cup {k}
        BY <1>2, <3>1
      <4> QED
        BY <3>3, <4>1 DEF BlockTo
    <3>7. PICK c, text : c = Gathered(t, B) /\ text = t[k] /\ IsSeq(text)
      BY <1>2, <3>1
    <3>8. c = MeantTo(lines, o, n) /\ IsSeq(c) /\ c # <<>> /\ Head(c) = h
      BY <1>1, <3>2, <3>3, <3>7 DEF MeantTo
    <3>9. Gathered(t, B \cup {k}) = c \o text
      BY <3>1, <3>5, <3>7, GatheredFacts
    <3>10. MeantTo(lines, o, k) = c \/ MeantTo(lines, o, k) = c \o text
      BY <1>1, <3>6, <3>7, <3>9 DEF MeantTo
    <3>11. IsSeq(c \o text) /\ c \o text # <<>> /\ Head(c \o text) = h
      BY <3>7, <3>8, HeadStays, ConcatFacts
    <3> QED
      BY <3>1, <3>8, <3>10, <3>11
  <2> QED
    BY <2>1, <2>2
<1>6. N \in S
  <2> HIDE DEF S
  <2> QED
    BY <1>2, <1>4, <1>5, SetInduction
<1>7. P(N)
  BY <1>2, <1>6
<1>8. MeantTo(lines, o, N) = Meant(lines, o)
  BY <1>1, MeantEnds
<1> QED
  BY <1>1, <1>7, <1>8

(* Dropping the last period leaves the first token.                        *)
LEMMA WithoutPeriodStarts ==
    ASSUME NEW text, IsSeq(text), EndsOnce(text)
    PROVE  Head(WithoutPeriod(text)) = Head(text)
<1>1. PICK n, f : n = Len(text) /\ f = Seqs!Front(text)
  OBVIOUS
<1>2. n \in Nat /\ n > 1 /\ text # <<>>
  BY <1>1, SeqPlaces, SmallSeqs DEF EndsOnce
<1>3. IsSeq(f) /\ Len(f) = n - 1 /\ \A i \in 1..n-1 : f[i] = text[i]
  BY <1>1, <1>2, FrontFacts
<1>4. f # <<>> /\ 1 \in 1..n-1
  BY <1>2, <1>3, SmallSeqs
<1>5. Head(f) = f[1] /\ Head(text) = text[1]
  BY <1>2, <1>3, <1>4, TailFacts
<1>6. Head(f) = Head(text)
  BY <1>3, <1>4, <1>5
<1> QED
  BY <1>1, <1>6 DEF WithoutPeriod

(* Picking and applying WithoutPeriod commute.                             *)
LEMMA PickedWithoutPeriod ==
    ASSUME NEW s, NEW t, NEW S \in SUBSET Nat, IsFiniteSet(S), \A n \in S : t[n] = WithoutPeriod(s[n])
    PROVE  Picked(t, S) = [i \in DOMAIN Picked(s, S) |-> WithoutPeriod(Picked(s, S)[i])]
<1>1. PICK c, a, p, q, w : /\ c = Cardinality(S) /\ a = Ascending(S) /\ p = Picked(s, S) /\ q = Picked(t, S)
                           /\ w = [i \in DOMAIN p |-> WithoutPeriod(p[i])]
  OBVIOUS
<1>2. c \in Nat /\ DOMAIN p = 1..c /\ \A k \in 1..c : a[k] \in S /\ p[k] = s[a[k]]
  BY <1>1, PickedFacts
<1>3. IsSeq(q) /\ Len(q) = c /\ \A k \in 1..c : q[k] = t[a[k]]
  BY <1>1, PickedFacts
<1>4. IsSeq(w) /\ Len(w) = c
  <2>1. DOMAIN w = 1..c /\ w = [i \in 1..c |-> w[i]]
    BY <1>1, <1>2
  <2> QED
    BY <1>2, <2>1, FunctionIsSeq
<1>5. \A k \in 1..c : w[k] = q[k]
  BY <1>1, <1>2, <1>3
<1>6. w = q
  BY <1>3, <1>4, <1>5, SeqEqual
<1> QED
  BY <1>1, <1>6

(* Apart from guards and directives, the parser finds what flatten_file    *)
(* finds.                                                                  *)
LEMMA GateFindsPhrases ==
    ASSUME NEW lines, AreLines(lines), IsScenario(lines)
    PROVE  Besides(RawPhrases(lines), {Guard} \cup Directives)
             = [i \in DOMAIN FlattenFile(lines) |-> WithoutPeriod(FlattenFile(lines)[i])]
<1>1. PICK N, S, R, T, items, w, meant, raw, K :
         /\ N = Len(lines) /\ S = PlacedTo(lines, N) /\ R = Openings(lines)
         /\ T = {Guard} \cup Directives
         /\ items = ItemAt(lines) /\ w = [n \in DOMAIN lines |-> WithoutPeriod(items[n])]
         /\ meant = [n \in DOMAIN lines |-> Meant(lines, n)]
         /\ raw = RawPhrases(lines) /\ K = {i \in DOMAIN raw : Head(raw[i]) \notin T}
  OBVIOUS
<1>2. N \in Nat /\ DOMAIN lines = 1..N
  BY <1>1, SeqPlaces DEF AreLines
<1>3. /\ S \subseteq 1..N /\ S \in SUBSET Nat /\ IsFiniteSet(S)
      /\ R = {n \in S : IsOpening(lines[n])} /\ R \in SUBSET Nat /\ IsFiniteSet(R) /\ R \subseteq S
      /\ \A n \in S : IsOpening(lines[n]) \/ StartsWith(lines[n], T)
  <2>1. S \subseteq 1..N /\ S \in SUBSET Nat /\ IsFiniteSet(S)
    BY <1>1, <1>2, PlacedGrows
  <2>2. /\ R = {n \in S : IsOpening(lines[n])} /\ R \subseteq S
        /\ \A n \in S : IsOpening(lines[n]) \/ StartsWith(lines[n], T)
    BY <1>1, <1>2 DEF Openings, PlacedTo, Opened, MarkedTo
  <2> QED
    BY <2>1, <2>2, FS_Subset
<1>4. Items(lines) = Picked(items, S)
  BY <1>1, ItemsFacts
<1>5. \A n \in S : w[n] = WithoutPeriod(items[n])
  BY <1>1, <1>2, <1>3
<1>6. raw = Picked(w, S)
  BY <1>1, <1>3, <1>4, <1>5, ParserReadsItems, PickedWithoutPeriod
<1>7. ASSUME NEW n \in S PROVE Head(w[n]) \notin T <=> n \in R
  <2>1. n \in 1..N /\ N <= Len(lines)
    BY <1>1, <1>2, <1>3
  <2>2. items[n] = IF IsOpening(lines[n]) THEN Meant(lines, n) ELSE lines[n].text
    BY <1>1, <1>2, <2>1 DEF ItemAt
  <2>3. IsSeq(items[n])
    BY <1>1, <1>2, <2>1, MeantIsSeq
  <2>4. CASE IsOpening(lines[n])
    <3>1. EndsOnce(items[n])
      BY <1>2, <2>1, <2>2, <2>4 DEF IsScenario
    <3>2. Head(w[n]) = Head(items[n])
      BY <1>5, <2>3, <3>1, WithoutPeriodStarts
    <3>3. Head(items[n]) = Head(lines[n].text)
      BY <1>1, <2>1, <2>2, <2>4, MeantStarts
    <3>4. Head(lines[n].text) \notin T
      BY <1>1, <2>4 DEF IsOpening, IsCode, StartsWith
    <3> QED
      BY <1>3, <2>4, <3>2, <3>3, <3>4
  <2>5. CASE ~IsOpening(lines[n])
    <3>1. StartsWith(lines[n], T) /\ items[n] = lines[n].text
      BY <1>3, <2>2, <2>5
    <3>2. EndsOnce(items[n])
      BY <1>1, <1>2, <2>1, <3>1 DEF IsScenario
    <3>3. Head(w[n]) = Head(lines[n].text)
      BY <1>5, <2>3, <3>1, <3>2, WithoutPeriodStarts
    <3> QED
      BY <1>3, <2>5, <3>1, <3>3 DEF StartsWith
  <2> QED
    BY <2>4, <2>5
<1>8. PICK c, a : c = Cardinality(S) /\ a = Ascending(S)
  OBVIOUS
<1>9. c \in Nat /\ DOMAIN raw = 1..c /\ \A k \in 1..c : a[k] \in S /\ raw[k] = w[a[k]]
  BY <1>3, <1>6, <1>8, PickedFacts
<1>10. K \subseteq 1..c /\ \A k \in 1..c : k \in K <=> a[k] \in R
  BY <1>1, <1>7, <1>9
<1>11. Picked(raw, K) = Picked(w, R)
  <2>1. PlacesOf(K, R, S)
    BY <1>3, <1>8, <1>10 DEF PlacesOf
  <2> QED
    BY <1>3, <1>6, <2>1, PickedTwice
<1>12. PICK f : f = FlattenFile(lines)
  OBVIOUS
<1>13. f = Picked(meant, R)
  <2>1. LaidOut(lines)
    BY DEF IsScenario
  <2> QED
    BY <1>1, <1>12, <2>1, FlattenReadsMeant DEF FlattenKeepsPhrases, MeantPhrases
<1>14. \A n \in R : w[n] = WithoutPeriod(meant[n])
  <2> SUFFICES ASSUME NEW n \in R PROVE w[n] = WithoutPeriod(meant[n])
    OBVIOUS
  <2>1. n \in 1..N /\ n \in S /\ IsOpening(lines[n])
    BY <1>3
  <2>2. items[n] = Meant(lines, n) /\ meant[n] = Meant(lines, n)
    BY <1>1, <1>2, <2>1 DEF ItemAt
  <2> QED
    BY <1>5, <2>1, <2>2
<1>15. Picked(w, R) = [i \in DOMAIN f |-> WithoutPeriod(f[i])]
  BY <1>3, <1>13, <1>14, PickedWithoutPeriod
<1> QED
  BY <1>1, <1>11, <1>12, <1>15 DEF Besides

(* The gate reads a scenario as its author and the oracle do.              *)
LEMMA ReadersAgree ==
    ASSUME NEW lines, AreLines(lines)
    PROVE  GateReadsAlike(lines)
BY ParserReadsItems, GateFindsPhrases DEF GateReadsAlike

-----------------------------------------------------------------------------
(* The results.                                                            *)

(* A task stays what it is, and what came of it is what was computed.      *)
TaskInv ==
    /\ task \in CompareTasks \cup SelectTasks \cup [of : {"read"}, lines : Seq(TextLines)]
    /\ task.of = "compare" => result \in {"open", "ok", "differs"}
    /\ task.of = "compare" /\ result # "open" =>
          (result = "ok" <=> Compare(task.asserts, task.expected, Normalise(task.raw)))
    /\ task.of = "select" /\ result = "success" => ExitCode(task.dir, task.cmd, task.ok) = 0

(* The invariant of all tasks.                                             *)
LEMMA TaskInvariance == TaskSpec => []TaskInv
<1>1. TaskInit => TaskInv
  <2> SUFFICES ASSUME TaskInit PROVE TaskInv
    OBVIOUS
  <2>1. <<>> \in Seq(TextLines)
    OBVIOUS
  <2>2. ReadTasks \subseteq [of : {"read"}, lines : Seq(TextLines)]
    BY <2>1 DEF ReadTasks
  <2> QED
    BY <2>2 DEF TaskInit, TaskInv
<1>2. TaskInv /\ [TaskNext]_vars => TaskInv'
  <2> SUFFICES ASSUME TaskInv, [TaskNext]_vars PROVE TaskInv'
    OBVIOUS
  <2>1. CASE CompareStep
    <3>1. UNCHANGED task /\ task.of = "compare"
      BY <2>1 DEF CompareStep
    <3>2. CASE Compare(task.asserts, task.expected, Normalise(task.raw))
      BY <2>1, <3>1, <3>2 DEF CompareStep, TaskInv
    <3>3. CASE ~Compare(task.asserts, task.expected, Normalise(task.raw))
      BY <2>1, <3>1, <3>3 DEF CompareStep, TaskInv
    <3> QED
      BY <3>2, <3>3
  <2>2. CASE SelectStep
    BY <2>2 DEF SelectStep, TaskInv
  <2>3. CASE WriteLine
    <3>1. PICK line \in TextLines : task' = [task EXCEPT !.lines = Append(@, line)]
      BY <2>3 DEF WriteLine
    <3>2. task.of = "read" /\ task \in [of : {"read"}, lines : Seq(TextLines)]
      BY <2>3 DEF WriteLine, TaskInv, CompareTasks, SelectTasks
    <3>3. Append(task.lines, line) \in Seq(TextLines)
      BY <3>2
    <3>4. task' \in [of : {"read"}, lines : Seq(TextLines)] /\ task'.of = "read"
      BY <3>1, <3>2, <3>3
    <3> QED
      BY <3>4 DEF TaskInv
  <2>4. CASE UNCHANGED vars
    BY <2>4 DEF vars, TaskInv
  <2> QED
    BY <2>1, <2>2, <2>3, <2>4 DEF TaskNext
<1> QED
  BY <1>1, <1>2, PTL DEF TaskSpec

(* What a task is about.                                                   *)
LEMMA TaskFacts ==
    ASSUME TaskInv
    PROVE  /\ task.of = "compare" => task.expected \in Expectations /\ task.raw \in Bodies
           /\ task.of = "select" => IsSeq(task.dir) /\ IsCommand(task.cmd)
           /\ task.of = "read" => AreLines(task.lines)
<1>1. task.of = "compare" => task \in CompareTasks
  BY DEF TaskInv, SelectTasks
<1>2. task.of = "select" => task \in SelectTasks
  BY DEF TaskInv, CompareTasks
<1>4. ASSUME task.of = "read" PROVE AreLines(task.lines)
  <2>1. PICK lines : lines = task.lines
    OBVIOUS
  <2>2. lines \in Seq(TextLines)
    BY <1>4, <2>1 DEF TaskInv, CompareTasks, SelectTasks
  <2>3. IsSeq(lines) /\ \A n \in 1..Len(lines) : lines[n] \in TextLines
    <3>1. DOMAIN lines = 1..Len(lines)
      BY <2>2
    <3>2. \A n \in 1..Len(lines) : lines[n] \in TextLines /\ lines[n] \in Range(lines)
      BY <2>2, <3>1 DEF Range
    <3>3. lines \in Seq(Range(lines))
      BY <2>2, <3>2
    <3> QED
      BY <3>2, <3>3 DEF IsSeq
  <2>4. \A n \in 1..Len(lines) : IsSeq(lines[n].text)
    BY <2>3, TasksAssumption DEF IsSeq
  <2> QED
    BY <2>1, <2>3, <2>4 DEF AreLines
<1>3. task.of = "select" => task.dir \in Directories /\ task.cmd \in CommandLines
  BY <1>2 DEF SelectTasks
<1> QED
  BY <1>1, <1>3, <1>4, TasksAssumption DEF CompareTasks, IsSeq, IsCommand

(* compare is ok exactly when expectation and response say the same.       *)
THEOREM OkMeansSameStatements == TaskSpec => []OkIffSameStatements
<1>1. TaskInv => OkIffSameStatements
  BY CompareIsAgreement DEF TaskInv, OkIffSameStatements
<1> QED
  BY <1>1, TaskInvariance, PTL

(* No default for an absent field stands in for an answer: what passes is  *)
(* coherent.                                                               *)
THEOREM IncoherentNeverPasses == TaskSpec => []OkIsCoherent
<1>1. TaskInv => OkIsCoherent
  <2> SUFFICES ASSUME TaskInv, task.of = "compare", result = "ok", DecisionFields \subseteq task.asserts
               PROVE  Coherent(Normalise(task.raw), DOMAIN task.expected.valid_dataproviders
                                                      \cup task.expected.invalid_dataproviders)
    BY DEF OkIsCoherent
  <2>1. Compare(task.asserts, task.expected, Normalise(task.raw))
    BY DEF TaskInv
  <2>2. Coherent(task.expected, DOMAIN task.expected.valid_dataproviders
                                  \cup task.expected.invalid_dataproviders)
    BY TaskFacts, TasksAssumption
  <2> QED
    BY <2>1, <2>2, OkIsCoherentForAll
<1> QED
  BY <1>1, TaskInvariance, PTL

(* An approval that is asked for with auth carries a token.                *)
THEOREM ApprovalsCarryTokens == TaskSpec => []ApprovalCarriesToken
<1>1. TaskInv => ApprovalCarriesToken
  <2> SUFFICES ASSUME TaskInv, task.of = "compare", result = "ok",
                      "auth_present_when_approved" \in task.asserts, task.expected.request_approved
               PROVE  /\ Bool(task.raw.request_approved) /\ task.raw.auth # Missing
                      /\ \E f \in DOMAIN task.raw.auth : task.raw.auth[f] \notin {Missing, ""}
    BY DEF ApprovalCarriesToken
  <2> DEFINE raw == task.raw
             auth == Default(raw.auth, NoAuth)
  <2>1. Normalise(raw).request_approved /\ Normalise(raw).has_nonempty_auth
    BY DEF TaskInv, Compare
  <2>2. raw.auth # Missing => DOMAIN raw.auth = {"access_token", "refresh_token"}
    BY TaskFacts, TasksAssumption
  <2> HIDE DEF raw
  <2>4. Bool(raw.request_approved)
    BY <2>1 DEF Normalise
  <2>5. NonEmpty(auth.access_token) \/ NonEmpty(auth.refresh_token)
    BY <2>1 DEF Normalise
  <2>6. raw.auth # Missing
    BY <2>5 DEF Default, NoAuth, NonEmpty
  <2>7. NonEmpty(raw.auth["access_token"]) \/ NonEmpty(raw.auth["refresh_token"])
    BY <2>5, <2>6 DEF Default
  <2>8. \E f \in DOMAIN raw.auth : raw.auth[f] \notin {Missing, ""}
    BY <2>2, <2>6, <2>7 DEF NonEmpty
  <2> QED
    BY <2>4, <2>6, <2>8 DEF raw
<1> QED
  BY <1>1, TaskInvariance, PTL

(* No manifest is left out, none is run twice.                             *)
THEOREM CommandsLeaveNothingOut == TaskSpec => []NothingLeftOut
<1>1. TaskInv => NothingLeftOut
  BY TaskFacts, CommandRunsAll DEF NothingLeftOut
<1> QED
  BY <1>1, TaskInvariance, PTL

(* Exit code 0 of a command is earned.                                     *)
THEOREM ZeroIsEarned == TaskSpec => []ExitZeroEarned
<1>1. TaskInv => ExitZeroEarned
  BY TaskFacts, CommandSucceeds DEF ExitZeroEarned
<1> QED
  BY <1>1, TaskInvariance, PTL

(* flatten_file gives the oracle the phrases the layout means, whatever    *)
(* the text.                                                               *)
THEOREM OracleGetsThePolicy == TaskSpec => []OracleReadsPolicy
<1>1. TaskInv => OracleReadsPolicy
  BY TaskFacts, FlattenReadsMeant DEF OracleReadsPolicy
<1> QED
  BY <1>1, TaskInvariance, PTL

(* The unit tester's parser, which goes by periods, finds the phrases of a *)
(* scenario that flatten_file, which goes by indentation, and its author   *)
(* find, and every guard and directive at its place among them.            *)
THEOREM GateReadsAsTheOracle == TaskSpec => []GateReadsScenario
<1>1. TaskInv => GateReadsScenario
  BY TaskFacts, ReadersAgree DEF GateReadsScenario
<1> QED
  BY <1>1, TaskInvariance, PTL

(* The two copies of the flattener differ in directives only.              *)
THEOREM CopiesOfFlattenAgree == TaskSpec => []ScriptReadsAlike
<1>1. TaskInv => ScriptReadsAlike
  BY TaskFacts, CopiesReadAlike DEF ScriptReadsAlike
<1> QED
  BY <1>1, TaskInvariance, PTL
=============================================================================
