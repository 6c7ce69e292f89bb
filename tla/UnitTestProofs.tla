--------------------------- MODULE UnitTestProofs ---------------------------
(***************************************************************************)
(* What the reports of a test say of its file and of the reasoner, for     *)
(* every file, every reasoner and every length of their conversation; and  *)
(* what the gate's answer says of the test.                                *)
(***************************************************************************)
EXTENDS ConsistencyGate, SequenceFacts

-----------------------------------------------------------------------------
(* The file and its phrases.                                               *)

IsFile(f) == IsSeq(f) /\ \A r \in Range(f) : r.kind \in PhraseKinds

(* The places of the phrases of some kinds, in order.                      *)
LEMMA PlacesFacts ==
    ASSUME IsFile(file), NEW kinds
    PROVE  /\ IsSeq(Places(kinds)) /\ Len(Places(kinds)) \in Nat
           /\ DOMAIN Places(kinds) = 1..Len(Places(kinds))
           /\ \A k \in DOMAIN Places(kinds) :
                 Places(kinds)[k] \in DOMAIN file /\ file[Places(kinds)[k]].kind \in kinds
           /\ \A n \in DOMAIN file : file[n].kind \in kinds =>
                 \E k \in DOMAIN Places(kinds) : Places(kinds)[k] = n
           /\ \A j, k \in DOMAIN Places(kinds) : j < k => Places(kinds)[j] < Places(kinds)[k]
<1> DEFINE S == {n \in DOMAIN file : file[n].kind \in kinds}
<1>1. S \in SUBSET Nat /\ IsFiniteSet(S)
  <2>1. IsFiniteSet(DOMAIN file) /\ DOMAIN file \subseteq Nat
    BY SeqPlaces DEF IsFile
  <2> QED
    BY <2>1, FS_Subset
<1>2. \A n \in S : n \in DOMAIN file /\ file[n].kind \in kinds
  OBVIOUS
<1>3. Places(kinds) = Ascending(S)
  BY DEF Places
<1>4. \A n \in DOMAIN file : file[n].kind \in kinds => n \in S
  OBVIOUS
<1> HIDE DEF S
<1>5. /\ Cardinality(S) \in Nat
      /\ DOMAIN Ascending(S) = 1..Cardinality(S)
      /\ Ascending(S) \in Seq(S) /\ Len(Ascending(S)) = Cardinality(S)
      /\ \A k \in 1..Cardinality(S) : Ascending(S)[k] \in S
      /\ \A n \in S : \E k \in 1..Cardinality(S) : Ascending(S)[k] = n
      /\ \A j, k \in 1..Cardinality(S) : j < k => Ascending(S)[j] < Ascending(S)[k]
  BY <1>1, AscendingFacts
<1>6. IsSeq(Ascending(S))
  <2>1. Ascending(S) = [k \in 1..Cardinality(S) |-> Ascending(S)[k]]
    BY DEF Ascending
  <2> QED
    BY <1>5, <2>1, FunctionIsSeq
<1> QED
  BY <1>2, <1>3, <1>4, <1>5, <1>6

(* The first phrase that is not blank parses.                              *)
StartsWell == ~(Bad # <<>> /\ Bad[1] = Written[1])

(* What PhraseParser yields for a phrase: itself, or the last one before   *)
(* it that parses.                                                         *)
LEMMA YieldedFacts ==
    ASSUME IsFile(file), StartsWell, NEW n \in DOMAIN file, file[n].kind # "blank"
    PROVE  /\ Yielded(n).at \in 1..n /\ Yielded(n).at \in DOMAIN file
           /\ Yielded(n).kind = file[Yielded(n).at].kind
           /\ Yielded(n).raw = file[Yielded(n).at]
           /\ Yielded(n).kind \in Comments \cup Submits
           /\ \A o \in Yielded(n).at + 1..n : file[o].kind \in {"malformed", "blank"}
<1> DEFINE parses == Comments \cup Submits
           C == {m \in 1..n : file[m].kind \in parses}
<1>1. /\ DOMAIN file = 1..Len(file) /\ Len(file) \in Nat
      /\ \A m \in DOMAIN file : file[m].kind \in PhraseKinds
  BY SeqPlaces DEF IsFile
<1>2. C # {}
  <2>1. CASE file[n].kind \in parses
    BY <1>1, <2>1
  <2>2. CASE file[n].kind \notin parses
    <3>1. file[n].kind = "malformed"
      BY <1>1, <2>2 DEF PhraseKinds
    <3>2. PICK b \in DOMAIN Bad : Bad[b] = n
      <4>1. \E b \in DOMAIN Places({"malformed"}) : Places({"malformed"})[b] = n
        BY <3>1, PlacesFacts
      <4> QED
        BY <4>1 DEF Bad
    <3>3. PICK w \in DOMAIN Written : Written[w] = n
      <4>1. file[n].kind \in PhraseKinds \ {"blank"}
        BY <1>1
      <4>2. \E w \in DOMAIN Places(PhraseKinds \ {"blank"}) : Places(PhraseKinds \ {"blank"})[w] = n
        BY <4>1, PlacesFacts
      <4> QED
        BY <4>2 DEF Written
    <3>4. /\ DOMAIN Bad = 1..Len(Bad) /\ Len(Bad) \in Nat
          /\ \A j \in DOMAIN Bad : Bad[j] \in DOMAIN file
          /\ \A j, k \in DOMAIN Bad : j < k => Bad[j] < Bad[k]
      BY PlacesFacts DEF Bad
    <3>5. /\ DOMAIN Written = 1..Len(Written) /\ Len(Written) \in Nat
          /\ \A j \in DOMAIN Written : Written[j] \in DOMAIN file /\ file[Written[j]].kind # "blank"
          /\ \A j, k \in DOMAIN Written : j < k => Written[j] < Written[k]
      BY PlacesFacts DEF Written
    <3>6. 1 \in DOMAIN Bad /\ 1 \in DOMAIN Written /\ Bad # <<>>
      BY <3>2, <3>3, <3>4, <3>5
    <3>7. Written[1] # Bad[1]
      BY <3>6 DEF StartsWell
    <3>8. Written[1] <= n /\ Written[1] \in DOMAIN file /\ n \in Nat
      BY <1>1, <3>3, <3>5, <3>6
    <3>9. file[Written[1]].kind # "malformed"
      <4> SUFFICES ASSUME file[Written[1]].kind = "malformed" PROVE FALSE
        OBVIOUS
      <4> DEFINE first == Written[1]
      <4>1. first \in DOMAIN file /\ file[first].kind = "malformed"
        BY <3>8
      <4>2. \E c \in DOMAIN Places({"malformed"}) : Places({"malformed"})[c] = first
        <5> HIDE DEF first
        <5> QED
          BY <4>1, PlacesFacts
      <4>3. PICK c \in DOMAIN Bad : Bad[c] = Written[1]
        BY <4>2 DEF Bad
      <4>4. Bad[1] < Written[1]
        BY <3>4, <3>7, <4>3
      <4>5. PICK v \in DOMAIN Written : Written[v] = Bad[1]
        <5>1. Bad[1] \in DOMAIN file /\ file[Bad[1]].kind = "malformed"
          BY <3>6, PlacesFacts DEF Bad
        <5>2. file[Bad[1]].kind \in PhraseKinds \ {"blank"}
          BY <5>1 DEF PhraseKinds
        <5> DEFINE second == Bad[1]
        <5>3. \E v \in DOMAIN Places(PhraseKinds \ {"blank"}) :
                 Places(PhraseKinds \ {"blank"})[v] = second
          <6>1. second \in DOMAIN file /\ file[second].kind \in PhraseKinds \ {"blank"}
            BY <5>1, <5>2
          <6> HIDE DEF second
          <6> QED
            BY <6>1, PlacesFacts
        <5> QED
          BY <5>3 DEF Written
      <4>6. Written[1] \in Nat /\ Bad[1] \in Nat
        BY <1>1, <3>4, <3>5, <3>6
      <4>7. v \in Nat /\ (v = 1 \/ 1 < v)
        BY <3>5
      <4>8. Written[1] = Written[v] \/ Written[1] < Written[v]
        <5>1. CASE v = 1
          BY <5>1
        <5>2. CASE 1 < v
          BY <3>5, <3>6, <5>2
        <5> QED
          BY <4>7, <5>1, <5>2
      <4> QED
        BY <4>4, <4>5, <4>6, <4>8
    <3>10. file[Written[1]].kind \in parses
      BY <1>1, <3>5, <3>6, <3>8, <3>9 DEF PhraseKinds
    <3> QED
      BY <1>1, <3>8, <3>10
  <2> QED
    BY <2>1, <2>2
<1>3. PICK m \in C : \A k \in C : k <= m
  <2>1. C \in SUBSET Nat /\ n \in Nat /\ \A k \in C : k <= n
    BY <1>1
  <2> HIDE DEF C
  <2> QED
    BY <1>2, <2>1, GreatestElement
<1>4. \A o \in m+1..n : file[o].kind \in {"malformed", "blank"}
  <2> SUFFICES ASSUME NEW o \in m+1..n PROVE file[o].kind \in {"malformed", "blank"}
    OBVIOUS
  <2>1. o \in 1..n /\ ~(o <= m) /\ o \in DOMAIN file
    BY <1>1
  <2>2. file[o].kind \notin parses
    BY <1>3, <2>1
  <2> QED
    BY <1>1, <2>1, <2>2 DEF PhraseKinds
<1> DEFINE Last(l) == /\ file[l].kind \in Comments \cup Submits
                      /\ \A o \in l+1..n : file[o].kind \in {"malformed", "blank"}
           last == CHOOSE l \in 1..n : Last(l)
<1>5. last \in 1..n /\ Last(last)
  <2>1. \E l \in 1..n : Last(l)
    BY <1>4
  <2> HIDE DEF Last
  <2> QED
    BY <2>1
<1>6. Yielded(n) = [at |-> last, kind |-> file[last].kind, raw |-> file[last]]
  BY DEF Yielded
<1> HIDE DEF last
<1> QED
  BY <1>1, <1>5, <1>6

(* What is yielded moves forward through the file, and stands still only   *)
(* at a phrase that does not parse.                                        *)
LEMMA YieldedInOrder ==
    ASSUME IsFile(file), StartsWell,
           NEW m \in DOMAIN file, file[m].kind # "blank",
           NEW n \in DOMAIN file, file[n].kind # "blank", m < n
    PROVE  /\ Yielded(m).at <= Yielded(n).at
           /\ Yielded(m).at = Yielded(n).at => file[n].kind = "malformed"
<1> DEFINE a == Yielded(m).at
           b == Yielded(n).at
<1>1. /\ a \in 1..m /\ file[a].kind \in Comments \cup Submits
      /\ b \in 1..n /\ \A o \in b + 1..n : file[o].kind \in {"malformed", "blank"}
  BY YieldedFacts
<1>2. m \in Nat /\ n \in Nat
  BY SeqPlaces DEF IsFile
<1> HIDE DEF a, b
<1>3. a \notin b + 1..n
  BY <1>1 DEF Comments, Submits
<1>4. a <= b
  BY <1>1, <1>2, <1>3
<1>5. ASSUME a = b PROVE file[n].kind = "malformed"
  <2>1. n \in b + 1..n
    BY <1>1, <1>2, <1>5
  <2> QED
    BY <1>1, <2>1
<1> QED
  BY <1>4, <1>5 DEF a, b

(* The phrases a test goes through, once its file has been parsed.         *)
Parsed == StartsWell /\ phrases = [k \in DOMAIN Written |-> Yielded(Written[k])]

(* Each phrase is that of a line of the file, in the order of the lines.   *)
LEMMA PhrasesFacts ==
    ASSUME IsFile(file), Parsed
    PROVE  /\ DOMAIN phrases = 1..Len(phrases) /\ Len(phrases) \in Nat
           /\ \A k \in DOMAIN phrases :
                 /\ phrases[k].at \in DOMAIN file
                 /\ phrases[k].kind = file[phrases[k].at].kind
                 /\ phrases[k].raw = file[phrases[k].at]
                 /\ phrases[k].kind \in Comments \cup Submits
           /\ \A j, k \in DOMAIN phrases : j < k =>
                 /\ phrases[j].at <= phrases[k].at
                 /\ phrases[j].at = phrases[k].at =>
                       \E n \in DOMAIN file : file[n].kind = "malformed"
           /\ \A n \in DOMAIN file : file[n].kind \notin {"blank", "malformed"} =>
                 \E k \in DOMAIN phrases : phrases[k].at = n
<1>1. /\ DOMAIN Written = 1..Len(Written) /\ Len(Written) \in Nat
      /\ \A k \in DOMAIN Written : Written[k] \in DOMAIN file /\ file[Written[k]].kind # "blank"
      /\ \A j, k \in DOMAIN Written : j < k => Written[j] < Written[k]
  BY PlacesFacts DEF Written
<1>2. \A n \in DOMAIN file : file[n].kind # "blank" => \E k \in DOMAIN Written : Written[k] = n
  <2> SUFFICES ASSUME NEW n \in DOMAIN file, file[n].kind # "blank"
               PROVE  \E k \in DOMAIN Written : Written[k] = n
    OBVIOUS
  <2>1. file[n].kind \in PhraseKinds \ {"blank"}
    BY SeqPlaces DEF IsFile
  <2>2. \E k \in DOMAIN Places(PhraseKinds \ {"blank"}) : Places(PhraseKinds \ {"blank"})[k] = n
    BY <2>1, PlacesFacts
  <2> QED
    BY <2>2 DEF Written
<1>3. DOMAIN phrases = DOMAIN Written /\ \A k \in DOMAIN phrases : phrases[k] = Yielded(Written[k])
  BY DEF Parsed
<1>4. DOMAIN phrases = 1..Len(phrases) /\ Len(phrases) \in Nat
  <2>1. phrases = [k \in 1..Len(Written) |-> phrases[k]] /\ DOMAIN phrases = 1..Len(Written)
    BY <1>1, <1>3 DEF Parsed
  <2>2. IsSeq(phrases) /\ Len(phrases) = Len(Written)
    BY <1>1, <2>1, FunctionIsSeq
  <2> QED
    BY <1>1, <2>1, <2>2
<1>5. ASSUME NEW k \in DOMAIN phrases
      PROVE  /\ phrases[k].at \in DOMAIN file
             /\ phrases[k].kind = file[phrases[k].at].kind
             /\ phrases[k].raw = file[phrases[k].at]
             /\ phrases[k].kind \in Comments \cup Submits
  <2> SUFFICES ASSUME NEW n, n = Written[k]
               PROVE  /\ Yielded(n).at \in DOMAIN file
                      /\ Yielded(n).kind = file[Yielded(n).at].kind
                      /\ Yielded(n).raw = file[Yielded(n).at]
                      /\ Yielded(n).kind \in Comments \cup Submits
    BY <1>3
  <2>1. n \in DOMAIN file /\ file[n].kind # "blank"
    BY <1>1, <1>3
  <2> QED
    BY <2>1, YieldedFacts DEF Parsed
<1>6. ASSUME NEW j \in DOMAIN phrases, NEW k \in DOMAIN phrases, j < k
      PROVE  /\ phrases[j].at <= phrases[k].at
             /\ phrases[j].at = phrases[k].at => \E n \in DOMAIN file : file[n].kind = "malformed"
  <2> SUFFICES ASSUME NEW m, m = Written[j], NEW n, n = Written[k]
               PROVE  /\ Yielded(m).at <= Yielded(n).at
                      /\ Yielded(m).at = Yielded(n).at =>
                            \E o \in DOMAIN file : file[o].kind = "malformed"
    BY <1>3
  <2>1. /\ m \in DOMAIN file /\ file[m].kind # "blank"
        /\ n \in DOMAIN file /\ file[n].kind # "blank" /\ m < n
    BY <1>1, <1>3, <1>6
  <2>2. /\ Yielded(m).at <= Yielded(n).at
        /\ Yielded(m).at = Yielded(n).at => file[n].kind = "malformed"
    BY <2>1, YieldedInOrder DEF Parsed
  <2> QED
    BY <2>1, <2>2
<1>7. ASSUME NEW n \in DOMAIN file, file[n].kind \notin {"blank", "malformed"}
      PROVE  \E k \in DOMAIN phrases : phrases[k].at = n
  <2>1. PICK k \in DOMAIN Written : Written[k] = n
    BY <1>2, <1>7
  <2>2. /\ Yielded(n).at \in 1..n
        /\ \A o \in Yielded(n).at + 1..n : file[o].kind \in {"malformed", "blank"}
    BY <1>7, YieldedFacts DEF Parsed
  <2>3. Yielded(n).at = n
    <3>1. n \in Nat
      BY SeqPlaces DEF IsFile
    <3>2. n \notin Yielded(n).at + 1..n
      BY <1>7, <2>2
    <3> QED
      BY <2>2, <3>1, <3>2
  <2> QED
    BY <1>3, <2>1, <2>3
<1> QED
  BY <1>4, <1>5, <1>6, <1>7

(* Parsing is over once it is done.                                        *)
LEMMA ParsedStays == ASSUME Parsed, UNCHANGED <<file, phrases>> PROVE Parsed'
<1>1. Written' = Written /\ Bad' = Bad
  BY DEF Written, Bad, Places
<1>2. \A n : Yielded(n)' = Yielded(n)
  BY DEF Yielded
<1> QED
  BY <1>1, <1>2 DEF Parsed, StartsWell

-----------------------------------------------------------------------------
(* The history of effects.                                                 *)

IsHistory(h) == IsSeq(h) /\ \A e \in Range(h) : e.kind \in EffectKinds

(* The instances that p stands for and that stand after n effects of h.    *)
StandingIn(h, p, n) ==
    {h[m].instance : m \in {k \in 1..n :
        /\ h[k].kind = "Create" /\ Same(p, h[k].instance)
        /\ \A o \in k+1..n : h[o].instance = h[k].instance => h[o].kind \notin Removals}}

(* One more effect adds its instance, takes it away, or changes nothing.   *)
LEMMA StandingStep ==
    ASSUME NEW h, IsHistory(h), NEW p, NEW n \in Nat, n + 1 \in DOMAIN h
    PROVE  LET e == h[n+1]
           IN  StandingIn(h, p, n + 1) =
                 IF ~About(e, p) THEN StandingIn(h, p, n)
                 ELSE IF e.kind = "Create" THEN StandingIn(h, p, n) \cup {e.instance}
                 ELSE StandingIn(h, p, n) \ {e.instance}
<1> DEFINE e == h[n+1]
           Stays(k, l) == /\ h[k].kind = "Create" /\ Same(p, h[k].instance)
                          /\ \A o \in k+1..l : h[o].instance = h[k].instance => h[o].kind \notin Removals
<1>1. e.kind \in EffectKinds
  BY DEF IsHistory, Range
<1>2. /\ \A i : i \in StandingIn(h, p, n) <=> \E k \in 1..n : Stays(k, n) /\ i = h[k].instance
      /\ \A i : i \in StandingIn(h, p, n+1) <=> \E k \in 1..n+1 : Stays(k, n+1) /\ i = h[k].instance
  BY DEF StandingIn
<1>3. \A k \in 1..n : Stays(k, n+1) <=>
         Stays(k, n) /\ (e.instance = h[k].instance => e.kind \notin Removals)
  <2> SUFFICES ASSUME NEW k \in 1..n
               PROVE  (\A o \in k+1..n+1 : h[o].instance = h[k].instance => h[o].kind \notin Removals)
                        <=> /\ \A o \in k+1..n : h[o].instance = h[k].instance => h[o].kind \notin Removals
                            /\ e.instance = h[k].instance => e.kind \notin Removals
    OBVIOUS
  <2>1. k+1..n+1 = (k+1..n) \cup {n+1}
    OBVIOUS
  <2> QED
    BY <2>1
<1>4. Stays(n+1, n+1) <=> e.kind = "Create" /\ Same(p, e.instance)
  <2>1. n+1+1..n+1 = {}
    OBVIOUS
  <2> QED
    BY <2>1
<1>5. \A k : k \in 1..n+1 <=> k \in 1..n \/ k = n+1
  OBVIOUS
<1>6. \A k \in 1..n : Stays(k, n) => Same(p, h[k].instance)
  OBVIOUS
<1> HIDE DEF Stays
<1>7. \A i : i \in StandingIn(h, p, n+1) <=>
         \/ i \in StandingIn(h, p, n) /\ (e.instance = i => e.kind \notin Removals)
         \/ i = e.instance /\ e.kind = "Create" /\ Same(p, e.instance)
  BY <1>2, <1>3, <1>4, <1>5
<1>8. \A i \in StandingIn(h, p, n) : Same(p, i)
  BY <1>2, <1>6
<1> HIDE DEF e
<1>9. CASE ~About(e, p)
  <2>1. e.kind \in Violations => e.kind \notin Removals /\ e.kind # "Create"
    BY DEF Violations, Removals
  <2>2. StandingIn(h, p, n+1) = StandingIn(h, p, n)
    BY <1>7, <1>8, <1>9, <2>1 DEF About
  <2> QED
    BY <1>9, <2>2 DEF e
<1>10. CASE About(e, p) /\ e.kind = "Create"
  <2>1. e.kind \notin Removals
    BY <1>10 DEF Removals
  <2>2. StandingIn(h, p, n+1) = StandingIn(h, p, n) \cup {e.instance}
    BY <1>7, <1>10, <2>1 DEF About
  <2> QED
    BY <1>10, <2>2 DEF e
<1>11. CASE About(e, p) /\ e.kind # "Create"
  <2>1. e.kind \in Removals
    BY <1>1, <1>11 DEF EffectKinds, About
  <2>2. StandingIn(h, p, n+1) = StandingIn(h, p, n) \ {e.instance}
    BY <1>7, <1>11, <2>1
  <2> QED
    BY <1>11, <2>2 DEF e
<1> QED
  BY <1>9, <1>10, <1>11

(* What Reasoner.check derives of a pattern are the instances that stand,  *)
(* whether or not it removes one that does not.                            *)
LEMMA DerivedFacts ==
    ASSUME IsHistory(effects), NEW p, NEW n \in 0..Len(effects)
    PROVE  Derived(p)[n] = StandingIn(effects, p, n)
<1> DEFINE Step(d, m) ==
             IF m = 0 THEN {}
             ELSE IF ~About(effects[m], p) THEN d[m-1]
             ELSE IF effects[m].kind = "Create" THEN d[m-1] \cup {effects[m].instance}
             ELSE d[m-1] \ {effects[m].instance}
           Solves(d) == d = [m \in 0..Len(effects) |-> Step(d, m)]
           s == [m \in 0..Len(effects) |-> StandingIn(effects, p, m)]
           d0 == CHOOSE d : Solves(d)
<1>1. Len(effects) \in Nat /\ DOMAIN effects = 1..Len(effects)
  BY SeqPlaces DEF IsHistory
<1>2. StandingIn(effects, p, 0) = {}
  BY DEF StandingIn
<1>3. ASSUME NEW m \in 1..Len(effects)
      PROVE  StandingIn(effects, p, m) = Step(s, m)
  <2>1. m - 1 \in Nat /\ (m - 1) + 1 = m /\ m \in DOMAIN effects /\ s[m-1] = StandingIn(effects, p, m-1)
    BY <1>1
  <2> DEFINE l == m - 1
  <2>2. LET e == effects[l+1]
        IN  StandingIn(effects, p, l + 1) =
              IF ~About(e, p) THEN StandingIn(effects, p, l)
              ELSE IF e.kind = "Create" THEN StandingIn(effects, p, l) \cup {e.instance}
              ELSE StandingIn(effects, p, l) \ {e.instance}
    <3>1. l \in Nat /\ l + 1 \in DOMAIN effects
      BY <2>1
    <3> HIDE DEF l
    <3> QED
      BY <3>1, StandingStep
  <2> QED
    BY <2>1, <2>2
<1>4. Solves(s)
  <2> SUFFICES ASSUME NEW m \in 0..Len(effects)
               PROVE  StandingIn(effects, p, m) = Step(s, m)
    OBVIOUS
  <2>1. CASE m = 0
    BY <1>2, <2>1
  <2>2. CASE m # 0
    BY <1>1, <1>3, <2>2
  <2> QED
    BY <2>1, <2>2
<1>5. Solves(d0)
  <2> HIDE DEF Solves, s
  <2> QED
    BY <1>4
<1>6. Derived(p) = d0
  BY DEF Derived
<1> HIDE DEF d0
<1>7. \A m \in Nat : m \in 0..Len(effects) => d0[m] = s[m]
  <2> DEFINE S == {m \in Nat : m \in 0..Len(effects) => d0[m] = s[m]}
  <2>1. 0 \in S
    BY <1>1, <1>2, <1>5
  <2>2. ASSUME NEW m \in Nat, m \in S PROVE m + 1 \in S
    <3> SUFFICES ASSUME m + 1 \in 0..Len(effects) PROVE d0[m+1] = s[m+1]
      OBVIOUS
    <3>1. d0[m+1] = Step(d0, m+1) /\ s[m+1] = Step(s, m+1)
      BY <1>4, <1>5
    <3>2. d0[m] = s[m] /\ (m + 1) - 1 = m /\ m + 1 # 0
      BY <1>1, <2>2
    <3> QED
      BY <3>1, <3>2
  <2> HIDE DEF S
  <2>3. Nat \subseteq S
    BY <2>1, <2>2, SetInduction
  <2> QED
    BY <2>3 DEF S
<1> QED
  BY <1>1, <1>6, <1>7

-----------------------------------------------------------------------------
(* The inductive invariant.                                                *)

Extends(h, g) == Len(g) <= Len(h) /\ \A m \in 1..Len(g) : h[m] = g[m]

(* Whether n effects of the history h bear the comment f out.              *)
Saw(h, n, f) ==
    IF f.kind = "assert" THEN StandingIn(h, f.raw.instance, n) # {}
    ELSE \E m \in 1..n : Covers(f.raw.instance, h[m])

Verdict(h, n, f, reports) ==
    f.kind \in Comments => (Failed(f) \in reports <=> Saw(h, n, f) # f.raw.existance)

(* Not read, or not to be read.                                            *)
Unread ==
    /\ pc \in {"parse", "ended", "died"}
    /\ phrases = <<>> /\ next = 1 /\ mark = <<>>
    /\ effects = <<>> /\ handled = {} /\ checked_ever = FALSE
    /\ pc = "parse" => output = <<>>
    /\ IsSeq(output)
    /\ \A r \in Range(output) : r = Report("Err", <<"file">>) \/ \E n \in DOMAIN file : r = BadPhrase(n)

(* Phrases are gone through one by one; a comment does not change what is  *)
(* known, and a phrase that comes twice is the same comment again.         *)
MarksInv ==
    /\ IsSeq(mark) /\ Len(mark) = next - 1 /\ next \in 1..Len(phrases) + 1
    /\ \A k \in DOMAIN mark : mark[k] \in 0..Len(effects)
    /\ pc = "start" => next = 1
    /\ pc \in {"start", "phrases"} => IF next = 1 THEN effects = <<>> ELSE mark[next - 1] = Len(effects)
    /\ \A j, k \in DOMAIN mark :
          j < k /\ phrases[j].at = phrases[k].at /\ phrases[k].kind \in Comments => mark[j] = mark[k]

EarlyReport(r) ==
    \/ \E n \in DOMAIN file : r = BadPhrase(n)
    \/ \E k \in DOMAIN mark : r = Failed(phrases[k])
    \/ r \in {Unknown, Report("Warn", <<"effect">>)}

LastReport(r) ==
    \/ r \in {Total, Report("Warn", <<"unchecked">>)}
    \/ \E e \in Range(effects) : r = Unhandled(e)

(* Reports are made for a cause, and the closing ones at the end only.     *)
ReportsInv ==
    /\ IsSeq(output)
    /\ \A n \in DOMAIN file : file[n].kind = "malformed" => BadPhrase(n) \in Range(output)
    /\ \A r \in Range(output) : EarlyReport(r) \/ (pc = "ended" /\ LastReport(r))
    /\ pc = "ended" => next = Len(phrases) + 1

VerdictsInv == \A k \in DOMAIN mark : Verdict(effects, mark[k], phrases[k], Range(output))

(* Until the end the violations set aside are those that were matched.     *)
HandledInv ==
    /\ pc # "ended" => handled = {e \in Range(effects) : e.kind \in Violations /\ Matched(e)}
    /\ pc = "ended" => handled \subseteq {e \in Range(effects) : e.kind \in Violations}
    /\ NothingOverlooked

(* Only an idle removal ends a test in an assertion.                       *)
DeathInv ==
    /\ pc = "start" => checked_ever = FALSE
    /\ DiedInCheck => KeyError(phrases[next].raw.instance)

Read ==
    /\ pc # "parse"
    /\ Parsed /\ IsHistory(effects)
    /\ MarksInv /\ ReportsInv /\ VerdictsInv /\ HandledInv /\ DeathInv

UnitInv ==
    /\ pc \in {"parse", "start", "phrases", "stuck", "ended", "died"}
    /\ file \in Files
    /\ checked_ever \in BOOLEAN
    /\ Unread \/ Read

(* The exchanges a test of file f may have with the reasoner: what f       *)
(* submits, after other phrases it submits.                                *)
Sendable(f) == {raw \in Range(f) : raw.kind \in Submits}
Chunks == UNION {UNION {Prints(done, raw) : done \in Seq(Sendable(f)), raw \in Sendable(f)} : f \in Files}

(* What the reasoner prints for a phrase is a sequence of lines.           *)
PrintsLines == \A chunk \in Chunks : IsSeq(chunk)

-----------------------------------------------------------------------------
(* The files a test is given are sequences of lines.                       *)
LEMMA FilesAreFiles == ASSUME file \in Files PROVE IsFile(file)
  BY UnitTestAssumption DEF IsFile, IsSeq

(* Reports of different kinds differ.                                      *)
LEMMA ReportsDiffer ==
    /\ \A f : Failed(f).about[1] = "assertion" /\ Failed(f).about[2] = f.at /\ Failed(f).kind = "Err"
    /\ \A n : BadPhrase(n).about[1] = "phrase" /\ BadPhrase(n).about[2] = n /\ BadPhrase(n).kind = "Err"
    /\ Unknown.about[1] = "line" /\ Unknown.kind \in {"Err", "Warn"}
    /\ \A e : Unhandled(e).about[1] = "violation" /\ Unhandled(e).about[2] = e /\ Unhandled(e).kind = "Warn"
    /\ Total.about[1] = "time" /\ Total.kind = "Info"
    /\ Report("Err", <<"file">>).about[1] = "file" /\ Report("Err", <<"file">>).kind = "Err"
    /\ Report("Warn", <<"effect">>).about[1] = "effect" /\ Report("Warn", <<"effect">>).kind = "Warn"
    /\ Report("Warn", <<"unchecked">>).about[1] = "unchecked" /\ Report("Warn", <<"unchecked">>).kind = "Warn"
BY DEF Failed, BadPhrase, Unknown, Unhandled, Total, Report

(* Two phrases have the same report of failure only at the same place.     *)
LEMMA FailedAt == ASSUME NEW f, NEW g PROVE Failed(f) = Failed(g) <=> f.at = g.at
<1>1. Failed(f).about[2] = f.at /\ Failed(g).about[2] = g.at
  BY ReportsDiffer
<1> QED
  BY <1>1 DEF Failed, Report

(* What a comment saw does not change when the history grows.              *)
LEMMA SawStable ==
    ASSUME NEW h, NEW g, Len(g) \in Nat, Extends(h, g), NEW n \in 0..Len(g), NEW f
    PROVE  Saw(h, n, f) = Saw(g, n, f)
<1>1. \A m \in 1..n : h[m] = g[m]
  BY DEF Extends
<1>2. \A p : StandingIn(h, p, n) = StandingIn(g, p, n)
  <2> SUFFICES ASSUME NEW p PROVE StandingIn(h, p, n) = StandingIn(g, p, n)
    OBVIOUS
  <2> DEFINE Stays(l, k) == /\ l[k].kind = "Create" /\ Same(p, l[k].instance)
                            /\ \A o \in k+1..n : l[o].instance = l[k].instance => l[o].kind \notin Removals
  <2>1. ASSUME NEW k \in 1..n PROVE h[k] = g[k] /\ (Stays(h, k) <=> Stays(g, k))
    <3>1. h[k] = g[k] /\ \A o \in k+1..n : h[o] = g[o]
      BY <1>1
    <3> QED
      BY <3>1
  <2>2. /\ StandingIn(h, p, n) = {h[m].instance : m \in {k \in 1..n : Stays(h, k)}}
        /\ StandingIn(g, p, n) = {g[m].instance : m \in {k \in 1..n : Stays(g, k)}}
    BY DEF StandingIn
  <2> HIDE DEF Stays
  <2>3. {k \in 1..n : Stays(h, k)} = {k \in 1..n : Stays(g, k)}
    BY <2>1
  <2> QED
    BY <2>1, <2>2, <2>3
<1>3. (\E m \in 1..n : Covers(f.raw.instance, h[m])) <=> \E m \in 1..n : Covers(f.raw.instance, g[m])
  BY <1>1
<1> QED
  BY <1>2, <1>3 DEF Saw

(* What is reported on the way is none of the closing reports.              *)
LEMMA EarlyIsNotLast ==
    ASSUME NEW r, EarlyReport(r)
    PROVE  r # Total /\ \A e : r # Unhandled(e)
<1>1. r.about[1] \in {"phrase", "assertion", "line", "effect"}
  BY ReportsDiffer DEF EarlyReport
<1> QED
  BY <1>1, ReportsDiffer

(* The marks are those of the phrases that were gone through.              *)
LEMMA PhrasesOnTheWay ==
    ASSUME UnitInv, Read
    PROVE  /\ IsFile(file) /\ Parsed
           /\ DOMAIN phrases = 1..Len(phrases) /\ Len(phrases) \in Nat
           /\ IsSeq(mark) /\ Len(mark) \in Nat /\ DOMAIN mark = 1..Len(mark) /\ Len(mark) = next - 1
           /\ DOMAIN mark \subseteq DOMAIN phrases /\ next \in Nat
           /\ Len(effects) \in Nat /\ DOMAIN effects = 1..Len(effects)
<1>1. IsFile(file) /\ Parsed
  BY FilesAreFiles DEF UnitInv, Read
<1>2. DOMAIN phrases = 1..Len(phrases) /\ Len(phrases) \in Nat
  BY <1>1, PhrasesFacts
<1>3. IsSeq(mark) /\ Len(mark) = next - 1 /\ next \in 1..Len(phrases) + 1
  BY DEF Read, MarksInv
<1>4. Len(mark) \in Nat /\ DOMAIN mark = 1..Len(mark)
  BY <1>3, SeqPlaces
<1>5. Len(effects) \in Nat /\ DOMAIN effects = 1..Len(effects)
  BY SeqPlaces DEF Read, IsHistory
<1> QED
  BY <1>1, <1>2, <1>3, <1>4, <1>5

(* The invariant gives the properties.                                     *)
LEMMA InvGivesTypes == ASSUME UnitInv PROVE UnitTypeOK
<1>1. IsFile(file)
  BY FilesAreFiles DEF UnitInv
<1>2. CASE Unread
  <2>1. /\ Len(phrases) = 0 /\ DOMAIN phrases = {} /\ Range(effects) = {} /\ Len(mark) = 0
        /\ DOMAIN mark = {}
    BY <1>2, SmallSeqs DEF Unread
  <2>2. ASSUME NEW r \in Range(output) PROVE r.kind \in {"Info", "Warn", "Err"}
    <3>1. r = Report("Err", <<"file">>) \/ \E n \in DOMAIN file : r = BadPhrase(n)
      BY <1>2 DEF Unread
    <3>2. r.kind = "Err"
      BY <3>1 DEF Report, BadPhrase
    <3> QED
      BY <3>2
  <2>3. next \in 1..Len(phrases) + 1 /\ Len(mark) = next - 1 /\ handled = {}
    BY <1>2, <2>1 DEF Unread
  <2>4. /\ \A k \in DOMAIN phrases : phrases[k].at \in DOMAIN file
        /\ \A e \in Range(effects) : e.kind \in EffectKinds
        /\ handled \subseteq {e \in Range(effects) : e.kind \in Violations}
        /\ \A k \in DOMAIN mark : mark[k] \in 0..Len(effects)
    BY <2>1, <2>3
  <2>5. /\ pc \in {"parse", "start", "phrases", "stuck", "ended", "died"}
        /\ file \in Files /\ checked_ever \in BOOLEAN
    BY DEF UnitInv
  <2> QED
    BY <2>2, <2>3, <2>4, <2>5 DEF UnitTypeOK
<1>3. CASE Read
  <2>1. \A k \in DOMAIN phrases : phrases[k].at \in DOMAIN file
    BY <1>1, <1>3, PhrasesFacts DEF Read
  <2>2. ASSUME NEW r \in Range(output) PROVE r.kind \in {"Info", "Warn", "Err"}
    <3>1. EarlyReport(r) \/ LastReport(r)
      BY <1>3 DEF Read, ReportsInv
    <3>2. CASE EarlyReport(r)
      BY <3>2, ReportsDiffer DEF EarlyReport
    <3>3. CASE LastReport(r)
      BY <3>3, ReportsDiffer DEF LastReport
    <3> QED
      BY <3>1, <3>2, <3>3
  <2>3. handled \subseteq {e \in Range(effects) : e.kind \in Violations}
    BY <1>3 DEF Read, HandledInv
  <2> QED
    BY <1>3, <2>1, <2>2, <2>3 DEF UnitInv, UnitTypeOK, Read, MarksInv, IsHistory
<1> QED
  BY <1>2, <1>3 DEF UnitInv

(* The invariant explains every verdict.                                   *)
LEMMA InvGivesVerdicts == ASSUME UnitInv PROVE VerdictsSound
<1>1. CASE Unread
  BY <1>1, SmallSeqs DEF Unread, VerdictsSound
<1>2. CASE Read
  <2>1. \A k \in DOMAIN mark : Verdict(effects, mark[k], phrases[k], Range(output))
    BY <1>2 DEF Read, VerdictsInv
  <2>2. \A p, n : StandingIn(effects, p, n) # {} <=> Standing(p, n)
    BY DEF StandingIn, Standing
  <2>3. \A p, n : Occurred(p, n) <=> \E m \in 1..n : Covers(p, effects[m])
    BY DEF Occurred
  <2>4. ASSUME NEW k \in DOMAIN mark, phrases[k].kind \in Comments
        PROVE  LET c == phrases[k].raw
                   seen == IF c.kind = "assert" THEN Standing(c.instance, mark[k])
                           ELSE Occurred(c.instance, mark[k])
               IN  Failed(phrases[k]) \in Range(output) <=> seen # c.existance
    <3> DEFINE c == phrases[k].raw
    <3>1. phrases[k].kind = c.kind
      <4>1. k \in DOMAIN phrases
        BY <1>2, <2>4, PhrasesOnTheWay
      <4>2. IsFile(file) /\ Parsed
        BY <1>2, FilesAreFiles DEF UnitInv, Read
      <4> QED
        BY <4>1, <4>2, PhrasesFacts
    <3>2. Failed(phrases[k]) \in Range(output) <=> Saw(effects, mark[k], phrases[k]) # c.existance
      BY <2>1, <2>4 DEF Verdict
    <3>3. CASE c.kind = "assert"
      <4>1. Saw(effects, mark[k], phrases[k]) = (StandingIn(effects, c.instance, mark[k]) # {})
        BY <3>1, <3>3 DEF Saw
      <4>2. Saw(effects, mark[k], phrases[k]) = Standing(c.instance, mark[k])
        BY <2>2, <4>1
      <4> QED
        BY <3>2, <3>3, <4>2
    <3>4. CASE c.kind # "assert"
      <4>1. Saw(effects, mark[k], phrases[k]) = Occurred(c.instance, mark[k])
        BY <2>3, <3>1, <3>4 DEF Saw
      <4> QED
        BY <3>2, <3>4, <4>1
    <3> QED
      BY <3>3, <3>4
  <2> QED
    BY <2>4 DEF VerdictsSound
<1> QED
  BY <1>1, <1>2 DEF UnitInv

(* And it explains what the last line of the output vouches for.           *)
LEMMA InvGivesTotal == ASSUME UnitInv PROVE TotalVouches
<1> SUFFICES ASSUME Total \in Range(output)
             PROVE  /\ \A n \in DOMAIN file :
                          \/ file[n].kind = "blank"
                          \/ n \in {phrases[k].at : k \in DOMAIN mark}
                          \/ BadPhrase(n) \in Range(output)
                    /\ \A j, k \in DOMAIN mark : j < k =>
                          \/ phrases[j].at < phrases[k].at
                          \/ phrases[j].at = phrases[k].at
                             /\ \E n \in DOMAIN file : BadPhrase(n) \in Range(output)
  BY DEF TotalVouches
<1>1. Read
  <2>1. ~Unread
    BY ReportsDiffer DEF Unread
  <2> QED
    BY <2>1 DEF UnitInv
<1>2. next = Len(phrases) + 1
  <2>1. pc = "ended"
    BY <1>1, EarlyIsNotLast DEF Read, ReportsInv
  <2> QED
    BY <1>1, <2>1 DEF Read, ReportsInv
<1>3. IsFile(file) /\ Parsed
  BY <1>1, FilesAreFiles DEF UnitInv, Read
<1>4. DOMAIN mark = DOMAIN phrases /\ DOMAIN phrases = 1..Len(phrases) /\ Len(phrases) \in Nat
  <2>1. DOMAIN mark = 1..Len(mark) /\ Len(mark) = next - 1
    BY <1>1, SeqPlaces DEF Read, MarksInv
  <2>2. DOMAIN phrases = 1..Len(phrases) /\ Len(phrases) \in Nat
    BY <1>3, PhrasesFacts
  <2> QED
    BY <1>2, <2>1, <2>2
<1>5. \A n \in DOMAIN file : file[n].kind = "malformed" => BadPhrase(n) \in Range(output)
  BY <1>1 DEF Read, ReportsInv
<1>6. \A n \in DOMAIN file : file[n].kind \notin {"blank", "malformed"} =>
         \E k \in DOMAIN phrases : phrases[k].at = n
  BY <1>3, PhrasesFacts
<1>7. ASSUME NEW j \in DOMAIN mark, NEW k \in DOMAIN mark, j < k
      PROVE  \/ phrases[j].at < phrases[k].at
             \/ phrases[j].at = phrases[k].at /\ \E n \in DOMAIN file : BadPhrase(n) \in Range(output)
  <2>1. /\ phrases[j].at \in DOMAIN file /\ phrases[k].at \in DOMAIN file
        /\ phrases[j].at <= phrases[k].at
        /\ phrases[j].at = phrases[k].at => \E n \in DOMAIN file : file[n].kind = "malformed"
    BY <1>3, <1>4, <1>7, PhrasesFacts
  <2>2. phrases[j].at \in Nat /\ phrases[k].at \in Nat
    BY <1>3, <2>1, SeqPlaces DEF IsFile
  <2>3. phrases[j].at < phrases[k].at \/ phrases[j].at = phrases[k].at
    BY <2>1, <2>2
  <2> QED
    BY <1>5, <2>1, <2>3
<1> QED
  BY <1>4, <1>5, <1>6, <1>7

-----------------------------------------------------------------------------
(* The file is read.                                                       *)

(* Before the file is read.                                                *)
LEMMA UnitInit == ASSUME Init PROVE UnitInv
<1>1. Range(output) = {} /\ IsSeq(output)
  BY SmallSeqs DEF Init
<1> QED
  BY <1>1 DEF Init, UnitInv, Unread

(* The file is read and parsed.                                            *)
LEMMA ParseStep == ASSUME UnitInv, Parse PROVE UnitInv'
<1> USE DEF Parse
<1>1. Unread /\ IsFile(file)
  BY FilesAreFiles DEF UnitInv, Read
<1>2. /\ IsSeq(Bad) /\ DOMAIN Bad = 1..Len(Bad) /\ Len(Bad) \in Nat
      /\ \A k \in DOMAIN Bad : Bad[k] \in DOMAIN file
      /\ \A n \in DOMAIN file : file[n].kind \in {"malformed"} => \E k \in DOMAIN Bad : Bad[k] = n
  BY <1>1, PlacesFacts DEF Bad
<1>3. CASE ~StartsWell
  <2>1. Bad # <<>> /\ pc' = "died" /\ output' = <<BadPhrase(Bad[1])>> /\ UNCHANGED phrases
    BY <1>3 DEF StartsWell, Raise
  <2>2. Bad[1] \in DOMAIN file
    <3>1. Len(Bad) # 0
      BY <1>2, <2>1 DEF IsSeq
    <3> QED
      BY <1>2, <3>1
  <2>3. IsSeq(output') /\ Range(output') = {BadPhrase(Bad[1])}
    BY <2>1, SmallSeqs
  <2>4. \A r \in Range(output') : \E n \in DOMAIN file' : r = BadPhrase(n)
    BY <2>2, <2>3
  <2>5. Unread'
    BY <1>1, <2>1, <2>3, <2>4 DEF Unread
  <2> QED
    BY <2>1, <2>5 DEF UnitInv
<1>4. CASE StartsWell
  <2>1. /\ pc' = "start" /\ phrases' = [k \in DOMAIN Written |-> Yielded(Written[k])]
        /\ output' = [k \in DOMAIN Bad |-> BadPhrase(Bad[k])]
    BY <1>4 DEF StartsWell
  <2>2. file' = file /\ next' = 1 /\ mark' = <<>> /\ effects' = <<>> /\ handled' = {} /\ checked_ever' = FALSE
    BY <1>1 DEF Unread
  <2>3. Parsed'
    <3>1. Written' = Written /\ Bad' = Bad
      BY <2>2 DEF Written, Bad, Places
    <3>2. \A n : Yielded(n)' = Yielded(n)
      BY <2>2 DEF Yielded
    <3> QED
      BY <1>4, <2>1, <3>1, <3>2 DEF Parsed, StartsWell
  <2>4. IsHistory(effects') /\ Range(effects') = {} /\ Len(effects') = 0
    BY <2>2, SmallSeqs DEF IsHistory
  <2>5. Len(phrases') \in Nat
    <3>1. DOMAIN Written = 1..Len(Written) /\ Len(Written) \in Nat
      BY <1>1, PlacesFacts DEF Written
    <3>2. phrases' = [k \in 1..Len(Written) |-> phrases'[k]] /\ DOMAIN phrases' = 1..Len(Written)
      BY <2>1, <3>1
    <3> QED
      BY <3>1, <3>2, FunctionIsSeq
  <2>6. MarksInv'
    <3>1. IsSeq(mark') /\ Len(mark') = 0 /\ DOMAIN mark' = {}
      BY <2>2, SmallSeqs
    <3> QED
      BY <2>1, <2>2, <2>5, <3>1 DEF MarksInv
  <2>7. IsSeq(output') /\ Range(output') = {BadPhrase(Bad[k]) : k \in DOMAIN Bad}
    <3>1. output' = [k \in 1..Len(Bad) |-> output'[k]] /\ DOMAIN output' = 1..Len(Bad)
      BY <1>2, <2>1
    <3>2. IsSeq(output')
      BY <1>2, <3>1, FunctionIsSeq
    <3>3. Range(output') = {BadPhrase(Bad[k]) : k \in DOMAIN Bad}
      BY <2>1 DEF Range
    <3> QED
      BY <3>2, <3>3
  <2>8. ReportsInv'
    <3>1. \A n \in DOMAIN file' : file'[n].kind = "malformed" => BadPhrase(n) \in Range(output')
      BY <1>2, <2>2, <2>7
    <3>2. \A r \in Range(output') : EarlyReport(r)'
      BY <1>2, <2>2, <2>7 DEF EarlyReport
    <3> QED
      BY <2>1, <2>7, <3>1, <3>2 DEF ReportsInv
  <2>9. VerdictsInv' /\ DeathInv'
    BY <2>1, <2>2 DEF VerdictsInv, DeathInv, DiedInCheck
  <2>10. HandledInv'
    <3>1. Total \notin Range(output')
      BY <2>7, ReportsDiffer
    <3> QED
      BY <2>1, <2>2, <2>4, <3>1 DEF HandledInv, NothingOverlooked
  <2>11. Read'
    BY <2>1, <2>3, <2>4, <2>6, <2>8, <2>9, <2>10 DEF Read
  <2> QED
    BY <2>1, <2>2, <2>11 DEF UnitInv
<1> QED
  BY <1>3, <1>4

(* It cannot be read.                                                      *)
LEMMA UnreadableStep == ASSUME UnitInv, Unreadable PROVE UnitInv'
<1>1. Unread
  BY DEF Unreadable, UnitInv, Read
<1>2. IsSeq(output') /\ Range(output') = {Report("Err", <<"file">>)}
  BY SmallSeqs DEF Unreadable
<1> QED
  BY <1>1, <1>2 DEF Unreadable, UnitInv, Unread

(* It is read in part.                                                     *)
LEMMA UndecodableStep == ASSUME UnitInv, Undecodable PROVE UnitInv'
<1>1. Unread /\ IsFile(file)
  BY FilesAreFiles DEF Undecodable, UnitInv, Read
<1>2. /\ DOMAIN Bad = 1..Len(Bad) /\ Len(Bad) \in Nat
      /\ \A k \in DOMAIN Bad : Bad[k] \in DOMAIN file
  BY <1>1, PlacesFacts DEF Bad
<1>3. PICK n \in 0..Len(Bad) : output' = [k \in 1..n |-> BadPhrase(Bad[k])]
  BY DEF Undecodable
<1>4. n \in Nat
  BY <1>2
<1>5. IsSeq(output')
  <2>1. output' = [k \in 1..n |-> output'[k]] /\ DOMAIN output' = 1..n
    BY <1>3
  <2> QED
    BY <1>4, <2>1, FunctionIsSeq
<1>6. \A r \in Range(output') : \E m \in DOMAIN file' : r = BadPhrase(m)
  <2>1. \A k \in 1..n : k \in DOMAIN Bad
    BY <1>2, <1>3
  <2>2. \A k \in 1..n : Bad[k] \in DOMAIN file
    BY <1>2, <2>1
  <2>3. file' = file
    BY DEF Undecodable
  <2> QED
    BY <1>3, <2>2, <2>3 DEF Range
<1> QED
  BY <1>1, <1>5, <1>6 DEF Undecodable, Raise, UnitInv, Unread

-----------------------------------------------------------------------------
(* The phrases are gone through.                                           *)

(* Nothing is gone through, and nothing new is known unless the test is    *)
(* over.                                                                   *)
LEMMA MarksStay ==
    ASSUME UnitInv, Read, UNCHANGED <<phrases, next, mark>>,
           Extends(effects', effects), Len(effects') \in Nat,
           pc' = "phrases" => pc \in {"start", "phrases"} /\ effects' = effects, pc' # "start"
    PROVE  MarksInv'
<1>1. Len(effects) \in Nat /\ Len(effects) <= Len(effects')
  BY PhrasesOnTheWay DEF Extends
<1>2. \A k \in DOMAIN mark : mark[k] \in 0..Len(effects')
  BY <1>1 DEF Read, MarksInv
<1> QED
  BY <1>2 DEF Read, MarksInv

(* Twins: a comment that comes again is judged by what was known before.   *)
LEMMA Twins ==
    ASSUME UnitInv, Read, pc = "phrases", next \in DOMAIN phrases, phrases[next].kind \in Comments,
           NEW j \in DOMAIN mark, phrases[j].at = phrases[next].at
    PROVE  mark[j] = Len(effects)
<1>1. /\ IsFile(file) /\ Parsed
      /\ DOMAIN phrases = 1..Len(phrases) /\ Len(phrases) \in Nat
      /\ DOMAIN mark = 1..Len(mark) /\ Len(mark) = next - 1 /\ next \in Nat
  BY PhrasesOnTheWay
<1> DEFINE l == next - 1
<1>2. /\ next # 1 /\ l \in DOMAIN mark /\ l \in DOMAIN phrases /\ j \in DOMAIN phrases
      /\ j < next /\ l < next /\ (j = l \/ j < l)
  BY <1>1
<1>3. mark[l] = Len(effects)
  BY <1>2 DEF Read, MarksInv
<1>4. CASE j = l
  BY <1>3, <1>4
<1>5. CASE j < l
  <2>1. phrases[j].at <= phrases[l].at /\ phrases[l].at <= phrases[next].at
    BY <1>1, <1>2, <1>5, PhrasesFacts
  <2>2. phrases[j].at \in Nat /\ phrases[l].at \in Nat /\ phrases[next].at \in Nat
    <3>1. phrases[j].at \in DOMAIN file /\ phrases[l].at \in DOMAIN file /\ phrases[next].at \in DOMAIN file
      BY <1>1, <1>2, PhrasesFacts
    <3> QED
      BY <1>1, <3>1, SeqPlaces DEF IsFile
  <2>3. phrases[l].at = phrases[next].at
    BY <2>1, <2>2
  <2>4. phrases[l].kind \in Comments
    BY <1>1, <1>2, <2>3, PhrasesFacts
  <2>5. mark[j] = mark[l]
    BY <1>2, <1>5, <2>3, <2>4 DEF Read, MarksInv
  <2> QED
    BY <1>3, <2>5
<1> QED
  BY <1>2, <1>4, <1>5

(* One phrase is gone through; a comment adds nothing to what is known.    *)
LEMMA MarksAdvance ==
    ASSUME UnitInv, Read, pc = "phrases", pc' = "phrases", next \in DOMAIN phrases,
           UNCHANGED phrases, Advance(effects'),
           Extends(effects', effects), Len(effects') \in Nat,
           phrases[next].kind \in Comments => effects' = effects
    PROVE  /\ MarksInv'
           /\ DOMAIN mark' = DOMAIN mark \cup {next} /\ mark'[next] = Len(effects')
           /\ \A k \in DOMAIN mark : mark'[k] = mark[k] /\ mark[k] \in 0..Len(effects) /\ k # next
<1>1. /\ IsFile(file) /\ Parsed
      /\ DOMAIN phrases = 1..Len(phrases) /\ Len(phrases) \in Nat
      /\ IsSeq(mark) /\ Len(mark) \in Nat /\ DOMAIN mark = 1..Len(mark) /\ Len(mark) = next - 1 /\ next \in Nat
      /\ Len(effects) \in Nat
  BY PhrasesOnTheWay
<1>2. next' = next + 1 /\ mark' = Append(mark, Len(effects'))
  BY DEF Advance
<1>3. /\ IsSeq(mark') /\ Len(mark') = Len(mark) + 1
      /\ \A k \in 1..Len(mark) : mark'[k] = mark[k]
      /\ mark'[Len(mark) + 1] = Len(effects')
  <2> DEFINE x == Len(effects')
  <2>1. mark' = Append(mark, x)
    BY <1>2
  <2> HIDE DEF x
  <2>2. /\ IsSeq(Append(mark, x)) /\ Len(Append(mark, x)) = Len(mark) + 1
        /\ \A k \in 1..Len(mark) : Append(mark, x)[k] = mark[k]
        /\ Append(mark, x)[Len(mark) + 1] = x
    BY <1>1, AppendFacts
  <2> QED
    BY <2>1, <2>2 DEF x
<1>4. Len(mark) + 1 = next /\ DOMAIN mark' = 1..Len(mark) + 1
  BY <1>1, <1>3, SeqPlaces
<1>5. DOMAIN mark' = DOMAIN mark \cup {next} /\ mark'[next] = Len(effects')
  BY <1>1, <1>3, <1>4
<1>6. \A k \in DOMAIN mark : mark'[k] = mark[k] /\ mark[k] \in 0..Len(effects) /\ k # next
  BY <1>1, <1>3 DEF Read, MarksInv
<1>7. \A k \in DOMAIN mark' : mark'[k] \in 0..Len(effects')
  <2>1. Len(effects) <= Len(effects')
    BY DEF Extends
  <2> QED
    BY <1>1, <1>5, <1>6, <2>1
<1>8. ASSUME NEW j \in DOMAIN mark', NEW k \in DOMAIN mark',
             j < k, phrases[j].at = phrases[k].at, phrases[k].kind \in Comments
      PROVE  mark'[j] = mark'[k]
  <2>1. j \in DOMAIN mark
    BY <1>1, <1>4, <1>5, <1>8
  <2>2. CASE k \in DOMAIN mark
    BY <1>6, <1>8, <2>1, <2>2 DEF Read, MarksInv
  <2>3. CASE k = next
    <3>1. mark[j] = Len(effects) /\ effects' = effects
      BY <1>8, <2>1, <2>3, Twins
    <3> QED
      BY <1>5, <1>6, <2>1, <2>3, <3>1
  <2> QED
    BY <1>5, <2>2, <2>3
<1>9. next' \in 1..Len(phrases') + 1 /\ Len(mark') = next' - 1
      /\ next' # 1 /\ next' - 1 = next
  BY <1>1, <1>2, <1>3, <1>4
<1>10. MarksInv'
  BY <1>3, <1>5, <1>7, <1>8, <1>9 DEF MarksInv
<1> QED
  BY <1>5, <1>6, <1>10

(* Reports made for a cause stay so.                                       *)
LEMMA ReportsGrow ==
    ASSUME UnitInv, Read, pc \in {"start", "phrases"}, pc' # "ended", UNCHANGED <<file, phrases>>,
           DOMAIN mark \subseteq DOMAIN mark',
           IsSeq(output'), Range(output) \subseteq Range(output'),
           \A r \in Range(output') \ Range(output) :
              \/ \E k \in DOMAIN mark' : r = Failed(phrases[k])
              \/ r \in {Unknown, Report("Warn", <<"effect">>)}
    PROVE  ReportsInv' /\ Total \notin Range(output')
<1>1. ASSUME NEW r \in Range(output') PROVE EarlyReport(r)' /\ r # Total
  <2>1. CASE r \in Range(output)
    <3>1. EarlyReport(r)
      BY <2>1 DEF Read, ReportsInv
    <3>2. EarlyReport(r)'
      BY <3>1 DEF EarlyReport
    <3> QED
      BY <3>1, <3>2, EarlyIsNotLast
  <2>2. CASE r \notin Range(output)
    <3>1. EarlyReport(r)'
      BY <2>2 DEF EarlyReport
    <3>2. r.about[1] \in {"assertion", "line", "effect"}
      BY <2>2, ReportsDiffer
    <3> QED
      BY <3>1, <3>2, ReportsDiffer
  <2> QED
    BY <2>1, <2>2
<1>2. \A n \in DOMAIN file' : file'[n].kind = "malformed" => BadPhrase(n) \in Range(output')
  BY DEF Read, ReportsInv
<1>3. pc' = "ended" => next' = Len(phrases') + 1
  OBVIOUS
<1> QED
  BY <1>1, <1>2, <1>3 DEF ReportsInv

(* The reasoner is started.                                                *)
LEMMA StartStep == ASSUME UnitInv, Start PROVE UnitInv'
<1> USE DEF Start
<1>1. Read
  BY DEF UnitInv, Unread
<1>2. Len(effects) \in Nat
  BY <1>1, PhrasesOnTheWay
<1>3. MarksInv'
  BY <1>1, <1>2, MarksStay DEF Extends
<1>4. ReportsInv' /\ Total \notin Range(output')
  <2>1. IsSeq(output)
    BY <1>1 DEF Read, ReportsInv
  <2> QED
    BY <1>1, <2>1, ReportsGrow
<1>5. Parsed' /\ VerdictsInv' /\ IsHistory(effects')
  <2>1. Parsed'
    BY <1>1, ParsedStays DEF Read
  <2> QED
    BY <1>1, <2>1 DEF Read, VerdictsInv
<1>6. HandledInv'
  BY <1>1, <1>4 DEF Read, HandledInv, NothingOverlooked, Matched
<1>7. DeathInv'
  <2>1. checked_ever' = FALSE
    BY <1>1 DEF Read, DeathInv
  <2> QED
    BY <2>1 DEF DeathInv, DiedInCheck
<1>8. Read'
  BY <1>3, <1>4, <1>5, <1>6, <1>7 DEF Read
<1> QED
  BY <1>8 DEF UnitInv

(* A comment's report joins the others.                                    *)
LEMMA VerdictStep ==
    ASSUME UnitInv, Read, pc = "phrases", next \in DOMAIN phrases, phrases[next].kind \in Comments,
           pc' = "phrases", UNCHANGED <<file, phrases, effects>>, Advance(effects),
           output' = IF Saw(effects, Len(effects), phrases[next]) = phrases[next].raw.existance
                     THEN output ELSE Append(output, Failed(phrases[next]))
    PROVE  MarksInv' /\ VerdictsInv' /\ ReportsInv' /\ Total \notin Range(output')
<1> DEFINE F == phrases[next]
           bad == Failed(F)
           fails == Saw(effects, Len(effects), F) # F.raw.existance
<1>1. /\ IsFile(file) /\ Parsed /\ DOMAIN mark \subseteq DOMAIN phrases /\ Len(effects) \in Nat
  BY PhrasesOnTheWay
<1>2. /\ MarksInv'
      /\ DOMAIN mark' = DOMAIN mark \cup {next} /\ mark'[next] = Len(effects)
      /\ \A k \in DOMAIN mark : mark'[k] = mark[k] /\ mark[k] \in 0..Len(effects) /\ k # next
  <2>1. Advance(effects') /\ Extends(effects', effects) /\ Len(effects') \in Nat
    BY <1>1 DEF Advance, Extends
  <2> QED
    BY <2>1, MarksAdvance
<1>3. IsSeq(output') /\ Range(output') = Range(output) \cup (IF fails THEN {bad} ELSE {})
  <2>1. IsSeq(output)
    BY DEF Read, ReportsInv
  <2> HIDE DEF bad
  <2>2. IsSeq(Append(output, bad)) /\ Range(Append(output, bad)) = Range(output) \cup {bad}
    BY <2>1, AppendFacts
  <2>3. CASE fails
    <3>1. output' = Append(output, bad)
      BY <2>3 DEF bad
    <3> QED
      BY <2>2, <2>3, <3>1
  <2>4. CASE ~fails
    BY <2>1, <2>4
  <2> QED
    BY <2>3, <2>4
<1>4. ASSUME NEW k \in DOMAIN mark, phrases[k].at = F.at
      PROVE  /\ mark[k] = Len(effects) /\ Failed(phrases[k]) = bad
             /\ bad \in Range(output) <=> fails
  <2>1. mark[k] = Len(effects)
    BY <1>4, Twins
  <2>2. phrases[k].kind = F.kind /\ phrases[k].raw = F.raw
    BY <1>1, <1>4, PhrasesFacts
  <2>3. Failed(phrases[k]) = bad
    BY <1>4 DEF Failed
  <2>4. Failed(phrases[k]) \in Range(output) <=>
           Saw(effects, mark[k], phrases[k]) # phrases[k].raw.existance
    BY <2>2 DEF Read, VerdictsInv, Verdict
  <2>5. Saw(effects, mark[k], phrases[k]) = Saw(effects, Len(effects), F)
    BY <2>1, <2>2 DEF Saw
  <2> QED
    BY <2>1, <2>2, <2>3, <2>4, <2>5
<1>5. bad \in Range(output) => \E k \in DOMAIN mark : phrases[k].at = F.at
  <2> SUFFICES ASSUME bad \in Range(output) PROVE \E k \in DOMAIN mark : phrases[k].at = F.at
    OBVIOUS
  <2>1. EarlyReport(bad)
    BY DEF Read, ReportsInv
  <2>2. bad.about[1] = "assertion" /\ bad.about[2] = F.at
    BY ReportsDiffer
  <2>3. PICK k \in DOMAIN mark : bad = Failed(phrases[k])
    BY <2>1, <2>2, ReportsDiffer DEF EarlyReport
  <2>4. Failed(phrases[k]).about[2] = phrases[k].at
    BY ReportsDiffer
  <2> QED
    BY <2>2, <2>3, <2>4
<1>6. bad \in Range(output') <=> fails
  BY <1>3, <1>4, <1>5
<1>7. ASSUME NEW k \in DOMAIN mark'
      PROVE  Verdict(effects', mark'[k], phrases'[k], Range(output'))
  <2>1. CASE k = next
    BY <1>2, <1>6, <2>1 DEF Verdict
  <2>2. CASE k \in DOMAIN mark /\ phrases[k].at = F.at
    <3>1. phrases[k].kind = F.kind /\ phrases[k].raw = F.raw
      BY <1>1, <2>2, PhrasesFacts
    <3>2. Saw(effects, mark[k], phrases[k]) = Saw(effects, Len(effects), F)
      BY <1>4, <2>2, <3>1 DEF Saw
    <3> QED
      BY <1>2, <1>4, <1>6, <2>2, <3>1, <3>2 DEF Verdict
  <2>3. CASE k \in DOMAIN mark /\ phrases[k].at # F.at
    <3>1. Failed(phrases[k]) # bad
      <4> DEFINE f == phrases[k]
      <4>1. f.at # F.at
        BY <2>3
      <4> HIDE DEF f, F
      <4>2. Failed(f) # Failed(F)
        BY <4>1, FailedAt
      <4> QED
        BY <4>2 DEF f
    <3>2. Failed(phrases[k]) \in Range(output') <=> Failed(phrases[k]) \in Range(output)
      BY <1>3, <3>1
    <3>3. Verdict(effects, mark[k], phrases[k], Range(output))
      BY <2>3 DEF Read, VerdictsInv
    <3> QED
      BY <1>2, <2>3, <3>2, <3>3 DEF Verdict
  <2> QED
    BY <1>2, <2>1, <2>2, <2>3
<1>8. ReportsInv' /\ Total \notin Range(output')
  <2>1. \A r \in Range(output') \ Range(output) : \E k \in DOMAIN mark' : r = Failed(phrases[k])
    BY <1>2, <1>3
  <2>2. Range(output) \subseteq Range(output') /\ DOMAIN mark \subseteq DOMAIN mark'
    BY <1>2, <1>3
  <2> QED
    BY <1>3, <2>1, <2>2, ReportsGrow
<1> QED
  BY <1>2, <1>7, <1>8 DEF VerdictsInv

(* What was set aside is still what was matched when no `//#violated' had  *)
(* its turn.                                                               *)
LEMMA HandledStays ==
    ASSUME UnitInv, Read, pc # "ended", pc' # "ended", UNCHANGED <<phrases, handled>>,
           Extends(effects', effects), Range(effects) \subseteq Range(effects'),
           Total \notin Range(output'),
           \A k \in DOMAIN mark : k \in DOMAIN mark' /\ mark'[k] = mark[k],
           \A k \in DOMAIN mark' \ DOMAIN mark : phrases[k].kind # "violated"
    PROVE  HandledInv'
<1>1. \A k \in DOMAIN mark : {effects'[m] : m \in 1..mark[k]} = {effects[m] : m \in 1..mark[k]}
  <2>1. \A k \in DOMAIN mark : mark[k] \in 0..Len(effects) /\ Len(effects) \in Nat
    BY PhrasesOnTheWay DEF Read, MarksInv
  <2> QED
    BY <2>1 DEF Extends
<1>2. ASSUME NEW e PROVE Matched(e)' <=> Matched(e)
  BY <1>1 DEF Matched
<1>3. ASSUME NEW e, Matched(e) PROVE e \in Range(effects)
  <2>1. PICK k \in DOMAIN mark : e \in {effects[m] : m \in 1..mark[k]}
    BY <1>3 DEF Matched
  <2>2. mark[k] \in 0..Len(effects) /\ Len(effects) \in Nat /\ DOMAIN effects = 1..Len(effects)
    BY PhrasesOnTheWay DEF Read, MarksInv
  <2> QED
    BY <2>1, <2>2 DEF Range
<1>4. handled' = {e \in Range(effects') : e.kind \in Violations /\ Matched(e)'}
  BY <1>2, <1>3 DEF Read, HandledInv
<1> QED
  BY <1>4 DEF HandledInv, NothingOverlooked

(* A comment of what is or is not there is checked.                        *)
LEMMA CheckStep == ASSUME UnitInv, Check PROVE UnitInv'
<1> USE DEF Check, At
<1>1. Read
  BY SmallSeqs DEF UnitInv, Unread
<1>2. /\ IsHistory(effects) /\ Len(effects) \in Nat /\ Extends(effects', effects)
      /\ Range(effects') = Range(effects)
  BY <1>1, PhrasesOnTheWay DEF Read, Extends
<1>3. UNCHANGED <<file, phrases, effects, handled>> /\ checked_ever' = TRUE
  OBVIOUS
<1>4. Parsed' /\ IsHistory(effects')
  BY <1>1, <1>3, ParsedStays DEF Read
<1>5. CASE KeyError(Phrase.instance)
  <2>1. pc' = "died" /\ UNCHANGED <<output, next, mark>>
    BY <1>5 DEF Raise
  <2>2. MarksInv'
    BY <1>1, <1>2, <1>3, <2>1, MarksStay
  <2>3. ReportsInv' /\ Total \notin Range(output')
    <3>1. IsSeq(output)
      BY <1>1 DEF Read, ReportsInv
    <3> QED
      BY <1>1, <1>3, <2>1, <3>1, ReportsGrow
  <2>4. VerdictsInv'
    BY <1>1, <1>3, <2>1 DEF Read, VerdictsInv
  <2>5. HandledInv'
    BY <1>1, <1>2, <1>3, <2>1, <2>3, HandledStays
  <2>6. DeathInv'
    <3>1. ASSUME NEW p PROVE KeyError(p)' <=> KeyError(p)
      <4>1. Derived(p)' = Derived(p)
        BY <1>3 DEF Derived
      <4> QED
        BY <1>3, <4>1 DEF KeyError
    <3>2. ASSUME NEW p, p = phrases[next].raw.instance, KeyError(p)
          PROVE  KeyError(phrases[next].raw.instance)'
      <4>1. phrases'[next'].raw.instance = p
        BY <1>3, <2>1, <3>2
      <4>2. KeyError(p)'
        BY <3>1, <3>2
      <4> QED
        BY <4>1, <4>2 DEF KeyError
    <3> QED
      BY <1>5, <2>1, <3>2 DEF DeathInv, Phrase
  <2>7. Read'
    BY <1>4, <2>1, <2>2, <2>3, <2>4, <2>5, <2>6 DEF Read
  <2> QED
    BY <1>3, <2>1, <2>7 DEF UnitInv
<1>6. CASE ~KeyError(Phrase.instance)
  <2>1. /\ pc' = "phrases" /\ Advance(effects)
        /\ output' = IF (Derived(Phrase.instance)[Len(effects)] # {}) = Phrase.existance
                     THEN output ELSE Append(output, Failed(phrases[next]))
    BY <1>6
  <2>2. (Derived(Phrase.instance)[Len(effects)] # {}) = Saw(effects, Len(effects), phrases[next])
    <3> DEFINE p == phrases[next].raw.instance
               n == Len(effects)
    <3>1. n \in 0..Len(effects)
      BY <1>2
    <3>2. Derived(p)[n] = StandingIn(effects, p, n)
      <4> HIDE DEF p, n
      <4> QED
        BY <1>2, <3>1, DerivedFacts
    <3>3. phrases[next].kind = "assert" /\ Phrase.instance = p
      BY DEF Phrase
    <3> QED
      BY <3>2, <3>3 DEF Saw
  <2>3. output' = IF Saw(effects, Len(effects), phrases[next]) = phrases[next].raw.existance
                  THEN output ELSE Append(output, Failed(phrases[next]))
    BY <2>1, <2>2 DEF Phrase
  <2>4. phrases[next].kind \in Comments /\ pc = "phrases" /\ next \in DOMAIN phrases
    BY DEF Comments
  <2>5. MarksInv' /\ VerdictsInv' /\ ReportsInv' /\ Total \notin Range(output')
    BY <1>1, <1>3, <2>1, <2>3, <2>4, VerdictStep
  <2>6. /\ DOMAIN mark' = DOMAIN mark \cup {next}
        /\ \A k \in DOMAIN mark : mark'[k] = mark[k]
    <3>1. Advance(effects') /\ Len(effects') \in Nat
      BY <1>2, <1>3, <2>1 DEF Advance
    <3> QED
      BY <1>1, <1>2, <1>3, <2>1, <2>4, <3>1, MarksAdvance
  <2>7. HandledInv'
    BY <1>1, <1>2, <1>3, <2>1, <2>5, <2>6, HandledStays
  <2>8. DeathInv'
    BY <2>1 DEF DeathInv, DiedInCheck
  <2>9. Read'
    BY <1>4, <2>1, <2>5, <2>7, <2>8 DEF Read
  <2> QED
    BY <1>3, <2>1, <2>9 DEF UnitInv
<1> QED
  BY <1>5, <1>6

(* A comment of a violation is checked.                                    *)
LEMMA ViolatedStep == ASSUME UnitInv, Violated PROVE UnitInv'
<1> USE DEF Violated, At
<1>1. Read
  BY SmallSeqs DEF UnitInv, Unread
<1>2. /\ UNCHANGED <<pc, file, phrases, effects>> /\ pc' = "phrases" /\ Advance(effects) /\ checked_ever' = TRUE
      /\ next \in DOMAIN phrases /\ phrases[next].kind = "violated"
  OBVIOUS
<1>3. /\ Len(effects) \in Nat /\ DOMAIN effects = 1..Len(effects) /\ Extends(effects', effects)
  BY <1>1, PhrasesOnTheWay DEF Extends
<1>4. Parsed' /\ IsHistory(effects')
  BY <1>1, <1>2, ParsedStays DEF Read
<1> DEFINE p == phrases[next].raw.instance
<1>5. (Covered(p) # {}) = Saw(effects, Len(effects), phrases[next])
  <2>1. Covered(p) # {} <=> \E m \in 1..Len(effects) : Covers(p, effects[m])
    BY <1>3 DEF Covered, Range
  <2>2. Saw(effects, Len(effects), phrases[next]) = \E m \in 1..Len(effects) : Covers(p, effects[m])
    BY <1>2 DEF Saw
  <2> QED
    BY <2>1, <2>2
<1>6. output' = IF Saw(effects, Len(effects), phrases[next]) = phrases[next].raw.existance
                THEN output ELSE Append(output, Failed(phrases[next]))
  BY <1>5 DEF Phrase
<1>7. MarksInv' /\ VerdictsInv' /\ ReportsInv' /\ Total \notin Range(output')
  <2>1. phrases[next].kind \in Comments
    BY <1>2 DEF Comments
  <2> QED
    BY <1>1, <1>2, <1>6, <2>1, VerdictStep
<1>8. /\ DOMAIN mark' = DOMAIN mark \cup {next} /\ mark'[next] = Len(effects)
      /\ \A k \in DOMAIN mark : mark'[k] = mark[k] /\ k # next
  <2>1. Advance(effects') /\ Len(effects') \in Nat
    BY <1>2, <1>3 DEF Advance
  <2> QED
    BY <1>1, <1>2, <1>3, <2>1, MarksAdvance
<1>9. HandledInv'
  <2>1. ASSUME NEW e, e \in Range(effects) PROVE Matched(e)' <=> Matched(e) \/ Covers(p, e)
    <3>1. e \in {effects[m] : m \in 1..Len(effects)}
      BY <1>3, <2>1 DEF Range
    <3>2. Matched(e)' <=> \E k \in DOMAIN mark' :
             /\ phrases[k].kind = "violated"
             /\ Covers(phrases[k].raw.instance, e)
             /\ e \in {effects[m] : m \in 1..mark'[k]}
      BY <1>2 DEF Matched
    <3> QED
      BY <1>2, <1>8, <3>1, <3>2 DEF Matched
  <2>2. handled = {e \in Range(effects) : e.kind \in Violations /\ Matched(e)}
    BY <1>1 DEF Read, HandledInv
  <2>3. handled' = handled \cup {e \in Range(effects) : Covers(p, e)}
    BY DEF Covered, Phrase
  <2>4. handled' = {e \in Range(effects') : e.kind \in Violations /\ Matched(e)'}
    BY <1>2, <2>1, <2>2, <2>3 DEF Covers
  <2> QED
    BY <1>2, <1>7, <2>4 DEF HandledInv, NothingOverlooked
<1>10. DeathInv'
  BY <1>2 DEF DeathInv, DiedInCheck
<1>11. Read'
  BY <1>2, <1>4, <1>7, <1>9, <1>10 DEF Read
<1> QED
  BY <1>2, <1>11 DEF UnitInv

(* A phrase is submitted after phrases of the same file.                   *)
LEMMA AnswersAreChunks ==
    ASSUME UnitInv, Read, Submit
    PROVE  Prints(Submitted, Phrase) \subseteq Chunks
<1>1. /\ DOMAIN phrases = 1..Len(phrases) /\ Len(phrases) \in Nat
      /\ \A k \in DOMAIN phrases : phrases[k].kind \in Submits => phrases[k].raw \in Sendable(file)
  <2>1. IsFile(file)
    BY FilesAreFiles DEF UnitInv
  <2>2. /\ DOMAIN phrases = 1..Len(phrases) /\ Len(phrases) \in Nat
        /\ \A k \in DOMAIN phrases : /\ phrases[k].at \in DOMAIN file
                                     /\ phrases[k].kind = file[phrases[k].at].kind
                                     /\ phrases[k].raw = file[phrases[k].at]
    BY <2>1, PhrasesFacts DEF Read
  <2> QED
    BY <2>2 DEF Sendable, Range
<1>2. next \in DOMAIN phrases /\ phrases[next].kind \in Submits
  BY DEF Submit, At
<1> DEFINE S == {k \in 1..next-1 : phrases[k].kind \in Submits}
           sent == Ascending(S)
<1>3. S \in SUBSET Nat /\ IsFiniteSet(S)
  <2>1. next - 1 \in Nat
    BY <1>1, <1>2
  <2>2. IsFiniteSet(1..next-1) /\ S \subseteq 1..next-1
    BY <2>1, FS_Interval
  <2> QED
    BY <2>1, <2>2, FS_Subset
<1>4. \A k \in S : phrases[k].raw \in Sendable(file)
  BY <1>1, <1>2
<1>5. Submitted \in Seq(Sendable(file))
  <2> HIDE DEF S
  <2>1. /\ Cardinality(S) \in Nat /\ DOMAIN sent = 1..Cardinality(S)
        /\ \A k \in 1..Cardinality(S) : sent[k] \in S
    BY <1>3, AscendingFacts
  <2>2. [k \in DOMAIN sent |-> phrases[sent[k]].raw] \in [1..Cardinality(S) -> Sendable(file)]
    BY <1>4, <2>1
  <2>3. [k \in DOMAIN sent |-> phrases[sent[k]].raw] \in Seq(Sendable(file))
    BY <2>1, <2>2
  <2> QED
    BY <2>3 DEF Submitted, S
<1>6. Phrase \in Sendable(file) /\ file \in Files
  BY <1>1, <1>2 DEF Phrase, UnitInv
<1> QED
  BY <1>5, <1>6 DEF Chunks

(* An answer adds to the history, and to the reports what it was about.    *)
LEMMA SubmitAdds ==
    ASSUME UnitInv, Read, PrintsLines, Submit
    PROVE  /\ IsHistory(effects') /\ Extends(effects', effects) /\ Range(effects) \subseteq Range(effects')
           /\ \E chunk \in Prints(Submitted, Phrase) : Range(effects') \ Range(effects) \subseteq Range(chunk)
           /\ IsSeq(output') /\ Range(output) \subseteq Range(output')
           /\ Range(output') \ Range(output) \subseteq {Unknown, Report("Warn", <<"effect">>)}
           /\ \/ pc' = "phrases" /\ Advance(effects')
              \/ pc' = "died" /\ UNCHANGED <<next, mark>>
<1>1. IsHistory(effects) /\ IsSeq(output)
  BY DEF Read, ReportsInv
<1>2. PICK chunk \in Prints(Submitted, Phrase) :
          LET garbled == {n \in DOMAIN chunk : chunk[n].kind = "garbled"}
              read    == {n \in DOMAIN chunk : \A g \in garbled : n < g}
              changes == Ascending({n \in read : chunk[n].kind \in EffectKinds})
              strange == {n \in read : chunk[n].kind = "unknown"}
          IN  /\ effects' = effects \o [k \in DOMAIN changes |-> chunk[changes[k]]]
              /\ \E warned \in IF garbled = {} THEN {<<>>}
                                ELSE {<<>>, <<Report("Warn", <<"effect">>)>>} :
                    output' = output \o [n \in 1..Cardinality(strange) |-> Unknown] \o warned
              /\ IF garbled = {} THEN Advance(effects') /\ UNCHANGED pc
                 ELSE Raise /\ UNCHANGED <<next, mark>>
  BY DEF Submit
<1> DEFINE garbled == {n \in DOMAIN chunk : chunk[n].kind = "garbled"}
           read    == {n \in DOMAIN chunk : \A g \in garbled : n < g}
           kept    == {n \in read : chunk[n].kind \in EffectKinds}
           changes == Ascending(kept)
           strange == {n \in read : chunk[n].kind = "unknown"}
           added   == [k \in DOMAIN changes |-> chunk[changes[k]]]
           unknown == [n \in 1..Cardinality(strange) |-> Unknown]
<1>3. /\ kept \in SUBSET Nat /\ IsFiniteSet(kept) /\ IsFiniteSet(strange)
      /\ \A n \in kept : n \in DOMAIN chunk /\ chunk[n].kind \in EffectKinds
  <2>1. IsFiniteSet(DOMAIN chunk) /\ DOMAIN chunk \subseteq Nat
    <3>1. IsSeq(chunk)
      BY AnswersAreChunks DEF PrintsLines
    <3> QED
      BY <3>1, SeqPlaces
  <2>2. kept \subseteq DOMAIN chunk /\ strange \subseteq DOMAIN chunk
    OBVIOUS
  <2>3. \A n \in kept : chunk[n].kind \in EffectKinds
    OBVIOUS
  <2> HIDE DEF kept, strange
  <2> QED
    BY <2>1, <2>2, <2>3, FS_Subset
<1>4. IsHistory(added) /\ Range(added) \subseteq Range(chunk)
  <2> HIDE DEF kept
  <2>1. /\ Cardinality(kept) \in Nat /\ DOMAIN changes = 1..Cardinality(kept)
        /\ \A k \in 1..Cardinality(kept) : changes[k] \in kept
    BY <1>3, AscendingFacts
  <2>2. added = [k \in 1..Cardinality(kept) |-> added[k]] /\ DOMAIN added = 1..Cardinality(kept)
    BY <2>1
  <2>3. \A k \in DOMAIN added : added[k] \in Range(chunk) /\ added[k].kind \in EffectKinds
    BY <1>3, <2>1 DEF Range
  <2> HIDE DEF added
  <2>4. IsSeq(added)
    BY <2>1, <2>2, FunctionIsSeq
  <2> QED
    BY <2>3, <2>4 DEF IsHistory, Range
<1>5. effects' = effects \o added
  BY <1>2
<1>6. /\ IsHistory(effects') /\ Extends(effects', effects)
      /\ Range(effects') = Range(effects) \cup Range(added)
  <2> HIDE DEF added
  <2> DEFINE h == effects
  <2>1. /\ IsSeq(h \o added) /\ Len(h \o added) = Len(h) + Len(added)
        /\ \A m \in 1..Len(h) : (h \o added)[m] = h[m]
        /\ Range(h \o added) = Range(h) \cup Range(added)
    <3>1. IsSeq(h) /\ IsSeq(added)
      BY <1>1, <1>4 DEF IsHistory
    <3> HIDE DEF h
    <3> QED
      BY <3>1, ConcatFacts
  <2>2. Len(effects) \in Nat /\ Len(added) \in Nat
    BY <1>1, <1>4, SeqPlaces DEF IsHistory
  <2> QED
    BY <1>1, <1>4, <1>5, <2>1, <2>2 DEF IsHistory, Extends
<1>7. PICK warned \in {<<>>, <<Report("Warn", <<"effect">>)>>} : output' = output \o unknown \o warned
  BY <1>2
<1>8. IsSeq(unknown) /\ Range(unknown) \subseteq {Unknown}
  <2>1. Cardinality(strange) \in Nat
    BY <1>3, FS_CardinalityType
  <2> HIDE DEF strange
  <2>2. unknown = [n \in 1..Cardinality(strange) |-> unknown[n]] /\ DOMAIN unknown = 1..Cardinality(strange)
    OBVIOUS
  <2>3. IsSeq(unknown)
    BY <2>1, <2>2, FunctionIsSeq
  <2> QED
    BY <2>3 DEF Range
<1>9. IsSeq(warned) /\ Range(warned) \subseteq {Report("Warn", <<"effect">>)}
  BY <1>7, SmallSeqs
<1>10. IsSeq(output') /\ Range(output') = Range(output) \cup Range(unknown) \cup Range(warned)
  <2> HIDE DEF unknown
  <2> DEFINE o == output
             u == o \o unknown
  <2>1. IsSeq(u) /\ Range(u) = Range(o) \cup Range(unknown)
    <3> HIDE DEF o
    <3> QED
      BY <1>1, <1>8, ConcatFacts DEF o
  <2>2. IsSeq(u \o warned) /\ Range(u \o warned) = Range(u) \cup Range(warned)
    <3> HIDE DEF u
    <3> QED
      BY <1>9, <2>1, ConcatFacts
  <2> QED
    BY <1>7, <2>1, <2>2
<1>11. \/ pc' = "phrases" /\ Advance(effects')
       \/ pc' = "died" /\ UNCHANGED <<next, mark>>
  BY <1>2 DEF Submit, At, Raise
<1> QED
  BY <1>2, <1>4, <1>6, <1>8, <1>9, <1>10, <1>11

(* A phrase is submitted, and answered by any lines.                       *)
LEMMA SubmitStep == ASSUME UnitInv, PrintsLines, Submit PROVE UnitInv'
<1>1. Read
  BY SmallSeqs DEF UnitInv, Unread, Submit, At
<1>2. /\ UNCHANGED <<file, phrases, handled, checked_ever>> /\ pc = "phrases"
      /\ next \in DOMAIN phrases /\ phrases[next].kind \in Submits
  BY DEF Submit, At
<1>3. /\ IsHistory(effects') /\ Extends(effects', effects) /\ Range(effects) \subseteq Range(effects')
      /\ IsSeq(output') /\ Range(output) \subseteq Range(output')
      /\ Range(output') \ Range(output) \subseteq {Unknown, Report("Warn", <<"effect">>)}
      /\ \/ pc' = "phrases" /\ Advance(effects')
         \/ pc' = "died" /\ UNCHANGED <<next, mark>>
  BY <1>1, SubmitAdds
<1>4. Len(effects') \in Nat
  BY <1>3, SeqPlaces DEF IsHistory
<1>5. Parsed'
  BY <1>1, <1>2, ParsedStays DEF Read
<1>6. phrases[next].kind \notin Comments /\ phrases[next].kind \notin {"violated", "assert"}
  BY <1>2 DEF Comments, Submits
<1>7. /\ MarksInv'
      /\ DOMAIN mark' \subseteq DOMAIN mark \cup {next}
      /\ \A k \in DOMAIN mark : k \in DOMAIN mark' /\ mark'[k] = mark[k]
  <2>1. CASE pc' = "phrases" /\ Advance(effects')
    BY <1>1, <1>2, <1>3, <1>4, <1>6, <2>1, MarksAdvance
  <2>2. CASE pc' = "died" /\ UNCHANGED <<next, mark>>
    BY <1>1, <1>2, <1>3, <1>4, <2>2, MarksStay
  <2> QED
    BY <1>3, <2>1, <2>2
<1>8. ReportsInv' /\ Total \notin Range(output')
  <2>1. pc \in {"start", "phrases"} /\ pc' # "ended" /\ DOMAIN mark \subseteq DOMAIN mark'
    BY <1>2, <1>3, <1>7
  <2> QED
    BY <1>1, <1>2, <1>3, <2>1, ReportsGrow
<1>9. VerdictsInv'
  <2> SUFFICES ASSUME NEW k \in DOMAIN mark', phrases[k].kind \in Comments
               PROVE  Failed(phrases[k]) \in Range(output')
                        <=> Saw(effects', mark'[k], phrases[k]) # phrases[k].raw.existance
    BY <1>2 DEF VerdictsInv, Verdict
  <2>1. k \in DOMAIN mark /\ mark'[k] = mark[k]
    BY <1>6, <1>7
  <2>2. Failed(phrases[k]) \in Range(output') <=> Failed(phrases[k]) \in Range(output)
    <3>1. Failed(phrases[k]).about[1] = "assertion"
      BY ReportsDiffer
    <3> QED
      BY <1>3, <3>1, ReportsDiffer
  <2>3. Saw(effects', mark[k], phrases[k]) = Saw(effects, mark[k], phrases[k])
    <3>1. mark[k] \in 0..Len(effects) /\ Len(effects) \in Nat
      BY <1>1, <2>1, PhrasesOnTheWay DEF Read, MarksInv
    <3> DEFINE h == effects'
               g == effects
               n == mark[k]
               f == phrases[k]
    <3>2. Len(g) \in Nat /\ Extends(h, g) /\ n \in 0..Len(g)
      BY <1>3, <3>1
    <3> HIDE DEF h, g, n, f
    <3>3. Saw(h, n, f) = Saw(g, n, f)
      BY <3>2, SawStable
    <3> QED
      BY <3>3 DEF h, g, n, f
  <2> QED
    BY <1>1, <2>1, <2>2, <2>3 DEF Read, VerdictsInv, Verdict
<1>10. HandledInv'
  <2>1. pc # "ended" /\ pc' # "ended"
    BY <1>2, <1>3
  <2>2. \A k \in DOMAIN mark' \ DOMAIN mark : phrases[k].kind # "violated"
    BY <1>6, <1>7
  <2> QED
    BY <1>1, <1>2, <1>3, <1>7, <1>8, <2>1, <2>2, HandledStays
<1>11. DeathInv'
  BY <1>2, <1>3, <1>6 DEF DeathInv, DiedInCheck
<1>12. Read'
  BY <1>3, <1>5, <1>7, <1>8, <1>9, <1>10, <1>11 DEF Read
<1> QED
  BY <1>2, <1>3, <1>12 DEF UnitInv

(* A phrase is submitted to a reasoner that has ended.                     *)
LEMMA SubmitToDeadStep == ASSUME UnitInv, SubmitToDead PROVE UnitInv'
<1> USE DEF SubmitToDead, At
<1>1. Read
  BY SmallSeqs DEF UnitInv, Unread
<1>2. UNCHANGED <<file, phrases, next, effects, handled, checked_ever, output, mark>>
      /\ pc = "phrases" /\ pc' \in {"died", "stuck"} /\ phrases[next].kind \in Submits
  OBVIOUS
<1>3. Len(effects') \in Nat /\ Extends(effects', effects)
  BY <1>1, PhrasesOnTheWay DEF Extends
<1>4. MarksInv'
  BY <1>1, <1>2, <1>3, MarksStay
<1>5. ReportsInv' /\ Total \notin Range(output')
  <2>1. IsSeq(output)
    BY <1>1 DEF Read, ReportsInv
  <2> QED
    BY <1>1, <1>2, <2>1, ReportsGrow
<1>6. Parsed' /\ VerdictsInv' /\ IsHistory(effects')
  <2>1. Parsed'
    BY <1>1, <1>2, ParsedStays DEF Read
  <2> QED
    BY <1>1, <1>2, <2>1 DEF Read, VerdictsInv
<1>7. HandledInv'
  BY <1>1, <1>2, <1>3, <1>5, HandledStays
<1>8. DeathInv'
  BY <1>2 DEF DeathInv, DiedInCheck, Submits
<1>9. Read'
  BY <1>2, <1>4, <1>5, <1>6, <1>7, <1>8 DEF Read
<1> QED
  BY <1>2, <1>9 DEF UnitInv

-----------------------------------------------------------------------------
(* The test is through.                                                    *)

(* The first occurrences of the violations that were not set aside: each   *)
(* such violation is among them once.                                      *)
LEMMA LeftFacts ==
    ASSUME IsHistory(effects)
    PROVE  /\ Len(Left) \in Nat /\ DOMAIN Left = 1..Len(Left)
           /\ \A k \in DOMAIN Left :
                 /\ effects[Left[k]] \in Range(effects)
                 /\ effects[Left[k]].kind \in Violations
                 /\ effects[Left[k]] \notin handled
           /\ \A e \in Range(effects) : e.kind \in Violations /\ e \notin handled =>
                 \E k \in DOMAIN Left : effects[Left[k]] = e
           /\ \A j, k \in DOMAIN Left : effects[Left[j]] = effects[Left[k]] => j = k
<1> DEFINE S == {n \in DOMAIN effects :
                   /\ effects[n].kind \in Violations
                   /\ effects[n] \notin handled
                   /\ \A o \in 1..n-1 : effects[o] # effects[n]}
<1>1. Len(effects) \in Nat /\ DOMAIN effects = 1..Len(effects) /\ IsFiniteSet(DOMAIN effects)
  BY SeqPlaces DEF IsHistory
<1>2. S \in SUBSET Nat /\ IsFiniteSet(S)
  <2>1. S \subseteq DOMAIN effects /\ DOMAIN effects \subseteq Nat
    BY <1>1
  <2> HIDE DEF S
  <2> QED
    BY <1>1, <2>1, FS_Subset
<1>3. \A n \in S : effects[n] \in Range(effects) /\ effects[n].kind \in Violations /\ effects[n] \notin handled
  BY DEF Range
<1>4. \A m, n \in S : effects[m] = effects[n] => m = n
  <2> SUFFICES ASSUME NEW m \in S, NEW n \in S, effects[m] = effects[n], m < n PROVE FALSE
    BY <1>2
  <2>1. m \in 1..n-1
    BY <1>1
  <2> QED
    BY <2>1
<1>5. ASSUME NEW e \in Range(effects), e.kind \in Violations, e \notin handled
      PROVE  \E n \in S : effects[n] = e
  <2> DEFINE O == {n \in DOMAIN effects : effects[n] = e}
  <2>1. O \in SUBSET Nat /\ O # {}
    BY <1>1 DEF Range
  <2>2. PICK n \in O : \A o \in O : n <= o
    <3> HIDE DEF O
    <3> QED
      BY <2>1, LeastElement
  <2>3. \A o \in 1..n-1 : effects[o] # effects[n]
    <3> SUFFICES ASSUME NEW o \in 1..n-1, effects[o] = effects[n] PROVE FALSE
      OBVIOUS
    <3>1. o \in O /\ o < n
      BY <1>1
    <3> QED
      BY <1>1, <2>2, <3>1
  <2>4. n \in S
    BY <1>5, <2>3
  <2> QED
    BY <2>4
<1>6. Left = Ascending(S)
  BY DEF Left
<1> HIDE DEF S
<1>7. /\ Cardinality(S) \in Nat /\ DOMAIN Left = 1..Cardinality(S) /\ Len(Left) = Cardinality(S)
      /\ \A k \in DOMAIN Left : Left[k] \in S
      /\ \A n \in S : \E k \in DOMAIN Left : Left[k] = n
      /\ \A j, k \in DOMAIN Left : j < k => Left[j] < Left[k]
  BY <1>2, <1>6, AscendingFacts
<1>8. \A j, k \in DOMAIN Left : Left[j] = Left[k] => j = k
  <2>1. \A k \in DOMAIN Left : Left[k] \in Nat
    BY <1>2, <1>7
  <2> QED
    BY <1>7, <2>1
<1> QED
  BY <1>3, <1>4, <1>5, <1>7, <1>8

(* The closing reports: after those made on the way, one place for each    *)
(* violation that is left, and the response time.                          *)
LEMMA EndReports ==
    ASSUME UnitInv, Read, End
    PROVE  /\ IsSeq(output')
           /\ Range(output') = Range(output) \cup (IF checked_ever THEN {} ELSE {Report("Warn", <<"unchecked">>)})
                                 \cup {Unhandled(effects[Left[k]]) : k \in DOMAIN Left} \cup {Total}
           /\ \E shift \in Nat :
                 \A n : n \in DOMAIN output' =>
                   \/ n - shift \in DOMAIN Left /\ output'[n] = Unhandled(effects[Left[n - shift]])
                   \/ \A e : output'[n] # Unhandled(e)
           /\ \A k \in DOMAIN Left : \E n \in DOMAIN output' : output'[n] = Unhandled(effects[Left[k]])
<1> DEFINE w == IF checked_ever THEN <<>> ELSE <<Report("Warn", <<"unchecked">>)>>
           v == [k \in DOMAIN Left |-> Unhandled(effects[Left[k]])]
           a == output \o w
           b == a \o v
           t == <<Total>>
<1>1. output' = b \o t
  BY DEF End
<1>2. IsSeq(output) /\ \A r \in Range(output) : EarlyReport(r)
  BY DEF Read, ReportsInv, End
<1>3. Len(Left) \in Nat /\ DOMAIN Left = 1..Len(Left)
  BY LeftFacts DEF Read
<1>4. IsSeq(w) /\ Range(w) = IF checked_ever THEN {} ELSE {Report("Warn", <<"unchecked">>)}
  BY SmallSeqs
<1>5. IsSeq(v) /\ Len(v) = Len(Left) /\ Range(v) = {Unhandled(effects[Left[k]]) : k \in DOMAIN Left}
  <2>1. v = [k \in 1..Len(Left) |-> v[k]] /\ DOMAIN v = 1..Len(Left)
    BY <1>3
  <2>2. Range(v) = {Unhandled(effects[Left[k]]) : k \in DOMAIN Left}
    BY DEF Range
  <2> HIDE DEF v
  <2> QED
    BY <1>3, <2>1, <2>2, FunctionIsSeq
<1>6. IsSeq(t) /\ Len(t) = 1 /\ Range(t) = {Total} /\ t[1] = Total
  BY SmallSeqs
<1>7. IsSeq(a) /\ Len(a) \in Nat /\ Range(a) = Range(output) \cup Range(w)
  <2> DEFINE o == output
  <2>1. IsSeq(o) /\ IsSeq(w)
    BY <1>2, <1>4
  <2>2. IsSeq(o \o w) /\ Range(o \o w) = Range(o) \cup Range(w)
    <3> HIDE DEF o, w
    <3> QED
      BY <2>1, ConcatFacts
  <2>3. a = o \o w
    OBVIOUS
  <2> HIDE DEF a
  <2> QED
    BY <2>2, <2>3, SeqPlaces
<1>8. /\ IsSeq(b) /\ Len(b) = Len(a) + Len(v)
      /\ \A i \in 1..Len(a) : b[i] = a[i]
      /\ \A i \in 1..Len(v) : b[Len(a) + i] = v[i]
      /\ Range(b) = Range(a) \cup Range(v)
  <2> HIDE DEF a, v
  <2> QED
    BY <1>5, <1>7, ConcatFacts
<1>9. /\ IsSeq(b \o t) /\ Len(b \o t) = Len(b) + Len(t)
      /\ \A i \in 1..Len(b) : (b \o t)[i] = b[i]
      /\ \A i \in 1..Len(t) : (b \o t)[Len(b) + i] = t[i]
      /\ Range(b \o t) = Range(b) \cup Range(t)
  <2> HIDE DEF b, t
  <2> QED
    BY <1>6, <1>8, ConcatFacts
<1>10. DOMAIN output' = 1..(Len(a) + Len(Left) + 1) /\ Len(output') \in Nat
  <2>1. IsSeq(output') /\ Len(output') = Len(a) + Len(Left) + 1
    BY <1>1, <1>5, <1>6, <1>8, <1>9
  <2> QED
    BY <2>1, SeqPlaces
<1>11. /\ \A i \in 1..Len(a) : output'[i] = a[i]
       /\ \A i \in 1..Len(Left) : output'[Len(a) + i] = v[i]
       /\ output'[Len(a) + Len(Left) + 1] = Total
  <2> HIDE DEF a, b, v, t
  <2> QED
    BY <1>1, <1>3, <1>5, <1>6, <1>7, <1>8, <1>9
<1>12. \A i \in 1..Len(a) : \A e : a[i] # Unhandled(e)
  <2>1. ASSUME NEW r \in Range(a), NEW e PROVE r # Unhandled(e)
    <3>1. CASE r \in Range(output)
      BY <1>2, <3>1, EarlyIsNotLast
    <3>2. CASE r \in Range(w)
      <4>1. r.about[1] = "unchecked"
        BY <1>4, <3>2, ReportsDiffer
      <4> QED
        BY <4>1, ReportsDiffer
    <3> QED
      BY <1>7, <3>1, <3>2
  <2>2. \A i \in 1..Len(a) : a[i] \in Range(a)
    <3> HIDE DEF a
    <3> QED
      BY <1>7, SeqPlaces
  <2> QED
    BY <2>1, <2>2
<1>13. \A e : Total # Unhandled(e)
  BY ReportsDiffer
<1>14. \A k \in DOMAIN Left : v[k] = Unhandled(effects[Left[k]])
  OBVIOUS
<1>15. ASSUME NEW n \in DOMAIN output'
       PROVE  \/ n - Len(a) \in DOMAIN Left /\ output'[n] = Unhandled(effects[Left[n - Len(a)]])
              \/ \A e : output'[n] # Unhandled(e)
  <2> HIDE DEF a, v
  <2>1. \/ n \in 1..Len(a)
        \/ n - Len(a) \in 1..Len(Left) /\ n = Len(a) + (n - Len(a))
        \/ n = Len(a) + Len(Left) + 1
    BY <1>3, <1>7, <1>10
  <2>2. CASE n \in 1..Len(a)
    BY <1>11, <1>12, <2>2
  <2>3. CASE n - Len(a) \in 1..Len(Left) /\ n = Len(a) + (n - Len(a))
    <3> DEFINE i == n - Len(a)
    <3>1. i \in 1..Len(Left) /\ n = Len(a) + i
      BY <2>3
    <3> HIDE DEF i
    <3>2. output'[n] = v[i] /\ i \in DOMAIN Left
      BY <1>3, <1>11, <3>1
    <3>3. output'[n] = Unhandled(effects[Left[i]])
      BY <1>14, <3>2
    <3> QED
      BY <3>2, <3>3 DEF i
  <2>4. CASE n = Len(a) + Len(Left) + 1
    BY <1>11, <1>13, <2>4
  <2> QED
    BY <2>1, <2>2, <2>3, <2>4
<1>16. ASSUME NEW k \in DOMAIN Left PROVE \E n \in DOMAIN output' : output'[n] = Unhandled(effects[Left[k]])
  <2> HIDE DEF a, v
  <2>1. Len(a) + k \in DOMAIN output' /\ output'[Len(a) + k] = v[k]
    BY <1>3, <1>7, <1>10, <1>11
  <2> QED
    BY <1>14, <2>1
<1>17. Range(output') = Range(output) \cup Range(w) \cup Range(v) \cup {Total}
  <2> HIDE DEF a, b, v, w, t
  <2> QED
    BY <1>1, <1>6, <1>7, <1>8, <1>9
<1> HIDE DEF a, b, v, w, t
<1> QED
  BY <1>1, <1>4, <1>5, <1>7, <1>9, <1>15, <1>16, <1>17

(* What was not handled is reported at the end.                            *)
LEMMA EndStep == ASSUME UnitInv, End PROVE UnitInv'
<1>1. Read
  BY DEF UnitInv, Unread, End
<1>2. /\ pc = "phrases" /\ next = Len(phrases) + 1 /\ pc' = "ended"
      /\ UNCHANGED <<file, phrases, next, effects, checked_ever, mark>>
      /\ handled' = handled \cup {effects[Left[n]] : n \in DOMAIN Left}
  BY DEF End
<1>3. IsHistory(effects)
  BY <1>1 DEF Read
<1>4. /\ IsSeq(output')
      /\ Range(output') = Range(output) \cup (IF checked_ever THEN {} ELSE {Report("Warn", <<"unchecked">>)})
                            \cup {Unhandled(effects[Left[k]]) : k \in DOMAIN Left} \cup {Total}
      /\ \A k \in DOMAIN Left : \E n \in DOMAIN output' : output'[n] = Unhandled(effects[Left[k]])
  BY <1>1, EndReports
<1>5. PICK shift \in Nat :
         \A n : n \in DOMAIN output' =>
           \/ n - shift \in DOMAIN Left /\ output'[n] = Unhandled(effects[Left[n - shift]])
           \/ \A e : output'[n] # Unhandled(e)
  BY <1>1, EndReports
<1>6. Len(effects') \in Nat /\ Extends(effects', effects)
  BY <1>1, <1>2, PhrasesOnTheWay DEF Extends
<1>7. MarksInv'
  BY <1>1, <1>2, <1>6, MarksStay
<1>8. Parsed'
  BY <1>1, <1>2, ParsedStays DEF Read
<1>9. ReportsInv'
  <2>1. \A n \in DOMAIN file' : file'[n].kind = "malformed" => BadPhrase(n) \in Range(output')
    BY <1>1, <1>2, <1>4 DEF Read, ReportsInv
  <2>2. ASSUME NEW r \in Range(output') PROVE EarlyReport(r)' \/ LastReport(r)'
    <3>1. CASE r \in Range(output)
      <4>1. EarlyReport(r)
        BY <1>1, <1>2, <3>1 DEF Read, ReportsInv
      <4> QED
        BY <1>2, <4>1 DEF EarlyReport
    <3>2. CASE r \notin Range(output)
      <4>1. \/ r \in {Total, Report("Warn", <<"unchecked">>)}
            \/ \E k \in DOMAIN Left : r = Unhandled(effects[Left[k]])
        BY <1>4, <2>2, <3>2
      <4>2. \A k \in DOMAIN Left : effects[Left[k]] \in Range(effects)
        BY <1>3, LeftFacts
      <4> QED
        BY <1>2, <4>1, <4>2 DEF LastReport
    <3> QED
      BY <3>1, <3>2
  <2> QED
    BY <1>2, <1>4, <2>1, <2>2 DEF ReportsInv
<1>10. VerdictsInv'
  <2>1. ASSUME NEW f PROVE Failed(f) \in Range(output') <=> Failed(f) \in Range(output)
    <3>1. Failed(f).about[1] = "assertion"
      BY ReportsDiffer
    <3> QED
      BY <1>4, <3>1, ReportsDiffer
  <2> QED
    BY <1>1, <1>2, <2>1 DEF Read, VerdictsInv, Verdict
<1>11. handled = {e \in Range(effects) : e.kind \in Violations /\ Matched(e)}
  BY <1>1, <1>2 DEF Read, HandledInv
<1>12. handled' \subseteq {e \in Range(effects') : e.kind \in Violations}
  <2>1. \A k \in DOMAIN Left : effects[Left[k]] \in Range(effects) /\ effects[Left[k]].kind \in Violations
    BY <1>3, LeftFacts
  <2> QED
    BY <1>2, <1>11, <2>1
<1>13. NothingOverlooked'
  <2> SUFFICES ASSUME NEW e \in Range(effects), e.kind \in Violations
               PROVE  Cardinality({n \in DOMAIN output' : output'[n] = Unhandled(e)})
                        = IF Matched(e)' THEN 0 ELSE 1
    BY <1>2 DEF NothingOverlooked
  <2> DEFINE N == {n \in DOMAIN output' : output'[n] = Unhandled(e)}
  <2>1. Matched(e)' <=> Matched(e)
    BY <1>2 DEF Matched
  <2>2. \A f : Unhandled(f) = Unhandled(e) => f = e
    <3> SUFFICES ASSUME NEW f, Unhandled(f) = Unhandled(e) PROVE f = e
      OBVIOUS
    <3>1. Unhandled(f).about[2] = f /\ Unhandled(e).about[2] = e
      BY ReportsDiffer
    <3> QED
      BY <3>1
  <2>3. \A n \in N : n - shift \in DOMAIN Left /\ effects[Left[n - shift]] = e
    BY <1>5, <2>2
  <2>4. CASE Matched(e)
    <3>1. e \in handled
      BY <1>11, <2>4
    <3>2. N = {}
      BY <1>3, <2>3, <3>1, LeftFacts
    <3> QED
      BY <2>1, <2>4, <3>2, FS_EmptySet
  <2>5. CASE ~Matched(e)
    <3>1. PICK k \in DOMAIN Left : effects[Left[k]] = e
      <4>1. e \notin handled
        BY <1>11, <2>5
      <4> QED
        BY <1>3, <4>1, LeftFacts
    <3>2. PICK n \in DOMAIN output' : output'[n] = Unhandled(effects[Left[k]])
      BY <1>4
    <3>3. n \in N
      BY <3>1, <3>2
    <3>4. \A m \in N : m = n
      <4> SUFFICES ASSUME NEW m \in N PROVE m = n
        OBVIOUS
      <4>1. m - shift = n - shift
        BY <1>3, <2>3, <3>3, LeftFacts
      <4>2. m \in Nat /\ n \in Nat
        BY <1>4, SeqPlaces
      <4> QED
        BY <4>1, <4>2
    <3>5. N = {n}
      BY <3>3, <3>4
    <3> QED
      BY <2>1, <2>5, <3>5, FS_Singleton
  <2> QED
    BY <2>4, <2>5
<1>14. HandledInv' /\ DeathInv'
  BY <1>2, <1>12, <1>13 DEF HandledInv, DeathInv, DiedInCheck
<1>15. Read'
  BY <1>2, <1>3, <1>7, <1>8, <1>9, <1>10, <1>14 DEF Read
<1> QED
  BY <1>2, <1>15 DEF UnitInv

-----------------------------------------------------------------------------
(* The theorems: of every reasoner that answers in lines.                  *)

(* Every step of the tester keeps the invariant.                           *)
LEMMA UnitStep == ASSUME PrintsLines, UnitInv, [Next]_vars PROVE UnitInv'
<1>1. CASE Parse
  BY <1>1, ParseStep
<1>2. CASE Unreadable
  BY <1>2, UnreadableStep
<1>10. CASE Undecodable
  BY <1>10, UndecodableStep
<1>3. CASE Start
  BY <1>3, StartStep
<1>4. CASE Check
  BY <1>4, CheckStep
<1>5. CASE Violated
  BY <1>5, ViolatedStep
<1>6. CASE Submit
  BY <1>6, SubmitStep
<1>7. CASE SubmitToDead
  BY <1>7, SubmitToDeadStep
<1>8. CASE End
  BY <1>8, EndStep
<1>9. CASE UNCHANGED vars
  <2>1. UNCHANGED <<pc, file, phrases, next, effects, handled, checked_ever, output, mark>>
    BY <1>9 DEF vars
  <2>2. Unread => Unread'
    BY <2>1 DEF Unread
  <2>3. Parsed => Parsed'
    BY <2>1, ParsedStays
  <2>4. MarksInv => MarksInv'
    BY <2>1 DEF MarksInv
  <2>5. ReportsInv => ReportsInv'
    BY <2>1 DEF ReportsInv, EarlyReport, LastReport
  <2>6. VerdictsInv => VerdictsInv'
    BY <2>1 DEF VerdictsInv
  <2>7. HandledInv => HandledInv'
    BY <2>1 DEF HandledInv, NothingOverlooked, Matched
  <2>8. DeathInv => DeathInv'
    <3>1. \A p : Derived(p)' = Derived(p)
      BY <2>1 DEF Derived
    <3>2. \A p : KeyError(p)' <=> KeyError(p)
      BY <2>1, <3>1 DEF KeyError
    <3>3. DiedInCheck' <=> DiedInCheck
      BY <2>1 DEF DiedInCheck
    <3>4. KeyError(phrases[next].raw.instance) => KeyError(phrases[next].raw.instance)'
      <4> SUFFICES ASSUME NEW p, p = phrases[next].raw.instance, KeyError(p)
                   PROVE  KeyError(phrases[next].raw.instance)'
        OBVIOUS
      <4>1. phrases'[next'].raw.instance = p /\ KeyError(p)'
        BY <2>1, <3>2
      <4> QED
        BY <4>1 DEF KeyError
    <3> QED
      BY <2>1, <3>3, <3>4 DEF DeathInv
  <2> QED
    BY <2>1, <2>2, <2>3, <2>4, <2>5, <2>6, <2>7, <2>8 DEF UnitInv, Read
<1> QED
  BY <1>1, <1>2, <1>3, <1>4, <1>5, <1>6, <1>7, <1>8, <1>9, <1>10 DEF Next

(* The invariant holds of a test of any file, with any reasoner that       *)
(* answers in lines and may end at any time.                               *)
THEOREM UnitInvariance == ASSUME PrintsLines PROVE Spec => []UnitInv
<1>1. Init => UnitInv
  BY UnitInit
<1>2. UnitInv /\ [Next]_vars => UnitInv'
  BY UnitStep
<1> QED
  BY <1>1, <1>2, PTL DEF Spec

(* Types: every variable of UnitTest.run keeps its type.                   *)
THEOREM UnitTypes == ASSUME PrintsLines PROVE Spec => []UnitTypeOK
<1>1. UnitInv => UnitTypeOK
  BY InvGivesTypes
<1> QED
  BY <1>1, UnitInvariance, PTL

(* The report on a comment says what the reasoner had printed when its     *)
(* turn came, whatever was printed later.                                  *)
THEOREM VerdictsAreSound == ASSUME PrintsLines PROVE Spec => []VerdictsSound
<1>1. UnitInv => VerdictsSound
  BY InvGivesVerdicts
<1> QED
  BY <1>1, UnitInvariance, PTL

(* At the end each violation was matched by a `//#violated' after it       *)
(* occurred, or is warned about once.                                      *)
THEOREM NothingIsOverlooked == ASSUME PrintsLines PROVE Spec => []NothingOverlooked
<1>1. UnitInv => NothingOverlooked
  <2>1. Unread => NothingOverlooked
    BY SmallSeqs DEF Unread, NothingOverlooked
  <2> QED
    BY <2>1 DEF UnitInv, Read, HandledInv
<1> QED
  BY <1>1, UnitInvariance, PTL

(* A report of the response time vouches for every phrase of the file.     *)
THEOREM TotalVouchesForFile == ASSUME PrintsLines PROVE Spec => []TotalVouches
<1>1. UnitInv => TotalVouches
  BY InvGivesTotal
<1> QED
  BY <1>1, UnitInvariance, PTL

-----------------------------------------------------------------------------
(* Why an assertion can end a test.                                        *)

(* Every effect of the history was printed.                                *)
HistoryPrinted == \A e \in Range(effects) : \E chunk \in Chunks : e \in Range(chunk)

(* The effects the reasoner prints are about instances without wildcards,  *)
(* which stand for nothing but themselves.                                 *)
PrintsConcrete == \A chunk \in Chunks : \A e \in Range(chunk) :
    e.kind \in EffectKinds =>
        /\ e.instance # Wildcard
        /\ e.instance = Composite(e.instance.name, e.instance.args)
        /\ e.instance.args \in Seq(Range(e.instance.args))
        /\ "*" \notin Range(e.instance.args)

(* All effects were printed by the reasoner.                               *)
LEMMA HistoryStep == ASSUME PrintsLines, UnitInv, HistoryPrinted, [Next]_vars PROVE HistoryPrinted'
<1>1. CASE Submit
  <2>1. Read
    BY <1>1, SmallSeqs DEF UnitInv, Unread, Submit, At
  <2>2. \E chunk \in Prints(Submitted, Phrase) : Range(effects') \ Range(effects) \subseteq Range(chunk)
    BY <1>1, <2>1, SubmitAdds
  <2>3. \E chunk \in Chunks : Range(effects') \ Range(effects) \subseteq Range(chunk)
    BY <1>1, <2>1, <2>2, AnswersAreChunks
  <2> QED
    BY <2>3 DEF HistoryPrinted
<1>2. CASE UNCHANGED effects
  BY <1>2 DEF HistoryPrinted
<1>3. [Next]_vars => Submit \/ UNCHANGED effects
  BY DEF Next, vars, Parse, Unreadable, Undecodable, Start, Check, Violated, SubmitToDead, End
<1> QED
  BY <1>1, <1>2, <1>3

(* Two instances without wildcards are the same to the tester only when    *)
(* they are equal.                                                         *)
LEMMA ConcreteSame ==
    ASSUME NEW i, NEW j,
           \A k \in {i, j} : /\ k # Wildcard
                             /\ k = Composite(k.name, k.args)
                             /\ k.args \in Seq(Range(k.args))
                             /\ "*" \notin Range(k.args),
           Same(i, j)
    PROVE  i = j
<1>1. /\ i.name = j.name /\ DOMAIN i.args = DOMAIN j.args
      /\ \A n \in DOMAIN i.args : i.args[n] = j.args[n] \/ "*" \in {i.args[n], j.args[n]}
  BY DEF Same
<1>2. \A n \in DOMAIN i.args : i.args[n] = j.args[n]
  BY <1>1 DEF Range
<1>3. i.args = j.args
  <2> DEFINE s == i.args
             t == j.args
             S == Range(s) \cup Range(t)
  <2>1. s \in Seq(S) /\ t \in Seq(S)
    BY SMT
  <2>2. DOMAIN s = DOMAIN t /\ \A n \in DOMAIN s : s[n] = t[n]
    BY <1>1, <1>2
  <2> HIDE DEF s, t, S
  <2>3. s = [n \in DOMAIN s |-> s[n]] /\ t = [n \in DOMAIN t |-> t[n]]
    BY <2>1
  <2>4. s = t
    BY <2>2, <2>3
  <2> QED
    BY <2>4 DEF s, t
<1> QED
  BY <1>1, <1>3 DEF Composite

(* An assertion ends its test without a word only if the reasoner printed  *)
(* the removal of an instance that did not stand.                          *)
THEOREM OnlyIdleRemovalsKill == ASSUME PrintsLines, PrintsConcrete PROVE Spec => []IdleRemovalsKill
<1>1. Init => UnitInv /\ HistoryPrinted
  <2>1. Init => HistoryPrinted
    BY SmallSeqs DEF Init, HistoryPrinted
  <2> QED
    BY <2>1, UnitInit
<1>2. UnitInv /\ HistoryPrinted /\ [Next]_vars => UnitInv' /\ HistoryPrinted'
  BY UnitStep, HistoryStep
<1>3. UnitInv /\ HistoryPrinted => IdleRemovalsKill
  <2> SUFFICES ASSUME UnitInv, HistoryPrinted, DiedInCheck, ChangesOnly PROVE FALSE
    BY DEF IdleRemovalsKill
  <2>1. Read
    BY SmallSeqs DEF UnitInv, Unread, DiedInCheck
  <2>2. IsHistory(effects) /\ Len(effects) \in Nat /\ DOMAIN effects = 1..Len(effects)
    BY <2>1, PhrasesOnTheWay DEF Read
  <2> DEFINE p == phrases[next].raw.instance
  <2>3. KeyError(p)
    BY <2>1 DEF Read, DeathInv
  <2>4. PICK n \in DOMAIN effects :
           /\ effects[n].kind \in Removals
           /\ Same(p, effects[n].instance)
           /\ effects[n].instance \notin Derived(p)[n-1]
    BY <2>3 DEF KeyError
  <2>5. Derived(p)[n-1] = StandingIn(effects, p, n-1)
    <3> DEFINE l == n - 1
    <3>1. l \in 0..Len(effects)
      BY <2>2
    <3> HIDE DEF l, p
    <3>2. Derived(p)[l] = StandingIn(effects, p, l)
      BY <2>2, <3>1, DerivedFacts
    <3> QED
      BY <3>2 DEF l
  <2>6. PICK m \in 1..n-1 :
           /\ effects[m].kind = "Create" /\ Same(effects[n].instance, effects[m].instance)
           /\ \A o \in m+1..n-1 : effects[o].instance = effects[m].instance =>
                                     effects[o].kind \notin Removals
    <3>1. Standing(effects[n].instance, n - 1)
      BY <2>4 DEF ChangesOnly
    <3> QED
      BY <3>1 DEF Standing
  <2>7. effects[m].instance = effects[n].instance
    <3>1. \A k \in {effects[m].instance, effects[n].instance} :
             /\ k # Wildcard
             /\ k = Composite(k.name, k.args)
             /\ k.args \in Seq(Range(k.args))
             /\ "*" \notin Range(k.args)
      <4>1. m \in DOMAIN effects
        BY <2>2
      <4>2. \A k \in DOMAIN effects : effects[k] \in Range(effects) /\ effects[k].kind \in EffectKinds
        BY <2>2 DEF IsHistory, Range
      <4> QED
        BY <4>1, <4>2 DEF HistoryPrinted, PrintsConcrete
    <3> DEFINE i == effects[n].instance
               j == effects[m].instance
    <3>2. /\ \A k \in {i, j} : /\ k # Wildcard
                               /\ k = Composite(k.name, k.args)
                               /\ k.args \in Seq(Range(k.args))
                               /\ "*" \notin Range(k.args)
          /\ Same(i, j)
      BY <2>6, <3>1
    <3> HIDE DEF i, j
    <3>3. i = j
      BY <3>2, ConcreteSame
    <3> QED
      BY <3>3 DEF i, j
  <2>8. effects[m].instance \in StandingIn(effects, p, n-1)
    BY <2>4, <2>6, <2>7 DEF StandingIn
  <2> QED
    BY <2>4, <2>5, <2>7, <2>8
<1> QED
  BY <1>1, <1>2, <1>3, PTL DEF Spec

-----------------------------------------------------------------------------
(* The consistency gate, whose child runs one test.                        *)

(* The main thread and the pool of the child, by what is proved of them.   *)
PoolP == INSTANCE TestPoolProofs
    WITH pc <- main, NTests <- 1, Jobs <- {DefaultJobs}, ReplMayDie <- TRUE

(* The pool of the gate's tester is the pool of TestPool, with one test.   *)
LEMMA GatePool ==
    /\ PoolP!PoolAssumption
    /\ Pool!Init <=> PoolP!Init
    /\ Pool!MainStep <=> PoolP!MainStep
    /\ Pool!RunTest(1) <=> PoolP!RunTest(1)
    /\ Pool!ReadForever(1) <=> PoolP!ReadForever(1)
    /\ Pool!SetEvent(1) <=> PoolP!SetEvent(1)
    /\ Pool!Die(1) <=> PoolP!Die(1)
    /\ PoolP!Tests = {1}
<1>1. PoolP!PoolAssumption
  BY GateAssumption DEF PoolP!PoolAssumption
<1>2. Pool!Init <=> PoolP!Init
  BY DEF Pool!Init, PoolP!Init, Pool!Tests, PoolP!Tests, Pool!NoResult, PoolP!NoResult
<1>3. Pool!MainStep <=> PoolP!MainStep
  BY DEF Pool!MainStep, Pool!NothingToDo, Pool!Spawn, Pool!Full, Pool!Clear, Pool!Wait, Pool!Prune,
         Pool!PruneDone, Pool!AllSpawned, Pool!Join, Pool!Exit, Pool!Alive, Pool!Collected,
         PoolP!MainStep, PoolP!NothingToDo, PoolP!Spawn, PoolP!Full, PoolP!Clear, PoolP!Wait, PoolP!Prune,
         PoolP!PruneDone, PoolP!AllSpawned, PoolP!Join, PoolP!Exit, PoolP!Alive, PoolP!Collected
<1>4. /\ Pool!RunTest(1) <=> PoolP!RunTest(1)
      /\ Pool!ReadForever(1) <=> PoolP!ReadForever(1)
      /\ Pool!SetEvent(1) <=> PoolP!SetEvent(1)
      /\ Pool!Die(1) <=> PoolP!Die(1)
  BY DEF Pool!RunTest, PoolP!RunTest, Pool!ReadForever, PoolP!ReadForever, Pool!SetEvent, PoolP!SetEvent,
         Pool!Die, PoolP!Die, Pool!ThreadStep, PoolP!ThreadStep, Pool!Results, PoolP!Results
<1>5. PoolP!Tests = {1}
  BY DEF PoolP!Tests
<1> QED
  BY <1>1, <1>2, <1>3, <1>4, <1>5

(* The gate's child is a run of the tester: its one test is a test, and    *)
(* its main thread and its pool are those of TestPool.                     *)
THEOREM GateRunsTest == GateSpec => Spec
<1>1. GateInit => Init
  BY DEF GateInit
<1>2. [GateNext]_gateVars => [Next]_vars
  BY DEF GateNext, gateVars, Launch, MainThread, TestThread, Answer, Timeout
<1> QED
  BY <1>1, <1>2, PTL DEF GateSpec, Spec

(* So a run of the gate is a run of such a pool.                           *)
LEMMA GateRunsPool == GateSpec => PoolP!Spec
<1>1. GateInit => PoolP!Init
  BY GatePool DEF GateInit
<1>2. [GateNext]_gateVars => [PoolP!Next]_(PoolP!poolVars)
  <2> SUFFICES ASSUME [GateNext]_gateVars PROVE PoolP!Next \/ UNCHANGED childVars
    BY DEF PoolP!poolVars, childVars
  <2>1. CASE MainThread
    BY <2>1, GatePool DEF MainThread, PoolP!Next
  <2>2. CASE TestThread
    <3>1. \/ Pool!RunTest(1) \/ Pool!ReadForever(1) \/ Pool!SetEvent(1) \/ Pool!Die(1)
          \/ UNCHANGED childVars
      BY <2>2 DEF TestThread
    <3> QED
      BY <3>1, GatePool DEF PoolP!Next
  <2>3. CASE Launch \/ Answer \/ Timeout \/ UNCHANGED gateVars
    BY <2>3 DEF Launch, Answer, Timeout, gateVars
  <2> QED
    BY <2>1, <2>2, <2>3 DEF GateNext
<1> QED
  BY <1>1, <1>2, PTL DEF GateSpec, PoolP!Spec

(* What the pool holds of a test that is past its run is what the test     *)
(* reported, and the gate answers once the child has exited.               *)
GateInv ==
    /\ gate = "consistent" => main = "exited"
    /\ thread[1] \in {"leaving", "signalled", "dead"} =>
          pc \in {"ended", "died"} /\ (result[1].shown <=> output # <<>>)

(* The gate believes an exit code only once the test has run to its end    *)
(* and its reports are printed.                                            *)
THEOREM GateWaitsForTest == GateSpec => []ConsistentIsThrough
<1>1. GateInit => GateInv
  <2>1. GateInit => thread[1] = "new" /\ gate = "start"
    BY GatePool DEF GateInit, PoolP!Init
  <2> QED
    BY <2>1 DEF GateInv
<1>2. PoolP!PoolInv /\ GateInv /\ [GateNext]_gateVars => GateInv'
  <2> SUFFICES ASSUME PoolP!PoolInv, GateInv, [GateNext]_gateVars PROVE GateInv'
    OBVIOUS
  <2>1. /\ DOMAIN thread = {1} /\ DOMAIN result = {1}
        /\ todo \in Nat
    <3>1. /\ thread \in [PoolP!Tests -> {"new", "running", "stuck", "leaving", "signalled", "dead"}]
          /\ result \in [PoolP!Tests -> PoolP!Results] /\ todo \in 1..(found + 1)
      BY DEF PoolP!PoolInv, PoolP!PoolTypeOK
    <3> QED
      BY <3>1, GatePool
  <2>2. CASE MainThread
    <3>1. UNCHANGED <<pc, output, gate, result>> /\ gate = "waiting"
      BY <2>2 DEF MainThread, vars, Pool!MainStep, Pool!NothingToDo, Pool!Spawn, Pool!Full, Pool!Clear,
                  Pool!Wait, Pool!Prune, Pool!PruneDone, Pool!AllSpawned, Pool!Join, Pool!Exit
    <3>2. thread' = thread \/ thread' = [thread EXCEPT ![todo] = "running"]
      BY <2>2 DEF MainThread, Pool!MainStep, Pool!NothingToDo, Pool!Spawn, Pool!Full, Pool!Clear,
                  Pool!Wait, Pool!Prune, Pool!PruneDone, Pool!AllSpawned, Pool!Join, Pool!Exit
    <3>3. thread'[1] = thread[1] \/ thread'[1] = "running"
      BY <2>1, <3>2
    <3> QED
      BY <3>1, <3>3 DEF GateInv
  <2>3. CASE TestThread
    <3>1. gate = "waiting" /\ gate' = gate
      BY <2>3 DEF TestThread
    <3>2. CASE thread[1] = "running" /\ Next /\ pc' = "stuck" /\ Pool!ReadForever(1)
      <4>1. thread'[1] = "stuck"
        BY <2>1, <3>2 DEF Pool!ReadForever, Pool!ThreadStep
      <4> QED
        BY <3>1, <4>1 DEF GateInv
    <3>3. CASE /\ pc' \in {"ended", "died"}
               /\ result'[1] = [failed |-> \E r \in Range(output') : r.kind = "Err",
                                shown  |-> output' # <<>>]
      <4>1. result'[1].shown = (output' # <<>>)
        BY <3>3
      <4>2. result'[1].shown <=> output' # <<>>
        BY <4>1
      <4> QED
        BY <3>1, <3>3, <4>2 DEF GateInv
    <3>4. CASE thread[1] = "running" /\ UNCHANGED childVars
      BY <3>1, <3>4 DEF GateInv, childVars
    <3>5. CASE (Pool!SetEvent(1) \/ Pool!Die(1)) /\ UNCHANGED vars
      <4>1. thread[1] \in {"leaving", "signalled"} /\ UNCHANGED <<pc, output, result>>
        BY <3>5 DEF Pool!SetEvent, Pool!Die, Pool!ThreadStep, vars
      <4> QED
        BY <3>1, <4>1 DEF GateInv
    <3> QED
      BY <2>3, <3>2, <3>3, <3>4, <3>5 DEF TestThread
  <2>4. CASE Launch
    BY <2>4 DEF Launch, GateInv, vars, childVars
  <2>5. CASE Answer
    BY <2>5 DEF Answer, GateInv, vars, childVars
  <2>6. CASE Timeout
    BY <2>6 DEF Timeout, GateInv, vars, childVars
  <2>7. CASE UNCHANGED gateVars
    BY <2>7 DEF gateVars, GateInv, vars, childVars
  <2> QED
    BY <2>2, <2>3, <2>4, <2>5, <2>6, <2>7 DEF GateNext
<1>3. PoolP!PoolInv /\ PoolP!OutputsComplete /\ GateInv => ConsistentIsThrough
  <2> SUFFICES ASSUME PoolP!PoolInv, PoolP!OutputsComplete, GateInv, gate = "consistent", found = 1
               PROVE  pc \in {"ended", "died"} /\ (output # <<>> => outputs = <<1>>)
    BY DEF ConsistentIsThrough
  <2>1. main = "exited"
    BY DEF GateInv
  <2>2. /\ thread[1] = "dead"
        /\ \A i, j \in DOMAIN outputs : outputs[i] = outputs[j] => i = j
        /\ Range(outputs) = {t \in {1} : result[t].shown}
    <3>1. /\ \A i, j \in DOMAIN outputs : outputs[i] = outputs[j] => i = j
          /\ \A t \in 1..found : thread[t] = "dead"
          /\ Range(outputs) = {t \in PoolP!Tests : result[t].shown}
      BY <2>1 DEF PoolP!OutputsComplete, PoolP!Range, Range
    <3>2. 1 \in 1..found
      OBVIOUS
    <3> QED
      BY <3>1, <3>2, GatePool
  <2>3. pc \in {"ended", "died"} /\ (result[1].shown <=> output # <<>>)
    BY <2>2 DEF GateInv
  <2>4. outputs \in Seq({1})
    BY GatePool DEF PoolP!PoolInv, PoolP!PoolTypeOK
  <2>5. ASSUME output # <<>> PROVE outputs = <<1>>
    <3>1. 1 \in Range(outputs)
      BY <2>2, <2>3, <2>5
    <3>2. PICK i \in DOMAIN outputs : outputs[i] = 1
      BY <3>1 DEF Range
    <3>3. \A j \in DOMAIN outputs : outputs[j] = 1 /\ j = i
      BY <2>2, <2>4, <3>2
    <3>4. Len(outputs) \in Nat /\ DOMAIN outputs = 1..Len(outputs)
      BY <2>4
    <3>5. Len(outputs) = 1
      <4>1. Len(outputs) >= 1 /\ 1 \in DOMAIN outputs /\ Len(outputs) \in DOMAIN outputs
        BY <3>2, <3>4
      <4> QED
        BY <3>3, <4>1
    <3> QED
      BY <2>4, <3>3, <3>4, <3>5
  <2> QED
    BY <2>3, <2>5
<1>4. PoolP!Spec => []PoolP!PoolInv
  BY GatePool, PoolP!PoolInvariance
<1>5. PoolP!Spec => []PoolP!OutputsComplete
  BY GatePool, PoolP!OutputsAreComplete
<1> QED
  BY <1>1, <1>2, <1>3, <1>4, <1>5, GateRunsPool, PTL DEF GateSpec

(* What is proved of a test holds of the one the gate has run.             *)
THEOREM GateJudgesSoundly ==
    ASSUME PrintsLines
    PROVE  GateSpec => [](VerdictsSound /\ NothingOverlooked /\ TotalVouches)
  BY GateRunsTest, VerdictsAreSound, NothingIsOverlooked, TotalVouchesForFile, PTL
=============================================================================
