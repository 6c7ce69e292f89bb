---------------------------- MODULE RunnerProofs ----------------------------
(***************************************************************************)
(* Proofs about the seeder, for every set of processes, manifests and      *)
(* stewards (types always, the two safety invariants under NoInterference) *)
(* and then about Runner: it implements the seeder's specification, so     *)
(* that what is proved of seedings holds of whole runs, and its verdicts   *)
(* and exit codes are about the Policy Enforcer's answers alone.           *)
(***************************************************************************)
EXTENDS Runner, DecisionProofs, FiniteSetTheorems

-----------------------------------------------------------------------------
(* Keys and wanted values.                                                 *)

(* Keys of different kinds or stewards differ.                             *)
LEMMA KeysDistinct ==
    ASSUME NEW s, NEW t
    PROVE  /\ RulesKey # ModelKey(s) /\ RulesKey # ConfigKey(s)
           /\ ModelKey(s) # ConfigKey(t)
           /\ ModelKey(s) = ModelKey(t) => s = t
           /\ ConfigKey(s) = ConfigKey(t) => s = t
BY DEF RulesKey, ModelKey, ConfigKey

(* What a manifest wants of the keys it touches.                           *)
LEMMA WantedFacts ==
    ASSUME NEW m \in Manifests
    PROVE  /\ Wanted(m, RulesKey) \in Texts
           /\ \A s \in Agreed(m) : /\ Wanted(m, ModelKey(s)) \in Texts
                                   /\ Wanted(m, ConfigKey(s)) = EflintConfig
           /\ \A s \in Unlisted(m) : /\ Wanted(m, ModelKey(s)) = Absent
                                    /\ Wanted(m, ConfigKey(s)) = Absent
<1>1. Wanted(m, RulesKey) \in Texts
  <2>1. Wanted(m, RulesKey) = SharedRules[m]
    BY KeysDistinct DEF Wanted
  <2> QED
    BY <2>1, SeederAssumption
<1>2. ASSUME NEW s \in Agreed(m)
      PROVE  Wanted(m, ModelKey(s)) \in Texts /\ Wanted(m, ConfigKey(s)) = EflintConfig
  <2>1. ModelKey(s)[2] = s
    BY DEF ModelKey
  <2>2. Wanted(m, ModelKey(s)) = Agreements[m][s]
    BY <2>1, <1>2, KeysDistinct DEF Wanted
  <2>3. Wanted(m, ConfigKey(s)) = EflintConfig
    BY <1>2, KeysDistinct DEF Wanted
  <2>4. Agreements[m][s] \in Texts
    BY <1>2, SeederAssumption DEF Agreed
  <2> QED
    BY <2>2, <2>3, <2>4
<1>3. ASSUME NEW s \in Unlisted(m)
      PROVE  Wanted(m, ModelKey(s)) = Absent /\ Wanted(m, ConfigKey(s)) = Absent
  BY <1>3, KeysDistinct DEF Wanted, Unlisted
<1> QED
  BY <1>1, <1>2, <1>3

(* A manifest's keys are keys of the store, and its values store values.   *)
LEMMA WantedType ==
    ASSUME NEW m \in Manifests, NEW k \in FixtureKeys(m)
    PROVE  k \in Keys /\ Wanted(m, k) \in Values
<1>1. Touched(m) \subseteq Stewards
  BY SeederAssumption DEF Touched, Agreed, Unlisted
<1>2. Touched(m) = Agreed(m) \cup Unlisted(m)
  BY DEF Touched
<1> QED
  BY <1>1, <1>2, WantedFacts DEF FixtureKeys, Keys, Values

(* Wanted values decide whether a steward has an agreement.                *)
LEMMA WantedConverse ==
    ASSUME NEW m \in Manifests, NEW s
    PROVE  /\ ConfigKey(s) \in FixtureKeys(m) /\ Wanted(m, ConfigKey(s)) = EflintConfig
                => s \in Agreed(m)
           /\ ModelKey(s) \in FixtureKeys(m) /\ Wanted(m, ModelKey(s)) = Absent
                => s \in Unlisted(m)
<1>1. ModelKey(s) \in FixtureKeys(m) \/ ConfigKey(s) \in FixtureKeys(m)
        => s \in Agreed(m) \/ s \in Unlisted(m)
  BY KeysDistinct DEF FixtureKeys, Touched
<1> QED
  BY <1>1, WantedFacts, SeederAssumption

(* Both keys of a touched steward are fixture keys.                        *)
LEMMA PairOfKeys ==
    ASSUME NEW m \in Manifests, NEW s \in Touched(m)
    PROVE  ModelKey(s) \in FixtureKeys(m) /\ ConfigKey(s) \in FixtureKeys(m)
BY DEF FixtureKeys

-----------------------------------------------------------------------------
(* The order of the calls.                                                 *)

(* Only keys of the manifest are due; a config is put once its model is    *)
(* there, and a model deleted once its config is gone.                     *)
LEMMA DueFacts ==
    ASSUME NEW p \in Procs, man[p] \in Manifests, NEW k \in Due(p)
    PROVE  /\ k \in FixtureKeys(man[p])
           /\ \A s \in Agreed(man[p]) : k = ConfigKey(s) => ModelKey(s) \in done[p]
           /\ \A s \in Unlisted(man[p]) : k = ModelKey(s) => ConfigKey(s) \in done[p]
<1> DEFINE m == man[p]
<1>1. CASE k = RulesKey
  BY <1>1, KeysDistinct DEF FixtureKeys
<1>2. CASE \E s \in Halfway(p) : k = Second(m, s)
  <2>1. PICK s \in Halfway(p) : k = Second(m, s)
    BY <1>2
  <2>2. s \in Touched(m) /\ First(m, s) \in done[p]
    BY <2>1 DEF Halfway
  <2>3. CASE s \in Agreed(m)
    <3>1. k = ConfigKey(s) /\ ModelKey(s) \in done[p]
      BY <2>1, <2>2, <2>3 DEF First, Second
    <3> QED
      BY <3>1, <2>2, KeysDistinct, PairOfKeys
  <2>4. CASE s \notin Agreed(m)
    <3>1. k = ModelKey(s) /\ ConfigKey(s) \in done[p]
      BY <2>1, <2>2, <2>4 DEF First, Second
    <3> QED
      BY <3>1, <2>2, KeysDistinct, PairOfKeys
  <2> QED
    BY <2>3, <2>4
<1>3. CASE \E s \in Startable(p) : k = First(m, s)
  <2>1. PICK s \in Startable(p) : k = First(m, s)
    BY <1>3
  <2>2. s \in Touched(m)
    BY <2>1 DEF Startable
  <2>3. CASE s \in Agreed(m)
    <3>1. k = ModelKey(s) /\ s \notin Unlisted(m)
      BY <2>1, <2>3 DEF First, Unlisted
    <3> QED
      BY <3>1, <2>2, KeysDistinct, PairOfKeys
  <2>4. CASE s \notin Agreed(m)
    <3>1. k = ConfigKey(s)
      BY <2>1, <2>4 DEF First
    <3> QED
      BY <3>1, <2>2, <2>4, KeysDistinct, PairOfKeys
  <2> QED
    BY <2>3, <2>4
<1> QED
  BY <1>1, <1>2, <1>3 DEF Due

(* Nothing is due only when every key of the manifest is written.          *)
LEMMA DueExhausted ==
    ASSUME NEW p \in Procs, man[p] \in Manifests, Due(p) = {}
    PROVE  FixtureKeys(man[p]) \subseteq done[p]
<1> DEFINE m == man[p]
<1>1. RulesKey \in done[p] /\ Halfway(p) = {} /\ Startable(p) = {}
  <2>1. RulesKey \in done[p]
    BY DEF Due
  <2>2. Halfway(p) = {}
    BY <2>1 DEF Due
  <2>3. Startable(p) = {}
    BY <2>1, <2>2 DEF Due
  <2> QED
    BY <2>1, <2>2, <2>3
<1>2. ASSUME NEW s \in Agreed(m)
      PROVE  ModelKey(s) \in done[p] /\ ConfigKey(s) \in done[p]
  <2>1. s \in Touched(m) /\ s \notin Unlisted(m)
    BY <1>2 DEF Touched, Unlisted
  <2>2. First(m, s) \in done[p]
    BY <1>1, <2>1 DEF Startable
  <2>3. Second(m, s) \in done[p]
    BY <1>1, <2>1, <2>2 DEF Halfway
  <2> QED
    BY <1>2, <2>2, <2>3 DEF First, Second
<1>3. ASSUME NEW s \in Unlisted(m)
      PROVE  ModelKey(s) \in done[p] /\ ConfigKey(s) \in done[p]
  <2>1. s \in Touched(m) /\ s \notin Agreed(m)
    BY <1>3 DEF Touched, Unlisted
  <2>2. First(m, s) \in done[p]
    BY <1>1, <1>2, <2>1 DEF Startable
  <2>3. Second(m, s) \in done[p]
    BY <1>1, <2>1, <2>2 DEF Halfway
  <2> QED
    BY <2>1, <2>2, <2>3 DEF First, Second
<1> QED
  BY <1>1, <1>2, <1>3 DEF FixtureKeys, Touched

-----------------------------------------------------------------------------
(* Types.                                                                  *)

(* Every step keeps the types.                                             *)
LEMMA TypeStep ==
    ASSUME TypeOK, [Next]_seederVars
    PROVE  TypeOK'
<1> USE DEF TypeOK
<1>1. ASSUME NEW p \in Procs, NEW m \in Manifests, Begin(p, m)
      PROVE  TypeOK'
  BY <1>1 DEF Begin
<1>2. ASSUME NEW p \in Procs, NEW k \in Due(p)
      PROVE  k \in Keys /\ Wanted(man[p], k) \in Values
  BY <1>2, DueFacts, WantedType
<1>3. ASSUME NEW p \in Procs, Put(p) \/ Delete(p)
      PROVE  TypeOK'
  BY <1>2, <1>3 DEF Put, Delete, Write
<1>4. ASSUME NEW p \in Procs, Finish(p) \/ Release(p)
      PROVE  TypeOK'
  BY <1>4 DEF Finish, Release
<1>5. ASSUME NEW p \in Procs, Fail(p)
      PROVE  TypeOK'
  <2>1. PICK k \in Due(p) :
          Lost \/ Applied(k, Wanted(man[p], k)) \/ Delayed(k, Wanted(man[p], k))
    BY <1>5 DEF Fail
  <2>2. etcd' \in [Keys -> Values] /\ late' \in SUBSET Writes
    BY <2>1, <1>2 DEF Lost, Applied, Delayed, Writes
  <2> QED
    BY <1>5, <2>2 DEF Fail
<1>6. ASSUME NEW w \in late, Land(w)
      PROVE  TypeOK'
  BY <1>6 DEF Land, Writes
<1>7. CASE UNCHANGED seederVars
  BY <1>7 DEF seederVars
<1> QED
  BY <1>1, <1>3, <1>4, <1>5, <1>6, <1>7 DEF Next

(* The store, the late writes and the progress of every process keep their *)
(* types, whatever the processes run and however calls fail.               *)
THEOREM TypeCorrect == Spec => []TypeOK
<1>1. Init => TypeOK
  BY SeederAssumption DEF Init, TypeOK
<1>2. TypeOK /\ [Next]_seederVars => TypeOK'
  BY TypeStep
<1> QED
  BY <1>1, <1>2, PTL DEF Spec

-----------------------------------------------------------------------------
(* A change of one key of the store.                                       *)

(* Storing v under k disturbs no seeding, dangles no config, now or when a *)
(* late write lands.                                                       *)
Harmless(k, v) ==
    /\ \A q \in Procs : pc[q] # "idle" /\ k \in done[q] => v = Wanted(man[q], k)
    /\ \A w \in late, s \in Stewards :
          /\ w.key = ConfigKey(s) /\ w.value = EflintConfig
                => ~(k = ModelKey(s) /\ v = Absent)
          /\ w.key = ModelKey(s) /\ w.value = Absent
                => ~(k = ConfigKey(s) /\ v = EflintConfig)
    /\ \A s \in Stewards :
          /\ k = ConfigKey(s) /\ v = EflintConfig => etcd[ModelKey(s)] # Absent
          /\ k = ModelKey(s) /\ v = Absent => etcd[ConfigKey(s)] # EflintConfig

(* A harmless change preserves what the store-dependent invariants say.    *)
LEMMA HarmlessStep ==
    ASSUME SeederInv, NEW k \in Keys, NEW v \in Values, Harmless(k, v),
           etcd' = [etcd EXCEPT ![k] = v]
    PROVE  /\ \A q \in Procs : pc[q] # "idle" =>
                 \A j \in done[q] : etcd'[j] = Wanted(man[q], j)
           /\ \A w \in late, s \in Stewards :
                 /\ w.key = ConfigKey(s) /\ w.value = EflintConfig
                       => etcd'[ModelKey(s)] # Absent
                 /\ w.key = ModelKey(s) /\ w.value = Absent
                       => etcd'[ConfigKey(s)] # EflintConfig
           /\ ConfigHasModel'
<1>1. \A j \in Keys : etcd'[j] = IF j = k THEN v ELSE etcd[j]
  BY DEF SeederInv, TypeOK
<1>2. \A s \in Stewards : ModelKey(s) \in Keys /\ ConfigKey(s) \in Keys
  BY DEF Keys
<1>3. ASSUME NEW q \in Procs, pc[q] # "idle", NEW j \in done[q]
      PROVE  etcd'[j] = Wanted(man[q], j)
  <2>1. j \in Keys /\ etcd[j] = Wanted(man[q], j)
    BY <1>3 DEF SeederInv, TypeOK, Settled
  <2> QED
    BY <2>1, <1>1, <1>3 DEF Harmless
<1>4. ASSUME NEW w \in late, NEW s \in Stewards
      PROVE  /\ w.key = ConfigKey(s) /\ w.value = EflintConfig
                   => etcd'[ModelKey(s)] # Absent
             /\ w.key = ModelKey(s) /\ w.value = Absent
                   => etcd'[ConfigKey(s)] # EflintConfig
  BY <1>1, <1>2, <1>4 DEF Harmless, SeederInv, LateIsSafe
<1>5. ASSUME NEW s \in Stewards, etcd'[ConfigKey(s)] = EflintConfig
      PROVE  etcd'[ModelKey(s)] # Absent
  <2>1. CASE k = ConfigKey(s)
    BY <2>1, <1>1, <1>2, <1>5, KeysDistinct DEF Harmless
  <2>2. CASE k # ConfigKey(s)
    BY <2>2, <1>1, <1>2, <1>5 DEF Harmless, SeederInv, ConfigHasModel, Loadable
  <2> QED
    BY <2>1, <2>2
<1> QED
  BY <1>3, <1>4, <1>5 DEF ConfigHasModel, Loadable

(* A late write agrees with every manifest that touches its key.           *)
LEMMA LateAgrees ==
    ASSUME SeederInv, NEW w \in late, NEW m \in Manifests, w.key \in FixtureKeys(m)
    PROVE  w.value = Wanted(m, w.key)
<1>1. Compatible
  BY DEF SeederInv, LateOnlyIfCompatible
<1>2. PICK n \in Manifests : w.key \in FixtureKeys(n) /\ w.value = Wanted(n, w.key)
  BY DEF SeederInv, LateIsWanted
<1> QED
  BY <1>1, <1>2 DEF Compatible

(* What a process may write next is harmless.                              *)
LEMMA DueIsHarmless ==
    ASSUME SeederInv, NoInterference,
           NEW p \in Procs, pc[p] = "seeding", NEW k \in Due(p)
    PROVE  /\ k \in Keys /\ k \in FixtureKeys(man[p]) /\ Wanted(man[p], k) \in Values
           /\ Harmless(k, Wanted(man[p], k))
<1> DEFINE m == man[p]
           v == Wanted(man[p], k)
<1>1. m \in Manifests
  BY DEF SeederInv, TypeOK
<1>2. k \in FixtureKeys(m) /\ k \in Keys /\ v \in Values
  BY <1>1, DueFacts, WantedType
<1>3. ASSUME NEW q \in Procs, pc[q] # "idle", k \in done[q]
      PROVE  v = Wanted(man[q], k)
  <2>1. k \in FixtureKeys(man[q]) /\ man[q] \in Manifests
    BY <1>3 DEF SeederInv, Settled, TypeOK
  <2>2. CASE Compatible
    BY <2>1, <2>2, <1>1, <1>2 DEF Compatible
  <2>3. CASE Isolated
    BY <2>3 DEF Isolated
  <2> QED
    BY <2>2, <2>3 DEF NoInterference
<1>4. ASSUME NEW s \in Stewards, k = ConfigKey(s), v = EflintConfig
      PROVE  /\ ModelKey(s) \in FixtureKeys(m) /\ Wanted(m, ModelKey(s)) # Absent
             /\ etcd[ModelKey(s)] # Absent
  <2>1. s \in Agreed(m)
    BY <1>1, <1>2, <1>4, WantedConverse
  <2>2. Wanted(m, ModelKey(s)) # Absent
    BY <1>1, <2>1, WantedFacts, SeederAssumption
  <2>3. ModelKey(s) \in done[p]
    BY <1>1, <1>4, <2>1, DueFacts
  <2>4. etcd[ModelKey(s)] = Wanted(m, ModelKey(s))
    BY <2>3 DEF SeederInv, Settled
  <2> QED
    BY <1>1, <2>1, <2>2, <2>4, PairOfKeys DEF Touched
<1>5. ASSUME NEW s \in Stewards, k = ModelKey(s), v = Absent
      PROVE  /\ ConfigKey(s) \in FixtureKeys(m) /\ Wanted(m, ConfigKey(s)) # EflintConfig
             /\ etcd[ConfigKey(s)] # EflintConfig
  <2>1. s \in Unlisted(m)
    BY <1>1, <1>2, <1>5, WantedConverse
  <2>2. Wanted(m, ConfigKey(s)) # EflintConfig
    BY <1>1, <2>1, WantedFacts, SeederAssumption
  <2>3. ConfigKey(s) \in done[p]
    BY <1>1, <1>5, <2>1, DueFacts
  <2>4. etcd[ConfigKey(s)] = Wanted(m, ConfigKey(s))
    BY <2>3 DEF SeederInv, Settled
  <2> QED
    BY <1>1, <2>1, <2>2, <2>4, PairOfKeys DEF Touched
<1>6. ASSUME NEW w \in late, NEW s \in Stewards
      PROVE  /\ w.key = ConfigKey(s) /\ w.value = EflintConfig
                   => ~(k = ModelKey(s) /\ v = Absent)
             /\ w.key = ModelKey(s) /\ w.value = Absent
                   => ~(k = ConfigKey(s) /\ v = EflintConfig)
  BY <1>1, <1>4, <1>5, <1>6, LateAgrees
<1> QED
  BY <1>2, <1>3, <1>4, <1>5, <1>6 DEF Harmless

(* A late write is harmless when it lands.                                 *)
LEMMA LateIsHarmless ==
    ASSUME SeederInv, NEW w \in late
    PROVE  w.key \in Keys /\ w.value \in Values /\ Harmless(w.key, w.value)
<1>1. w.key \in Keys /\ w.value \in Values
  BY DEF SeederInv, TypeOK, Writes
<1>2. ASSUME NEW q \in Procs, pc[q] # "idle", w.key \in done[q]
      PROVE  w.value = Wanted(man[q], w.key)
  <2>1. w.key \in FixtureKeys(man[q]) /\ man[q] \in Manifests
    BY <1>2 DEF SeederInv, Settled, TypeOK
  <2> QED
    BY <2>1, LateAgrees
<1>3. ASSUME NEW x \in late, NEW s \in Stewards, NEW y \in late,
             x.key = ConfigKey(s), x.value = EflintConfig
      PROVE  ~(y.key = ModelKey(s) /\ y.value = Absent)
  <2>1. PICK n \in Manifests : x.key \in FixtureKeys(n) /\ x.value = Wanted(n, x.key)
    BY <1>3 DEF SeederInv, LateIsWanted
  <2>2. s \in Agreed(n)
    BY <2>1, <1>3, WantedConverse
  <2>3. ModelKey(s) \in FixtureKeys(n) /\ Wanted(n, ModelKey(s)) # Absent
    BY <2>2, PairOfKeys, WantedFacts, SeederAssumption DEF Touched
  <2> QED
    BY <2>3, LateAgrees
<1>4. \A s \in Stewards :
         /\ w.key = ConfigKey(s) /\ w.value = EflintConfig => etcd[ModelKey(s)] # Absent
         /\ w.key = ModelKey(s) /\ w.value = Absent => etcd[ConfigKey(s)] # EflintConfig
  BY DEF SeederInv, LateIsSafe
<1> QED
  BY <1>1, <1>2, <1>3, <1>4 DEF Harmless

-----------------------------------------------------------------------------
(* The invariant is inductive.                                             *)

LEMMA SeederInit == Init => SeederInv
<1> SUFFICES ASSUME Init PROVE SeederInv
  OBVIOUS
<1>1. TypeOK
  BY SeederAssumption DEF Init, TypeOK
<1>2. ConfigHasModel
  BY SeederAssumption DEF Init, ConfigHasModel
<1>3. Settled /\ AllWritten /\ LateIsWanted /\ LateOnlyIfCompatible /\ LateIsSafe
  BY DEF Init, Settled, AllWritten, LateIsWanted, LateOnlyIfCompatible, LateIsSafe
<1> QED
  BY <1>1, <1>2, <1>3 DEF SeederInv

(* Put and Delete: the key written is due, so the change is harmless.      *)
LEMMA WriteKeepsInv ==
    ASSUME SeederInv, NoInterference, TypeOK',
           NEW p \in Procs, NEW k \in Due(p), Write(p, k)
    PROVE  SeederInv'
<1>1. pc[p] = "seeding" /\ TypeOK
  BY DEF Write, SeederInv
<1>2. /\ k \in Keys /\ k \in FixtureKeys(man[p]) /\ Wanted(man[p], k) \in Values
      /\ Harmless(k, Wanted(man[p], k))
  BY <1>1, DueIsHarmless
<1>3. etcd' = [etcd EXCEPT ![k] = Wanted(man[p], k)] /\ UNCHANGED <<late, pc, man>>
  BY DEF Write
<1>4. \A q \in Procs : done'[q] = IF q = p THEN done[q] \cup {k} ELSE done[q]
  BY <1>1 DEF Write, TypeOK
<1>5. etcd'[k] = Wanted(man[p], k)
  BY <1>1, <1>2, <1>3 DEF TypeOK
<1>6. Settled'
  <2>1. ASSUME NEW q \in Procs, pc[q] # "idle"
        PROVE  \A j \in done[q] : etcd'[j] = Wanted(man[q], j)
    BY <2>1, <1>2, <1>3, HarmlessStep
  <2>2. \A q \in Procs : pc[q] # "idle" => done[q] \subseteq FixtureKeys(man[q])
    BY DEF Settled, SeederInv
  <2>3. ASSUME NEW q \in Procs, pc'[q] # "idle"
        PROVE  /\ done'[q] \subseteq FixtureKeys(man'[q])
               /\ \A j \in done'[q] : etcd'[j] = Wanted(man'[q], j)
    <3>1. pc[q] # "idle" /\ man'[q] = man[q]
      BY <2>3, <1>3
    <3>2. CASE q = p
      BY <3>1, <3>2, <2>1, <2>2, <1>2, <1>4, <1>5
    <3>3. CASE q # p
      BY <3>1, <3>3, <2>1, <2>2, <1>4
    <3> QED
      BY <3>2, <3>3
  <2> QED
    BY <2>3 DEF Settled
<1>7. AllWritten'
  BY <1>3, <1>4 DEF AllWritten, SeederInv
<1>8. LateIsSafe' /\ ConfigHasModel'
  BY <1>2, <1>3, HarmlessStep DEF LateIsSafe
<1>9. LateIsWanted' /\ LateOnlyIfCompatible'
  BY <1>3 DEF LateIsWanted, LateOnlyIfCompatible, SeederInv
<1> QED
  BY <1>6, <1>7, <1>8, <1>9 DEF SeederInv

(* Fail: the write is lost, applied, or joins the late ones.               *)
LEMMA FailKeepsInv ==
    ASSUME SeederInv, NoInterference, TypeOK', NEW p \in Procs, Fail(p)
    PROVE  SeederInv'
<1>1. pc[p] = "seeding" /\ TypeOK /\ UNCHANGED <<man, done>>
  BY DEF Fail, SeederInv
<1>2. \A q \in Procs : pc'[q] = IF q = p THEN "idle" ELSE pc[q]
  BY <1>1 DEF Fail, TypeOK
<1>3. PICK k \in Due(p) :
        Lost \/ Applied(k, Wanted(man[p], k)) \/ Delayed(k, Wanted(man[p], k))
  BY DEF Fail
<1> DEFINE v == Wanted(man[p], k)
<1>4. k \in Keys /\ k \in FixtureKeys(man[p]) /\ v \in Values /\ Harmless(k, v)
  BY <1>1, DueIsHarmless
<1>5. AllWritten'
  BY <1>1, <1>2 DEF AllWritten, SeederInv
<1>6. CASE Lost
  <2>1. Settled' /\ LateIsWanted' /\ LateOnlyIfCompatible' /\ LateIsSafe' /\ ConfigHasModel'
    BY <1>1, <1>2, <1>6
       DEF Lost, SeederInv, Settled, LateIsWanted, LateOnlyIfCompatible, LateIsSafe,
           ConfigHasModel, Loadable
  <2> QED
    BY <2>1, <1>5 DEF SeederInv
<1>7. CASE Applied(k, v)
  <2>1. etcd' = [etcd EXCEPT ![k] = v] /\ UNCHANGED late
    BY <1>7 DEF Applied
  <2>2. Settled'
    BY <2>1, <1>1, <1>2, <1>4, HarmlessStep DEF Settled, SeederInv
  <2>3. LateIsSafe' /\ ConfigHasModel'
    BY <2>1, <1>4, HarmlessStep DEF LateIsSafe
  <2>4. LateIsWanted' /\ LateOnlyIfCompatible'
    BY <2>1 DEF LateIsWanted, LateOnlyIfCompatible, SeederInv
  <2> QED
    BY <2>2, <2>3, <2>4, <1>5 DEF SeederInv
<1>8. CASE Delayed(k, v)
  <2> DEFINE w == [key |-> k, value |-> v]
  <2>1. late' = late \cup {w} /\ UNCHANGED etcd /\ Cardinality(late) < MaxLate
    BY <1>8 DEF Delayed
  <2>2. Compatible
    <3>1. SUFFICES ASSUME ~Compatible PROVE FALSE
      OBVIOUS
    <3>2. late = {} /\ MaxLate = 0
      BY <3>1 DEF SeederInv, LateOnlyIfCompatible, NoInterference, Isolated
    <3>3. Cardinality(late) = 0
      BY <3>2, FS_EmptySet
    <3> QED
      BY <2>1, <3>2, <3>3
  <2>3. LateIsWanted'
    BY <2>1, <1>1, <1>4 DEF LateIsWanted, SeederInv, TypeOK
  <2>4. LateIsSafe'
    <3>1. \A s \in Stewards :
             /\ w.key = ConfigKey(s) /\ w.value = EflintConfig => etcd[ModelKey(s)] # Absent
             /\ w.key = ModelKey(s) /\ w.value = Absent => etcd[ConfigKey(s)] # EflintConfig
      BY <1>4 DEF Harmless
    <3> QED
      BY <3>1, <2>1 DEF LateIsSafe, SeederInv
  <2>5. Settled' /\ ConfigHasModel' /\ LateOnlyIfCompatible'
    BY <2>1, <2>2, <1>1, <1>2
       DEF SeederInv, Settled, LateOnlyIfCompatible, ConfigHasModel, Loadable
  <2> QED
    BY <2>3, <2>4, <2>5, <1>5 DEF SeederInv
<1> QED
  BY <1>3, <1>6, <1>7, <1>8

(* Land: a late write is harmless.                                         *)
LEMMA LandKeepsInv ==
    ASSUME SeederInv, TypeOK', NEW w \in late, Land(w)
    PROVE  SeederInv'
<1>1. /\ etcd' = [etcd EXCEPT ![w.key] = w.value]
      /\ late' = late \ {w}
      /\ UNCHANGED <<pc, man, done>>
  BY DEF Land
<1>2. w.key \in Keys /\ w.value \in Values /\ Harmless(w.key, w.value)
  BY LateIsHarmless
<1>3. Settled'
  BY <1>1, <1>2, HarmlessStep DEF Settled, SeederInv
<1>4. LateIsSafe' /\ ConfigHasModel'
  BY <1>1, <1>2, HarmlessStep DEF LateIsSafe
<1>5. AllWritten' /\ LateIsWanted' /\ LateOnlyIfCompatible'
  BY <1>1 DEF AllWritten, LateIsWanted, LateOnlyIfCompatible, SeederInv
<1> QED
  BY <1>3, <1>4, <1>5 DEF SeederInv

(* Begin, Finish and Release leave the store and the late writes alone.    *)
LEMMA LocalStepKeepsInv ==
    ASSUME SeederInv, TypeOK', NEW p \in Procs,
           (\E m \in Manifests : Begin(p, m)) \/ Finish(p) \/ Release(p)
    PROVE  SeederInv'
<1>1. UNCHANGED <<etcd, late>> /\ TypeOK
  BY DEF Begin, Finish, Release, SeederInv
<1>2. LateIsWanted' /\ LateOnlyIfCompatible' /\ LateIsSafe' /\ ConfigHasModel'
  BY <1>1 DEF SeederInv, LateIsWanted, LateOnlyIfCompatible, LateIsSafe,
              ConfigHasModel, Loadable
<1>3. ASSUME NEW m \in Manifests, Begin(p, m)
      PROVE  Settled' /\ AllWritten'
  BY <1>1, <1>3 DEF Begin, SeederInv, Settled, AllWritten, TypeOK
<1>4. ASSUME Finish(p)
      PROVE  Settled' /\ AllWritten'
  <2>1. FixtureKeys(man[p]) \subseteq done[p]
    BY <1>1, <1>4, DueExhausted DEF Finish, TypeOK
  <2> QED
    BY <2>1, <1>1, <1>4 DEF Finish, SeederInv, Settled, AllWritten, TypeOK
<1>5. ASSUME Release(p)
      PROVE  Settled' /\ AllWritten'
  BY <1>1, <1>5 DEF Release, SeederInv, Settled, AllWritten, TypeOK
<1> QED
  BY <1>2, <1>3, <1>4, <1>5 DEF SeederInv

LEMMA SeederStep ==
    ASSUME SeederInv, NoInterference, [Next]_seederVars
    PROVE  SeederInv'
<1>1. TypeOK'
  BY TypeStep DEF SeederInv
<1>2. ASSUME NEW p \in Procs, Put(p) \/ Delete(p)
      PROVE  SeederInv'
  BY <1>1, <1>2, WriteKeepsInv DEF Put, Delete
<1>3. ASSUME NEW p \in Procs, Fail(p)
      PROVE  SeederInv'
  BY <1>1, <1>3, FailKeepsInv
<1>4. ASSUME NEW w \in late, Land(w)
      PROVE  SeederInv'
  BY <1>1, <1>4, LandKeepsInv
<1>5. ASSUME NEW p \in Procs,
             (\E m \in Manifests : Begin(p, m)) \/ Finish(p) \/ Release(p)
      PROVE  SeederInv'
  BY <1>1, <1>5, LocalStepKeepsInv
<1>6. CASE UNCHANGED seederVars
  BY <1>1, <1>6
     DEF seederVars, SeederInv, Settled, AllWritten, LateIsWanted,
         LateOnlyIfCompatible, LateIsSafe, ConfigHasModel, Loadable, Due
<1> QED
  BY <1>2, <1>3, <1>4, <1>5, <1>6 DEF Next

(* The strengthened invariant, for every instance without interference.    *)
THEOREM SeederInvariance == ASSUME NoInterference PROVE Spec => []SeederInv
<1>1. Init => SeederInv
  BY SeederInit
<1>2. SeederInv /\ [Next]_seederVars => SeederInv'
  BY SeederStep
<1> QED
  BY <1>1, <1>2, PTL DEF Spec

(* While a seeding is in use, the store holds the manifest's fixtures: no  *)
(* number of processes, failed calls, crashes and late writes changes that *)
(* as long as the manifests in use agree on the keys they share, or one    *)
(* process runs alone and its abandoned calls are dropped.                 *)
THEOREM SeededInputs == ASSUME NoInterference PROVE Spec => []SeededInputsMatch
<1>1. SeederInv => SeededInputsMatch
  BY DEF SeederInv, Settled, AllWritten, SeededInputsMatch
<1> QED
  BY <1>1, SeederInvariance, PTL

(* Under the same assumption no crash point leaves an eflint config whose  *)
(* model is missing.                                                       *)
THEOREM NoDanglingConfig == ASSUME NoInterference PROVE Spec => []ConfigHasModel
<1>1. SeederInv => ConfigHasModel
  BY DEF SeederInv
<1> QED
  BY <1>1, SeederInvariance, PTL

-----------------------------------------------------------------------------
(* Every step of a runner is a step of the seeder, or leaves it alone.     *)

(* What is known of the place of a process in its list: only before its    *)
(* first scenario is it at none, and then it is doing nothing.             *)
Resting(p) == ~UnderWay(p) /\ pc[p] = "idle"

AtTyped ==
    /\ stage \in [Procs -> Stages] /\ pc \in [Procs -> {"idle", "seeding", "seeded"}]
    /\ at \in [Procs -> Nat]
    /\ \A p \in Procs : at[p] <= Len(Chosen[p]) /\ (at[p] = 0 => Resting(p))

(* A process under way is at a place of its list, and at a manifest.       *)
LEMMA AtManifest ==
    ASSUME NEW p \in Procs, at[p] \in Nat, at[p] <= Len(Chosen[p]), at[p] # 0
    PROVE  at[p] \in DOMAIN Chosen[p] /\ Cur(p) \in Manifests
<1>1. Chosen[p] \in Seq(Manifests)
  BY RunnerAssumption
<1>2. at[p] \in 1 .. Len(Chosen[p])
  BY <1>1
<1> QED
  BY <1>1, <1>2 DEF Cur

(* What a step that is not the turn to the next scenario leaves alone.     *)
LEMMA PlaceStays ==
    ASSUME AtTyped, NEW p \in Procs, RunStep(p) \/ Kill(p), ~NextScenario(p)
    PROVE  /\ UNCHANGED at
           /\ stage' \in [Procs -> Stages] /\ pc' \in [Procs -> {"idle", "seeding", "seeded"}]
           /\ \A q \in Procs \ {p} : stage'[q] = stage[q] /\ pc'[q] = pc[q]
           /\ Resting(p) => stage'[p] \in {"exited", "killed"} /\ pc'[p] = "idle"
<1> USE DEF AtTyped, Resting, UnderWay, Stages
<1>1. ASSUME LeaveStore(p)
      PROVE  /\ pc' \in [Procs -> {"idle", "seeding", "seeded"}]
             /\ \A q \in Procs \ {p} : pc'[q] = pc[q]
             /\ pc[p] = "idle" => pc'[p] = "idle"
  BY <1>1 DEF LeaveStore, Release, seederVars
<1>2. CASE Gate(p) \/ Derive(p) \/ Validate(p) \/ Exit(p)
  BY <1>2 DEF Gate, Derive, Validate, Exit, Goto, Conclude, seederVars
<1>3. CASE SeedHealth(p)
  BY <1>3 DEF SeedHealth, Begin, Goto, Conclude, seederVars
<1>4. CASE SeedCall(p) \/ SeedEnd(p) \/ SeedError(p)
  BY <1>4 DEF SeedCall, Put, Delete, Write, SeedEnd, Finish, SeedError, Fail,
              Goto, Conclude, runnerVars
<1>5. CASE SkipSut(p) \/ SutHealth(p) \/ SutError(p) \/ CompareError(p) \/ CompareBody(p)
  BY <1>1, <1>5 DEF SkipSut, SutHealth, SutError, CompareError, CompareBody,
                    Goto, Conclude, seederVars
<1>6. CASE Kill(p)
  BY <1>1, <1>6 DEF Kill, Fail, Goto
<1> QED
  BY <1>2, <1>3, <1>4, <1>5, <1>6 DEF RunStep

LEMMA AtStaysTyped == RunnerSafeSpec => []AtTyped
<1>1. RunnerInit => AtTyped
  <2>1. \A p \in Procs : Len(Chosen[p]) \in Nat
    BY RunnerAssumption
  <2> QED
    BY <2>1 DEF RunnerInit, Init, AtTyped, Resting, UnderWay, Stages
<1>2. AtTyped /\ [RunnerNext]_vars => AtTyped'
  <2> SUFFICES ASSUME AtTyped, [RunnerNext]_vars
               PROVE  AtTyped'
    OBVIOUS
  <2>1. ASSUME NEW p \in Procs, NextScenario(p)
        PROVE  AtTyped'
    <3>1. /\ at[p] < Len(Chosen[p]) /\ Len(Chosen[p]) \in Nat
          /\ at' = [at EXCEPT ![p] = @ + 1] /\ UNCHANGED pc
      BY <2>1, RunnerAssumption DEF NextScenario, seederVars
    <3>2. /\ stage' \in [Procs -> Stages]
          /\ \A q \in Procs \ {p} : stage'[q] = stage[q]
      BY <2>1 DEF NextScenario, AtTyped, Stages
    <3>3. /\ at' \in [Procs -> Nat] /\ at'[p] # 0 /\ at'[p] <= Len(Chosen[p])
          /\ \A q \in Procs \ {p} : at'[q] = at[q]
      BY <3>1 DEF AtTyped
    <3> QED
      BY <3>1, <3>2, <3>3 DEF AtTyped, Resting, UnderWay
  <2>2. ASSUME NEW p \in Procs, RunStep(p) \/ Kill(p), ~NextScenario(p)
        PROVE  AtTyped'
    BY <2>2, PlaceStays DEF AtTyped, Resting, UnderWay
  <2>3. CASE UNCHANGED vars \/ \E w \in late : Land(w) /\ UNCHANGED runnerVars
    BY <2>3 DEF vars, runnerVars, seederVars, Land, AtTyped, Resting, UnderWay
  <2> QED
    BY <2>1, <2>2, <2>3 DEF RunnerNext
<1> QED
  BY <1>1, <1>2, PTL DEF RunnerSafeSpec

(* A step of the runner is one of the seeder, or none.                     *)
LEMMA RunnerStepIsSeederStep ==
    ASSUME AtTyped, [RunnerNext]_vars
    PROVE  [Next]_seederVars
<1>1. ASSUME NEW p \in Procs, LeaveStore(p)
      PROVE  [Next]_seederVars
  BY <1>1 DEF LeaveStore, Next
<1>2. ASSUME NEW p \in Procs, RunStep(p)
      PROVE  [Next]_seederVars
  <2>1. CASE NextScenario(p) \/ Gate(p) \/ Derive(p) \/ Validate(p) \/ Exit(p)
    BY <2>1 DEF NextScenario, Gate, Derive, Validate, Exit
  <2>2. CASE SeedHealth(p)
    <3>1. at[p] # 0
      BY <2>2 DEF SeedHealth, AtTyped, Resting, UnderWay
    <3>2. Cur(p) \in Manifests
      BY <3>1, AtManifest DEF AtTyped
    <3> QED
      BY <2>2, <3>2 DEF SeedHealth, Next
  <2>3. CASE SeedCall(p)
    BY <2>3 DEF SeedCall, Next
  <2>4. CASE SeedEnd(p)
    BY <2>4 DEF SeedEnd, Next
  <2>5. CASE SeedError(p)
    BY <2>5 DEF SeedError, Next
  <2>6. CASE SkipSut(p) \/ SutHealth(p) \/ SutError(p) \/ CompareError(p) \/ CompareBody(p)
    BY <2>6, <1>1 DEF SkipSut, SutHealth, SutError, CompareError, CompareBody
  <2> QED
    BY <1>2, <2>1, <2>2, <2>3, <2>4, <2>5, <2>6 DEF RunStep
<1>3. ASSUME NEW p \in Procs, Kill(p)
      PROVE  [Next]_seederVars
  BY <1>1, <1>3 DEF Kill, Next
<1>4. CASE UNCHANGED vars
  BY <1>4 DEF vars
<1>5. ASSUME NEW w \in late, Land(w)
      PROVE  [Next]_seederVars
  BY <1>5 DEF Next
<1> QED
  BY <1>2, <1>3, <1>4, <1>5 DEF RunnerNext

(* Whole runs implement the seeder's specification: whatever a run does to *)
(* the store is a seeding, and every invariant of seedings holds of runs.  *)
THEOREM RunsSeed == RunnerSpec => Spec
<1>1. RunnerInit => Init
  BY DEF RunnerInit
<1>2. AtTyped /\ [RunnerNext]_vars => [Next]_seederVars
  BY RunnerStepIsSeederStep
<1>3. RunnerSpec => RunnerSafeSpec
  BY PTL DEF RunnerSpec
<1>4. RunnerSafeSpec => Spec
  BY <1>1, <1>2, AtStaysTyped, PTL DEF RunnerSafeSpec, Spec
<1> QED
  BY <1>3, <1>4, PTL

-----------------------------------------------------------------------------
(* The comparator accepts exactly the truthful answers.                    *)

FixturesIn(m) == \A k \in FixtureKeys(m) : etcd[k] = Wanted(m, k)

(* With the fixtures in the store the enforcer loads the agreements of the *)
(* requested stewards, and decides what the oracle expects.                *)
LEMMA EnforcerSeesFixtures ==
    ASSUME NEW m \in Manifests, FixturesIn(m), CandidatesComplete
    PROVE  Interpretable(m) /\ ~Dangling(m) /\ Decision(m) = Expected(m)
<1> DEFINE files == [s \in Agreed(m) |-> FactsOf[Agreements[m][s]]]
           found == [s \in Loaded(m) |-> FactsOf[etcd[ModelKey(s)]]]
<1>1. /\ RulesKey \in FixtureKeys(m)
      /\ \A s \in Agreed(m) \cup Requested[m] :
            ModelKey(s) \in FixtureKeys(m) /\ ConfigKey(s) \in FixtureKeys(m)
  BY DEF FixtureKeys, Touched, Unlisted
<1>2. etcd[RulesKey] = SharedRules[m]
  BY <1>1, KeysDistinct DEF FixturesIn, Wanted
<1>3. ASSUME NEW s \in Agreed(m)
      PROVE  etcd[ConfigKey(s)] = EflintConfig /\ etcd[ModelKey(s)] = Agreements[m][s]
  <2>1. ModelKey(s)[2] = s
    BY DEF ModelKey
  <2>2. Wanted(m, ModelKey(s)) = Agreements[m][s]
    BY <2>1, KeysDistinct DEF Wanted
  <2> QED
    BY <1>1, <2>2, WantedFacts DEF FixturesIn
<1>4. ASSUME NEW s \in Requested[m], s \notin Agreed(m)
      PROVE  etcd[ConfigKey(s)] = Absent
  BY <1>1, <1>4, WantedFacts DEF FixturesIn, Unlisted
<1>5. Loaded(m) = Agreed(m) \cap Requested[m]
  BY <1>3, <1>4, SeederAssumption DEF Loaded
<1>6. Interpretable(m)
  BY <1>2, <1>3, <1>4 DEF Interpretable
<1>7. ~Dangling(m)
  BY <1>3, <1>5, RunnerAssumption DEF Dangling
<1>8. KnowledgeBase(found, Loaded(m), Requester[m], Requested[m])
        = KnowledgeBase(files, Agreed(m) \cap Requested[m], Requester[m], Requested[m])
  <2>1. \A s \in Loaded(m) : found[s] = files[s]
    BY <1>3, <1>5
  <2> HIDE DEF found, files
  <2>2. {found[s] : s \in Loaded(m)} = {files[s] : s \in Loaded(m)}
    BY <2>1
  <2> QED
    BY <2>2, <1>5 DEF KnowledgeBase
<1>9. DOMAIN files = Agreed(m) /\ \A s \in DOMAIN files : SpeaksFor(files[s], s)
  BY RunnerAssumption
<1>10. Projection(KnowledgeBase(files, Agreed(m), Requester[m], Requested[m]),
                  Requester[m], Requested[m], Archetypes, Providers)
         = Projection(KnowledgeBase(files, Agreed(m) \cap Requested[m],
                                    Requester[m], Requested[m]),
                      Requester[m], Requested[m], Archetypes, Providers)
  <2> HIDE DEF files
  <2> QED
    BY <1>9, DecisionIsLocal, Zenon
<1>11. Probed[m] = Archetypes
  BY DEF CandidatesComplete
<1> QED
  BY <1>6, <1>7, <1>8, <1>10, <1>11 DEF Decision, Expected

(* With the manifest's fixtures in place, an answer is accepted exactly    *)
(* when it tells the truth.                                                *)
LEMMA AnswerAccepted ==
    ASSUME NEW m \in Manifests, NEW b, FixturesIn(m), CandidatesComplete
    PROVE  Truthful(m, b) <=> Accepted(m, b)
<1> DEFINE a == Normalise(b)
           e == Expected(m)
           token == "auth_present_when_approved" \in Asserted[m] /\ e.request_approved
                       => a.has_nonempty_auth
<1>1. Truthful(m, b) <=> b # Malformed /\ Statements(a) = Statements(e) /\ token
  BY EnforcerSeesFixtures DEF Truthful
<1>2. DecisionFields \subseteq Asserted[m]
  BY RunnerAssumption
<1>3. Compare(DecisionFields, e, a) => e.request_approved = a.request_approved
  BY DEF Compare, DecisionFields
<1>4. Compare(Asserted[m], e, a) <=> Compare(DecisionFields, e, a) /\ token
  <2> HIDE DEF e, a
  <2> QED
    BY <1>2, <1>3 DEF Compare, DecisionFields
<1>5. Compare(DecisionFields, e, a) <=> Statements(e) = Statements(a)
  BY CompareIsAgreement, Zenon
<1> QED
  BY <1>1, <1>4, <1>5 DEF Accepted

(* The verdict on a given answer is no matter of state.                    *)
LEMMA AcceptedIsRigid ==
    ASSUME NEW VARIABLE x, NEW VARIABLE y
    PROVE  Accepted(x, y)' <=> Accepted(x', y')
BY DEF Accepted, Expected

-----------------------------------------------------------------------------
(* The invariant.                                                          *)

(* The start.                                                              *)
LEMMA RunnerInitInv == RunnerInit => RunnerInv
<1> SUFFICES ASSUME RunnerInit
             PROVE  RunnerInv
  OBVIOUS
<1>1. TypeOK
  BY SeederInit DEF RunnerInit, SeederInv
<1>2. \A p \in Procs : /\ stage[p] = "next" /\ pc[p] = "idle" /\ at[p] = 0
                       /\ outcome[p] = <<>> /\ exit[p] = "running"
  BY DEF RunnerInit, Init
<1>3. DOMAIN <<>> = {} /\ Len(<<>>) = 0
  OBVIOUS
<1>4. RunnerTypeOK
  <2>1. \A p \in Procs : Len(Chosen[p]) \in Nat
    BY RunnerAssumption
  <2>2. outcome \in [Procs -> Seq(Outcomes)]
    BY DEF RunnerInit
  <2> QED
    BY <1>1, <2>1, <2>2 DEF RunnerInit, RunnerTypeOK, Stages
<1>5. VerdictTruthful
  BY <1>2, <1>3 DEF VerdictTruthful
<1>6. StageMatchesSeeding /\ AnswerIsJudged /\ ExitVouches
  BY <1>2 DEF StageMatchesSeeding, InStore, AnswerIsJudged, ExitVouches
<1>7. CurrentIsOpen
  <2>1. \A p \in Procs : Len(outcome[p]) = 0
    BY <1>2, <1>3
  <2>2. \A p \in Procs : at[p] = 0 /\ ~UnderWay(p)
    BY <1>2 DEF UnderWay
  <2> SUFFICES ASSUME NEW p \in Procs
               PROVE  at[p] = Len(outcome[p]) + (IF UnderWay(p) THEN 1 ELSE 0)
    BY DEF CurrentIsOpen
  <2>3. at[p] = Len(outcome[p]) + 0
    BY <2>1, <2>2
  <2> QED
    BY <2>2, <2>3, Zenon
<1> QED
  BY <1>4, <1>5, <1>6, <1>7 DEF RunnerInv

(* What it is to append an outcome.                                        *)
LEMMA Appended ==
    ASSUME NEW S, NEW s \in Seq(S), NEW e \in S
    PROVE  /\ Append(s, e) \in Seq(S) /\ Len(s) \in Nat /\ DOMAIN s = 1 .. Len(s)
           /\ Len(Append(s, e)) = Len(s) + 1
           /\ DOMAIN Append(s, e) = DOMAIN s \cup {Len(s) + 1}
           /\ Append(s, e)[Len(s) + 1] = e
           /\ \A n \in DOMAIN s : Append(s, e)[n] = s[n]
OBVIOUS

(* A scenario under way is at the first place that has no outcome.         *)
LEMMA OpenPlace ==
    ASSUME RunnerInv, NEW p \in Procs, UnderWay(p)
    PROVE  /\ outcome[p] \in Seq(Outcomes) /\ at[p] \in Nat /\ at[p] = Len(outcome[p]) + 1
           /\ Len(outcome[p]) \in Nat /\ DOMAIN outcome[p] = 1 .. Len(outcome[p])
           /\ at[p] \in DOMAIN Chosen[p] /\ at[p] \notin DOMAIN outcome[p]
           /\ Len(Chosen[p]) \in Nat /\ at[p] <= Len(Chosen[p])
           /\ Cur(p) \in Manifests
<1>1. /\ outcome[p] \in Seq(Outcomes) /\ at[p] \in Nat /\ at[p] <= Len(Chosen[p])
      /\ Chosen[p] \in Seq(Manifests)
  BY RunnerAssumption DEF RunnerInv, RunnerTypeOK
<1>2. at[p] = Len(outcome[p]) + 1
  BY DEF RunnerInv, CurrentIsOpen, UnderWay
<1>3. /\ Len(outcome[p]) \in Nat /\ DOMAIN outcome[p] = 1 .. Len(outcome[p])
      /\ Len(Chosen[p]) \in Nat
  BY <1>1
<1> QED
  BY <1>1, <1>2, <1>3, AtManifest

(* How the seeding of p must stand when p reaches stage s.                 *)
SeedingFits(p, s) ==
    /\ \A q \in Procs \ {p} : pc'[q] = pc[q] /\ man'[q] = man[q]
    /\ s = "seeding" <=> pc'[p] = "seeding"
    /\ pc'[p] = "seeded" => s \in InStore
    /\ s \in InStore /\ ~Options[p].skip_seeding => pc'[p] = "seeded"
    /\ pc'[p] # "idle" => man'[p] = Cur(p)'

(* What the actions of the seeder do to p's seeding, and to no other.      *)
LEMMA SeedingMoves ==
    ASSUME TypeOK, NEW p \in Procs
    PROVE  /\ \A q \in Procs \ {p} : LeaveStore(p) \/ Fail(p) \/ Finish(p) \/ Put(p)
                                     \/ Delete(p) \/ Begin(p, Cur(p))
                => pc'[q] = pc[q] /\ man'[q] = man[q]
           /\ LeaveStore(p) /\ pc[p] # "seeding" => pc'[p] = "idle"
           /\ Fail(p) => pc[p] = "seeding" /\ pc'[p] = "idle"
           /\ Finish(p) => pc[p] = "seeding" /\ pc'[p] = "seeded" /\ man' = man
           /\ Put(p) \/ Delete(p) => pc' = pc /\ man' = man
           /\ Begin(p, Cur(p)) => pc[p] = "idle" /\ pc'[p] = "seeding" /\ man'[p] = Cur(p)
BY DEF TypeOK, LeaveStore, Release, Fail, Finish, Put, Delete, Write, Begin, seederVars

(* A step that ends the scenario of p with outcome o.                      *)
LEMMA ConcludeKeepsInv ==
    ASSUME RunnerInv, TypeOK', NEW p \in Procs, NEW o \in Outcomes, UnderWay(p),
           Conclude(p, o), SeedingFits(p, "next"),
           o \in {"pass", "fail"} =>
              stage[p] = "compare" /\ (o = "pass" <=> Accepted(Cur(p), body[p]))
    PROVE  RunnerInv'
<1>1. /\ stage' = [stage EXCEPT ![p] = "next"]
      /\ outcome' = [outcome EXCEPT ![p] = Append(@, o)]
      /\ UNCHANGED <<at, body, truthful, exit>>
  BY DEF Conclude
<1>2. /\ outcome[p] \in Seq(Outcomes) /\ at[p] = Len(outcome[p]) + 1
      /\ Len(outcome[p]) \in Nat /\ at[p] \notin DOMAIN outcome[p]
  BY OpenPlace
<1>3. /\ stage'[p] = "next" /\ stage' \in [Procs -> Stages]
      /\ \A q \in Procs \ {p} : stage'[q] = stage[q]
  BY <1>1 DEF RunnerInv, RunnerTypeOK, Stages
<1>4. outcome'[p] = Append(outcome[p], o)
  BY <1>1 DEF RunnerInv, RunnerTypeOK
<1>5. /\ outcome'[p] \in Seq(Outcomes) /\ Len(outcome'[p]) = at[p]
      /\ DOMAIN outcome'[p] = DOMAIN outcome[p] \cup {at[p]}
      /\ outcome'[p][at[p]] = o
      /\ \A n \in DOMAIN outcome[p] : outcome'[p][n] = outcome[p][n]
  BY <1>2, <1>4, Appended
<1>6. /\ outcome' \in [Procs -> Seq(Outcomes)]
      /\ \A q \in Procs \ {p} : outcome'[q] = outcome[q]
  BY <1>1, <1>4, <1>5 DEF RunnerInv, RunnerTypeOK
<1>7. RunnerTypeOK'
  BY <1>1, <1>3, <1>6 DEF RunnerInv, RunnerTypeOK
<1>8. StageMatchesSeeding'
  BY <1>1, <1>3 DEF RunnerInv, StageMatchesSeeding, SeedingFits, Cur
<1>9. CurrentIsOpen'
  <2>1. at'[p] = Len(outcome'[p]) + 0
    BY <1>1, <1>2, <1>5
  <2> QED
    BY <1>1, <1>3, <1>6, <2>1 DEF RunnerInv, CurrentIsOpen, UnderWay
<1>10. AnswerIsJudged'
  BY <1>1, <1>3, AcceptedIsRigid DEF RunnerInv, AnswerIsJudged, Cur
<1>11. VerdictTruthful'
  <2> SUFFICES ASSUME NEW q \in Procs, ~Options[q].skip_seeding, NEW n \in DOMAIN outcome'[q],
                      outcome'[q][n] \in {"pass", "fail"}
               PROVE  outcome'[q][n] = "pass" <=> n \in truthful[q]
    BY <1>1 DEF VerdictTruthful
  <2>1. CASE q = p /\ n = at[p]
    BY <2>1, <1>5 DEF RunnerInv, AnswerIsJudged
  <2>2. CASE ~(q = p /\ n = at[p])
    BY <2>2, <1>5, <1>6 DEF RunnerInv, VerdictTruthful
  <2> QED
    BY <2>1, <2>2
<1>12. ExitVouches'
  BY <1>1, <1>3, <1>6 DEF RunnerInv, ExitVouches, UnderWay
<1> QED
  BY <1>7, <1>8, <1>9, <1>10, <1>11, <1>12 DEF RunnerInv

(* A step that takes p to another phase of the same scenario, or kills it. *)
LEMMA GotoKeepsInv ==
    ASSUME RunnerInv, TypeOK', NEW p \in Procs, NEW s \in Stages \ {"next", "compare", "exited"},
           stage[p] # "exited", s = "killed" \/ UnderWay(p),
           Goto(p, s), SeedingFits(p, s)
    PROVE  RunnerInv'
<1> USE DEF RunnerInv
<1>1. /\ stage' = [stage EXCEPT ![p] = s]
      /\ UNCHANGED <<at, outcome, body, truthful, exit>>
  BY DEF Goto
<1>2. /\ stage'[p] = s
      /\ \A q \in Procs \ {p} : stage'[q] = stage[q]
  BY <1>1 DEF RunnerTypeOK
<1>3. RunnerTypeOK'
  BY <1>1 DEF RunnerTypeOK
<1>4. StageMatchesSeeding'
  BY <1>1, <1>2 DEF StageMatchesSeeding, SeedingFits, Cur
<1>5. CurrentIsOpen'
  BY <1>1, <1>2 DEF CurrentIsOpen, UnderWay
<1>6. AnswerIsJudged'
  BY <1>1, <1>2, AcceptedIsRigid DEF AnswerIsJudged, Cur
<1>7. VerdictTruthful'
  BY <1>1 DEF VerdictTruthful
<1>8. ExitVouches'
  BY <1>1, <1>2 DEF ExitVouches
<1> QED
  BY <1>3, <1>4, <1>5, <1>6, <1>7, <1>8

(* A step that leaves the seedings and the runner's variables as they are. *)
LEMMA QuietKeepsInv ==
    ASSUME RunnerInv, TypeOK', UNCHANGED <<pc, man, runnerVars>>
    PROVE  RunnerInv'
<1> USE DEF RunnerInv, runnerVars
<1>1. RunnerTypeOK'
  BY DEF RunnerTypeOK
<1>2. StageMatchesSeeding' /\ CurrentIsOpen' /\ VerdictTruthful' /\ ExitVouches'
  BY DEF StageMatchesSeeding, CurrentIsOpen, UnderWay, VerdictTruthful, ExitVouches, Cur
<1>3. AnswerIsJudged'
  BY AcceptedIsRigid DEF AnswerIsJudged, Cur
<1> QED
  BY <1>1, <1>2, <1>3

(* A process turns to its next scenario.                                   *)
LEMMA NextScenarioKeepsInv ==
    ASSUME RunnerInv, TypeOK', NEW p \in Procs, NextScenario(p)
    PROVE  RunnerInv'
<1> USE DEF RunnerInv
<1>1. /\ at[p] \in Nat /\ at[p] < Len(Chosen[p]) /\ Len(Chosen[p]) \in Nat
      /\ at' = [at EXCEPT ![p] = @ + 1]
  BY RunnerAssumption DEF NextScenario, RunnerTypeOK
<1>2. /\ stage[p] = "next" /\ stage'[p] \in {"oracle", "gate"}
      /\ stage' \in [Procs -> Stages]
      /\ at'[p] = at[p] + 1 /\ at'[p] <= Len(Chosen[p]) /\ at' \in [Procs -> Nat]
      /\ \A q \in Procs \ {p} : stage'[q] = stage[q] /\ at'[q] = at[q]
      /\ UNCHANGED <<pc, man, outcome, body, truthful, exit>>
  BY <1>1 DEF NextScenario, RunnerTypeOK, Stages, seederVars
<1>3. pc[p] = "idle"
  BY <1>2 DEF StageMatchesSeeding, InStore, RunnerTypeOK, TypeOK
<1>4. RunnerTypeOK'
  BY <1>2 DEF RunnerTypeOK
<1>5. StageMatchesSeeding'
  BY <1>2, <1>3 DEF StageMatchesSeeding, InStore, Cur
<1>6. CurrentIsOpen'
  <2>1. at[p] = Len(outcome[p]) + 0 /\ Len(outcome[p]) \in Nat
    BY <1>1, <1>2 DEF CurrentIsOpen, UnderWay, RunnerTypeOK
  <2>2. at'[p] = Len(outcome'[p]) + 1
    BY <1>2, <2>1
  <2> QED
    BY <1>2, <2>2 DEF CurrentIsOpen, UnderWay
<1>7. AnswerIsJudged'
  BY <1>2, AcceptedIsRigid DEF AnswerIsJudged, Cur
<1>8. VerdictTruthful' /\ ExitVouches'
  BY <1>2 DEF VerdictTruthful, ExitVouches
<1> QED
  BY <1>4, <1>5, <1>6, <1>7, <1>8

(* The answer is judged against the store of this very moment, which holds *)
(* the fixtures; the verdicts given before are about other manifests.      *)
LEMMA ValidateKeepsInv ==
    ASSUME RunnerInv, TypeOK', SeededInputsMatch, CandidatesComplete,
           NEW p \in Procs, Validate(p)
    PROVE  RunnerInv'
<1> USE DEF RunnerInv
<1>1. PICK b \in Answers(Cur(p)) :
         /\ body' = [body EXCEPT ![p] = b]
         /\ truthful' = [truthful EXCEPT ![p] =
               IF Truthful(Cur(p), b) THEN @ \cup {at[p]} ELSE @ \ {at[p]}]
  BY DEF Validate
<1>2. Cur(p) \in Manifests /\ at[p] \in Nat /\ at[p] \notin DOMAIN outcome[p]
  BY OpenPlace DEF Validate, UnderWay
<1>3. /\ stage[p] = "ask" /\ stage'[p] = "compare" /\ stage' \in [Procs -> Stages]
      /\ \A q \in Procs \ {p} :
            stage'[q] = stage[q] /\ body'[q] = body[q] /\ truthful'[q] = truthful[q]
      /\ body'[p] = b /\ DOMAIN body' = Procs
      /\ \A n \in DOMAIN outcome[p] : n \in truthful'[p] <=> n \in truthful[p]
      /\ at[p] \in truthful'[p] <=> Truthful(Cur(p), b)
      /\ truthful' \in [Procs -> SUBSET Nat]
      /\ UNCHANGED <<pc, man, at, outcome, exit>>
  BY <1>1, <1>2 DEF Validate, RunnerTypeOK, Stages, seederVars
<1>4. RunnerTypeOK'
  BY <1>3 DEF RunnerTypeOK
<1>5. StageMatchesSeeding' /\ CurrentIsOpen' /\ ExitVouches'
  <2>1. StageMatchesSeeding'
    BY <1>3 DEF StageMatchesSeeding, InStore, Cur
  <2>2. CurrentIsOpen'
    BY <1>3 DEF CurrentIsOpen, UnderWay
  <2>3. ExitVouches'
    BY <1>3 DEF ExitVouches
  <2> QED
    BY <2>1, <2>2, <2>3
<1>6. ASSUME ~Options[p].skip_seeding
      PROVE  at[p] \in truthful'[p] <=> Accepted(Cur(p), b)
  <2>1. FixturesIn(Cur(p))
    BY <1>3, <1>6 DEF StageMatchesSeeding, InStore, SeededInputsMatch, FixturesIn
  <2> QED
    BY <2>1, <1>2, <1>3, AnswerAccepted
<1>7. AnswerIsJudged'
  BY <1>3, <1>6, AcceptedIsRigid DEF AnswerIsJudged, Cur
<1>8. VerdictTruthful'
  BY <1>3 DEF VerdictTruthful
<1> QED
  BY <1>4, <1>5, <1>7, <1>8

(* It exits.                                                               *)
LEMMA ExitKeepsInv ==
    ASSUME RunnerInv, TypeOK', NEW p \in Procs, Exit(p)
    PROVE  RunnerInv'
<1> USE DEF RunnerInv
<1>1. /\ stage[p] = "next" /\ stage'[p] = "exited" /\ stage' \in [Procs -> Stages]
      /\ at[p] = Len(Chosen[p])
      /\ exit'[p] \in {"success", "failure"}
      /\ exit'[p] = "success" => \A n \in DOMAIN Chosen[p] : outcome[p][n] = "pass"
      /\ exit' \in [Procs -> {"running", "success", "failure"}]
      /\ \A q \in Procs \ {p} : stage'[q] = stage[q] /\ exit'[q] = exit[q]
      /\ UNCHANGED <<pc, man, at, outcome, body, truthful>>
  BY DEF Exit, RunnerTypeOK, Stages, seederVars
<1>2. Len(outcome[p]) = Len(Chosen[p])
  <2>1. at[p] = Len(outcome[p]) + 0 /\ Len(outcome[p]) \in Nat
    BY <1>1 DEF CurrentIsOpen, UnderWay, RunnerTypeOK
  <2> QED
    BY <1>1, <2>1
<1>3. RunnerTypeOK'
  BY <1>1 DEF RunnerTypeOK
<1>4. StageMatchesSeeding' /\ CurrentIsOpen' /\ VerdictTruthful'
  <2>1. StageMatchesSeeding'
    BY <1>1 DEF StageMatchesSeeding, InStore, Cur
  <2>2. CurrentIsOpen'
    BY <1>1 DEF CurrentIsOpen, UnderWay
  <2>3. VerdictTruthful'
    BY <1>1 DEF VerdictTruthful
  <2> QED
    BY <2>1, <2>2, <2>3
<1>5. ExitVouches'
  BY <1>1, <1>2 DEF ExitVouches
<1>6. AnswerIsJudged'
  BY <1>1, AcceptedIsRigid DEF AnswerIsJudged, Cur
<1> QED
  BY <1>3, <1>4, <1>5, <1>6

(* Any step of a process of its own.                                       *)
LEMMA RunStepKeepsInv ==
    ASSUME RunnerInv, TypeOK', SeededInputsMatch, CandidatesComplete,
           NEW p \in Procs, RunStep(p)
    PROVE  RunnerInv'
<1> USE DEF UnderWay, Outcomes, Cur
<1>1. /\ TypeOK /\ stage[p] \in Stages
      /\ stage[p] = "seeding" <=> pc[p] = "seeding"
      /\ pc[p] = "seeded" => stage[p] \in InStore
      /\ stage[p] \in InStore /\ ~Options[p].skip_seeding => pc[p] = "seeded"
      /\ pc[p] # "idle" => man[p] = Cur(p)
      /\ pc[p] \in {"idle", "seeding", "seeded"}
  BY DEF RunnerInv, RunnerTypeOK, StageMatchesSeeding, TypeOK
<1>2. CASE NextScenario(p)
  BY <1>2, NextScenarioKeepsInv
<1>3. CASE Gate(p)
  <2>1. SeedingFits(p, "oracle") /\ SeedingFits(p, "next")
    BY <1>1, <1>3 DEF Gate, SeedingFits, InStore, seederVars
  <2> QED
    BY <2>1, <1>3, ConcludeKeepsInv, GotoKeepsInv DEF Gate, Stages
<1>4. CASE Derive(p)
  <2>1. stage[p] = "oracle" /\ UNCHANGED <<pc, man>>
    BY <1>4 DEF Derive, seederVars
  <2>2. CASE Goto(p, IF Options[p].skip_seeding THEN "sut" ELSE "seed")
    <3>1. SeedingFits(p, IF Options[p].skip_seeding THEN "sut" ELSE "seed")
      BY <1>1, <2>1 DEF SeedingFits, InStore
    <3> QED
      BY <2>1, <2>2, <3>1, GotoKeepsInv DEF Stages
  <2>3. CASE Conclude(p, "error")
    <3>1. SeedingFits(p, "next")
      BY <1>1, <2>1 DEF SeedingFits, InStore
    <3> QED
      BY <2>1, <2>3, <3>1, ConcludeKeepsInv
  <2> QED
    BY <1>4, <2>2, <2>3 DEF Derive
<1>5. CASE SeedHealth(p)
  <2>1. stage[p] = "seed"
    BY <1>5 DEF SeedHealth
  <2>2. CASE Begin(p, Cur(p)) /\ Goto(p, "seeding")
    <3>1. SeedingFits(p, "seeding")
      BY <1>1, <2>2, SeedingMoves DEF SeedingFits, InStore, Goto
    <3> QED
      BY <2>1, <2>2, <3>1, GotoKeepsInv DEF Stages
  <2>3. CASE UNCHANGED seederVars /\ Conclude(p, "error")
    <3>1. SeedingFits(p, "next")
      BY <1>1, <2>1, <2>3 DEF SeedingFits, InStore, seederVars
    <3> QED
      BY <2>1, <2>3, <3>1, ConcludeKeepsInv
  <2> QED
    BY <1>5, <2>2, <2>3 DEF SeedHealth
<1>6. CASE SeedCall(p)
  BY <1>1, <1>6, SeedingMoves, QuietKeepsInv DEF SeedCall
<1>7. CASE SeedEnd(p)
  <2>1. stage[p] = "seeding" /\ SeedingFits(p, "sut")
    BY <1>1, <1>7, SeedingMoves DEF SeedEnd, SeedingFits, InStore, Goto
  <2> QED
    BY <1>7, <2>1, GotoKeepsInv DEF SeedEnd, Stages
<1>8. CASE SeedError(p)
  <2>1. stage[p] = "seeding" /\ SeedingFits(p, "next")
    BY <1>1, <1>8, SeedingMoves DEF SeedError, SeedingFits, InStore
  <2> QED
    BY <1>8, <2>1, ConcludeKeepsInv DEF SeedError
<1>9. ASSUME stage[p] \in InStore, LeaveStore(p)
      PROVE  SeedingFits(p, "next")
  BY <1>1, <1>9, SeedingMoves DEF SeedingFits, InStore
<1>10. CASE SkipSut(p)
  BY <1>9, <1>10, ConcludeKeepsInv DEF SkipSut, InStore
<1>11. CASE SutHealth(p)
  <2>1. stage[p] = "sut"
    BY <1>11 DEF SutHealth
  <2>2. CASE Goto(p, "ask") /\ UNCHANGED seederVars
    <3>1. SeedingFits(p, "ask")
      BY <1>1, <2>1, <2>2 DEF SeedingFits, InStore, Goto, seederVars
    <3> QED
      BY <2>1, <2>2, <3>1, GotoKeepsInv DEF Stages
  <2>3. CASE Conclude(p, "error") /\ LeaveStore(p)
    BY <1>9, <2>1, <2>3, ConcludeKeepsInv DEF InStore
  <2> QED
    BY <1>11, <2>2, <2>3 DEF SutHealth
<1>12. CASE Validate(p)
  BY <1>12, ValidateKeepsInv
<1>13. CASE SutError(p)
  BY <1>9, <1>13, ConcludeKeepsInv DEF SutError, InStore
<1>14. CASE CompareError(p)
  BY <1>9, <1>14, ConcludeKeepsInv DEF CompareError, InStore
<1>15. CASE CompareBody(p)
  <2> DEFINE same == Compare(Asserted[Cur(p)], Expected(Cur(p)), Normalise(body[p]))
  <2>1. /\ stage[p] = "compare" /\ body[p] # Malformed /\ LeaveStore(p)
        /\ Conclude(p, IF same THEN "pass" ELSE "fail")
    BY <1>15 DEF CompareBody
  <2>2. Accepted(Cur(p), body[p]) <=> same
    BY <2>1 DEF Accepted
  <2>3. SeedingFits(p, "next")
    BY <1>9, <2>1 DEF InStore
  <2> HIDE DEF same
  <2> QED
    BY <2>1, <2>2, <2>3, ConcludeKeepsInv
<1>16. CASE Exit(p)
  BY <1>16, ExitKeepsInv
<1> QED
  BY <1>2, <1>3, <1>4, <1>5, <1>6, <1>7, <1>8, <1>10, <1>11, <1>12, <1>13, <1>14, <1>15, <1>16
     DEF RunStep

(* It is killed.                                                           *)
LEMMA KillKeepsInv ==
    ASSUME RunnerInv, TypeOK', NEW p \in Procs, Kill(p)
    PROVE  RunnerInv'
<1>1. TypeOK /\ (pc[p] # "idle" => man[p] = Cur(p))
  BY DEF RunnerInv, RunnerTypeOK, StageMatchesSeeding
<1>2. Fail(p) \/ (LeaveStore(p) /\ pc[p] # "seeding")
  BY DEF Kill
<1>3. SeedingFits(p, "killed")
  BY <1>1, <1>2, SeedingMoves DEF Kill, Goto, SeedingFits, InStore, Cur
<1> QED
  BY <1>3, GotoKeepsInv DEF Kill, Stages

(* Every step keeps the runner's invariant, given the seeder's.            *)
LEMMA RunnerStepInv ==
    ASSUME RunnerInv, SeederInv, SeederInv', CandidatesComplete, [RunnerNext]_vars
    PROVE  RunnerInv'
<1>1. TypeOK' /\ SeededInputsMatch
  BY DEF SeederInv, Settled, AllWritten, SeededInputsMatch
<1>2. ASSUME NEW w \in late, Land(w), UNCHANGED runnerVars
      PROVE  RunnerInv'
  BY <1>1, <1>2, QuietKeepsInv DEF Land
<1>3. CASE UNCHANGED vars
  BY <1>1, <1>3, QuietKeepsInv DEF vars, seederVars
<1> QED
  BY <1>1, <1>2, <1>3, RunStepKeepsInv, KillKeepsInv DEF RunnerNext

(* The strengthened invariant, for every instance whose seedings do not    *)
(* interfere and whose manifests probe every archetype of the policy.      *)
THEOREM RunnerInvariance ==
    ASSUME NoInterference, CandidatesComplete
    PROVE  RunnerSpec => []RunnerInv
<1>1. RunnerInit => RunnerInv
  BY RunnerInitInv
<1>2. RunnerInv /\ SeederInv /\ SeederInv' /\ [RunnerNext]_vars => RunnerInv'
  BY RunnerStepInv
<1>3. RunnerSpec => []SeederInv
  BY RunsSeed, SeederInvariance, PTL
<1>4. RunnerSpec => RunnerSafeSpec
  BY PTL DEF RunnerSpec
<1> QED
  BY <1>1, <1>2, <1>3, <1>4, PTL DEF RunnerSafeSpec

(* A pass or a fail of a seeded scenario is about the Policy Enforcer: its *)
(* answer was, or was not, the policy's decision on the fixtures; however  *)
(* many processes run, and whatever calls fail or processes are killed.    *)
THEOREM VerdictsAreTruthful ==
    ASSUME NoInterference, CandidatesComplete
    PROVE  RunnerSpec => []VerdictTruthful
<1>1. RunnerInv => VerdictTruthful
  BY DEF RunnerInv
<1> QED
  BY <1>1, RunnerInvariance, PTL

(* Exit code 0 of a seeding run vouches for a truthful answer to each of   *)
(* the chosen scenarios.                                                   *)
THEOREM ExitZeroVouches ==
    ASSUME NoInterference, CandidatesComplete
    PROVE  RunnerSpec => []ExitZeroSound
<1>1. RunnerInv => ExitZeroSound
  <2> SUFFICES ASSUME RunnerInv, NEW p \in Procs, exit[p] = "success",
                      ~Options[p].skip_seeding, NEW n \in DOMAIN Chosen[p]
               PROVE  n \in truthful[p]
    BY DEF ExitZeroSound
  <2>1. Len(outcome[p]) = Len(Chosen[p]) /\ outcome[p][n] = "pass"
    BY DEF RunnerInv, ExitVouches
  <2>2. n \in DOMAIN outcome[p]
    <3>1. outcome[p] \in Seq(Outcomes) /\ Chosen[p] \in Seq(Manifests)
      BY RunnerAssumption DEF RunnerInv, RunnerTypeOK
    <3> QED
      BY <2>1, <3>1
  <2> QED
    BY <2>1, <2>2 DEF RunnerInv, VerdictTruthful
<1> QED
  BY <1>1, RunnerInvariance, PTL

(* Only a scenario that is not concluded writes to the store or is put to  *)
(* the Policy Enforcer: an inconsistent one never is again.                *)
THEOREM ConcludedRunsRest ==
    ASSUME NoInterference, CandidatesComplete
    PROVE  RunnerSpec => OnlyConsistentRunsWrite
<1> DEFINE Quiet == \A p \in Procs :
              done'[p] # done[p] \/ body'[p] # body[p] => at[p] \notin DOMAIN outcome[p]
<1>1. RunnerInv /\ [RunnerNext]_vars => [Quiet]_vars
  <2> SUFFICES ASSUME RunnerInv, RunnerNext, NEW p \in Procs, at[p] \in DOMAIN outcome[p]
               PROVE  done'[p] = done[p] /\ body'[p] = body[p]
    OBVIOUS
  <2>1. /\ stage[p] \in {"next", "exited", "killed"} /\ pc[p] # "seeding"
        /\ done \in [Procs -> SUBSET Keys]
    BY OpenPlace DEF RunnerInv, UnderWay, StageMatchesSeeding, RunnerTypeOK, TypeOK
  <2>2. ASSUME NEW q \in Procs, LeaveStore(q) \/ Fail(q) \/ Finish(q) \/ UNCHANGED seederVars
        PROVE  UNCHANGED done
    BY <2>2 DEF LeaveStore, Release, Fail, Finish, seederVars
  <2>3. ASSUME NEW q \in Procs, NEW s, Goto(q, s) \/ Conclude(q, s)
        PROVE  UNCHANGED body
    BY <2>3 DEF Goto, Conclude
  <2>4. ASSUME NEW q \in Procs, RunStep(q)
        PROVE  done'[p] = done[p] /\ body'[p] = body[p]
    <3>1. CASE NextScenario(q) \/ Exit(q)
      BY <3>1, <2>2 DEF NextScenario, Exit
    <3>2. CASE SeedHealth(q)
      BY <2>1, <2>2, <2>3, <3>2 DEF SeedHealth, Begin
    <3>3. CASE SeedCall(q)
      BY <2>1, <3>3 DEF SeedCall, Put, Delete, Write, runnerVars
    <3>4. CASE Validate(q)
      BY <2>1, <2>2, <3>4 DEF Validate
    <3>5. CASE Gate(q) \/ Derive(q) \/ SeedEnd(q) \/ SeedError(q) \/ SkipSut(q)
               \/ SutHealth(q) \/ SutError(q) \/ CompareError(q) \/ CompareBody(q)
      BY <2>2, <2>3, <3>5 DEF Gate, Derive, SeedEnd, SeedError, SkipSut, SutHealth,
                              SutError, CompareError, CompareBody
    <3> QED
      BY <2>4, <3>1, <3>2, <3>3, <3>4, <3>5 DEF RunStep
  <2>5. ASSUME NEW q \in Procs, Kill(q)
        PROVE  done' = done /\ body' = body
    BY <2>2, <2>3, <2>5 DEF Kill
  <2>6. ASSUME NEW w \in late, Land(w), UNCHANGED runnerVars
        PROVE  done' = done /\ body' = body
    BY <2>6 DEF Land, runnerVars
  <2> QED
    BY <2>4, <2>5, <2>6 DEF RunnerNext
<1>2. RunnerSpec => RunnerSafeSpec
  BY PTL DEF RunnerSpec
<1> QED
  BY <1>1, <1>2, RunnerInvariance, PTL DEF RunnerSafeSpec, OnlyConsistentRunsWrite

-----------------------------------------------------------------------------
(* Runner implements DifferentialTest: every step of every run is a        *)
(* judgement, the end of a run, or of no matter to its verdicts.           *)

(* The scenarios of p that are judged, and whose answer agreed.            *)
AgreedBy(p) == {n \in truthful[p] \cap DOMAIN outcome[p] : outcome[p][n] \in Test!Answered}

(* Steps that judge nothing, the answer to the scenario under way included. *)
LEMMA QuietStep ==
    ASSUME UNCHANGED <<outcome, exit>>,
           \A p \in Procs : \A n \in DOMAIN outcome[p] : n \in truthful'[p] <=> n \in truthful[p]
    PROVE  UNCHANGED Test!testVars
<1>1. \A p \in Procs : AgreedBy(p)' = AgreedBy(p)
  BY DEF AgreedBy
<1> QED
  BY <1>1 DEF Test!testVars, AgreedBy, Test!Answered

(* The end of a scenario is a judgement, whatever phase it ends in.        *)
LEMMA ConcludeJudges ==
    ASSUME RunnerInv, VerdictTruthful', NEW p \in Procs, NEW o \in Test!Verdicts,
           UnderWay(p), Conclude(p, o)
    PROVE  Test!Next
<1> SUFFICES ASSUME NEW n, n = at[p]
             PROVE  Test!Next
  OBVIOUS
<1>0. Test!Judge(p, o) => Test!Next
  BY DEF Test!Next
<1>1. /\ exit[p] = "running" /\ Len(outcome[p]) < Len(Chosen[p])
      /\ outcome[p] \in Seq(Outcomes) /\ DOMAIN outcome = Procs
      /\ n = Len(outcome[p]) + 1 /\ n \notin DOMAIN outcome[p]
  <2>1. exit[p] = "running" /\ DOMAIN outcome = Procs
    BY DEF RunnerInv, ExitVouches, UnderWay, RunnerTypeOK
  <2> QED
    BY <2>1, OpenPlace
<1>2. /\ outcome' = [outcome EXCEPT ![p] = Append(@, o)]
      /\ UNCHANGED <<truthful, exit>>
  BY DEF Conclude
<1>3. /\ DOMAIN outcome'[p] = DOMAIN outcome[p] \cup {n} /\ outcome'[p][n] = o
      /\ \A k \in DOMAIN outcome[p] : outcome'[p][k] = outcome[p][k]
      /\ \A q \in Procs \ {p} : outcome'[q] = outcome[q]
  <2>1. outcome'[p] = Append(outcome[p], o) /\ \A q \in Procs \ {p} : outcome'[q] = outcome[q]
    BY <1>1, <1>2
  <2>2. o \in Outcomes
    BY DEF Test!Verdicts, Test!Answered, Outcomes
  <2> QED
    BY <1>1, <2>1, <2>2, Appended
<1>4. \A q \in Procs \ {p} : AgreedBy(q)' = AgreedBy(q)
  BY <1>2, <1>3 DEF AgreedBy
<1>5. ~Options[p].skip_seeding /\ o \in Test!Answered => (o = "pass" <=> n \in truthful[p])
  <2>1. /\ n \in DOMAIN outcome'[p] /\ outcome'[p][n] = o
        /\ n \in truthful'[p] <=> n \in truthful[p]
    BY <1>2, <1>3
  <2>2. ~Options[p].skip_seeding /\ outcome'[p][n] \in {"pass", "fail"}
          => (outcome'[p][n] = "pass" <=> n \in truthful'[p])
    BY <2>1 DEF VerdictTruthful
  <2> QED
    BY <2>1, <2>2 DEF Test!Answered
<1>6. CASE n \in truthful[p] /\ o \in Test!Answered
  <2>1. AgreedBy(p)' = AgreedBy(p) \cup {n}
    BY <1>1, <1>2, <1>3, <1>6 DEF AgreedBy
  <2>2. [q \in Procs |-> AgreedBy(q)]'
          = [[q \in Procs |-> AgreedBy(q)] EXCEPT ![p] = @ \cup {Len(outcome[p]) + 1}]
    BY <1>1, <1>4, <2>1
  <2>3. Test!Judge(p, o)
    BY <1>1, <1>2, <1>5, <1>6, <2>2 DEF Test!Judge, AgreedBy, Test!Answered
  <2> QED
    BY <2>3, <1>0
<1>7. CASE ~(n \in truthful[p] /\ o \in Test!Answered)
  <2>1. AgreedBy(p)' = AgreedBy(p)
    BY <1>1, <1>2, <1>3, <1>7 DEF AgreedBy
  <2>2. Test!Judge(p, o)
    BY <1>1, <1>2, <1>4, <1>5, <1>7, <2>1 DEF Test!Judge, AgreedBy, Test!Answered
  <2> QED
    BY <2>2, <1>0
<1> QED
  BY <1>6, <1>7

(* The exit code is that of the abstract test.                             *)
LEMMA ExitCloses ==
    ASSUME RunnerInv, NEW p \in Procs, Exit(p)
    PROVE  Test!Next
<1>1. /\ exit[p] = "running" /\ stage[p] = "next" /\ UNCHANGED <<outcome, truthful>>
      /\ at[p] = Len(Chosen[p])
      /\ exit' = [exit EXCEPT ![p] =
            IF \A n \in DOMAIN Chosen[p] : outcome[p][n] = "pass" THEN "success" ELSE "failure"]
  BY DEF RunnerInv, RunnerTypeOK, ExitVouches, Exit
<1>2. Len(outcome[p]) = Len(Chosen[p])
  <2>1. at[p] = Len(outcome[p]) + 0 /\ outcome[p] \in Seq(Outcomes)
    BY <1>1 DEF RunnerInv, CurrentIsOpen, UnderWay, RunnerTypeOK
  <2> QED
    BY <1>1, <2>1
<1>3. Test!Close(p)
  BY <1>1, <1>2 DEF Test!Close
<1> QED
  BY <1>3 DEF Test!Next

(* The answer of the enforcer is about a scenario that is not judged yet.  *)
LEMMA ValidateIsQuiet ==
    ASSUME RunnerInv, NEW p \in Procs, Validate(p)
    PROVE  UNCHANGED Test!testVars
<1>1. UNCHANGED <<outcome, exit>> /\ truthful \in [Procs -> SUBSET Nat]
  BY DEF Validate, RunnerInv, RunnerTypeOK
<1>2. at[p] \notin DOMAIN outcome[p]
  BY OpenPlace DEF Validate, UnderWay
<1>3. \A q \in Procs : \A n \in DOMAIN outcome[q] : n \in truthful'[q] <=> n \in truthful[q]
  BY <1>1, <1>2 DEF Validate
<1> QED
  BY <1>1, <1>3, QuietStep

(* A step of a process is one of the abstract test, or none.               *)
LEMMA RunStepIsTestStep ==
    ASSUME RunnerInv, VerdictTruthful', NEW p \in Procs, RunStep(p)
    PROVE  Test!Next \/ UNCHANGED Test!testVars
<1> USE DEF UnderWay
<1>1. ASSUME NEW s, Goto(p, s)
      PROVE  UNCHANGED Test!testVars
  BY <1>1, QuietStep DEF Goto
<1>2. {"inconsistent", "error", "skipped", "pass", "fail"} \subseteq Test!Verdicts
  BY DEF Test!Verdicts, Test!Answered
<1>3. CASE NextScenario(p)
  BY <1>3, QuietStep DEF NextScenario
<1>4. CASE Gate(p)
  BY <1>1, <1>2, <1>4, ConcludeJudges DEF Gate
<1>5. CASE Derive(p)
  <2>1. stage[p] = "oracle"
    BY <1>5 DEF Derive
  <2>2. CASE Conclude(p, "error")
    BY <1>2, <2>1, <2>2, ConcludeJudges
  <2>3. CASE ~Conclude(p, "error")
    BY <1>1, <1>5, <2>3 DEF Derive
  <2> QED
    BY <2>2, <2>3
<1>6. CASE SeedHealth(p)
  BY <1>1, <1>2, <1>6, ConcludeJudges DEF SeedHealth
<1>7. CASE SeedCall(p)
  BY <1>7, QuietStep DEF SeedCall, runnerVars
<1>8. CASE SeedEnd(p)
  BY <1>1, <1>8 DEF SeedEnd
<1>9. CASE SeedError(p)
  <2>1. stage[p] = "seeding"
    BY <1>9 DEF SeedError, Fail, RunnerInv, StageMatchesSeeding
  <2> QED
    BY <1>2, <1>9, <2>1, ConcludeJudges DEF SeedError
<1>10. CASE SkipSut(p)
  BY <1>2, <1>10, ConcludeJudges DEF SkipSut
<1>11. CASE SutHealth(p)
  BY <1>1, <1>2, <1>11, ConcludeJudges DEF SutHealth
<1>12. CASE Validate(p)
  BY <1>12, ValidateIsQuiet
<1>13. CASE SutError(p)
  BY <1>2, <1>13, ConcludeJudges DEF SutError
<1>14. CASE CompareError(p)
  BY <1>2, <1>14, ConcludeJudges DEF CompareError
<1>15. CASE CompareBody(p)
  <2> DEFINE same == Compare(Asserted[Cur(p)], Expected(Cur(p)), Normalise(body[p]))
  <2>1. stage[p] = "compare" /\ Conclude(p, IF same THEN "pass" ELSE "fail")
    BY <1>15 DEF CompareBody
  <2> HIDE DEF same
  <2> QED
    BY <1>2, <2>1, ConcludeJudges
<1>16. CASE Exit(p)
  BY <1>16, ExitCloses
<1> QED
  BY <1>3, <1>4, <1>5, <1>6, <1>7, <1>8, <1>9, <1>10, <1>11, <1>12, <1>13, <1>14, <1>15, <1>16
     DEF RunStep

(* Whole runs, with several processes, failing calls and kills, implement  *)
(* the abstract differential test.                                         *)
THEOREM RunsAreTests ==
    ASSUME NoInterference, CandidatesComplete
    PROVE  RunnerSpec => ImplementsTest
<1>1. RunnerInit => Test!Init
  <2> SUFFICES ASSUME RunnerInit
               PROVE  Test!Init
    OBVIOUS
  <2>1. \A p \in Procs : AgreedBy(p) = {}
    BY DEF RunnerInit, AgreedBy
  <2> QED
    BY <2>1 DEF RunnerInit, AgreedBy, Test!Init, Test!Answered
<1>2. RunnerInv /\ RunnerInv' /\ [RunnerNext]_vars => [Test!Next]_(Test!testVars)
  <2> SUFFICES ASSUME RunnerInv, RunnerInv', [RunnerNext]_vars
               PROVE  Test!Next \/ UNCHANGED Test!testVars
    OBVIOUS
  <2>1. VerdictTruthful'
    BY DEF RunnerInv
  <2>2. ASSUME NEW p \in Procs, Kill(p)
        PROVE  UNCHANGED Test!testVars
    BY <2>2, QuietStep DEF Kill, Goto
  <2>3. CASE UNCHANGED runnerVars
    BY <2>3, QuietStep DEF runnerVars
  <2> QED
    BY <2>1, <2>2, <2>3, RunStepIsTestStep DEF RunnerNext, vars
<1>3. RunnerSpec => RunnerSafeSpec
  BY PTL DEF RunnerSpec
<1> QED
  BY <1>1, <1>2, <1>3, RunnerInvariance, PTL DEF RunnerSafeSpec, ImplementsTest, Test!Spec
=============================================================================
