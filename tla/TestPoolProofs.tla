--------------------------- MODULE TestPoolProofs ---------------------------
(***************************************************************************)
(* The bound on threads and the collection of outputs hold for any number  *)
(* of tests, any -j, and any order in which threads run, end and die.      *)
(***************************************************************************)
EXTENDS TestPool, FiniteSetTheorems, TLAPS

-----------------------------------------------------------------------------
(* What the loops do to a sequence of handles.                             *)

LEMMA RangeOfAppend ==
    ASSUME NEW S, NEW s \in Seq(S), NEW e \in S
    PROVE  /\ Append(s, e) \in Seq(S) /\ Len(Append(s, e)) = Len(s) + 1
           /\ Range(Append(s, e)) = Range(s) \cup {e}
           /\ IsInjective(s) /\ e \notin Range(s) => IsInjective(Append(s, e))
<1>1. /\ DOMAIN s = 1..Len(s) /\ DOMAIN Append(s, e) = 1..(Len(s) + 1)
      /\ \A i \in 1..Len(s) : Append(s, e)[i] = s[i]
      /\ Append(s, e)[Len(s) + 1] = e
      /\ Len(s) \in Nat
  OBVIOUS
<1>2. Range(Append(s, e)) = Range(s) \cup {e}
  BY <1>1 DEF Range
<1>3. IsInjective(s) /\ e \notin Range(s) => IsInjective(Append(s, e))
  BY <1>1 DEF Range, IsInjective
<1> QED
  BY <1>2, <1>3

LEMMA RangeOfTail ==
    ASSUME NEW S, NEW s \in Seq(S), s # <<>>
    PROVE  /\ Tail(s) \in Seq(S) /\ Len(Tail(s)) = Len(s) - 1
           /\ Head(s) \in S /\ Head(s) \in Range(s)
           /\ Range(s) = Range(Tail(s)) \cup {Head(s)}
           /\ IsInjective(s) => IsInjective(Tail(s)) /\ Head(s) \notin Range(Tail(s))
<1>1. /\ DOMAIN s = 1..Len(s) /\ DOMAIN Tail(s) = 1..(Len(s) - 1)
      /\ \A i \in 1..(Len(s) - 1) : Tail(s)[i] = s[i + 1]
      /\ Head(s) = s[1] /\ Len(s) \in Nat \ {0}
      /\ Tail(s) \in Seq(S) /\ Len(Tail(s)) = Len(s) - 1 /\ s[1] \in S
  OBVIOUS
<1>2. Head(s) \in Range(s) /\ Range(Tail(s)) \subseteq Range(s)
  BY <1>1 DEF Range
<1>3. ASSUME NEW x \in Range(s) PROVE x \in Range(Tail(s)) \cup {Head(s)}
  <2>1. PICK i \in 1..Len(s) : s[i] = x
    BY <1>1 DEF Range
  <2>2. CASE i = 1
    BY <2>1, <2>2, <1>1
  <2>3. CASE i # 1
    <3>1. i - 1 \in 1..(Len(s) - 1) /\ Tail(s)[i - 1] = x
      BY <2>1, <2>3, <1>1
    <3> QED
      BY <3>1, <1>1 DEF Range
  <2> QED
    BY <2>2, <2>3
<1>4. IsInjective(s) => IsInjective(Tail(s)) /\ Head(s) \notin Range(Tail(s))
  BY <1>1 DEF Range, IsInjective
<1> QED
  BY <1>1, <1>2, <1>3, <1>4

LEMMA RangeIsSmall ==
    ASSUME NEW S, NEW s \in Seq(S)
    PROVE  /\ IsFiniteSet(Range(s)) /\ Cardinality(Range(s)) <= Len(s)
           /\ Cardinality(Range(s)) \in Nat
<1>1. DOMAIN s = 1..Len(s) /\ Len(s) \in Nat
  OBVIOUS
<1>2. s \in Surjection(1..Len(s), Range(s))
  BY <1>1 DEF Surjection, Range
<1>3. IsFiniteSet(1..Len(s)) /\ Cardinality(1..Len(s)) = Len(s)
  BY <1>1, FS_Interval
<1> QED
  BY <1>2, <1>3, FS_Surjection, FS_CardinalityType

LEMMA RangeOfEmpty == Range(<<>>) = {} /\ IsInjective(<<>>) /\ Len(<<>>) = 0
  BY DEF Range, IsInjective

-----------------------------------------------------------------------------
(* The invariant.                                                          *)

LEMMA InitHolds == Init => PoolInv
<1> SUFFICES ASSUME Init PROVE PoolInv
  OBVIOUS
<1> USE PoolAssumption
<1>1. Kept = <<>> /\ scan = <<>> /\ outputs = <<>>
  BY DEF Init, Kept
<1>2. NoResult \in Results /\ ~NoResult.shown
  BY DEF NoResult, Results
<1>3. PoolTypeOK
  <2>1. <<>> \in Seq(Tests) /\ 1 \in 1..(found + 1)
    BY DEF Init
  <2>2. /\ thread \in [Tests -> {"new", "running", "stuck", "leaving", "signalled", "dead"}]
        /\ result \in [Tests -> Results]
    BY <1>2 DEF Init
  <2>3. handles \in Seq(Tests) /\ scan \in Seq(Tests) /\ outputs \in Seq(Tests)
    BY <2>1 DEF Init
  <2>4. /\ pc = "loop" /\ found \in 0..NTests /\ n_jobs \in Jobs /\ todo \in 1..(found + 1)
        /\ exit \in 0..2
    BY <2>1 DEF Init
  <2>5. event \in BOOLEAN /\ errored \in BOOLEAN
    BY Zenon DEF Init
  <2> QED
    BY <2>2, <2>3, <2>4, <2>5 DEF PoolTypeOK
<1> USE RangeOfEmpty
<1>4. ScanIdle /\ SpawnedInOrder /\ CountIsBounded
  BY <1>1 DEF Init, ScanIdle, SpawnedInOrder, CountIsBounded, Tests
<1>5. InOnePlace
  BY <1>1 DEF InOnePlace
<1>6. AliveIsCounted /\ DeadAreCollected
  BY <1>1, <1>2 DEF Init, AliveIsCounted, DeadAreCollected, Alive
<1> QED
  BY <1>3, <1>4, <1>5, <1>6 DEF PoolInv

(* The pool, its threads and their reports are as they were, and main is   *)
(* at another line.                                                        *)
LEMMA MainMoves ==
    ASSUME PoolInv, PoolTypeOK', ScanIdle', Kept' = Kept, scan' = scan,
           pc' \in {"join", "exited"} => todo > found,
           UNCHANGED <<found, n_jobs, todo, outputs, thread, result>>
    PROVE  PoolInv'
  BY DEF PoolInv, SpawnedInOrder, InOnePlace, AliveIsCounted, DeadAreCollected,
         CountIsBounded, Alive

LEMMA SpawnKeeps == ASSUME PoolInv, Spawn PROVE PoolInv'
<1> USE PoolAssumption
<1>1. /\ Kept = handles /\ Kept' = Append(handles, todo) /\ scan = <<>>
      /\ todo \in Tests /\ handles \in Seq(Tests)
  BY DEF PoolInv, PoolTypeOK, ScanIdle, Spawn, Kept, Tests
<1>2. /\ Range(Kept') = Range(Kept) \cup {todo} /\ Len(Kept') = Len(Kept) + 1
      /\ Kept' \in Seq(Tests) /\ Range(scan) = {} /\ Len(scan) = 0
  BY <1>1, RangeOfAppend, RangeOfEmpty
<1>3. /\ thread[todo] = "new" /\ todo \notin Range(Kept) /\ todo \notin Range(outputs)
  BY <1>1, <1>2 DEF PoolInv, PoolTypeOK, SpawnedInOrder, AliveIsCounted, DeadAreCollected, Tests
<1>4. /\ thread' \in [Tests -> {"new", "running", "stuck", "leaving", "signalled", "dead"}]
      /\ thread'[todo] = "running"
      /\ \A t \in Tests \ {todo} : thread'[t] = thread[t]
      /\ todo' = todo + 1
      /\ UNCHANGED <<found, n_jobs, pc, scan, outputs, event, result, errored, exit>>
  BY <1>1 DEF PoolInv, PoolTypeOK, Spawn
<1>5. PoolTypeOK'
  BY <1>1, <1>2, <1>4 DEF PoolInv, PoolTypeOK, Spawn, Tests
<1>6. ScanIdle' /\ CountIsBounded'
  BY <1>1, <1>2, <1>4 DEF PoolInv, PoolTypeOK, ScanIdle, CountIsBounded, Spawn
<1>7. SpawnedInOrder'
  BY <1>1, <1>4 DEF PoolInv, PoolTypeOK, SpawnedInOrder, Spawn, Tests
<1>8. InOnePlace'
  BY <1>1, <1>2, <1>3, <1>4, RangeOfAppend DEF PoolInv, InOnePlace
<1>9. AliveIsCounted'
  BY <1>2, <1>4 DEF PoolInv, AliveIsCounted, Alive
<1>10. DeadAreCollected'
  BY <1>1, <1>2, <1>3, <1>4 DEF PoolInv, DeadAreCollected
<1> QED
  BY <1>5, <1>6, <1>7, <1>8, <1>9, <1>10 DEF PoolInv

LEMMA WaitKeeps == ASSUME PoolInv, Wait PROVE PoolInv'
<1> USE RangeOfEmpty
<1>1. /\ Kept = handles /\ scan = <<>> /\ Kept' = <<>> /\ scan' = handles
      /\ UNCHANGED <<found, n_jobs, todo, outputs, thread, result>>
  BY DEF PoolInv, ScanIdle, Wait, Kept
<1>2. PoolTypeOK' /\ ScanIdle' /\ SpawnedInOrder'
  BY DEF PoolInv, PoolTypeOK, ScanIdle, SpawnedInOrder, Wait
<1>3. InOnePlace' /\ AliveIsCounted' /\ DeadAreCollected'
  BY <1>1 DEF PoolInv, InOnePlace, AliveIsCounted, DeadAreCollected, Alive
<1>4. CountIsBounded'
  BY <1>1 DEF PoolInv, PoolTypeOK, CountIsBounded
<1> QED
  BY <1>2, <1>3, <1>4 DEF PoolInv

LEMMA AllSpawnedKeeps == ASSUME PoolInv, AllSpawned PROVE PoolInv'
<1> USE RangeOfEmpty
<1>1. /\ Kept = handles /\ scan = <<>> /\ Kept' = <<>> /\ scan' = handles
      /\ UNCHANGED <<found, n_jobs, todo, outputs, thread, result>>
  BY DEF PoolInv, ScanIdle, AllSpawned, Kept
<1>2. PoolTypeOK' /\ ScanIdle' /\ SpawnedInOrder'
  BY DEF PoolInv, PoolTypeOK, ScanIdle, SpawnedInOrder, AllSpawned
<1>3. InOnePlace' /\ AliveIsCounted' /\ DeadAreCollected'
  BY <1>1 DEF PoolInv, InOnePlace, AliveIsCounted, DeadAreCollected, Alive
<1>4. CountIsBounded'
  BY <1>1 DEF PoolInv, PoolTypeOK, CountIsBounded
<1> QED
  BY <1>2, <1>3, <1>4 DEF PoolInv

(* The first thread of scan is dead: it leaves, and its output stays.       *)
LEMMA CollectKeeps ==
    ASSUME PoolInv, scan # <<>>, ~Alive(Head(scan)), pc \in {"prune", "join"},
           outputs' = Collected(Head(scan)), scan' = Tail(scan),
           UNCHANGED <<found, n_jobs, pc, todo, handles, event, thread, result, errored, exit>>
    PROVE  PoolInv'
<1>1. scan \in Seq(Tests) /\ outputs \in Seq(Tests) /\ Kept' = Kept
      /\ Len(scan) \in Nat /\ Len(Kept) \in Nat /\ n_jobs \in Nat
  BY PoolAssumption DEF PoolInv, PoolTypeOK, Kept
<1> DEFINE t == Head(scan)
<1>2. /\ scan' \in Seq(Tests) /\ Len(scan') = Len(scan) - 1
      /\ t \in Tests /\ t \in Range(scan)
      /\ Range(scan) = Range(scan') \cup {t}
      /\ IsInjective(scan) => IsInjective(scan') /\ t \notin Range(scan')
  BY <1>1, RangeOfTail
<1>3. t \notin Range(Kept) /\ t \notin Range(scan') /\ t \notin Range(outputs)
      /\ IsInjective(scan') /\ IsInjective(outputs)
  BY <1>2 DEF PoolInv, InOnePlace
<1>4. thread[t] = "dead"
  BY <1>2 DEF PoolInv, AliveIsCounted, Alive
<1> HIDE DEF t
<1>5. /\ outputs' \in Seq(Tests) /\ IsInjective(outputs')
      /\ Range(outputs') = IF result[t].shown THEN Range(outputs) \cup {t} ELSE Range(outputs)
  <2>1. CASE result[t].shown
    <3>1. outputs' = Append(outputs, t)
      BY <2>1 DEF Collected, t
    <3>2. outputs \in Seq(Tests) /\ t \in Tests /\ IsInjective(outputs) /\ t \notin Range(outputs)
      BY <1>1, <1>2, <1>3
    <3>3. /\ Append(outputs, t) \in Seq(Tests) /\ IsInjective(Append(outputs, t))
          /\ Range(Append(outputs, t)) = Range(outputs) \cup {t}
      BY <3>2, RangeOfAppend
    <3> QED
      BY <2>1, <3>1, <3>3
  <2>2. CASE ~result[t].shown
    <3>1. outputs' = outputs
      BY <2>2 DEF Collected, t
    <3> QED
      BY <2>2, <3>1, <1>1, <1>3
  <2> QED
    BY <2>1, <2>2
<1>6. PoolTypeOK'
  BY <1>2, <1>5 DEF PoolInv, PoolTypeOK
<1>7. ScanIdle' /\ SpawnedInOrder' /\ CountIsBounded'
  BY <1>1, <1>2 DEF PoolInv, ScanIdle, SpawnedInOrder, CountIsBounded
<1>8. InOnePlace'
  BY <1>1, <1>2, <1>3, <1>5 DEF PoolInv, InOnePlace
<1>9. AliveIsCounted'
  BY <1>1, <1>2, <1>4 DEF PoolInv, AliveIsCounted, Alive
<1>10. DeadAreCollected'
  BY <1>1, <1>2, <1>4, <1>5 DEF PoolInv, DeadAreCollected
<1> QED
  BY <1>6, <1>7, <1>8, <1>9, <1>10 DEF PoolInv

(* A thread that is alive stays in the pool.                                *)
LEMMA PruneKeeps == ASSUME PoolInv, Prune PROVE PoolInv'
<1>1. CASE ~Alive(Head(scan))
  BY <1>1, CollectKeeps DEF Prune
<1>2. CASE Alive(Head(scan))
  <2> DEFINE t == Head(scan)
  <2>1. /\ scan \in Seq(Tests) /\ handles \in Seq(Tests)
        /\ Kept = handles /\ Kept' = Append(handles, t) /\ scan' = Tail(scan)
        /\ handles' = Append(handles, t)
        /\ Len(scan) \in Nat /\ Len(handles) \in Nat /\ n_jobs \in Nat
        /\ UNCHANGED <<found, n_jobs, pc, todo, outputs, event, thread, result, errored, exit>>
    BY <1>2, PoolAssumption DEF PoolInv, PoolTypeOK, Prune, Kept
  <2>2. /\ scan' \in Seq(Tests) /\ Len(scan') = Len(scan) - 1
        /\ t \in Tests /\ t \in Range(scan)
        /\ Range(scan) = Range(scan') \cup {t}
        /\ IsInjective(scan) => IsInjective(scan') /\ t \notin Range(scan')
    BY <2>1, RangeOfTail DEF Prune
  <2>3. t \notin Range(Kept) /\ t \notin Range(scan') /\ t \notin Range(outputs)
        /\ IsInjective(scan') /\ IsInjective(Kept)
    BY <2>2 DEF PoolInv, InOnePlace
  <2>4. /\ Kept' \in Seq(Tests) /\ IsInjective(Kept') /\ Len(Kept') = Len(Kept) + 1
        /\ Range(Kept') = Range(Kept) \cup {t}
    BY <2>1, <2>2, <2>3, RangeOfAppend
  <2> HIDE DEF t
  <2>5. PoolTypeOK'
    BY <2>1, <2>2, <2>4 DEF PoolInv, PoolTypeOK
  <2>6. ScanIdle' /\ SpawnedInOrder' /\ CountIsBounded'
    BY <2>1, <2>2, <2>4 DEF PoolInv, ScanIdle, SpawnedInOrder, CountIsBounded, Prune
  <2>7. InOnePlace'
    BY <2>1, <2>2, <2>3, <2>4 DEF PoolInv, InOnePlace
  <2>8. AliveIsCounted' /\ DeadAreCollected'
    BY <2>1, <2>2, <2>4 DEF PoolInv, AliveIsCounted, DeadAreCollected, Alive
  <2> QED
    BY <2>5, <2>6, <2>7, <2>8 DEF PoolInv
<1> QED
  BY <1>1, <1>2

(* Without files nothing was ever spawned.                                 *)
LEMMA NothingKeeps == ASSUME PoolInv, NothingToDo PROVE PoolInv'
<1>1. /\ todo = 1 /\ found = 0 /\ todo > found /\ handles \in Seq(Tests) /\ Kept = handles
  BY PoolAssumption DEF PoolInv, PoolTypeOK, NothingToDo, Kept
<1>2. \A t \in Tests : thread[t] = "new"
  BY <1>1 DEF PoolInv, SpawnedInOrder, Tests
<1>3. handles = <<>>
  <2>1. SUFFICES ASSUME handles # <<>> PROVE FALSE
    OBVIOUS
  <2>2. Head(handles) \in Tests /\ Head(handles) \in Range(Kept)
    BY <1>1, <2>1, RangeOfTail
  <2> QED
    BY <1>2, <2>2 DEF PoolInv, AliveIsCounted
<1>4. Kept' = Kept
  BY <1>1, <1>3 DEF Kept, NothingToDo
<1>5. PoolTypeOK' /\ ScanIdle'
  BY DEF PoolInv, PoolTypeOK, ScanIdle, NothingToDo
<1> QED
  BY <1>1, <1>4, <1>5, MainMoves DEF NothingToDo

LEMMA MainKeeps == ASSUME PoolInv, MainStep PROVE PoolInv'
<1>1. CASE Full
  BY <1>1, MainMoves DEF PoolInv, PoolTypeOK, ScanIdle, Full, Kept
<1>2. CASE Clear
  BY <1>2, MainMoves DEF PoolInv, PoolTypeOK, ScanIdle, Clear, Kept
<1>3. CASE PruneDone
  BY <1>3, MainMoves DEF PoolInv, PoolTypeOK, ScanIdle, PruneDone, Kept
<1>4. CASE Exit
  BY <1>4, MainMoves DEF PoolInv, PoolTypeOK, ScanIdle, SpawnedInOrder, Exit, Kept
<1>5. CASE Join
  BY <1>5, CollectKeeps DEF Join
<1> QED
  BY <1>1, <1>2, <1>3, <1>4, <1>5, NothingKeeps, SpawnKeeps, WaitKeeps, PruneKeeps,
     AllSpawnedKeeps DEF MainStep

(* A thread goes on; it is counted and stays counted, dead or alive.        *)
LEMMA ThreadKeeps ==
    ASSUME PoolInv, NEW t \in Tests, RunTest(t) \/ ReadForever(t) \/ SetEvent(t) \/ Die(t)
    PROVE  PoolInv'
<1>1. /\ thread' = [thread EXCEPT ![t] = thread'[t]]
      /\ <<thread[t], thread'[t]>> \in {<<"running", "leaving">>, <<"running", "stuck">>,
            <<"leaving", "signalled">>, <<"signalled", "dead">>}
      /\ UNCHANGED <<found, n_jobs, pc, todo, handles, scan, outputs, errored, exit>>
  BY DEF PoolInv, PoolTypeOK, RunTest, ReadForever, SetEvent, Die, ThreadStep
<1>2. /\ thread' \in [Tests -> {"new", "running", "stuck", "leaving", "signalled", "dead"}]
      /\ \A u \in Tests \ {t} : thread'[u] = thread[u]
      /\ event' \in BOOLEAN
  BY <1>1 DEF PoolInv, PoolTypeOK, RunTest, ReadForever, SetEvent, Die
<1>3. /\ result' \in [Tests -> Results]
      /\ \A u \in Tests \ {t} : result'[u] = result[u]
      /\ thread'[t] # "leaving" => result'[t] = result[t]
  <2>1. CASE RunTest(t)
    <3>1. PICK r \in Results : result' = [result EXCEPT ![t] = r]
      BY <2>1 DEF RunTest
    <3>2. thread'[t] = "leaving"
      BY <2>1 DEF PoolInv, PoolTypeOK, RunTest, ThreadStep
    <3> QED
      BY <3>1, <3>2 DEF PoolInv, PoolTypeOK
  <2>2. CASE ReadForever(t) \/ SetEvent(t) \/ Die(t)
    BY <2>2 DEF PoolInv, PoolTypeOK, ReadForever, SetEvent, Die
  <2> QED
    BY <2>1, <2>2
<1>4. Kept' = Kept
  BY <1>1 DEF Kept
<1>5. PoolTypeOK'
  BY <1>1, <1>2, <1>3 DEF PoolInv, PoolTypeOK
<1>6. ScanIdle' /\ SpawnedInOrder' /\ InOnePlace' /\ CountIsBounded'
  BY <1>1, <1>2, <1>4 DEF PoolInv, ScanIdle, SpawnedInOrder, InOnePlace, CountIsBounded
<1>7. AliveIsCounted'
  BY <1>1, <1>2, <1>4 DEF PoolInv, AliveIsCounted, Alive
<1>8. DeadAreCollected'
  BY <1>1, <1>2, <1>3, <1>4, <1>7 DEF PoolInv, AliveIsCounted, DeadAreCollected, Alive
<1> QED
  BY <1>5, <1>6, <1>7, <1>8 DEF PoolInv

(* PoolInv is inductive: whatever the order in which threads run, end and  *)
(* die around the pruning and the joining loop of main, each is counted or *)
(* collected in one place.                                                 *)
THEOREM PoolInvariance == Spec => []PoolInv
<1>1. ASSUME PoolInv, [Next]_poolVars PROVE PoolInv'
  <2>1. CASE Next
    BY <2>1, <1>1, MainKeeps, ThreadKeeps DEF Next
  <2>2. CASE UNCHANGED poolVars
    BY <2>2, <1>1 DEF poolVars, PoolInv, PoolTypeOK, ScanIdle, SpawnedInOrder, InOnePlace,
       AliveIsCounted, DeadAreCollected, CountIsBounded, Kept, Alive
  <2> QED
    BY <1>1, <2>1, <2>2
<1> QED
  BY <1>1, InitHolds, PTL DEF Spec

-----------------------------------------------------------------------------
(* What follows.                                                           *)

(* eflint-test.py never has more test threads alive than -j allows, also   *)
(* while the loop that prunes its pool meets threads on their way out.     *)
THEOREM JobsAreBounded == Spec => []AtMostNJobs
<1>1. PoolInv => AtMostNJobs
  <2> SUFFICES ASSUME PoolInv PROVE AtMostNJobs
    OBVIOUS
  <2> DEFINE alive == {t \in Tests : Alive(t)}
             pool  == Range(Kept) \cup Range(scan)
  <2>1. Kept \in Seq(Tests) /\ scan \in Seq(Tests)
    BY DEF PoolInv, PoolTypeOK, Kept
  <2>2. /\ IsFiniteSet(Range(Kept)) /\ IsFiniteSet(Range(scan))
        /\ Cardinality(Range(Kept)) <= Len(Kept) /\ Cardinality(Range(scan)) <= Len(scan)
        /\ Cardinality(Range(Kept)) \in Nat /\ Cardinality(Range(scan)) \in Nat
    BY <2>1, RangeIsSmall
  <2>3. IsFiniteSet(pool) /\ Cardinality(pool) <= Cardinality(Range(Kept)) + Cardinality(Range(scan))
        /\ Cardinality(pool) \in Nat
    <3>1. Cardinality(Range(Kept) \cap Range(scan)) = 0
      BY FS_EmptySet DEF PoolInv, InOnePlace
    <3>2. /\ IsFiniteSet(pool)
          /\ Cardinality(pool) = Cardinality(Range(Kept)) + Cardinality(Range(scan))
                                    - Cardinality(Range(Kept) \cap Range(scan))
      BY <2>2, FS_Union
    <3> QED
      BY <3>1, <3>2, <2>2
  <2>4. Cardinality(alive) <= Cardinality(pool) /\ Cardinality(alive) \in Nat
    <3>1. alive \in SUBSET pool
      BY DEF PoolInv, AliveIsCounted
    <3> QED
      BY <3>1, <2>3, FS_Subset, FS_CardinalityType
  <2>5. Len(Kept) \in Nat /\ Len(scan) \in Nat /\ n_jobs \in Nat
    BY <2>1, PoolAssumption DEF PoolInv, PoolTypeOK
  <2> QED
    BY <2>2, <2>3, <2>4, <2>5 DEF PoolInv, CountIsBounded, AtMostNJobs
<1> QED
  BY <1>1, PoolInvariance, PTL

(* Main returns with every test run and every output with something to     *)
(* show printed once, after its thread is dead.                            *)
THEOREM OutputsAreComplete == Spec => []OutputsComplete
<1>1. PoolInv => OutputsComplete
  <2> SUFFICES ASSUME PoolInv PROVE OutputsComplete
    OBVIOUS
  <2>1. outputs \in Seq(Tests) /\ \A i \in DOMAIN outputs : outputs[i] \in Tests
    BY DEF PoolInv, PoolTypeOK
  <2>2. \A i, j \in DOMAIN outputs : outputs[i] = outputs[j] => i = j
    BY DEF PoolInv, InOnePlace, IsInjective
  <2>3. \A i \in DOMAIN outputs : outputs[i] \in Range(outputs)
    BY DEF Range
  <2>4. \A i \in DOMAIN outputs : thread[outputs[i]] = "dead"
    BY <2>1, <2>3 DEF PoolInv, DeadAreCollected
  <2>5. ASSUME pc = "exited"
        PROVE  /\ \A t \in 1..found : thread[t] = "dead"
               /\ Range(outputs) = {t \in Tests : result[t].shown}
    <3>1. Range(Kept) = {} /\ Range(scan) = {}
      BY <2>5, RangeOfEmpty DEF PoolInv, ScanIdle, Kept
    <3>2. \A t \in Tests : thread[t] \in {"new", "dead"}
      BY <3>1 DEF PoolInv, AliveIsCounted, Alive
    <3>3. \A t \in 1..found : t \in Tests /\ t < todo
      BY <2>5, PoolAssumption DEF PoolInv, PoolTypeOK, SpawnedInOrder, Tests
    <3>4. \A t \in 1..found : thread[t] = "dead"
      BY <3>2, <3>3 DEF PoolInv, PoolTypeOK, SpawnedInOrder, Tests
    <3>5. Range(outputs) \subseteq Tests
      BY <2>1 DEF Range
    <3>6. \A t \in Tests : t \in Range(outputs) <=> result[t].shown
      BY <3>1, <3>2 DEF PoolInv, DeadAreCollected
    <3> QED
      BY <3>4, <3>5, <3>6
  <2> QED
    BY <2>2, <2>4, <2>5 DEF OutputsComplete
<1> QED
  BY <1>1, PoolInvariance, PTL

(* Every variable of the pool keeps its type.                              *)
THEOREM PoolTypes == Spec => []PoolTypeOK
<1>1. PoolInv => PoolTypeOK
  BY DEF PoolInv
<1> QED
  BY <1>1, PoolInvariance, PTL
=============================================================================
