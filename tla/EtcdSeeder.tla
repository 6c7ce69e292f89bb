----------------------------- MODULE EtcdSeeder -----------------------------
(***************************************************************************)
(* EtcdSeeder.seed_manifest: a harness process installs the fixtures of a  *)
(* scenario manifest in the live DYNAMOS etcd, one HTTP call per key, so   *)
(* that the Policy Enforcer judges the request against the same texts the  *)
(* oracle reads.  The store is shared by every harness process; a call may *)
(* fail, the process may be killed between two calls, and a call the       *)
(* client gave up on (its timeout is 5 s) may still be applied later.      *)
(***************************************************************************)
EXTENDS Naturals, FiniteSets

CONSTANTS
    Procs,          \* harness processes: CLI invocations, test workers
    Manifests,      \* scenario manifests
    Stewards,       \* data stewards
    Texts,          \* contents of eFLINT files
    EflintConfig,   \* the provider config the harness writes
    Absent,         \* the value of a key etcd does not hold
    SharedRules,    \* SharedRules[m]: the text of m's shared rules file
    Agreements,     \* Agreements[m][s]: the text of m's agreement for s
    Requested,      \* Requested[m]: the stewards m's request addresses
    InitialStores,  \* what etcd may hold before the harness first runs
    MaxLate         \* bound: abandoned calls not applied yet

(* DYNAMOS key space: one shared rules key, one model and one config key   *)
(* per steward.                                                            *)
RulesKey     == <<"eflintRules", "shared">>
ModelKey(s)  == <<"eflintModels", s>>
ConfigKey(s) == <<"configs", s>>

Keys   == {RulesKey} \cup {ModelKey(s) : s \in Stewards}
                     \cup {ConfigKey(s) : s \in Stewards}
Values == Texts \cup {EflintConfig, Absent}

(* An eflint config makes the Policy Enforcer load the steward's model.    *)
Loadable(store) == \A s \in Stewards :
    store[ConfigKey(s)] = EflintConfig => store[ModelKey(s)] # Absent

ASSUME SeederAssumption ==
    /\ EflintConfig # Absent
    /\ EflintConfig \notin Texts
    /\ Absent \notin Texts
    /\ SharedRules \in [Manifests -> Texts]
    /\ \A m \in Manifests : \A s \in DOMAIN Agreements[m] :
          s \in Stewards /\ Agreements[m][s] \in Texts
    /\ Requested \in [Manifests -> SUBSET Stewards]
    /\ \A store \in InitialStores :
          store \in [Keys -> Values] /\ Loadable(store)
    /\ MaxLate \in Nat

-----------------------------------------------------------------------------
(* What one manifest asks of the store.                                    *)

Agreed(m)  == DOMAIN Agreements[m]
Unlisted(m) == Requested[m] \ Agreed(m)
Touched(m) == Agreed(m) \cup Unlisted(m)

FixtureKeys(m) == {RulesKey} \cup {ModelKey(s) : s \in Touched(m)}
                             \cup {ConfigKey(s) : s \in Touched(m)}

Wanted(m, k) ==
    CASE k = RulesKey -> SharedRules[m]
      [] \E s \in Agreed(m) : k = ModelKey(s) -> Agreements[m][k[2]]
      [] \E s \in Agreed(m) : k = ConfigKey(s) -> EflintConfig
      [] OTHER -> Absent

(* The two calls made for a steward, in program order: the model is put    *)
(* before the config that points at it, and deleted after it.              *)
First(m, s)  == IF s \in Agreed(m) THEN ModelKey(s) ELSE ConfigKey(s)
Second(m, s) == IF s \in Agreed(m) THEN ConfigKey(s) ELSE ModelKey(s)

-----------------------------------------------------------------------------
VARIABLES
    etcd,   \* the store
    late,   \* writes given up by the client that etcd may still apply
    pc,     \* pc[p]: "idle", "seeding" or "seeded"
    man,    \* man[p]: the manifest p is running
    done    \* done[p]: the keys p's seeding has written so far

seederVars == <<etcd, late, pc, man, done>>

Writes == [key : Keys, value : Values]

TypeOK ==
    /\ etcd \in [Keys -> Values]
    /\ late \in SUBSET Writes
    /\ pc \in [Procs -> {"idle", "seeding", "seeded"}]
    /\ man \in [Procs -> Manifests]
    /\ done \in [Procs -> SUBSET Keys]

Init ==
    /\ etcd \in InitialStores
    /\ late = {}
    /\ pc = [p \in Procs |-> "idle"]
    /\ man \in [Procs -> Manifests]
    /\ done = [p \in Procs |-> {}]

(* The stewards whose pair of calls is half made, and those whose pair may *)
(* be started: agreements first, then the stewards without one.            *)
Halfway(p) == {s \in Touched(man[p]) :
    First(man[p], s) \in done[p] /\ Second(man[p], s) \notin done[p]}

(* Variant: only the stewards with an agreement are seeded.                *)
StartableAgreed(p) == {s \in Agreed(man[p]) : First(man[p], s) \notin done[p]}

Startable(p) == {s \in Touched(man[p]) :
    /\ First(man[p], s) \notin done[p]
    /\ s \in Unlisted(man[p]) =>
         \A t \in Agreed(man[p]) : ConfigKey(t) \in done[p]}

(* The keys the next call of seed_manifest may name.  The order in which a *)
(* manifest lists its stewards is left open.                               *)
(* Variant of Due: the config is put before the model.                     *)
DueConfigFirst(p) ==
    LET half == {s \in Touched(man[p]) : ConfigKey(s) \in done[p] /\ ModelKey(s) \notin done[p]}
    IN  IF RulesKey \notin done[p] THEN {RulesKey}
        ELSE IF half # {} THEN {ModelKey(s) : s \in half}
        ELSE {ConfigKey(s) : s \in Startable(p)}

Due(p) ==
    IF RulesKey \notin done[p] THEN {RulesKey}
    ELSE IF Halfway(p) # {} THEN {Second(man[p], s) : s \in Halfway(p)}
    ELSE {First(man[p], s) : s \in Startable(p)}

(* Variant of Begin: what an earlier seeding wrote still counts as done.   *)
BeginKeepsDone(p, m) ==
    /\ pc[p] = "idle"
    /\ pc' = [pc EXCEPT ![p] = "seeding"]
    /\ man' = [man EXCEPT ![p] = m]
    /\ UNCHANGED <<etcd, late, done>>

Begin(p, m) ==
    /\ pc[p] = "idle"
    /\ pc' = [pc EXCEPT ![p] = "seeding"]
    /\ man' = [man EXCEPT ![p] = m]
    /\ done' = [done EXCEPT ![p] = {}]
    /\ UNCHANGED <<etcd, late>>

Write(p, k) ==
    /\ pc[p] = "seeding"
    /\ etcd' = [etcd EXCEPT ![k] = Wanted(man[p], k)]
    /\ done' = [done EXCEPT ![p] = @ \cup {k}]
    /\ UNCHANGED <<late, pc, man>>

Put(p)    == \E k \in Due(p) : Wanted(man[p], k) # Absent /\ Write(p, k)
Delete(p) == \E k \in Due(p) : Wanted(man[p], k) = Absent /\ Write(p, k)

(* seed_manifest returns its SeedResult.                                   *)
Finish(p) ==
    /\ pc[p] = "seeding"
    /\ Due(p) = {}
    /\ pc' = [pc EXCEPT ![p] = "seeded"]
    /\ UNCHANGED <<etcd, late, man, done>>

(* A call ends in an error (another status than 200, a timeout) or the     *)
(* process dies with it: etcd did not apply it, did, or will.              *)
Lost == UNCHANGED <<etcd, late>>

Applied(k, v) == etcd' = [etcd EXCEPT ![k] = v] /\ UNCHANGED late

Delayed(k, v) ==
    /\ Cardinality(late) < MaxLate
    /\ late' = late \cup {[key |-> k, value |-> v]}
    /\ UNCHANGED etcd

Fail(p) ==
    /\ pc[p] = "seeding"
    /\ \E k \in Due(p) :
          Lost \/ Applied(k, Wanted(man[p], k)) \/ Delayed(k, Wanted(man[p], k))
    /\ pc' = [pc EXCEPT ![p] = "idle"]
    /\ UNCHANGED <<man, done>>

(* Nothing in the code: from here on p no longer relies on what it seeded, *)
(* because the Policy Enforcer has answered or the run has stopped.        *)
Release(p) ==
    /\ pc[p] = "seeded"
    /\ pc' = [pc EXCEPT ![p] = "idle"]
    /\ UNCHANGED <<etcd, late, man, done>>

(* etcd applies a call whose client is gone.                               *)
Land(w) ==
    /\ etcd' = [etcd EXCEPT ![w.key] = w.value]
    /\ late' = late \ {w}
    /\ UNCHANGED <<pc, man, done>>

Next ==
    \/ \E p \in Procs :
          \/ \E m \in Manifests : Begin(p, m)
          \/ Put(p) \/ Delete(p) \/ Finish(p) \/ Fail(p)
          \/ Release(p)
    \/ \E w \in late : Land(w)

Spec == Init /\ [][Next]_seederVars

-----------------------------------------------------------------------------
(* When may two seedings not disturb each other?  When the manifests that  *)
(* run agree on every key two of them touch, as the shipped ones do, or    *)
(* when one process runs alone and no abandoned call is applied late.      *)
Compatible == \A m, n \in Manifests :
    \A k \in FixtureKeys(m) \cap FixtureKeys(n) : Wanted(m, k) = Wanted(n, k)

Isolated == MaxLate = 0 /\ \A p, q \in Procs : p = q

NoInterference == Compatible \/ Isolated

(* SAFETY.  From the end of seed_manifest until the Policy Enforcer has    *)
(* answered, etcd holds for every steward of the manifest exactly the      *)
(* fixtures the oracle read: its agreement, or nothing when the manifest   *)
(* has none (the leftovers of an earlier or a broken run are gone).        *)
SeededInputsMatch == \A p \in Procs : pc[p] = "seeded" =>
    \A k \in FixtureKeys(man[p]) : etcd[k] = Wanted(man[p], k)

(* SAFETY.  At every instant, also after a crash between two calls, a      *)
(* steward whose config tells the Policy Enforcer to load an eFLINT model  *)
(* has one: the order of put and delete never leaves a dangling config.    *)
ConfigHasModel == Loadable(etcd)

-----------------------------------------------------------------------------
(* The inductive strengthening of the two safety invariants.               *)

(* What a seeding wrote is still there.                                    *)
Settled == \A p \in Procs : pc[p] # "idle" =>
    /\ done[p] \subseteq FixtureKeys(man[p])
    /\ \A k \in done[p] : etcd[k] = Wanted(man[p], k)

(* A finished seeding wrote every key of its manifest.                     *)
AllWritten == \A p \in Procs : pc[p] = "seeded" => FixtureKeys(man[p]) \subseteq done[p]

(* A late write is one a manifest asks for, and none exists in isolation.  *)
LateIsWanted == \A w \in late : \E m \in Manifests :
    w.key \in FixtureKeys(m) /\ w.value = Wanted(m, w.key)
LateOnlyIfCompatible == ~Compatible => late = {}

(* A late write cannot leave a dangling config when it lands.              *)
LateIsSafe == \A w \in late, s \in Stewards :
    /\ w.key = ConfigKey(s) /\ w.value = EflintConfig => etcd[ModelKey(s)] # Absent
    /\ w.key = ModelKey(s) /\ w.value = Absent => etcd[ConfigKey(s)] # EflintConfig

SeederInv ==
    /\ TypeOK /\ Settled /\ AllWritten
    /\ LateIsWanted /\ LateOnlyIfCompatible /\ LateIsSafe
    /\ ConfigHasModel
=============================================================================
