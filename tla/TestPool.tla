------------------------------ MODULE TestPool ------------------------------
(***************************************************************************)
(* The main thread of eflint-test.py and the pool of UnitTest threads.     *)
(* Every thread runs one test file against a reasoner of its own, leaves   *)
(* its reports in its output, sets the shared event on its way out of      *)
(* run(), and stops being alive some time after that.  The main thread     *)
(* spawns while there is room, else sleeps on the event and prunes the     *)
(* threads that are no longer alive; at the end it joins the rest, prints  *)
(* the reports and returns the exit code.                                  *)
(***************************************************************************)
EXTENDS Naturals, FiniteSets, Sequences, Functions

CONSTANTS
    NTests,         \* a bound on the number of test files
    Jobs,           \* values of -j/--jobs
    ReplMayDie      \* whether a reasoner process may end early

ASSUME PoolAssumption ==
    /\ NTests \in Nat /\ Jobs \subseteq Nat
    /\ ReplMayDie \in BOOLEAN

Tests == 1..NTests

(* What a finished run left behind: whether an Err was reported, and       *)
(* whether any report but debug ones was.  A run that gets to its end      *)
(* reports the response time; an exception, which DoneContext swallows,    *)
(* can end it before any report.                                           *)
Results == {r \in [failed : BOOLEAN, shown : BOOLEAN] : r.failed => r.shown}
NoResult == [failed |-> FALSE, shown |-> FALSE]

VARIABLES
    found,      \* the number of test files collected: the tests 1..found
    n_jobs,     \* -j/--jobs
    pc,         \* the main thread: "loop", "clear", "wait", "prune", "join", "exited"
    todo,       \* the tests not spawned yet: todo..found
    handles,    \* the threads the pool counts
    scan,       \* the threads the loop under way has not looked at yet
    outputs,    \* the tests whose output is to be printed
    event,      \* the shared threading.Event
    thread,     \* thread[t]: "new", "running", "stuck", "leaving", "signalled", "dead"
    result,     \* result[t]: what t's output holds
    errored,    \* ERRORED
    exit        \* the exit code, 2 while main runs

poolVars == <<found, n_jobs, pc, todo, handles, scan, outputs, event, thread, result, errored, exit>>

(* Collecting the files may meet an entry it cannot read, and perror it.   *)
Init ==
    /\ found \in 0..NTests /\ n_jobs \in Jobs
    /\ pc = "loop"
    /\ todo = 1
    /\ handles = <<>> /\ scan = <<>> /\ outputs = <<>>
    /\ event = FALSE
    /\ thread = [t \in Tests |-> "new"]
    /\ result = [t \in Tests |-> NoResult]
    /\ errored \in BOOLEAN
    /\ exit = 2

Alive(t) == thread[t] \notin {"new", "dead"}

Collected(t) == IF result[t].shown THEN Append(outputs, t) ELSE outputs

-----------------------------------------------------------------------------
(* The main thread.                                                        *)

Spawn ==
    /\ pc = "loop" /\ todo <= found
    /\ Len(handles) < n_jobs
    /\ thread' = [thread EXCEPT ![todo] = "running"]
    /\ handles' = Append(handles, todo)
    /\ todo' = todo + 1
    /\ UNCHANGED <<found, n_jobs, pc, scan, outputs, event, result, errored, exit>>

(* Variant of Full: the pool waits when there is room for one more.         *)
FullTooEarly ==
    /\ pc = "loop" /\ todo <= found
    /\ Len(handles) >= n_jobs - 1
    /\ pc' = "clear"
    /\ UNCHANGED <<found, n_jobs, todo, handles, scan, outputs, event, thread, result, errored, exit>>

Full ==
    /\ pc = "loop" /\ todo <= found
    /\ Len(handles) >= n_jobs
    /\ pc' = "clear"
    /\ UNCHANGED <<found, n_jobs, todo, handles, scan, outputs, event, thread, result, errored, exit>>

Clear ==
    /\ pc = "clear"
    /\ event' = FALSE
    /\ pc' = "wait"
    /\ UNCHANGED <<found, n_jobs, todo, handles, scan, outputs, thread, result, errored, exit>>

(* Variant of Wait: the pool is not rebuilt but added to.                    *)
WaitKeepsHandles ==
    /\ pc = "wait"
    /\ event
    /\ pc' = "prune"
    /\ scan' = handles
    /\ UNCHANGED <<found, n_jobs, todo, handles, outputs, event, thread, result, errored, exit>>

Wait ==
    /\ pc = "wait"
    /\ event
    /\ pc' = "prune"
    /\ scan' = handles
    /\ handles' = <<>>
    /\ UNCHANGED <<found, n_jobs, todo, outputs, event, thread, result, errored, exit>>

(* Variant of Prune: a thread counts as finished once it set the event.     *)
PruneSignalled ==
    /\ pc = "prune" /\ scan # <<>>
    /\ IF thread[Head(scan)] \notin {"signalled", "dead"}
       THEN handles' = Append(handles, Head(scan)) /\ UNCHANGED outputs
       ELSE outputs' = Collected(Head(scan)) /\ UNCHANGED handles
    /\ scan' = Tail(scan)
    /\ UNCHANGED <<found, n_jobs, pc, todo, event, thread, result, errored, exit>>

(* One round of the pruning loop; handles is rebuilt as rem_handles.       *)
Prune ==
    /\ pc = "prune" /\ scan # <<>>
    /\ IF Alive(Head(scan))
       THEN handles' = Append(handles, Head(scan)) /\ UNCHANGED outputs
       ELSE outputs' = Collected(Head(scan)) /\ UNCHANGED handles
    /\ scan' = Tail(scan)
    /\ UNCHANGED <<found, n_jobs, pc, todo, event, thread, result, errored, exit>>

PruneDone ==
    /\ pc = "prune" /\ scan = <<>>
    /\ pc' = "loop"
    /\ UNCHANGED <<found, n_jobs, todo, handles, scan, outputs, event, thread, result, errored, exit>>

AllSpawned ==
    /\ pc = "loop" /\ todo > found /\ found > 0
    /\ pc' = "join"
    /\ scan' = handles
    /\ UNCHANGED <<found, n_jobs, todo, handles, outputs, event, thread, result, errored, exit>>

(* Variant of Join: the join gives up waiting.                              *)
JoinTimesOut ==
    /\ pc = "join" /\ scan # <<>>
    /\ outputs' = Collected(Head(scan))
    /\ scan' = Tail(scan)
    /\ UNCHANGED <<found, n_jobs, pc, todo, handles, event, thread, result, errored, exit>>

Join ==
    /\ pc = "join" /\ scan # <<>>
    /\ ~Alive(Head(scan))
    /\ outputs' = Collected(Head(scan))
    /\ scan' = Tail(scan)
    /\ UNCHANGED <<found, n_jobs, pc, todo, handles, event, thread, result, errored, exit>>

(* Print the outputs, and return 0 if not ERRORED else 1.                  *)
Exit ==
    /\ pc = "join" /\ scan = <<>>
    /\ pc' = "exited"
    /\ exit' = IF errored THEN 1 ELSE 0
    /\ UNCHANGED <<found, n_jobs, todo, handles, scan, outputs, event, thread, result, errored>>

(* No tests found, nothing to do: 0, whatever was perrored.                *)
NothingToDo ==
    /\ pc = "loop" /\ found = 0
    /\ pc' = "exited"
    /\ exit' = 0
    /\ UNCHANGED <<found, n_jobs, todo, handles, scan, outputs, event, thread, result, errored>>

MainStep == NothingToDo \/ Spawn \/ Full \/ Clear \/ Wait \/ Prune \/ PruneDone \/ AllSpawned \/ Join \/ Exit

-----------------------------------------------------------------------------
(* A test thread: run() under DoneContext.  The main thread is gone once   *)
(* it exits, and daemon threads with it.                                   *)

ThreadStep(t, from, to) ==
    /\ pc # "exited"
    /\ thread[t] = from
    /\ thread' = [thread EXCEPT ![t] = to]
    /\ UNCHANGED <<found, n_jobs, pc, todo, handles, scan, outputs, errored, exit>>

RunTest(t) ==
    /\ ThreadStep(t, "running", "leaving")
    /\ \E r \in Results : result' = [result EXCEPT ![t] = r]
    /\ UNCHANGED event

(* The reasoner's output ended: the loops that wait for its banner or for  *)
(* the trigger fact read the empty line for ever.                          *)
ReadForever(t) ==
    /\ ReplMayDie
    /\ ThreadStep(t, "running", "stuck")
    /\ UNCHANGED <<event, result>>

(* DoneContext.__exit__ *)
SetEvent(t) ==
    /\ ThreadStep(t, "leaving", "signalled")
    /\ event' = TRUE
    /\ UNCHANGED result

Die(t) ==
    /\ ThreadStep(t, "signalled", "dead")
    /\ UNCHANGED <<event, result>>

Next ==
    \/ MainStep
    \/ \E t \in Tests : RunTest(t) \/ ReadForever(t) \/ SetEvent(t) \/ Die(t)

(* The operating system runs every thread that can run.                    *)
Spec == Init /\ [][Next]_poolVars
FairSpec == Spec /\ WF_poolVars(MainStep)
                 /\ \A t \in Tests : WF_poolVars(RunTest(t) \/ SetEvent(t) \/ Die(t))

-----------------------------------------------------------------------------
PoolTypeOK ==
    /\ pc \in {"loop", "clear", "wait", "prune", "join", "exited"}
    /\ found \in 0..NTests /\ n_jobs \in Jobs
    /\ todo \in 1..(found + 1)
    /\ handles \in Seq(Tests) /\ scan \in Seq(Tests) /\ outputs \in Seq(Tests)
    /\ event \in BOOLEAN
    /\ thread \in [Tests -> {"new", "running", "stuck", "leaving", "signalled", "dead"}]
    /\ result \in [Tests -> Results]
    /\ errored \in BOOLEAN
    /\ exit \in 0..2

(* SAFETY.  No more than n_jobs tests run at once: a thread the pool no     *)
(* longer counts is dead, whatever happens while the pool is pruned.       *)
AtMostNJobs == Cardinality({t \in Tests : Alive(t)}) <= n_jobs

(* SAFETY.  Main ends with every test run and every output that has        *)
(* something to show printed exactly once, whether its thread was pruned   *)
(* or joined, and no output is taken while its thread could still add to   *)
(* it.                                                                     *)
OutputsComplete ==
    /\ \A i, j \in DOMAIN outputs : outputs[i] = outputs[j] => i = j
    /\ \A i \in DOMAIN outputs : thread[outputs[i]] = "dead"
    /\ pc = "exited" =>
         /\ \A t \in 1..found : thread[t] = "dead"
         /\ Range(outputs) = {t \in Tests : result[t].shown}

(* Main sleeps on the event with every running test past its signal.       *)
Stranded ==
    /\ pc = "wait" /\ ~event
    /\ Len(handles) >= n_jobs
    /\ \A i \in DOMAIN handles : thread[handles[i]] \in {"signalled", "dead"}

(* LIVENESS.  Main returns, unless a reasoner that ended leaves its thread *)
(* reading for ever, or main is stranded on the event: with every job in   *)
(* use (all none of them with -j 0) and tests still to be spawned, so      *)
(* never when there is a job for every test, as in the consistency gate.   *)
PoolEnds == <>( \/ pc = "exited"
                \/ \E t \in Tests : thread[t] = "stuck"
                \/ Stranded /\ todo <= found )

(* SAFETY, of the comments on the event ("the event to use to wakeup the   *)
(* main thread", "wait for one to complete"): while main sleeps, some test *)
(* has yet to set the event.                                               *)
SleeperHasWaker == pc = "wait" /\ ~event =>
    \E t \in Tests : thread[t] \in {"running", "leaving"}

-----------------------------------------------------------------------------
(* The inductive strengthening of AtMostNJobs and OutputsComplete: every   *)
(* thread is in one place.                                                 *)

(* The handles that are not in scan: the joining loop keeps them, the      *)
(* pruning loop rebuilds them.                                             *)
Kept == IF pc \in {"join", "exited"} THEN <<>> ELSE handles

ScanIdle == pc \notin {"prune", "join"} => scan = <<>>

(* Tests are spawned in their order, all of them before the joining loop.   *)
SpawnedInOrder ==
    /\ \A t \in Tests : thread[t] = "new" <=> t >= todo
    /\ pc \in {"join", "exited"} => todo > found

(* A thread is counted or collected at most once.                          *)
InOnePlace ==
    /\ IsInjective(Kept) /\ IsInjective(scan) /\ IsInjective(outputs)
    /\ Range(Kept) \cap Range(scan) = {}
    /\ (Range(Kept) \cup Range(scan)) \cap Range(outputs) = {}

(* What is alive is counted, and what is counted was spawned.              *)
AliveIsCounted == \A t \in Tests :
    /\ Alive(t) => t \in Range(Kept) \cup Range(scan)
    /\ t \in Range(Kept) \cup Range(scan) => thread[t] # "new"

(* Outputs are of the dead, and no dead with something to show is lost.    *)
DeadAreCollected == \A t \in Tests :
    /\ t \in Range(outputs) => thread[t] = "dead" /\ result[t].shown
    /\ thread[t] \in {"new", "running", "stuck"} => ~result[t].shown
    /\ thread[t] = "dead" /\ result[t].shown =>
          t \in Range(Kept) \cup Range(scan) \cup Range(outputs)

CountIsBounded == Len(Kept) + Len(scan) <= n_jobs

PoolInv ==
    /\ PoolTypeOK /\ ScanIdle /\ SpawnedInOrder /\ InOnePlace
    /\ AliveIsCounted /\ DeadAreCollected /\ CountIsBounded
=============================================================================
