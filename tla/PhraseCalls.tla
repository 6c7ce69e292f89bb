----------------------------- MODULE PhraseCalls -----------------------------
(***************************************************************************)
(* What a user of the REPL driver relies on: submit is a call that returns *)
(* everything the reasoner says in response to the phrase, in order, and   *)
(* nothing else but what it still had to say about the call before.  The   *)
(* lines of call n are numbered n; "own" lines answer the phrase, "before" *)
(* and "after" lines surround the echo of the trigger that follows it.     *)
(* Call 0 is the setup of the trigger.                                     *)
(***************************************************************************)
EXTENDS Naturals, Sequences

CONSTANTS
    NPhrases,       \* the number of phrases submitted
    MaxLines        \* bound: lines of one part of a response

Parts == {"own", "before", "after"}
Says(n, part, k) == [i \in 1..k |-> [of |-> n, part |-> part]]

VARIABLES
    state,      \* "starting", "idle", "calling", "failed", "closed", or "aborted"
                \* if the constructor raised
    calls,      \* the number of calls that returned
    answer,     \* what the last of them returned
    leftover    \* lines said too late for the call they belong to

callVars == <<state, calls, answer, leftover>>

Init == state = "starting" /\ calls = 0 /\ answer = <<>> /\ leftover = <<>>

Ready ==
    /\ state = "starting"
    /\ state' = "idle"
    /\ \E k \in 0..MaxLines : leftover' = Says(0, "after", k)
    /\ UNCHANGED <<calls, answer>>

Call ==
    /\ state = "idle"
    /\ calls < NPhrases
    /\ state' = "calling"
    /\ UNCHANGED <<calls, answer, leftover>>

Answer ==
    /\ state = "calling"
    /\ state' = "idle"
    /\ calls' = calls + 1
    /\ \E own, before, after \in 0..MaxLines :
          /\ answer' = leftover \o Says(calls', "own", own) \o Says(calls', "before", before)
          /\ leftover' = Says(calls', "after", after)

(* The constructor raises.  Its caller has nothing it could close.         *)
Abort ==
    /\ state = "starting"
    /\ state' = "aborted"
    /\ UNCHANGED <<calls, answer, leftover>>

Raise ==
    /\ state \in {"idle", "calling"}
    /\ state' = "failed"
    /\ leftover' = <<>>
    /\ UNCHANGED <<calls, answer>>

(* The reasoner ends before it has said all it still had to say.           *)
End ==
    /\ state \in {"idle", "calling"}
    /\ \E k \in 0..Len(leftover) : leftover' = SubSeq(leftover, 1, k)
    /\ UNCHANGED <<state, calls, answer>>

Close ==
    /\ state \in {"idle", "failed"}
    /\ state' = "closed"
    /\ leftover' = <<>>
    /\ UNCHANGED <<calls, answer>>

Next == Ready \/ Abort \/ Call \/ Answer \/ Raise \/ End \/ Close

Spec == Init /\ [][Next]_callVars

(* A call that was made returns or raises, and so does the constructor.    *)
(* It may be a long wait: the driver reads lines without a timeout.        *)
Waiting == state \in {"starting", "calling"}
CallsReturn == WF_callVars(Waiting /\ (Ready \/ Abort \/ Answer \/ Raise))
=============================================================================
