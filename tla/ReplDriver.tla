----------------------------- MODULE ReplDriver -----------------------------
(***************************************************************************)
(* EflintRepl: the oracle's driver of an eflint-repl process.  Driver and  *)
(* reasoner run concurrently and talk through two pipes of bounded size.   *)
(* Output carries no mark of the phrase it answers, so the driver follows  *)
(* every phrase by a toggle of a trigger fact of its own, and reads lines  *)
(* until it sees the echo of that toggle.                                  *)
(*                                                                         *)
(* The reasoner is external: it handles its input line by line, says a     *)
(* number of lines about each, and echoes a toggle if it changes the fact. *)
(* Lines about a toggle (violations reported again) may come before and    *)
(* after the echo.  It may end at any time.                                *)
(***************************************************************************)
EXTENDS Naturals, FiniteSets, Sequences, Functions

CONSTANTS
    NPhrases,       \* the number of phrases submitted
    MaxLines,       \* bound: lines of one part of a response
    InCap,          \* phrases that fit into the pipe to the reasoner
    OutCap,         \* lines that fit into the pipe from the reasoner
    MayEnd          \* whether the reasoner may end early

ASSUME ReplAssumption ==
    /\ NPhrases \in Nat /\ MaxLines \in Nat
    /\ InCap \in Nat \ {0} /\ OutCap \in Nat \ {0}
    /\ MayEnd \in BOOLEAN

VARIABLES
    pc,             \* the driver's control
    timedOut,       \* the deadline event of _wait_for_ready
    trigger,        \* _trigger_state
    captured,       \* out_lines of the submission under way
    answers,        \* what the submissions so far returned
    inp,            \* stdin of the reasoner
    out,            \* its stdout and stderr
    repl,           \* "booting", "up" or "dead"
    fact,           \* whether the trigger fact holds
    saying,         \* lines the reasoner has yet to write
    turn            \* the number of phrases it has taken

driverVars == <<pc, timedOut, trigger, captured, answers>>
reasonerVars == <<repl, fact, saying, turn>>
vars == <<driverVars, inp, out, reasonerVars>>

Line(n, part) == [of |-> n, part |-> part]
Banner == Line(0, "banner")
ReadyLine == Line(0, "ready")
Echo(b) == [echo |-> b]
Lines(n, part) == {[i \in 1..k |-> Line(n, part)] : k \in 0..MaxLines}

Phrase == <<"phrase">>
Declaration == <<"declaration">>
Toggle(b) == <<"trigger", b>>

Init ==
    /\ pc = "ready"
    /\ timedOut = FALSE /\ trigger = FALSE
    /\ captured = <<>> /\ answers = <<>>
    /\ inp = <<>> /\ out = <<>>
    /\ repl = "booting"
    /\ fact = FALSE /\ saying = <<>> /\ turn = 0

-----------------------------------------------------------------------------
(* The driver.  Reads block until there is a line or the reasoner's end is *)
(* gone; writes block while the pipe is full, and raise when it is broken. *)

CanRead == out # <<>>
Eof == out = <<>> /\ repl = "dead"

(* An exception of the constructor; an exception of submit.                *)
RaiseInInit ==
    /\ pc' = "failed"
    /\ UNCHANGED <<timedOut, trigger, captured, answers, inp, out, reasonerVars>>

RaiseInSubmit ==
    /\ pc' = "raised"
    /\ captured' = <<>>
    /\ UNCHANGED <<timedOut, trigger, answers, inp, out, reasonerVars>>

(* The deadline is looked at between two lines.                            *)
CheckDeadline ==
    /\ pc = "ready"
    /\ IF timedOut THEN RaiseInInit
       ELSE /\ pc' = "banner"
            /\ UNCHANGED <<timedOut, trigger, captured, answers, inp, out, reasonerVars>>

ReadBanner ==
    /\ pc = "banner" /\ CanRead
    /\ out' = Tail(out)
    /\ pc' = IF Head(out) = ReadyLine THEN "declare" ELSE "ready"
    /\ UNCHANGED <<timedOut, trigger, captured, answers, inp, reasonerVars>>

Timer ==
    /\ pc \in {"ready", "banner"} /\ ~timedOut
    /\ timedOut' = TRUE
    /\ UNCHANGED <<pc, trigger, captured, answers, inp, out, reasonerVars>>

(* Writing phrase x takes the driver from one point to another.            *)
Write(from, x, to) ==
    /\ pc = from
    /\ repl # "dead" /\ Len(inp) < InCap
    /\ inp' = Append(inp, x)
    /\ pc' = to
    /\ UNCHANGED <<timedOut, answers, out, reasonerVars>>

DeclareTrigger == Write("declare", Declaration, "plant") /\ UNCHANGED <<trigger, captured>>

PlantTrigger == Write("plant", Toggle(TRUE), "setup") /\ trigger' = TRUE /\ UNCHANGED captured

Submit == Len(answers) < NPhrases /\ Write("idle", Phrase, "toggle") /\ UNCHANGED <<trigger, captured>>

(* Variant of ToggleTrigger: the trigger is set once more.                 *)
ToggleForgotten == Write("toggle", Toggle(TRUE), "drain") /\ UNCHANGED <<trigger, captured>>

ToggleTrigger ==
    /\ Write("toggle", Toggle(~trigger), "drain")
    /\ trigger' = ~trigger
    /\ UNCHANGED captured

(* Variant of Drain: the first line is taken for the echo.                 *)
DrainOneLine ==
    /\ pc \in {"setup", "drain"} /\ CanRead
    /\ out' = Tail(out)
    /\ pc' = "idle" /\ captured' = <<>>
    /\ answers' = IF pc = "drain" THEN Append(answers, captured) ELSE answers
    /\ UNCHANGED <<timedOut, trigger, inp, reasonerVars>>

(* Variant of Drain: the sign expected is that of the toggle before.       *)
DrainStaleSign ==
    /\ pc \in {"setup", "drain"} /\ CanRead
    /\ out' = Tail(out)
    /\ IF Head(out) = Echo(IF pc = "setup" THEN TRUE ELSE ~trigger)
       THEN /\ pc' = "idle" /\ captured' = <<>>
            /\ answers' = IF pc = "drain" THEN Append(answers, captured) ELSE answers
       ELSE /\ captured' = Append(captured, Head(out))
            /\ UNCHANGED <<pc, answers>>
    /\ UNCHANGED <<timedOut, trigger, inp, reasonerVars>>

(* _drain_until_sentinel, one line: in the constructor what is read is     *)
(* dropped, in submit it is returned.                                      *)
Drain ==
    /\ pc \in {"setup", "drain"} /\ CanRead
    /\ out' = Tail(out)
    /\ IF Head(out) = Echo(trigger)
       THEN /\ pc' = "idle" /\ captured' = <<>>
            /\ answers' = IF pc = "drain" THEN Append(answers, captured) ELSE answers
       ELSE /\ captured' = Append(captured, Head(out))
            /\ UNCHANGED <<pc, answers>>
    /\ UNCHANGED <<timedOut, trigger, inp, reasonerVars>>

(* The end of the reasoner shows as the end of its output, as a broken     *)
(* pipe, or when submit polls the process.                                 *)
EndSeenInInit ==
    /\ \/ pc \in {"banner", "setup"} /\ Eof
       \/ pc \in {"declare", "plant"} /\ repl = "dead"
    /\ RaiseInInit

EndSeenInSubmit ==
    /\ \/ pc = "drain" /\ Eof
       \/ pc \in {"idle", "toggle"} /\ repl = "dead" /\ Len(answers) < NPhrases
    /\ RaiseInSubmit

(* close: :quit, then at most two seconds later the reasoner is killed.    *)
Close ==
    /\ pc = "raised" \/ (pc = "idle" /\ Len(answers) = NPhrases)
    /\ pc' = "closed"
    /\ repl' = "dead" /\ saying' = <<>>
    /\ UNCHANGED <<timedOut, trigger, captured, answers, inp, out, fact, turn>>

DriverStep ==
    \/ CheckDeadline \/ ReadBanner \/ DeclareTrigger \/ PlantTrigger
    \/ Submit \/ ToggleTrigger \/ Drain \/ EndSeenInInit \/ EndSeenInSubmit \/ Close

-----------------------------------------------------------------------------
(* The reasoner.                                                           *)

Boot ==
    /\ repl = "booting"
    /\ repl' = "up"
    /\ \E k \in 0..MaxLines : saying' = Append([i \in 1..k |-> Banner], ReadyLine)
    /\ UNCHANGED <<driverVars, inp, out, fact, turn>>

Say ==
    /\ saying # <<>> /\ Len(out) < OutCap
    /\ out' = Append(out, Head(saying))
    /\ saying' = Tail(saying)
    /\ UNCHANGED <<driverVars, inp, repl, fact, turn>>

Take ==
    /\ repl = "up" /\ saying = <<>> /\ inp # <<>>
    /\ inp' = Tail(inp)
    /\ \/ /\ Head(inp) = Declaration
          /\ saying' \in Lines(turn, "own")
          /\ UNCHANGED <<fact, turn>>
       \/ /\ Head(inp) = Phrase
          /\ turn' = turn + 1
          /\ saying' \in Lines(turn + 1, "own")
          /\ UNCHANGED fact
       \/ \E b \in BOOLEAN :
          /\ Head(inp) = Toggle(b)
          /\ fact' = b
          /\ \E x \in Lines(turn, "before"), y \in Lines(turn, "after") :
                saying' = x \o (IF fact # b THEN <<Echo(b)>> ELSE <<>>) \o y
          /\ UNCHANGED turn
    /\ UNCHANGED <<driverVars, out, repl>>

End ==
    /\ MayEnd /\ repl # "dead"
    /\ repl' = "dead" /\ saying' = <<>>
    /\ UNCHANGED <<driverVars, inp, out, fact, turn>>

Next == DriverStep \/ Timer \/ Boot \/ Say \/ Take \/ End

(* The operating system runs the driver and its timer.  Nothing is assumed *)
(* of the reasoner in DriverSpec; in Spec it boots and answers.            *)
SafeSpec == Init /\ [][Next]_vars
DriverSpec == SafeSpec /\ WF_vars(DriverStep) /\ WF_vars(Timer)
Spec == DriverSpec /\ WF_vars(Boot \/ Say \/ Take)

-----------------------------------------------------------------------------
(* An echo is never taken for output.                                      *)
Reports == {Line(n, part) : n \in 0..NPhrases, part \in {"own", "before", "after"}}

ReplTypeOK ==
    /\ pc \in {"ready", "banner", "declare", "plant", "setup", "idle", "toggle", "drain",
               "raised", "failed", "closed"}
    /\ timedOut \in BOOLEAN /\ trigger \in BOOLEAN /\ fact \in BOOLEAN
    /\ captured \in Seq(Reports)
    /\ answers \in Seq(Seq(Reports)) /\ Len(answers) <= NPhrases
    /\ turn \in 0..NPhrases
    /\ Len(inp) <= InCap /\ Len(out) <= OutCap
    /\ repl \in {"booting", "up", "dead"}

(* SAFETY.  Whenever the driver is between two submissions the reasoner    *)
(* has taken everything it was sent, its trigger fact is in the state the  *)
(* driver believes, and what it has yet to say or to be read is about the  *)
(* last toggle: the next echo can only be that of the next toggle.         *)
InStep == pc = "idle" /\ repl = "up" =>
    /\ inp = <<>>
    /\ fact = trigger
    /\ turn = Len(answers)
    /\ \A x \in Range(out \o saying) : x = Line(turn, "after")

(* What was read of the submission under way and what is yet to be read.   *)
Stream == captured \o out \o saying

(* Lines said after the echo of the last toggle that was answered.         *)
Leftover ==
    LET late == Line(Len(answers), "after")
    IN  [k \in 1..Cardinality({i \in DOMAIN Stream : Stream[i] = late}) |-> late]

CallState ==
    IF pc \in {"ready", "banner", "declare", "plant", "setup"} THEN "starting"
    ELSE IF pc = "idle" THEN "idle"
    ELSE IF pc \in {"toggle", "drain"} THEN "calling"
    ELSE IF pc = "raised" THEN "failed"
    ELSE IF pc = "failed" THEN "aborted"
    ELSE "closed"

Calls == INSTANCE PhraseCalls WITH
    state <- CallState,
    calls <- Len(answers),
    answer <- IF answers = <<>> THEN <<>> ELSE answers[Len(answers)],
    leftover <- IF CallState \in {"idle", "calling"} THEN Leftover ELSE <<>>

(* submit writes the phrase and the toggle before it reads anything.  When *)
(* the pipe to the reasoner holds only one of them, and the pipe back not  *)
(* all the reasoner still had to say about the toggle before, both write   *)
(* and neither reads.                                                      *)
Choked ==
    /\ pc = "toggle" /\ Len(inp) = InCap
    /\ saying # <<>> /\ Len(out) = OutCap

(* Pipes of 64 KiB suffice for phrases of a few hundred bytes.             *)
PipesSuffice == InCap >= 2 \/ OutCap >= MaxLines

(* REFINEMENT.  However driver and reasoner interleave and whatever the    *)
(* pipes hold at a time, a submission is one call: it returns all the      *)
(* reasoner says about its phrase, and of others only what was said after  *)
(* the echo before.  It returns or raises, if the reasoner answers, unless *)
(* the pipes are choked, which is the only way for both to block.          *)
ImplementsCalls == Calls!Spec /\ (<>[]Choked \/ Calls!CallsReturn)

(* LIVENESS, of the message of _wait_for_ready ("did not become ready      *)
(* within {timeout_s}s"): the constructor does not wait for ever for a     *)
(* reasoner that stays silent.                                             *)
StartupBounded == <>(pc \notin {"ready", "banner"})
=============================================================================
