------------------------------- MODULE Hybrid --------------------------------
(***************************************************************************)
(* The hybrid pattern of example/docs/HYBRID_PATTERN_GUIDE.md: a saga one  *)
(* of whose commands is carried out by a consumer that executes a routing  *)
(* slip, awaits it, and reports to the saga how it ended.                  *)
(*                                                                         *)
(* Saga is the state machine, the messages and the pipeline.  A slip is    *)
(* what SlipContract promises of either executor when subscribers do not   *)
(* throw, every activity is registered, provisioned and can be undone, and *)
(* every compensation succeeds.  It ends with all its work in place or     *)
(* with none: in process it then resolves or rejects accordingly, but the  *)
(* distributed executor resolves a slip that an activity's Fault result    *)
(* turned back, too.  The work is that of the executor's own process.      *)
(* (A second pass of compensations undoes nothing more and is left out.)   *)
(***************************************************************************)
EXTENDS Saga

CONSTANTS
    Success,      \* command -> event its consumer sends after the slip resolved
    Activities,   \* length of the slip's itinerary
    ExecutionMode \* which executor RoutingSlipService was constructed with

SlipCommands == DOMAIN Success

ASSUME HybridAssumption ==
    /\ SlipCommands \subseteq DOMAIN Fallback
    /\ SlipCommands \cap DOMAIN Outcomes = {}
    /\ Success \in [SlipCommands -> Events]
    /\ \A c \in SlipCommands : Success[c] # Fallback[c]
    /\ Activities \in Nat \ {0}
    /\ ExecutionMode \in {"InProcess", "Distributed"}

VARIABLE
    slips   \* every slip so far, and how much of its work is in place

hybridVars == <<row, msgs, crashes, faults, slips>>

HybridInit == Init /\ slips = <<>>

-----------------------------------------------------------------------------
\* Mutants of the definitions that follow.

SlipRejects_Swallowed(s) ==
    /\ s \in 1 .. Len(slips)
    /\ slips[s].state = "thrown"
    /\ slips[s].done = 0
    /\ slips' = [slips EXCEPT ![s].state = "rejected"]
    /\ msgs' = [msgs EXCEPT ![slips[s].command].phase = "finished"]
    /\ UNCHANGED <<row, crashes, faults>>

CompensateActivity_Skips(s) ==
    /\ s \in 1 .. Len(slips)
    /\ slips[s].state \in {"faulted", "thrown"}
    /\ slips' = [slips EXCEPT ![s].state = "rejected"]
    /\ msgs' = [msgs EXCEPT ![slips[s].command].phase = "caught"]
    /\ UNCHANGED <<row, crashes, faults>>

SendSuccessFails_Retries(m) ==
    /\ m \in 1 .. Len(msgs)
    /\ msgs[m].phase = "fulfilled"
    /\ faults < MaxFaults
    /\ faults' = faults + 1
    /\ msgs' = [msgs EXCEPT ![m].phase = "queued"]
    /\ UNCHANGED <<row, crashes, slips>>

Lost_Never(process) == slips

-----------------------------------------------------------------------------
\* The consumer of the command, ExecuteFulfillmentConsumer.Consume.

SlipIs(s, state) == s \in 1 .. Len(slips) /\ slips[s].state = state

Live(slip) == slip.state \in {"forward", "faulted", "thrown"}

\* Build a slip for this delivery of the command, and start executing it.
StartSlip(m) ==
    /\ Deliverable(m)
    /\ msgs[m].kind \in SlipCommands
    /\ msgs' = Goto(m, "working")
    /\ slips' = Append(slips, [command |-> m, state |-> "forward", done |-> 0])
    /\ UNCHANGED <<row, crashes, faults>>

\* An activity of the slip is being executed.
Executing(s) == SlipIs(s, "forward") /\ slips[s].done < Activities

ActivityCompletes(s) ==
    /\ Executing(s)
    /\ slips' = [slips EXCEPT ![s].done = @ + 1]
    /\ UNCHANGED vars

TurnBack(s, state) == slips' = [slips EXCEPT ![s].state = state] /\ UNCHANGED vars

\* The activity returns a Fault result: the distributed executor compensates and
\* returns, the one in process compensates and throws.
ActivityFaults(s) ==
    /\ Executing(s)
    /\ TurnBack(s, IF ExecutionMode = "Distributed" THEN "faulted" ELSE "thrown")

\* The activity throws, or its message to the activity's queue is not published.
ActivityThrows(s) == Executing(s) /\ TurnBack(s, "thrown")

CompensateActivity(s) ==
    /\ SlipIs(s, "faulted") \/ SlipIs(s, "thrown")
    /\ slips[s].done > 0
    /\ slips' = [slips EXCEPT ![s].done = @ - 1]
    /\ UNCHANGED vars

\* execute() resolves: all is done, or the Fault branch that returns undid it.
SlipResolves(s) ==
    /\ \/ SlipIs(s, "forward") /\ slips[s].done = Activities
       \/ SlipIs(s, "faulted") /\ slips[s].done = 0
    /\ slips' = [slips EXCEPT ![s].state = "resolved"]
    /\ msgs' = Goto(slips[s].command, "fulfilled")
    /\ UNCHANGED <<row, crashes, faults>>

\* execute() rejects, and the consumer's catch block takes over.
SlipRejects(s) ==
    /\ SlipIs(s, "thrown")
    /\ slips[s].done = 0
    /\ slips' = [slips EXCEPT ![s].state = "rejected"]
    /\ msgs' = Goto(slips[s].command, "caught")
    /\ UNCHANGED <<row, crashes, faults>>

SendSuccess(m) ==
    /\ Is(m, "fulfilled")
    /\ msgs' = Sent(m, Success[msgs[m].kind], msgs[m].header)
    /\ UNCHANGED <<row, crashes, faults, slips>>

\* The call that reports success is in the try block as well.
SendSuccessFails(m) ==
    /\ Is(m, "fulfilled")
    /\ Fault
    /\ msgs' = Failed(m)
    /\ UNCHANGED <<row, crashes, slips>>

\* A slip lives in the memory of the process that executes it.
Lost(process) ==
    [s \in 1 .. Len(slips) |->
        IF Live(slips[s]) /\ msgs[slips[s].command].kind \in process
        THEN [slips[s] EXCEPT !.state = "lost"]
        ELSE slips[s]]

-----------------------------------------------------------------------------
ExecuteSlip(s) ==
    \/ ActivityCompletes(s) \/ ActivityFaults(s) \/ ActivityThrows(s)
    \/ CompensateActivity(s) \/ SlipResolves(s) \/ SlipRejects(s)

HybridProgress ==
    \/ \E m \in Ids : StartSlip(m) \/ SendSuccess(m) \/ (Advance(m) /\ UNCHANGED slips)
    \/ \E s \in 1 .. Len(slips) : ExecuteSlip(s)

HybridNext ==
    \/ HybridProgress
    \/ \E m \in Ids : SendSuccessFails(m) \/ (Disturb(m) /\ UNCHANGED slips)
    \/ \E process \in Processes : Crash(process) /\ slips' = Lost(process)

\* As in Saga; an activity of the example ends, by result or error.
HybridSpec == HybridInit /\ [][HybridNext]_hybridVars /\ WF_hybridVars(HybridProgress)

-----------------------------------------------------------------------------
\* The events that the consumer of a command may send.
Sendable(command) ==
    (IF command \in DOMAIN Outcomes THEN Outcomes[command] ELSE {})
        \cup (IF command \in DOMAIN Fallback THEN {Fallback[command]} ELSE {})
        \cup (IF command \in SlipCommands THEN {Success[command]} ELSE {})

\* What keeps work from being repeated: only the event that submits an order has
\* it executed, no consumer sends that event, the saga does not retry, and its
\* process does not die.
WorkStartsOnce ==
    /\ \A e \in DOMAIN CommandOf : CommandOf[e] \in SlipCommands => e = Starting
    /\ \A c \in Commands : Starting \notin Sendable(c)
    /\ \A process \in Processes : process \cap Events = {}
    /\ MaxTries = 0

\* What a consumer may report the saga expects, in the state it sent the command in.
ReportsExpected ==
    \A e \in DOMAIN CommandOf :
        \A report \in Sendable(CommandOf[e]) : Target[e] \in Previous[report]

-----------------------------------------------------------------------------
\* A handler works exactly as long as one slip of its message does.
HybridTypeOK ==
    /\ \A s \in 1 .. Len(slips) :
           /\ slips[s].command \in Ids
           /\ slips[s].state \in {"forward", "faulted", "thrown",
                                 "resolved", "rejected", "lost"}
           /\ slips[s].done \in 0 .. Activities
    /\ \A m \in Ids :
           LET live == {s \in 1 .. Len(slips) : slips[s].command = m /\ Live(slips[s])}
           IN  /\ Cardinality(live) = (IF Is(m, "working") THEN 1 ELSE 0)
               /\ msgs[m].phase \in Phases \cup {"working", "fulfilled"}

Slips(m, state) == {s \in 1 .. Len(slips) : slips[s].command = m /\ slips[s].state = state}

Reports(m, event) == {r \in Ids : msgs[r].parent = m /\ msgs[r].kind = event}

Undisturbed == crashes = 0 /\ faults = 0

\* All its work was done, or, where execute() resolves for that too, none is left.
Resolvable(slip) ==
    \/ slip.done = Activities
    \/ ExecutionMode = "Distributed" /\ slip.done = 0

\* In process mode the saga is told what happened: success only after a slip that
\* kept all its work.  In distributed mode it is told so after one that kept none
\* as well, but never of work half done.
\* An order that nothing disturbs is told of one ending, and of failure only
\* when none of its slips has work in place, in either mode.
ReportsAreTrue ==
    \A m \in Ids : msgs[m].kind \in SlipCommands =>
        LET told == Reports(m, Success[msgs[m].kind])
            toldFailed == Reports(m, Fallback[msgs[m].kind])
        IN  /\ told # {} => \E s \in Slips(m, "resolved") : Resolvable(slips[s])
            /\ Undisturbed /\ toldFailed # {} =>
                   /\ told = {}
                   /\ \A s \in 1 .. Len(slips) : slips[s].command = m => slips[s].done = 0

\* The claim of the consumer's catch block and of the saga's FulfillmentFailed
\* handler: whenever a failure is reported, the slip has undone its work.
FailureMeansUndone ==
    \A m \in Ids : msgs[m].kind \in SlipCommands =>
        (Reports(m, Fallback[msgs[m].kind]) # {} => Slips(m, "resolved") = {})

\* A slip is executed once for each order that is submitted, and once more only
\* after its process died: no retry, timeout or late reply repeats it.
WorkBounded == Len(slips) <= Submissions * (1 + crashes)

\* An order that nothing disturbs is released by the saga in the end, with
\* every message acknowledged.
OrderIsReleased ==
    []Undisturbed => <>[](row = NoRow /\ \A m \in Ids : msgs[m].phase = "done")
=============================================================================
