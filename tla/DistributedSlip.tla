--------------------------- MODULE DistributedSlip ---------------------------
(***************************************************************************)
(* The distributed routing slip executor,                                  *)
(* lib/factories/routing-slip.distributed-executor.ts, executing one slip, *)
(* with the consumers of the activity queues that lib/routing-slips sets   *)
(* up.  It publishes a message for every activity and every compensation,  *)
(* and carries both out in its own process as well: no answer comes back.  *)
(* Each consumer is bound to the one activity of its endpoint, and all     *)
(* messages of a class go to the queue of the last endpoint for it.        *)
(*                                                                         *)
(* An activity is its position in the itinerary.  Activities complete in   *)
(* that order, so activityLogs is 1 .. completed and its reverse a count   *)
(* down.  The recorded exceptions are left out, nothing reads them.        *)
(***************************************************************************)
EXTENDS Integers, Sequences

CONSTANTS
    Activities,    \* length of the itinerary
    Discoveries,   \* what RoutingSlipActivityFactory may have discovered
    Unregistered,  \* positions the executor's factory may not know
    Compensatable, \* positions whose activity has a compensate method
    Endpoints,     \* the activities given to configureEndpoints(), in order
    Throwing,      \* events a subscriber may throw at
    MaxLosses      \* bound: losses of the consumers' connection

Itinerary == 1 .. Activities

Kinds == {"Execute", "Compensate"}

\* The kind of a message and the position it names; a consumer's call for one
\* adds the position whose activity it calls.
Messages == Kinds \X Itinerary

Calls == Kinds \X Itinerary \X Itinerary

EventNames == {"Completed", "Faulted", "ActivityCompleted", "ActivityFaulted",
               "ActivityCompensated", "CompensationFailed", "Terminated"}

ASSUME DistributedAssumption ==
    /\ Activities \in Nat \ {0}
    /\ Discoveries \subseteq SUBSET Itinerary /\ Discoveries # {}
    /\ Unregistered \subseteq Itinerary
    /\ Compensatable \subseteq Itinerary
    /\ Endpoints \in Seq(Itinerary) \ {<< >>}
    /\ Compensatable # {} => \E n \in DOMAIN Endpoints : Endpoints[n] \in Compensatable
    /\ Throwing \subseteq EventNames
    /\ MaxLosses \in Nat

VARIABLES
    pc,        \* where execute() is
    index,     \* currentActivityIndex, counted from 1
    inCatch,   \* the inner catch block was entered
    completed, \* length of activityLogs
    undoing,   \* position that compensateDistributed() has reached
    event,     \* the event being emitted
    announced, \* history: events emitted to a subscriber
    attempts,  \* history: how often a pass tried to compensate a position
    undoCalls, \* history: calls of compensate() in this process
    configurations, \* position -> the configuration of its queues, partial
    pending,   \* message -> how often it is in its queue or with a consumer
    unacked,   \* message -> how often it was handled but not acknowledged
    runs,      \* history: calls of consumers' activities that ended
    losses     \* losses of the consumers' connection so far

slipVars == <<index, inCatch, completed, undoing, attempts, undoCalls>>
executorVars == <<pc, event, announced, slipVars>>
consumerVars == <<configurations, unacked, runs, losses>>
vars == <<executorVars, pending, consumerVars>>

\* provisionQueues(): every activity that was discovered gets its queues.
Provisioned(discovered) ==
    [i \in discovered |-> [hasCompensation |-> i \in Compensatable]]

\* onModuleInit: without autoProvisionQueues, as after forRootAsync with options
\* that do not set it, nothing is provisioned.
InitConfigurations ==
    \E discovered \in Discoveries, autoProvisionQueues \in BOOLEAN :
        configurations = Provisioned(IF autoProvisionQueues THEN discovered ELSE {})

None == [message \in Messages |-> 0]

Init ==
    /\ pc = "next"
    /\ index = 1
    /\ inCatch = FALSE
    /\ completed = 0
    /\ undoing = 0
    /\ event = "Completed"
    /\ announced = {}
    /\ attempts = [i \in Itinerary |-> 0]
    /\ undoCalls = [i \in Itinerary |-> 0]
    /\ InitConfigurations
    /\ pending = None /\ unacked = None
    /\ runs = [call \in Calls |-> 0]
    /\ losses = 0

-----------------------------------------------------------------------------
Emit(e) == pc' = "emit" /\ event' = e

\* The subscribers of one of the events were called and returned.
Emitted(events) ==
    /\ pc = "emit"
    /\ event \in events
    /\ announced' = announced \cup {event}

Goto(label) == pc' = label /\ UNCHANGED event

Publish(kind, i) == pending' = [pending EXCEPT ![<<kind, i>>] = @ + 1]

-----------------------------------------------------------------------------
\* Mutants of the definitions that follow.

FirstToUndo_Oldest == 1

FirstToUndo_OffByOne == completed + 1

PublishExecute_Twice ==
    /\ pc = "publish"
    /\ pending' = [pending EXCEPT ![<<"Execute", index>>] = @ + 2]
    /\ Goto("execute")
    /\ UNCHANGED <<announced, slipVars, consumerVars>>

AfterFaulted_ThrowsInTry ==
    /\ Emitted({"Faulted"})
    /\ Goto(IF inCatch THEN "resolved" ELSE "rejected")
    /\ UNCHANGED <<slipVars, pending, consumerVars>>

CompensatePublishFails_Silently ==
    /\ pc = "compensate"
    /\ undoing \in Compensatable
    /\ Goto("undo")
    /\ UNCHANGED <<slipVars, announced, pending, consumerVars>>

\* Messages are acknowledged as they are given to a consumer, before its call.
Redelivered_Lost == None

-----------------------------------------------------------------------------
\* compensateDistributed(): it returns at once without logs, else goes through
\* them newest first.  Both callers go on to emit RoutingSlipFaulted.

FirstToUndo == completed

BeginCompensate ==
    IF completed = 0
    THEN Emit("Faulted") /\ UNCHANGED undoing
    ELSE Goto("compensate") /\ undoing' = FirstToUndo

EnterCatch ==
    /\ inCatch' = TRUE
    /\ BeginCompensate
    /\ UNCHANGED <<index, completed, attempts, undoCalls>>

HasCompensation(i) == i \in DOMAIN configurations /\ configurations[i].hasCompensation

Attempt == attempts' = [attempts EXCEPT ![undoing] = @ + 1]

\* Publish to the compensate queue, and compensate here.
CompensateNext ==
    /\ pc = "compensate"
    /\ undoing > 0
    /\ HasCompensation(undoing)
    /\ Publish("Compensate", undoing)
    /\ Attempt
    /\ undoCalls' = [undoCalls EXCEPT ![undoing] = @ + 1]
    /\ Goto("undo")
    /\ UNCHANGED <<index, inCatch, completed, undoing, announced, consumerVars>>

CompensatePublishFails ==
    /\ pc = "compensate"
    /\ undoing > 0
    /\ HasCompensation(undoing)
    /\ Attempt
    /\ Emit("CompensationFailed")
    /\ UNCHANGED <<index, inCatch, completed, undoing, undoCalls, announced,
                   pending, consumerVars>>

\* Without a queue configuration that has compensation the log is skipped.
CompensateSkips ==
    /\ pc = "compensate"
    /\ undoing > 0
    /\ ~HasCompensation(undoing)
    /\ undoing' = undoing - 1
    /\ UNCHANGED <<pc, event, index, inCatch, completed, attempts, undoCalls,
                   announced, pending, consumerVars>>

CompensateReturns ==
    /\ pc = "undo"
    /\ Emit("ActivityCompensated")
    /\ UNCHANGED <<announced, slipVars, pending, consumerVars>>

CompensateThrows ==
    /\ pc = "undo"
    /\ Emit("CompensationFailed")
    /\ UNCHANGED <<announced, slipVars, pending, consumerVars>>

ContinueCompensating ==
    /\ Emitted({"ActivityCompensated", "CompensationFailed"})
    /\ Goto("compensate")
    /\ undoing' = undoing - 1
    /\ UNCHANGED <<index, inCatch, completed, attempts, undoCalls, pending, consumerVars>>

CompensationDone ==
    /\ pc = "compensate"
    /\ undoing = 0
    /\ Emit("Faulted")
    /\ UNCHANGED <<announced, slipVars, pending, consumerVars>>

-----------------------------------------------------------------------------
\* The while loop of execute().

NextActivity ==
    /\ pc = "next"
    /\ index \in DOMAIN configurations
    /\ Goto("publish")
    /\ UNCHANGED <<announced, slipVars, pending, consumerVars>>

\* getQueueConfiguration: the error is thrown outside the inner try.
NotConfigured ==
    /\ pc = "next"
    /\ index \in Itinerary \ DOMAIN configurations
    /\ Goto("rejected")
    /\ UNCHANGED <<announced, slipVars, pending, consumerVars>>

ItineraryDone ==
    /\ pc = "next"
    /\ index > Activities
    /\ Emit("Completed")
    /\ UNCHANGED <<announced, slipVars, pending, consumerVars>>

\* Publish to the execute queue, then create the activity to execute it here.
PublishExecute ==
    /\ pc = "publish"
    /\ Publish("Execute", index)
    /\ \/ Goto("execute") /\ UNCHANGED slipVars
       \/ index \in Unregistered /\ EnterCatch
    /\ UNCHANGED <<announced, consumerVars>>

PublishFails ==
    /\ pc = "publish"
    /\ EnterCatch
    /\ UNCHANGED <<announced, pending, consumerVars>>

ActivityCompletes ==
    /\ pc = "execute"
    /\ completed' = completed + 1
    /\ Emit("ActivityCompleted")
    /\ UNCHANGED <<index, inCatch, undoing, attempts, undoCalls, announced, pending,
                   consumerVars>>

ActivityFaultsOrTerminates ==
    /\ pc = "execute"
    /\ \E e \in {"ActivityFaulted", "Terminated"} : Emit(e)
    /\ UNCHANGED <<announced, slipVars, pending, consumerVars>>

ActivityThrows ==
    /\ pc = "execute"
    /\ EnterCatch
    /\ UNCHANGED <<announced, pending, consumerVars>>

AfterActivityCompleted ==
    /\ Emitted({"ActivityCompleted"})
    /\ index' = index + 1
    /\ Goto("next")
    /\ UNCHANGED <<inCatch, completed, undoing, attempts, undoCalls, pending, consumerVars>>

AfterActivityFaulted ==
    /\ Emitted({"ActivityFaulted"})
    /\ BeginCompensate
    /\ UNCHANGED <<index, inCatch, completed, attempts, undoCalls, pending, consumerVars>>

\* The Fault branch returns: the promise resolves.  The catch block rethrows.
AfterFaulted ==
    /\ Emitted({"Faulted"})
    /\ Goto(IF inCatch THEN "rejected" ELSE "resolved")
    /\ UNCHANGED <<slipVars, pending, consumerVars>>

Resolve ==
    /\ Emitted({"Completed", "Terminated"})
    /\ Goto("resolved")
    /\ UNCHANGED <<slipVars, pending, consumerVars>>

\* An exception that only the outer catch sees.
Uncaught == event = "Completed" \/ (inCatch /\ event # "ActivityCompensated")

SubscriberThrows ==
    /\ Emitted(Throwing)
    /\ \/ event = "ActivityCompensated" /\ Emit("CompensationFailed") /\ UNCHANGED slipVars
       \/ Uncaught /\ Goto("rejected") /\ UNCHANGED slipVars
       \/ ~Uncaught /\ event # "ActivityCompensated" /\ EnterCatch
    /\ UNCHANGED <<pending, consumerVars>>

Executor ==
    \/ NextActivity \/ NotConfigured \/ ItineraryDone \/ PublishExecute
    \/ PublishFails \/ ActivityCompletes \/ ActivityFaultsOrTerminates \/ ActivityThrows
    \/ AfterActivityCompleted \/ AfterActivityFaulted \/ AfterFaulted \/ Resolve
    \/ CompensateNext \/ CompensatePublishFails \/ CompensateSkips
    \/ CompensateReturns \/ CompensateThrows \/ ContinueCompensating
    \/ CompensationDone \/ SubscriberThrows

-----------------------------------------------------------------------------
\* The consumers of the activity queues.  Consume() calls the activity it was
\* built with, and whatever comes of it builds a response that nobody sends: it
\* neither throws nor tells the executor anything.  The prefetch of an endpoint
\* (50 by default) is more than a slip publishes: no message waits for
\* another, so the calls of all pending messages may be under way at once.

HasEndpoint(kind, i) == kind = "Execute" \/ i \in Compensatable

\* startAllConsumer() maps a class to the queue of each of its endpoints in
\* turn, and the last one stays.
LastEndpoint(kind) ==
    CHOOSE n \in DOMAIN Endpoints :
        /\ HasEndpoint(kind, Endpoints[n])
        /\ \A k \in DOMAIN Endpoints : HasEndpoint(kind, Endpoints[k]) => k <= n

\* The activity that is called for a message, whatever position it names.
Served(kind, i) == Endpoints[LastEndpoint(kind)]

Return(kind, i) ==
    /\ pending[<<kind, i>>] > 0
    /\ pending' = [pending EXCEPT ![<<kind, i>>] = @ - 1]
    /\ unacked' = [unacked EXCEPT ![<<kind, i>>] = @ + 1]
    /\ runs' = [runs EXCEPT ![<<kind, i, Served(kind, i)>>] = @ + 1]
    /\ UNCHANGED <<executorVars, configurations, losses>>

ExecuteConsumerReturns == \E i \in Itinerary : Return("Execute", i)

CompensateConsumerReturns == \E i \in Itinerary : Return("Compensate", i)

Ack(message) ==
    /\ unacked[message] > 0
    /\ unacked' = [unacked EXCEPT ![message] = @ - 1]
    /\ UNCHANGED <<executorVars, configurations, pending, runs, losses>>

Redelivered ==
    [message \in Messages |-> pending[message] + unacked[message]]

\* The calls whose connection is lost: those for the pending messages.
Orphaned(kind, i, a) == IF a = Served(kind, i) THEN pending[<<kind, i>>] ELSE 0

\* The consumers lose their connection, and their messages are delivered again.
\* The calls under way end with the process, or else it lives and they end some
\* time, which is counted here: their acknowledgements come to nothing.
Lose ==
    /\ losses < MaxLosses
    /\ losses' = losses + 1
    /\ pending' = Redelivered
    /\ unacked' = None
    /\ \/ UNCHANGED runs
       \/ runs' = [call \in Calls |-> runs[call] + Orphaned(call[1], call[2], call[3])]
    /\ UNCHANGED <<executorVars, configurations>>

Consumers ==
    \/ ExecuteConsumerReturns \/ CompensateConsumerReturns
    \/ \E message \in Messages : Ack(message)

-----------------------------------------------------------------------------
Settled == pc \in {"resolved", "rejected"}

Done ==
    /\ Settled
    /\ \A message \in Messages : Redelivered[message] = 0
    /\ UNCHANGED vars

Next == Executor \/ Consumers \/ Lose \/ Done

\* The promises the executor awaits settle, and the broker delivers.
Spec == Init /\ [][Next]_vars /\ WF_vars(Executor) /\ WF_vars(Consumers)

-----------------------------------------------------------------------------
TypeOK ==
    /\ pc \in {"next", "publish", "execute", "emit", "compensate", "undo",
               "resolved", "rejected"}
    /\ index \in 1 .. Activities + 1
    /\ inCatch \in BOOLEAN
    /\ completed \in {index - 1, index}
    /\ undoing \in 0 .. completed
    /\ event \in EventNames
    /\ announced \subseteq EventNames
    /\ {attempts, undoCalls} \subseteq [Itinerary -> Nat]
    /\ DOMAIN configurations \in Discoveries \cup {{}}
    /\ \A i \in DOMAIN configurations : configurations[i] \in [hasCompensation : BOOLEAN]
    /\ {pending, unacked} \subseteq [Messages -> Nat]
    /\ runs \in [Calls -> Nat]
    /\ losses \in 0 .. MaxLosses

\* RoutingSlipFaulted says that everything that completed was undone, or else
\* RoutingSlipCompensationFailed has said that something was not.
FaultedMeansUndone ==
    "Faulted" \in announced =>
        \/ "CompensationFailed" \in announced
        \/ \A i \in Compensatable : i <= completed => undoCalls[i] >= 1

\* A Fault result resolves the promise, so only the events tell a slip that was
\* undone from one that was done: a promise that resolves had one ending.
ResolvedHasOneEnding ==
    pc = "resolved" =>
        \E e \in {"Completed", "Faulted", "Terminated"} :
            /\ announced \cap {"Completed", "Faulted", "Terminated"} = {e}
            /\ e # "Faulted" => \A i \in Itinerary : undoCalls[i] = 0

\* Only the activities of the last endpoints are ever called by a consumer: once
\* for each position that was published, twice for one that was undone in both
\* passes of a failed slip, and once more with each loss of the connection,
\* although calls of a lost connection end next to those of the messages that
\* were delivered again.  The activities of other endpoints are never called.
RunsBounded ==
    \A i, a \in Itinerary :
        /\ runs[<<"Execute", i, a>>] <=
               IF a = Endpoints[LastEndpoint("Execute")] THEN 1 + losses ELSE 0
        /\ runs[<<"Compensate", i, a>>] <=
               IF a = Endpoints[LastEndpoint("Compensate")] THEN 2 * (1 + losses) ELSE 0

\* Although connections are lost and calls end unheard, every message is
\* answered by a call in the end: one of execute() for each position that
\* completed here, one of compensate() for each undo here.
EveryMessageRuns ==
    <>[](\A i \in Itinerary :
            /\ i <= completed => runs[<<"Execute", i, Served("Execute", i)>>] >= 1
            /\ runs[<<"Compensate", i, Served("Compensate", i)>>] >= undoCalls[i])

\* The slip is on its way back.
TurnedBack ==
    \/ inCatch
    \/ pc \in {"compensate", "undo"}
    \/ pc = "emit" /\ event \in {"Faulted", "ActivityCompensated", "CompensationFailed"}

Phase == IF Settled THEN pc ELSE IF TurnedBack THEN "backward" ELSE "forward"

\* In its own process the executor keeps the contract of the in-process one, but
\* for a promise that resolves after the slip was turned back.
Contract == INSTANCE SlipContract
    WITH phase <- Phase, undone <- attempts, MaxUndo <- 2, BackwardResolves <- TRUE

ImplementsContract == Contract!Spec
=============================================================================
