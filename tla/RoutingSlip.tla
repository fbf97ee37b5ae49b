----------------------------- MODULE RoutingSlip -----------------------------
(***************************************************************************)
(* The in-process routing slip executor,                                   *)
(* lib/factories/routing-slip.executor.ts, executing one routing slip.     *)
(*                                                                         *)
(* One action per stretch of code between two awaits.  An activity of the  *)
(* itinerary is its position; activity arguments, variables and log        *)
(* payloads are left out, no branch of the executor reads them.            *)
(***************************************************************************)
EXTENDS Integers, SequencesExt

CONSTANTS
    Activities,     \* length of the itinerary
    Subscribers,    \* number of event subscribers
    Unregistered,   \* positions whose activity may be unknown to the factory
    Compensatable,  \* positions whose activity has a compensate method
    Throwing        \* events whose subscriber callbacks may throw

Itinerary == 1 .. Activities

EventNames == {"Completed", "Faulted", "ActivityCompleted", "ActivityFaulted",
               "ActivityCompensated", "CompensationFailed", "Terminated"}

\* build() rejects an empty itinerary.
ASSUME SlipAssumption ==
    /\ Activities \in Nat \ {0}
    /\ Subscribers \in Nat
    /\ Unregistered \subseteq Itinerary
    /\ Compensatable \subseteq Itinerary
    /\ Throwing \subseteq EventNames

VARIABLES
    pc,                  \* where execute() is
    index,               \* currentActivityIndex, counted from 1
    inCatch,             \* the inner catch block of the while loop was entered
    activityLogs,        \* completed positions, in order of completion
    activityExceptions,  \* positions of the recorded exceptions
    compensateLogs,      \* positions whose compensate() returned
    cursor,              \* progress of the for loop of compensate()
    event, subscriber,   \* the event being emitted and its next subscriber
    heard,               \* history: the events each subscriber was called with
    undoCalls            \* history: how often compensate() of a position was called

slipVars == <<index, inCatch, activityLogs, activityExceptions, compensateLogs,
              cursor, undoCalls>>
vars == <<pc, event, subscriber, heard, slipVars>>

Init ==
    /\ pc = "next"
    /\ index = 1
    /\ inCatch = FALSE
    /\ activityLogs = << >>
    /\ activityExceptions = << >>
    /\ compensateLogs = << >>
    /\ cursor = 0
    /\ event = "Completed"
    /\ subscriber = 1
    /\ heard = [s \in 1 .. Subscribers |-> {}]
    /\ undoCalls = [i \in Itinerary |-> 0]

-----------------------------------------------------------------------------
\* Control: the event to emit next, to its subscribers one after the other, or
\* the statement to run next.

Emit(e) == pc' = "emit" /\ event' = e /\ subscriber' = 1

Emitting == pc = "emit" /\ subscriber <= Subscribers

Emitted(events) == pc = "emit" /\ subscriber > Subscribers /\ event \in events

Goto(label) == pc' = label /\ UNCHANGED <<event, subscriber>>

-----------------------------------------------------------------------------
\* Mutants of the definitions that follow.

LogsToCompensate_NotReversed == activityLogs

RecordException_OffByOne == activityExceptions' = Append(activityExceptions, index - 1)

Uncaught_InnerTryOnly == inCatch /\ event # "ActivityCompensated"

AfterCatchBlock_ResumesTheLoop ==
    /\ Emitted({"Faulted"})
    /\ inCatch
    /\ Goto("next")
    /\ UNCHANGED <<slipVars, heard>>

AfterCatchBlock_Swallows ==
    /\ Emitted({"Faulted"})
    /\ inCatch
    /\ Goto("resolved")
    /\ UNCHANGED <<slipVars, heard>>

ContinueCompensating_StopsAtFailure ==
    /\ Emitted({"ActivityCompensated", "CompensationFailed"})
    /\ Goto("compensate")
    /\ cursor' = IF event = "CompensationFailed" THEN Len(activityLogs) + 1 ELSE cursor + 1
    /\ UNCHANGED <<index, inCatch, activityLogs, activityExceptions,
                   compensateLogs, undoCalls, heard>>

-----------------------------------------------------------------------------
\* compensate(): it returns at once without logs, else loops over the reversed
\* logs.  Both of its callers go on to emit RoutingSlipFaulted.

LogsToCompensate == Reverse(activityLogs)

BeginCompensate ==
    IF activityLogs = << >>
    THEN Emit("Faulted") /\ UNCHANGED cursor
    ELSE Goto("compensate") /\ cursor' = 1

RecordException == activityExceptions' = Append(activityExceptions, index)

\* The inner catch block up to its first await.
EnterCatch ==
    /\ inCatch' = TRUE
    /\ RecordException
    /\ BeginCompensate
    /\ UNCHANGED <<index, activityLogs, compensateLogs, undoCalls>>

SkipLog ==
    /\ cursor' = cursor + 1
    /\ UNCHANGED <<pc, event, subscriber, undoCalls>>

\* An activity without a compensate method is skipped.
CompensateNext ==
    /\ pc = "compensate"
    /\ cursor <= Len(activityLogs)
    /\ LET log == LogsToCompensate[cursor]
       IN  IF log \in Compensatable
           THEN /\ Goto("undo")
                /\ undoCalls' = [undoCalls EXCEPT ![log] = @ + 1]
                /\ UNCHANGED cursor
           ELSE SkipLog
    /\ UNCHANGED <<index, inCatch, activityLogs, activityExceptions,
                   compensateLogs, heard>>

CompensateReturns ==
    /\ pc = "undo"
    /\ compensateLogs' = Append(compensateLogs, LogsToCompensate[cursor])
    /\ Emit("ActivityCompensated")
    /\ UNCHANGED <<index, inCatch, activityLogs, activityExceptions, cursor,
                   undoCalls, heard>>

CompensateThrows ==
    /\ pc = "undo"
    /\ Emit("CompensationFailed")
    /\ UNCHANGED <<slipVars, heard>>

\* A failed compensation does not end the loop.
ContinueCompensating ==
    /\ Emitted({"ActivityCompensated", "CompensationFailed"})
    /\ Goto("compensate")
    /\ cursor' = cursor + 1
    /\ UNCHANGED <<index, inCatch, activityLogs, activityExceptions,
                   compensateLogs, undoCalls, heard>>

CompensationDone ==
    /\ pc = "compensate"
    /\ cursor > Len(activityLogs)
    /\ Emit("Faulted")
    /\ UNCHANGED <<slipVars, heard>>

-----------------------------------------------------------------------------
\* The while loop of execute().

NextActivity ==
    /\ pc = "next"
    /\ index <= Activities
    /\ Goto("execute")
    /\ UNCHANGED <<slipVars, heard>>

\* createActivity throws outside the inner try: only the outer catch sees it.
ActivityNotFound ==
    /\ pc = "next"
    /\ index <= Activities
    /\ index \in Unregistered
    /\ Goto("rejected")
    /\ UNCHANGED <<slipVars, heard>>

ItineraryDone ==
    /\ pc = "next"
    /\ index > Activities
    /\ Emit("Completed")
    /\ UNCHANGED <<slipVars, heard>>

ActivityCompletes ==
    /\ pc = "execute"
    /\ activityLogs' = Append(activityLogs, index)
    /\ Emit("ActivityCompleted")
    /\ UNCHANGED <<index, inCatch, activityExceptions, compensateLogs, cursor,
                   undoCalls, heard>>

ActivityFaults ==
    /\ pc = "execute"
    /\ RecordException
    /\ Emit("ActivityFaulted")
    /\ UNCHANGED <<index, inCatch, activityLogs, compensateLogs, cursor,
                   undoCalls, heard>>

ActivityTerminates ==
    /\ pc = "execute"
    /\ Emit("Terminated")
    /\ UNCHANGED <<slipVars, heard>>

ActivityThrows ==
    /\ pc = "execute"
    /\ EnterCatch
    /\ UNCHANGED heard

AfterActivityCompleted ==
    /\ Emitted({"ActivityCompleted"})
    /\ index' = index + 1
    /\ Goto("next")
    /\ UNCHANGED <<inCatch, activityLogs, activityExceptions, compensateLogs,
                   cursor, undoCalls, heard>>

AfterActivityFaulted ==
    /\ Emitted({"ActivityFaulted"})
    /\ BeginCompensate
    /\ UNCHANGED <<index, inCatch, activityLogs, activityExceptions,
                   compensateLogs, undoCalls, heard>>

\* The Fault branch ends by throwing inside the inner try, so the catch block
\* runs after it and compensates once more.
AfterFaultBranch ==
    /\ Emitted({"Faulted"})
    /\ ~inCatch
    /\ EnterCatch
    /\ UNCHANGED heard

\* The catch block rethrows, and so does the outer one.
AfterCatchBlock ==
    /\ Emitted({"Faulted"})
    /\ inCatch
    /\ Goto("rejected")
    /\ UNCHANGED <<slipVars, heard>>

Resolve ==
    /\ Emitted({"Completed", "Terminated"})
    /\ Goto("resolved")
    /\ UNCHANGED <<slipVars, heard>>

-----------------------------------------------------------------------------
\* A subscriber's callback returns or throws; a throw ends the emission, so
\* the subscribers behind it never hear of the event.

CallSubscriber ==
    /\ heard' = [heard EXCEPT ![subscriber] = @ \cup {event}]
    /\ subscriber' = subscriber + 1

Notify ==
    /\ Emitting
    /\ CallSubscriber
    /\ UNCHANGED <<pc, event, slipVars>>

\* An exception that only the outer catch sees, which rejects the promise.
Uncaught == event = "Completed" \/ (inCatch /\ event # "ActivityCompensated")

SubscriberThrows ==
    /\ Emitting
    /\ event \in Throwing
    /\ heard' = [heard EXCEPT ![subscriber] = @ \cup {event}]
    /\ \/ /\ event = "ActivityCompensated"
          /\ Emit("CompensationFailed")
          /\ UNCHANGED slipVars
       \/ /\ Uncaught
          /\ Goto("rejected")
          /\ UNCHANGED slipVars
       \/ /\ ~Uncaught
          /\ event # "ActivityCompensated"
          /\ EnterCatch

\* The promise of execute() is settled.
Settled == pc \in {"resolved", "rejected"}

Done == Settled /\ UNCHANGED vars

-----------------------------------------------------------------------------
Next ==
    \/ NextActivity \/ ActivityNotFound \/ ItineraryDone
    \/ ActivityCompletes \/ ActivityFaults \/ ActivityTerminates \/ ActivityThrows
    \/ AfterActivityCompleted \/ AfterActivityFaulted
    \/ AfterFaultBranch \/ AfterCatchBlock \/ Resolve
    \/ CompensateNext \/ CompensateReturns \/ CompensateThrows
    \/ ContinueCompensating \/ CompensationDone
    \/ Notify \/ SubscriberThrows
    \/ Done

\* Every promise the executor awaits settles, and the event loop runs what is
\* ready.
Spec == Init /\ [][Next]_vars /\ WF_vars(Next)

-----------------------------------------------------------------------------
\* Positions that completed and can be undone.
Undoable == {i \in Itinerary : i \in Compensatable /\ i <= Len(activityLogs)}

HeardBySome(e) == \E s \in 1 .. Subscribers : e \in heard[s]

\* Types, and the shape of the log: activities complete in itinerary order, so
\* activityLogs is 1, 2, ... without gap or repetition.
TypeOK ==
    /\ pc \in {"next", "execute", "emit", "compensate", "undo", "resolved", "rejected"}
    /\ index \in 1 .. Activities + 1
    /\ inCatch \in BOOLEAN
    /\ activityLogs \in Seq(Itinerary)
    /\ \A k \in 1 .. Len(activityLogs) : activityLogs[k] = k
    /\ activityExceptions \in Seq(Itinerary)
    /\ compensateLogs \in Seq(Itinerary)
    /\ cursor \in Nat
    /\ event \in EventNames
    /\ subscriber \in 1 .. Subscribers + 1
    /\ heard \in [1 .. Subscribers -> SUBSET EventNames]
    /\ undoCalls \in [Itinerary -> Nat]

\* Compensation runs newest first: at no moment, in the middle of a pass, of a
\* repeated pass or after an aborted one, was an earlier activity undone more
\* often than a later one, and what did not complete is never undone.
UndoIsLifo ==
    /\ \A i, j \in Undoable : i < j => undoCalls[i] <= undoCalls[j]
    /\ \A i \in Itinerary \ Undoable : undoCalls[i] = 0

\* The double pass of the Fault branch is the worst that happens: however the
\* callbacks throw, no activity is undone a third time.
AtMostTwoPasses == \A i \in Itinerary : undoCalls[i] <= 2

\* RoutingSlipFaulted reaches a subscriber only after every completed activity
\* that can be undone was undone, even if some of those attempts failed.
FaultedMeansUndone ==
    HeardBySome("Faulted") => \A i \in Undoable : undoCalls[i] >= 1

\* A promise that resolves stands for work that was left in place: every
\* activity completed, or one terminated the slip, and nothing was undone.
ResolvedMeansKept ==
    pc = "resolved" =>
        /\ \A i \in Itinerary : undoCalls[i] = 0
        /\ \/ Len(activityLogs) = Activities
           \/ \A s \in 1 .. Subscribers : "Terminated" \in heard[s]

\* RoutingSlipCompleted is final, whatever its subscribers do: once one heard
\* it, no failure was or will be announced and nothing is undone.
CompletedIsFinal ==
    HeardBySome("Completed") =>
        /\ ~ \E e \in {"Faulted", "ActivityFaulted", "Terminated",
                       "ActivityCompensated", "CompensationFailed"} : HeardBySome(e)
        /\ \A i \in Itinerary : undoCalls[i] = 0

\* Once anything was undone no further activity completes: an error of a
\* callback or of a compensation never resumes the itinerary.
NoWorkAfterUndo ==
    [][(\E i \in Itinerary : undoCalls[i] > 0) => activityLogs' = activityLogs]_vars

\* The slip is on its way back: a pass of compensate() began.
TurnedBack ==
    \/ inCatch
    \/ pc \in {"compensate", "undo"}
    \/ pc = "emit" /\ event \in {"Faulted", "ActivityCompensated", "CompensationFailed"}

Phase == IF Settled THEN pc ELSE IF TurnedBack THEN "backward" ELSE "forward"

\* The executor implements the contract of SlipContract, with two undos where
\* the documentation promises one.
Contract == INSTANCE SlipContract
    WITH phase <- Phase, completed <- Len(activityLogs), undone <- undoCalls, MaxUndo <- 2,
         BackwardResolves <- FALSE

ImplementsContract == Contract!Spec

\* docs/COMPENSATION.md: each completed activity is compensated, once.
UndoneOnce == \A i \in Itinerary : undoCalls[i] <= 1

\* docs/ROUTING_SLIPS.md: if any task fails, all completed ones are undone.
FailureIsUndone ==
    pc = "rejected" => \A i \in Undoable : undoCalls[i] >= 1
=============================================================================
