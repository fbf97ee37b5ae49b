------------------------------ MODULE Delivery ------------------------------
(***************************************************************************)
(* The consumer pipeline of one queue, bindConsumerToQueue() of            *)
(* lib/factories/brokers/bustransit-broker.rabbitmq.ts: in-process retries *)
(* by rxjs, redelivery through the delayed exchange, the error queue and   *)
(* the acknowledgements.                                                   *)
(*                                                                         *)
(* A message may exist in several copies, as redelivery publishes a new    *)
(* one before it acknowledges the old one.  copies lists all there were.   *)
(***************************************************************************)
EXTENDS Naturals, SequencesExt, FiniteSetsExt

CONSTANTS
    Messages,
    Prefetch,          \* prefetch count of the channel
    RetryPattern,      \* what UseMessageRetry configured
    RedeliveryPattern, \* what UseDelayedRedelivery configured
    Plugin,            \* the delayed exchange could be created
    MaxCrashes         \* bound: deaths of the process

\* A consumer that is configured without a pattern gets this one.
NoPattern == [type |-> "Immediate", value |-> 0]

\* How often RetryConfigurator's pattern tries again: the delays of Intervals are
\* a list, and the other types name a count.
Limit(pattern) ==
    CASE pattern.type = "Immediate" -> pattern.value
      [] pattern.type \in {"Interval", "Exponential"} -> pattern.value[1]
      [] pattern.type = "Intervals" -> Len(pattern.value)

MaxRetries == Limit(RetryPattern)

MaxRedeliveries == Limit(RedeliveryPattern)

ASSUME DeliveryAssumption ==
    /\ IsFiniteSet(Messages)
    /\ Prefetch \in Nat \ {0}
    /\ {MaxRetries, MaxRedeliveries, MaxCrashes} \subseteq Nat
    /\ Plugin \in BOOLEAN

VARIABLES
    copies,    \* the copies of messages, and what their handlers do
    calls,     \* history: calls of Consume for each message
    succeeded, \* history: messages with a call of Consume that returned
    parked,    \* copies of each message in the error queue
    crashes    \* crashes so far

vars == <<copies, calls, succeeded, parked, crashes>>

Copy(m, redelivery, place) ==
    [msg |-> m, redelivery |-> redelivery, place |-> place, step |-> "none",
     attempt |-> 0, parking |-> FALSE]

Init ==
    /\ copies \in SetToSeqs({Copy(m, 0, "queued") : m \in Messages})
    /\ calls = [m \in Messages |-> 0]
    /\ succeeded = {}
    /\ parked = [m \in Messages |-> 0]
    /\ crashes = 0

-----------------------------------------------------------------------------
Copies == 1 .. Len(copies)

At(c, step) == c \in Copies /\ copies[c].step = step

FreeSlot == Cardinality({c \in Copies : copies[c].place = "unacked"}) < Prefetch

Goto(c, step) == [copies EXCEPT ![c].step = step]

CallConsume(c) == calls' = [calls EXCEPT ![copies[c].msg] = @ + 1]

-----------------------------------------------------------------------------
\* Mutants of the definitions that follow.

CanRedeliver_OffByOne(c) == Plugin /\ copies[c].redelivery <= MaxRedeliveries

ConsumeThrows_NotCounted(c) ==
    /\ At(c, "consuming")
    /\ copies' = Goto(c, IF copies[c].attempt < MaxRetries THEN "backoff" ELSE "failed")
    /\ UNCHANGED <<calls, succeeded, parked, crashes>>

Redeliver_FallsThrough(c) ==
    /\ At(c, "failed")
    /\ Plugin /\ copies[c].redelivery < MaxRedeliveries
    /\ copies' = Append([copies EXCEPT ![c].step = "parking", ![c].parking = TRUE],
                        Copy(copies[c].msg, copies[c].redelivery + 1, "delayed"))
    /\ UNCHANGED <<calls, succeeded, parked, crashes>>

AckSteps_OnSuccessOnly == {"returned"}

Park_AckOnly(c) ==
    /\ At(c, "failed")
    /\ copies' = Goto(c, "parking")
    /\ UNCHANGED <<calls, succeeded, parked, crashes>>

-----------------------------------------------------------------------------
\* The delayed exchange routes a copy to the queue.
DelayPasses(c) ==
    /\ c \in Copies
    /\ copies[c].place = "delayed"
    /\ copies' = [copies EXCEPT ![c].place = "queued"]
    /\ UNCHANGED <<calls, succeeded, parked, crashes>>

Deliver(c) ==
    /\ c \in Copies
    /\ copies[c].place = "queued"
    /\ FreeSlot
    /\ copies' = [copies EXCEPT ![c].place = "unacked", ![c].step = "consuming"]
    /\ CallConsume(c)
    /\ UNCHANGED <<succeeded, parked, crashes>>

\* The reply is sent, the acknowledgement left to a timer.
ConsumeReturns(c) ==
    /\ At(c, "consuming")
    /\ copies' = Goto(c, "returned")
    /\ succeeded' = succeeded \cup {copies[c].msg}
    /\ UNCHANGED <<calls, parked, crashes>>

\* retryWhen: wait for another attempt, or pass the error to the subscriber.
ConsumeThrows(c) ==
    /\ At(c, "consuming")
    /\ copies' = IF copies[c].attempt < MaxRetries
                 THEN [copies EXCEPT ![c].step = "backoff", ![c].attempt = @ + 1]
                 ELSE Goto(c, "failed")
    /\ UNCHANGED <<calls, succeeded, parked, crashes>>

ConsumeAgain(c) ==
    /\ At(c, "backoff")
    /\ copies' = Goto(c, "consuming")
    /\ CallConsume(c)
    /\ UNCHANGED <<succeeded, parked, crashes>>

-----------------------------------------------------------------------------
\* The error callback of the subscription.

CanRedeliver(c) == Plugin /\ copies[c].redelivery < MaxRedeliveries

NextCopy(c) == Copy(copies[c].msg, copies[c].redelivery + 1, "delayed")

Acked(c) == [copies EXCEPT ![c].place = "gone", ![c].step = "none"]

\* Publish to the delayed exchange and acknowledge, without a wait between.
Redeliver(c) ==
    /\ At(c, "failed")
    /\ CanRedeliver(c)
    /\ copies' = Append(Acked(c), NextCopy(c))
    /\ UNCHANGED <<calls, succeeded, parked, crashes>>

\* checkQueueAndAssert() does not wait for assertQueue: the message is sent to
\* the error queue in a callback, and acknowledged by a timer.
Park(c) ==
    /\ At(c, "failed")
    /\ ~CanRedeliver(c)
    /\ copies' = [copies EXCEPT ![c].step = "parking", ![c].parking = TRUE]
    /\ UNCHANGED <<calls, succeeded, parked, crashes>>

SendToErrorQueue(c) ==
    /\ c \in Copies
    /\ copies[c].parking
    /\ copies' = [copies EXCEPT ![c].parking = FALSE]
    /\ parked' = [parked EXCEPT ![copies[c].msg] = @ + 1]
    /\ UNCHANGED <<calls, succeeded, crashes>>

AckSteps == {"returned", "parking"}

Ack(c) ==
    /\ \E step \in AckSteps : At(c, step)
    /\ copies' = Acked(c)
    /\ UNCHANGED <<calls, succeeded, parked, crashes>>

-----------------------------------------------------------------------------
\* The process dies: the broker puts what was not acknowledged back into the
\* queue, and nothing is left of what the process was about to do.
Requeued ==
    [c \in Copies |->
        [copies[c] EXCEPT !.place = IF @ = "unacked" THEN "queued" ELSE @,
                          !.step = "none", !.attempt = 0, !.parking = FALSE]]

Break == crashes < MaxCrashes /\ crashes' = crashes + 1

Crash ==
    /\ Break
    /\ copies' = Requeued
    /\ UNCHANGED <<calls, succeeded, parked>>

\* Of a redelivery, the broker got the publish and not the acknowledgement.
CrashInRedeliver(c) ==
    /\ At(c, "failed")
    /\ CanRedeliver(c)
    /\ Break
    /\ copies' = Append(Requeued, NextCopy(c))
    /\ UNCHANGED <<calls, succeeded, parked>>

-----------------------------------------------------------------------------
Progress ==
    \E c \in Copies :
        \/ DelayPasses(c) \/ Deliver(c)
        \/ ConsumeReturns(c) \/ ConsumeThrows(c) \/ ConsumeAgain(c)
        \/ Redeliver(c) \/ Park(c) \/ SendToErrorQueue(c) \/ Ack(c)

Next == Progress \/ Crash \/ \E c \in Copies : CrashInRedeliver(c)

\* Consume returns or throws, timers fire, and the broker delivers.
Spec == Init /\ [][Next]_vars /\ WF_vars(Progress)

-----------------------------------------------------------------------------
TypeOK ==
    /\ \A c \in Copies :
           /\ copies[c].msg \in Messages
           /\ copies[c].redelivery \in 0 .. MaxRedeliveries
           /\ copies[c].place \in {"delayed", "queued", "unacked", "gone"}
           /\ copies[c].step \in {"none", "consuming", "backoff", "returned",
                                  "failed", "parking"}
           /\ copies[c].step # "none" <=> copies[c].place = "unacked"
           /\ copies[c].attempt \in 0 .. MaxRetries
           /\ copies[c].parking \in BOOLEAN
    /\ calls \in [Messages -> Nat]
    /\ succeeded \subseteq Messages
    /\ parked \in [Messages -> Nat]
    /\ crashes \in 0 .. MaxCrashes

CopiesOf(m) == {c \in Copies : copies[c].msg = m}

\* Copies of a message that will still be handled.
Pending(m) == {c \in CopiesOf(m) :
                  copies[c].place # "gone" /\ copies[c].step \notin AckSteps}

\* Calls of Consume for one copy and those that redelivery makes of it.
Schedule == (MaxRetries + 1) * (MaxRedeliveries + 1)

\* Retries and redeliveries multiply, but a message that always fails stops.  Only
\* a crash, between the publish and the acknowledgement of a redelivery, makes two
\* copies of a message; so the k-th crash finds at most k, and at worst starts the
\* whole schedule again for each: 1 + 1 + 2 + ... + crashes schedules.
WorkBounded ==
    \A m \in Messages :
        /\ 2 * calls[m] <= Schedule * (2 + crashes * (crashes + 1))
        /\ Cardinality(Pending(m)) <= 1 + crashes

\* As long as the process lives nothing is lost: a message without a pending
\* copy was handled, is in the error queue, or is on its way there.
NothingLost ==
    crashes = 0 =>
        \A m \in Messages :
            Pending(m) = {} =>
                \/ m \in succeeded
                \/ parked[m] > 0
                \/ \E c \in CopiesOf(m) : copies[c].parking

\* ... and no message has two outcomes: it is handled once, or parked once.
OneOutcome ==
    crashes = 0 =>
        \A m \in Messages :
            /\ parked[m] <= 1
            /\ m \in succeeded => parked[m] = 0

\* The queue never gets stuck: every copy is acknowledged in the end, and no
\* failing message holds a slot for ever.
QueueDrains == <>[](\A c \in Copies : copies[c].place = "gone" /\ ~copies[c].parking)

\* docs/RETRY_STRATEGIES.md: failed messages are moved to an error queue.  A
\* message that left the broker was handled or is there, crash or not.
FailedIsParked ==
    \A m \in Messages :
        (\A c \in CopiesOf(m) : copies[c].place = "gone" /\ ~copies[c].parking)
            => m \in succeeded \/ parked[m] > 0
=============================================================================
