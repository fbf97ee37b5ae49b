------------------------ MODULE DistributedSlipProofs ------------------------
(***************************************************************************)
(* Proofs about DistributedSlip, for every itinerary, whatever was         *)
(* discovered, is registered, can be compensated or throws.                *)
(*                                                                         *)
(* Control says what the program counter tells of index, log and cursor,   *)
(* Ledger how often positions on either side of the cursor were attempted, *)
(* Announced which events were emitted, Counted how often consumers called *)
(* an activity for a message; each is proved with those before.            *)
(***************************************************************************)
EXTENDS DistributedSlip, TLAPS

Emits(events) == pc = "emit" /\ event \in events

Forward ==
    \/ pc \in {"next", "publish", "execute"}
    \/ Emits({"Completed", "ActivityCompleted", "ActivityFaulted", "Terminated"})

InLoop ==
    \/ pc \in {"compensate", "undo"}
    \/ Emits({"ActivityCompensated", "CompensationFailed"})

\* Every position that completed has queues, with compensation if it has one.
Configured ==
    /\ DOMAIN configurations \subseteq Itinerary
    /\ 1 .. completed \subseteq DOMAIN configurations
    /\ pc \in {"publish", "execute"} => index \in DOMAIN configurations
    /\ \A i \in DOMAIN configurations :
          configurations[i].hasCompensation <=> i \in Compensatable

Control ==
    /\ completed <= Activities
    /\ pc \in {"next", "publish", "execute"} => completed = index - 1
    /\ pc \in {"publish", "execute"} => index <= Activities
    /\ Emits({"ActivityCompleted"}) => completed = index
    /\ InLoop /\ pc # "compensate" => undoing >= 1
    /\ inCatch => InLoop \/ Emits({"Faulted"}) \/ pc = "rejected"

Undoable == {i \in Compensatable : i <= completed}

\* The newest of the positions that the current pass has not attempted.
Frontier == IF pc = "compensate" THEN undoing ELSE undoing - 1

Passes == IF inCatch THEN 2 ELSE 1

Ledger ==
    /\ \A i, j \in Undoable : i < j => attempts[i] <= attempts[j]
    /\ \A i \in Itinerary : undoCalls[i] <= attempts[i] /\ attempts[i] <= Passes
    /\ Forward => \A i \in Itinerary : attempts[i] = 0
    /\ InLoop =>
          /\ \A i, j \in Undoable : i <= Frontier /\ Frontier < j => attempts[i] < attempts[j]
          /\ \A i \in Undoable : i <= Frontier => attempts[i] < Passes

Endings == {"Completed", "Faulted", "Terminated"}

Announced ==
    /\ FaultedMeansUndone
    /\ ResolvedHasOneEnding
    /\ Forward \/ ((InLoop \/ Emits({"Faulted"})) /\ ~inCatch) => announced \cap Endings = {}
    /\ InLoop =>
          \/ "CompensationFailed" \in announced \/ Emits({"CompensationFailed"})
          \/ \A i \in Undoable : Frontier < i => undoCalls[i] >= 1
    /\ Emits({"Faulted"}) =>
          \/ "CompensationFailed" \in announced
          \/ \A i \in Undoable : undoCalls[i] >= 1

\* TypeOK in two halves, what the executor and what its environment changes.
SlipTypes ==
    /\ pc \in {"next", "publish", "execute", "emit", "compensate", "undo",
               "resolved", "rejected"}
    /\ index \in 1 .. Activities + 1
    /\ inCatch \in BOOLEAN
    /\ completed \in {index - 1, index}
    /\ undoing \in 0 .. completed
    /\ event \in EventNames
    /\ announced \subseteq EventNames
    /\ attempts \in [Itinerary -> Nat]
    /\ undoCalls \in [Itinerary -> Nat]

ConsumerTypes ==
    /\ DOMAIN configurations \in Discoveries \cup {{}}
    /\ \A i \in DOMAIN configurations : configurations[i] \in [hasCompensation : BOOLEAN]
    /\ unacked \in [Messages -> Nat]
    /\ runs \in [Calls -> Nat]
    /\ losses \in 0 .. MaxLosses

\* The two halves and the pending messages, which both change, are TypeOK.
LEMMA TypesSplit ==
    TypeOK <=> SlipTypes /\ ConsumerTypes /\ pending \in [Messages -> Nat]
  BY DEF TypeOK, SlipTypes, ConsumerTypes

-----------------------------------------------------------------------------
\* What has queues is a position, and its queues know whether it can be undone.
LEMMA Compensated ==
    ASSUME Configured, NEW i \in 1 .. completed
    PROVE  HasCompensation(i) <=> i \in Compensatable
  BY DEF Configured, HasCompensation

\* The configuration that provisionQueues() stores for a position.
LEMMA ConfigurationOf ==
    ASSUME NEW c, NEW i, c = [hasCompensation |-> i \in Compensatable]
    PROVE  c \in [hasCompensation : BOOLEAN] /\ (c.hasCompensation <=> i \in Compensatable)
<1>1. CASE i \in Compensatable
  <2>1. (i \in Compensatable) = TRUE
    BY <1>1
  <2>2. c = [hasCompensation |-> TRUE]
    BY <2>1, Zenon
  <2>. QED  BY <1>1, <2>2, SMT
<1>2. CASE i \notin Compensatable
  <2>1. (i \in Compensatable) = FALSE
    BY <1>2
  <2>2. c = [hasCompensation |-> FALSE]
    BY <2>1, Zenon
  <2>. QED  BY <1>2, <2>2, SMT
<1>. QED  BY <1>1, <1>2

\* Counting one more, whether there is such a counter or not, or one less.
LEMMA Bump ==
    ASSUME NEW S, NEW f \in [S -> Nat], NEW p
    PROVE  LET g == [f EXCEPT ![p] = @ + 1]
           IN  /\ g \in [S -> Nat]
               /\ \A i \in S : g[i] = IF i = p THEN f[i] + 1 ELSE f[i]
<1>1. CASE p \in S
  BY <1>1
<1>2. CASE p \notin S
  <2>1. [f EXCEPT ![p] = f[p] + 1] = f
    BY <1>2
  <2>. QED  BY <1>2, <2>1
<1>. QED  BY <1>1, <1>2

LEMMA Drop ==
    ASSUME NEW S, NEW f \in [S -> Nat], NEW p \in S, f[p] > 0
    PROVE  LET g == [f EXCEPT ![p] = @ - 1]
           IN  /\ g \in [S -> Nat]
               /\ \A i \in S : g[i] = IF i = p THEN f[i] - 1 ELSE f[i]
  OBVIOUS

\* execute() starts typed, with nothing done and nothing published.
LEMMA InitTyped == Init => TypeOK /\ Configured /\ Control
<1>. SUFFICES ASSUME Init PROVE TypeOK /\ Configured /\ Control
  OBVIOUS
<1>. USE DistributedAssumption
<1>1. SlipTypes
  <2>1. attempts \in [Itinerary -> Nat] /\ undoCalls \in [Itinerary -> Nat]
    BY DEF Init
  <2>2. index \in 1 .. Activities + 1 /\ completed \in {index - 1, index}
    BY DEF Init
  <2>3. undoing = 0 /\ completed = 0
    BY DEF Init
  <2>5. undoing \in 0 .. completed
    BY <2>3
  <2>6. inCatch \in BOOLEAN
    BY DEF Init
  <2>4. event \in EventNames /\ announced \subseteq EventNames
    BY DEF Init, EventNames
  <2>. QED  BY <2>1, <2>2, <2>4, <2>5, <2>6 DEF Init, SlipTypes
<1>2. PICK discovered \in Discoveries, autoProvisionQueues \in BOOLEAN :
          configurations = Provisioned(IF autoProvisionQueues THEN discovered ELSE {})
  BY DEF Init, InitConfigurations
<1>3. /\ DOMAIN configurations \in Discoveries \cup {{}}
      /\ \A i \in DOMAIN configurations :
            configurations[i] = [hasCompensation |-> i \in Compensatable]
  BY <1>2 DEF Provisioned
<1>4. ConsumerTypes
  <2>1. unacked \in [Messages -> Nat]
    BY DEF Init, None
  <2>2. runs \in [Calls -> Nat] /\ losses \in 0 .. MaxLosses
    BY DEF Init
  <2>3. ASSUME NEW i \in DOMAIN configurations
        PROVE  configurations[i] \in [hasCompensation : BOOLEAN]
    BY <1>3, ConfigurationOf
  <2>. QED  BY <1>3, <2>1, <2>2, <2>3 DEF ConsumerTypes
<1>5. pending \in [Messages -> Nat]
  BY DEF Init, None
<1>6. Configured
  <2>1. 1 .. completed = {} /\ pc = "next"
    BY DEF Init
  <2>2. ASSUME NEW i \in DOMAIN configurations
        PROVE  configurations[i].hasCompensation <=> i \in Compensatable
    BY <1>3, ConfigurationOf
  <2>3. DOMAIN configurations \subseteq Itinerary
    BY <1>3
  <2>. QED  BY <2>1, <2>2, <2>3 DEF Configured
<1>7. Control
  BY DEF Init, Control, InLoop, Emits
<1>. QED  BY <1>1, <1>4, <1>5, <1>6, <1>7, TypesSplit

-----------------------------------------------------------------------------
\* Compensation begins at the newest position, or is over without logs.
LEMMA BeginTyped ==
    ASSUME SlipTypes, BeginCompensate
    PROVE  /\ pc' \in {"emit", "compensate"} /\ event' \in EventNames
           /\ pc' = "emit" => event' = "Faulted"
           /\ undoing' \in 0 .. completed
           /\ pc' = "compensate" => undoing' = completed
           /\ pc' = "emit" => completed = 0
<1>1. completed \in Nat
  BY DistributedAssumption DEF SlipTypes
<1>. QED
  BY <1>1 DEF SlipTypes, BeginCompensate, Emit, Goto, FirstToUndo, EventNames

\* The catch block keeps the types, whoever enters it.
LEMMA EnterCatchTyped ==
    ASSUME SlipTypes, Control, EnterCatch, announced' \subseteq EventNames
    PROVE  /\ SlipTypes' /\ Control'
           /\ completed' = completed /\ pc' \notin {"publish", "execute"}
<1>1. BeginCompensate /\ inCatch' = TRUE /\ UNCHANGED <<index, completed, attempts, undoCalls>>
  BY DEF EnterCatch
<1>2. SlipTypes'
  BY <1>1, BeginTyped DEF SlipTypes
<1>3. Control'
  BY <1>1, BeginTyped DEF Control, InLoop, Emits
<1>. QED  BY <1>1, <1>2, <1>3, BeginTyped

\* What is left of the configurations when no position completes.
LEMMA ConfiguredKept ==
    ASSUME Configured, UNCHANGED configurations, UNCHANGED completed,
           pc' \in {"publish", "execute"} => index' \in DOMAIN configurations
    PROVE  Configured'
  BY DEF Configured

\* Every step of execute() and compensateDistributed() keeps the types of its
\* own variables, and what the program counter says of them.
LEMMA ExecutorTyped ==
    ASSUME SlipTypes, Configured, Control, Executor
    PROVE  SlipTypes' /\ Configured' /\ Control'
<1>. USE DistributedAssumption DEF Control, InLoop, Emits, Emitted, slipVars, consumerVars
<1>0. index \in Nat /\ completed \in Nat /\ undoing \in Nat
  BY DEF SlipTypes
<1>1. CASE NextActivity
  <2>1. index \in Itinerary /\ index \in DOMAIN configurations
    BY <1>1 DEF NextActivity, Configured
  <2>2. index <= Activities
    BY <2>1 DEF Itinerary
  <2>. QED  BY <1>1, <2>1, <2>2, ConfiguredKept DEF NextActivity, Goto, SlipTypes
<1>2. CASE NotConfigured
  BY <1>2, ConfiguredKept DEF NotConfigured, Goto, SlipTypes
<1>3. CASE ItineraryDone
  BY <1>3, ConfiguredKept DEF ItineraryDone, Emit, SlipTypes, EventNames
<1>4. CASE PublishExecute
  <2>1. CASE Goto("execute") /\ UNCHANGED slipVars
    <3>1. index \in DOMAIN configurations
      BY <1>4 DEF PublishExecute, Configured
    <3>. QED  BY <1>4, <2>1, <3>1, ConfiguredKept DEF PublishExecute, Goto, SlipTypes
  <2>2. CASE EnterCatch
    BY <1>4, <2>2, EnterCatchTyped, ConfiguredKept DEF PublishExecute, SlipTypes
  <2>. QED  BY <1>4, <2>1, <2>2 DEF PublishExecute
<1>5. CASE PublishFails
  BY <1>5, EnterCatchTyped, ConfiguredKept DEF PublishFails, SlipTypes
<1>6. CASE ActivityCompletes
  <2>1. SlipTypes' /\ Control'
    BY <1>0, <1>6 DEF ActivityCompletes, Emit, SlipTypes, EventNames
  <2>2. /\ index \in DOMAIN configurations /\ completed' = index
        /\ configurations' = configurations /\ pc' = "emit"
    BY <1>0, <1>6 DEF ActivityCompletes, Emit, Configured
  <2>3. ASSUME NEW i \in 1 .. completed'
        PROVE  i \in DOMAIN configurations
    <3>1. i = index \/ i \in 1 .. completed
      BY <1>0, <1>6, <2>2 DEF ActivityCompletes
    <3>. QED  BY <2>2, <3>1 DEF Configured
  <2>. QED  BY <2>1, <2>2, <2>3 DEF Configured
<1>7. CASE ActivityFaultsOrTerminates
  BY <1>7, ConfiguredKept DEF ActivityFaultsOrTerminates, Emit, SlipTypes, EventNames
<1>8. CASE ActivityThrows
  BY <1>8, EnterCatchTyped, ConfiguredKept DEF ActivityThrows, SlipTypes
<1>9. CASE AfterActivityCompleted
  BY <1>0, <1>9, ConfiguredKept DEF AfterActivityCompleted, Goto, SlipTypes
<1>10. CASE AfterActivityFaulted
  <2>1. SlipTypes'
    BY <1>10, BeginTyped DEF AfterActivityFaulted, SlipTypes
  <2>. QED  BY <1>10, <2>1, BeginTyped, ConfiguredKept DEF AfterActivityFaulted
<1>11. CASE AfterFaulted
  BY <1>11, ConfiguredKept DEF AfterFaulted, Goto, SlipTypes
<1>12. CASE Resolve
  BY <1>12, ConfiguredKept DEF Resolve, Goto, SlipTypes
<1>13. CASE CompensateNext
  <2>1. undoing \in Itinerary
    BY <1>0, <1>13 DEF CompensateNext, SlipTypes, Itinerary
  <2>2. /\ attempts' \in [Itinerary -> Nat]
        /\ undoCalls' \in [Itinerary -> Nat]
    BY <1>13, <2>1, Bump DEF CompensateNext, Attempt, SlipTypes
  <2>3. /\ pc' = "undo"
        /\ UNCHANGED <<event, index, inCatch, completed, undoing, announced, configurations>>
    BY <1>13 DEF CompensateNext, Goto
  <2>4. SlipTypes'
    BY <2>2, <2>3 DEF SlipTypes
  <2>. QED  BY <1>0, <1>13, <2>3, <2>4, ConfiguredKept DEF CompensateNext
<1>14. CASE CompensatePublishFails
  <2>1. undoing \in Itinerary
    BY <1>0, <1>14 DEF CompensatePublishFails, SlipTypes, Itinerary
  <2>2. attempts' \in [Itinerary -> Nat]
    BY <1>14, <2>1, Bump DEF CompensatePublishFails, Attempt, SlipTypes
  <2>3. /\ pc' = "emit" /\ event' = "CompensationFailed"
        /\ UNCHANGED <<index, inCatch, completed, undoing, undoCalls, announced, configurations>>
    BY <1>14 DEF CompensatePublishFails, Emit
  <2>4. SlipTypes'
    BY <2>2, <2>3 DEF SlipTypes, EventNames
  <2>. QED  BY <1>0, <1>14, <2>3, <2>4, ConfiguredKept DEF CompensatePublishFails
<1>15. CASE CompensateSkips
  BY <1>0, <1>15, ConfiguredKept DEF CompensateSkips, SlipTypes
<1>16. CASE CompensateReturns
  BY <1>16, ConfiguredKept DEF CompensateReturns, Emit, SlipTypes, EventNames
<1>17. CASE CompensateThrows
  BY <1>17, ConfiguredKept DEF CompensateThrows, Emit, SlipTypes, EventNames
<1>18. CASE ContinueCompensating
  BY <1>0, <1>18, ConfiguredKept DEF ContinueCompensating, Goto, SlipTypes
<1>19. CASE CompensationDone
  BY <1>19, ConfiguredKept DEF CompensationDone, Emit, SlipTypes, EventNames
<1>20. CASE SubscriberThrows
  <2>1. announced' \subseteq EventNames /\ configurations' = configurations
    BY <1>20 DEF SubscriberThrows, SlipTypes
  <2>2. CASE event = "ActivityCompensated" /\ Emit("CompensationFailed") /\ UNCHANGED slipVars
    BY <1>20, <2>1, <2>2, ConfiguredKept DEF SubscriberThrows, Emit, SlipTypes, EventNames
  <2>3. CASE Goto("rejected") /\ UNCHANGED slipVars
    BY <1>20, <2>1, <2>3, ConfiguredKept DEF SubscriberThrows, Goto, SlipTypes
  <2>4. CASE EnterCatch
    BY <2>1, <2>4, EnterCatchTyped, ConfiguredKept
  <2>. QED  BY <1>20, <2>2, <2>3, <2>4 DEF SubscriberThrows
<1>. QED
  BY <1>1, <1>2, <1>3, <1>4, <1>5, <1>6, <1>7, <1>8, <1>9, <1>10, <1>11, <1>12, <1>13,
     <1>14, <1>15, <1>16, <1>17, <1>18, <1>19, <1>20 DEF Executor

\* The executor only ever adds messages.
LEMMA ExecutorPublishes ==
    ASSUME SlipTypes, Configured, pending \in [Messages -> Nat], Executor
    PROVE  pending' \in [Messages -> Nat] /\ UNCHANGED consumerVars
<1>1. UNCHANGED consumerVars
  BY DEF Executor, NextActivity, NotConfigured, ItineraryDone, PublishExecute, PublishFails,
         ActivityCompletes, ActivityFaultsOrTerminates, ActivityThrows,
         AfterActivityCompleted, AfterActivityFaulted, AfterFaulted, Resolve,
         CompensateNext, CompensatePublishFails, CompensateSkips, CompensateReturns,
         CompensateThrows, ContinueCompensating, CompensationDone, SubscriberThrows
<1>2. CASE PublishExecute
  <2>1. Publish("Execute", index)
    BY <1>2 DEF PublishExecute
  <2>2. pending' = [pending EXCEPT ![<<"Execute", index>>] = @ + 1]
    BY <2>1 DEF Publish
  <2>3. pending' \in [Messages -> Nat]
    BY <2>2, Bump
  <2>. QED  BY <1>1, <2>3
<1>3. CASE CompensateNext
  <2>1. Publish("Compensate", undoing)
    BY <1>3 DEF CompensateNext
  <2>2. pending' = [pending EXCEPT ![<<"Compensate", undoing>>] = @ + 1]
    BY <2>1 DEF Publish
  <2>3. pending' \in [Messages -> Nat]
    BY <2>2, Bump
  <2>. QED  BY <1>1, <2>3
<1>4. CASE UNCHANGED pending
  BY <1>1, <1>4
<1>5. PublishExecute \/ CompensateNext \/ UNCHANGED pending
  BY DEF Executor, NextActivity, NotConfigured, ItineraryDone, PublishFails,
         ActivityCompletes, ActivityFaultsOrTerminates, ActivityThrows,
         AfterActivityCompleted, AfterActivityFaulted, AfterFaulted, Resolve,
         CompensatePublishFails, CompensateSkips, CompensateReturns,
         CompensateThrows, ContinueCompensating, CompensationDone, SubscriberThrows
<1>. QED  BY <1>1, <1>2, <1>3, <1>4, <1>5

\* The consumers of the activity queues never touch the executor.
LEMMA ConsumersTyped ==
    ASSUME ConsumerTypes, pending \in [Messages -> Nat], Consumers \/ Lose
    PROVE  /\ UNCHANGED <<executorVars, configurations>>
           /\ ConsumerTypes' /\ pending' \in [Messages -> Nat]
<1>0. /\ unacked \in [Messages -> Nat] /\ runs \in [Calls -> Nat]
      /\ losses \in 0 .. MaxLosses
  BY DEF ConsumerTypes
<1>1. ASSUME NEW kind \in Kinds, NEW i \in Itinerary, Return(kind, i)
      PROVE  /\ UNCHANGED <<executorVars, configurations>>
             /\ ConsumerTypes' /\ pending' \in [Messages -> Nat]
  <2>1. /\ pending[<<kind, i>>] > 0
        /\ pending' = [pending EXCEPT ![<<kind, i>>] = @ - 1]
        /\ unacked' = [unacked EXCEPT ![<<kind, i>>] = @ + 1]
        /\ runs' = [runs EXCEPT ![<<kind, i, Served(kind, i)>>] = @ + 1]
        /\ UNCHANGED <<executorVars, configurations, losses>>
    BY <1>1 DEF Return
  <2>2. pending' \in [Messages -> Nat]
    BY <2>1, Drop DEF Messages
  <2>3. unacked' \in [Messages -> Nat]
    BY <1>0, <2>1, Bump
  <2>4. runs' \in [Calls -> Nat]
    BY <1>0, <2>1, Bump
  <2>. QED  BY <2>1, <2>2, <2>3, <2>4 DEF ConsumerTypes
<1>2. ASSUME NEW message \in Messages, Ack(message)
      PROVE  /\ UNCHANGED <<executorVars, configurations>>
             /\ ConsumerTypes' /\ pending' \in [Messages -> Nat]
  <2>1. /\ unacked[message] > 0
        /\ unacked' = [unacked EXCEPT ![message] = @ - 1]
        /\ UNCHANGED <<executorVars, configurations, pending, runs, losses>>
    BY <1>2 DEF Ack
  <2>2. unacked' \in [Messages -> Nat]
    BY <1>0, <2>1, Drop
  <2>. QED  BY <2>1, <2>2 DEF ConsumerTypes
<1>3. CASE Lose
  <2>1. /\ losses < MaxLosses /\ losses' = losses + 1
        /\ pending' = Redelivered /\ unacked' = None
        /\ \/ UNCHANGED runs
           \/ runs' = [call \in Calls |-> runs[call] + Orphaned(call[1], call[2], call[3])]
        /\ UNCHANGED <<executorVars, configurations>>
    BY <1>3 DEF Lose
  <2>2. losses' \in 0 .. MaxLosses
    BY <1>0, <2>1, DistributedAssumption
  <2>3. pending' \in [Messages -> Nat] /\ unacked' \in [Messages -> Nat]
    BY <1>0, <2>1 DEF Redelivered, None
  <2>4. runs' \in [Calls -> Nat]
    <3>1. ASSUME NEW call \in Calls
          PROVE  Orphaned(call[1], call[2], call[3]) \in Nat
      <4>1. <<call[1], call[2]>> \in Messages
        BY DEF Calls, Messages
      <4>. QED  BY <4>1 DEF Orphaned
    <3>. QED  BY <1>0, <2>1, <3>1
  <2>. QED  BY <2>1, <2>2, <2>3, <2>4 DEF ConsumerTypes
<1>. QED
  BY <1>1, <1>2, <1>3
     DEF Consumers, ExecuteConsumerReturns, CompensateConsumerReturns, Kinds

\* The lowest layer of the invariant.
Typed == TypeOK /\ Configured /\ Control

LEMMA NextTyped == Typed /\ [Next]_vars => Typed'
<1>. SUFFICES ASSUME Typed, [Next]_vars PROVE Typed'
  OBVIOUS
<1>0. /\ SlipTypes /\ ConsumerTypes /\ pending \in [Messages -> Nat]
      /\ Configured /\ Control
  BY TypesSplit DEF Typed
<1>1. CASE Executor
  <2>1. SlipTypes' /\ Configured' /\ Control'
    BY <1>0, <1>1, ExecutorTyped
  <2>2. pending' \in [Messages -> Nat] /\ UNCHANGED consumerVars
    BY <1>0, <1>1, ExecutorPublishes
  <2>3. ConsumerTypes'
    BY <1>0, <2>2 DEF ConsumerTypes, consumerVars
  <2>4. TypeOK'
    BY <2>1, <2>2, <2>3 DEF TypeOK, SlipTypes, ConsumerTypes
  <2>. QED  BY <2>1, <2>2, <2>4 DEF Typed
<1>2. CASE Consumers \/ Lose
  <2>1. /\ UNCHANGED <<executorVars, configurations>>
        /\ ConsumerTypes' /\ pending' \in [Messages -> Nat]
    BY <1>0, <1>2, ConsumersTyped
  <2>2. SlipTypes' /\ Configured' /\ Control'
    BY <1>0, <2>1
       DEF SlipTypes, Configured, Control, InLoop, Emits, executorVars, slipVars
  <2>3. TypeOK'
    BY <2>1, <2>2 DEF TypeOK, SlipTypes, ConsumerTypes
  <2>. QED  BY <2>1, <2>2, <2>3 DEF Typed
<1>3. CASE UNCHANGED vars
  BY <1>0, <1>3
     DEF Typed, TypeOK, Configured, Control, InLoop, Emits, vars, executorVars,
         slipVars, consumerVars
<1>. QED  BY <1>1, <1>2, <1>3 DEF Next, Done

\* The lowest layer holds throughout.
LEMMA TypedInvariant == Spec => []Typed
<1>1. Init => Typed
  BY InitTyped DEF Typed
<1>. QED  BY <1>1, NextTyped, PTL DEF Spec

\* Every variable keeps its type, for every itinerary and discovery: the index
\* and the cursor stay in the itinerary, and messages are counted by numbers.
THEOREM TypeCorrect == Spec => []TypeOK
<1>1. Typed => TypeOK
  BY DEF Typed
<1>. QED  BY <1>1, TypedInvariant, PTL

-----------------------------------------------------------------------------
\* How often each position was attempted.

\* What the later layers use of it.
LEMMA TypedFacts ==
    ASSUME Typed
    PROVE  /\ completed \in 0 .. Activities /\ undoing \in 0 .. completed
           /\ attempts \in [Itinerary -> Nat] /\ undoCalls \in [Itinerary -> Nat]
           /\ inCatch \in BOOLEAN /\ Undoable \subseteq Itinerary
<1>1. completed \in 0 .. Activities /\ undoing \in 0 .. completed
  BY DistributedAssumption DEF Typed, TypeOK, Control
<1>2. Undoable \subseteq Itinerary
  BY DistributedAssumption DEF Undoable
<1>. QED  BY <1>1, <1>2 DEF Typed, TypeOK

\* Steps that attempt nothing and do not move the frontier.
LEMMA LedgerKept ==
    ASSUME Ledger, UNCHANGED <<completed, attempts, undoCalls, inCatch>>,
           Forward' => Forward, InLoop' => InLoop /\ Frontier' = Frontier
    PROVE  Ledger'
  BY DEF Ledger, Undoable, Passes

\* On the way forward nothing has been attempted.
LEMMA LedgerForward ==
    ASSUME Ledger, Forward, ~InLoop', UNCHANGED <<attempts, undoCalls, inCatch>>
    PROVE  Ledger'
<1>1. \A i \in Itinerary : attempts'[i] = 0 /\ undoCalls'[i] <= attempts'[i]
  BY DEF Ledger
<1>2. Undoable' \subseteq Itinerary
  BY DistributedAssumption DEF Undoable
<1>3. \A i, j \in Undoable' : i < j => attempts'[i] <= attempts'[j]
  BY <1>1, <1>2
<1>4. \A i \in Itinerary : undoCalls'[i] <= attempts'[i] /\ attempts'[i] <= Passes'
  BY <1>1 DEF Passes
<1>5. Forward' => \A i \in Itinerary : attempts'[i] = 0
  BY <1>1
<1>. QED  BY <1>3, <1>4, <1>5 DEF Ledger

\* A pass begins with every position before it; there is at most one more.
LEMMA LedgerBegins ==
    ASSUME Typed, Ledger, BeginCompensate, UNCHANGED <<completed, attempts, undoCalls>>,
           ~inCatch, Forward \/ inCatch' = TRUE, inCatch' \in BOOLEAN
    PROVE  Ledger'
<1>1. /\ completed \in 0 .. Activities /\ Undoable \subseteq Itinerary
      /\ attempts \in [Itinerary -> Nat] /\ Undoable' = Undoable
  BY TypedFacts DEF Undoable
<1>2. ~Forward' /\ (InLoop' => Frontier' = completed)
  BY BeginTyped, TypesSplit DEF Typed, Forward, InLoop, Emits, Frontier
<1>3. \A i \in Itinerary : attempts[i] < Passes' /\ undoCalls[i] <= attempts[i]
  BY <1>1 DEF Ledger, Passes
<1>4. \A i, j \in Undoable : ~(completed < j)
  BY <1>1 DEF Undoable, Itinerary
<1>5. \A i \in Itinerary : attempts[i] <= Passes'
  BY <1>1, <1>3 DEF Passes
<1>. QED  BY <1>1, <1>2, <1>3, <1>4, <1>5 DEF Ledger

\* The position at the frontier is attempted: it was behind all newer ones.
LEMMA LedgerAttempt ==
    ASSUME Typed, Ledger, pc = "compensate", undoing > 0, HasCompensation(undoing), Attempt,
           UNCHANGED <<completed, undoing, inCatch>>,
           undoCalls' \in {undoCalls, [undoCalls EXCEPT ![undoing] = @ + 1]},
           InLoop', pc' # "compensate"
    PROVE  Ledger'
<1>1. /\ completed \in 0 .. Activities /\ undoing \in 1 .. completed
      /\ attempts \in [Itinerary -> Nat] /\ undoCalls \in [Itinerary -> Nat]
      /\ Undoable \subseteq Itinerary /\ Undoable' = Undoable
      /\ Passes' = Passes /\ Passes \in Nat
  BY TypedFacts DEF Undoable, Passes
<1>2. undoing \in Undoable
  BY <1>1, Compensated DEF Typed, Undoable
<1>3. \A i \in Itinerary : attempts'[i] = IF i = undoing THEN attempts[i] + 1 ELSE attempts[i]
  BY <1>1, <1>2, Bump DEF Attempt
<1>4. \A i \in Itinerary : undoCalls'[i] \in {undoCalls[i], IF i = undoing THEN undoCalls[i] + 1 ELSE undoCalls[i]}
  BY <1>1, <1>2, Bump
<1>5. Frontier = undoing /\ Frontier' = undoing - 1 /\ InLoop /\ ~Forward'
  BY DEF Frontier, InLoop, Forward, Emits
<1>6. \A i \in Undoable : i \in Nat /\ attempts[i] \in Nat
  BY <1>1 DEF Itinerary
<1>7. attempts[undoing] < Passes
  BY <1>1, <1>2, <1>5 DEF Ledger
<1>8. \A j \in Undoable : undoing < j => attempts[undoing] < attempts[j]
  BY <1>1, <1>2, <1>5 DEF Ledger
<1>9. ASSUME NEW i \in Undoable, NEW j \in Undoable, i < j
      PROVE  attempts'[i] <= attempts'[j]
  BY <1>1, <1>3, <1>6, <1>8, <1>9 DEF Ledger
<1>10. ASSUME NEW i \in Itinerary
       PROVE  undoCalls'[i] <= attempts'[i] /\ attempts'[i] <= Passes'
  <2>1. undoCalls[i] <= attempts[i] /\ attempts[i] <= Passes
    BY DEF Ledger
  <2>2. undoCalls[i] \in Nat /\ attempts[i] \in Nat
    BY <1>1
  <2>. QED  BY <1>1, <1>3, <1>4, <1>7, <2>1, <2>2
<1>11. ASSUME NEW i \in Undoable, NEW j \in Undoable, i <= undoing - 1, undoing - 1 < j
       PROVE  attempts'[i] < attempts'[j]
  <2>1. attempts'[i] = attempts[i]
    BY <1>1, <1>3, <1>6, <1>11
  <2>2. CASE j = undoing
    BY <1>1, <1>2, <1>3, <1>6, <1>11, <2>1, <2>2 DEF Ledger
  <2>3. CASE undoing < j
    BY <1>1, <1>3, <1>5, <1>6, <1>11, <2>1, <2>3 DEF Ledger
  <2>. QED  BY <1>1, <1>6, <1>11, <2>2, <2>3
<1>12. ASSUME NEW i \in Undoable, i <= undoing - 1
       PROVE  attempts'[i] < Passes'
  <2>1. attempts'[i] = attempts[i] /\ i <= undoing
    BY <1>1, <1>3, <1>6, <1>12
  <2>. QED  BY <1>1, <1>5, <2>1 DEF Ledger
<1>. QED  BY <1>1, <1>5, <1>9, <1>10, <1>11, <1>12 DEF Ledger

\* A position without compensation is passed over.
LEMMA LedgerMoves ==
    ASSUME Typed, Ledger, InLoop, pc' = "compensate", undoing' = undoing - 1,
           UNCHANGED <<completed, attempts, undoCalls, inCatch>>,
           pc = "compensate" => undoing > 0 /\ undoing \notin Undoable
    PROVE  Ledger'
<1>1. /\ completed \in 0 .. Activities /\ undoing \in 0 .. completed
      /\ Undoable \subseteq Itinerary /\ Undoable' = Undoable /\ Passes' = Passes
  BY TypedFacts DEF Undoable, Passes
<1>2. Frontier' = undoing - 1 /\ InLoop' /\ ~Forward'
  BY DEF Frontier, InLoop, Forward, Emits
<1>3. \A i \in Undoable : (i <= Frontier' <=> i <= Frontier) /\ (Frontier' < i <=> Frontier < i)
  BY <1>1, <1>2 DEF Frontier, Itinerary
<1>. QED  BY <1>1, <1>2, <1>3 DEF Ledger

\* The catch block begins a pass, and is entered at most once.
LEMMA LedgerCatch ==
    ASSUME Typed, Ledger, EnterCatch, ~inCatch
    PROVE  Ledger'
  BY LedgerBegins DEF EnterCatch

\* Whatever the environment does, the executor's count stays.
LEMMA LedgerIdle ==
    ASSUME Ledger, UNCHANGED executorVars
    PROVE  Ledger'
  BY DEF Ledger, Undoable, Passes, Forward, InLoop, Emits, Frontier, executorVars, slipVars

\* Every step keeps the order of undoing and the bound on passes.
LEMMA NextLedger == Typed /\ Ledger /\ [Next]_vars => Ledger'
<1>. SUFFICES ASSUME Typed, Ledger, [Next]_vars PROVE Ledger'
  OBVIOUS
<1>. USE DEF Forward, InLoop, Emits, Emitted, slipVars
<1>0. Control /\ SlipTypes /\ ConsumerTypes
  BY TypesSplit DEF Typed
<1>1. CASE NextActivity
  BY <1>1, LedgerKept DEF NextActivity, Goto
<1>2. CASE NotConfigured
  BY <1>2, LedgerKept DEF NotConfigured, Goto
<1>3. CASE ItineraryDone
  BY <1>3, LedgerKept DEF ItineraryDone, Emit
<1>4. CASE PublishExecute
  <2>1. CASE Goto("execute") /\ UNCHANGED slipVars
    BY <1>4, <2>1, LedgerKept DEF PublishExecute, Goto
  <2>2. CASE EnterCatch
    BY <1>0, <1>4, <2>2, LedgerCatch DEF PublishExecute, Control
  <2>. QED  BY <1>4, <2>1, <2>2 DEF PublishExecute
<1>5. CASE PublishFails
  BY <1>0, <1>5, LedgerCatch DEF PublishFails, Control
<1>6. CASE ActivityCompletes
  <2>1. ~InLoop' /\ Forward /\ UNCHANGED <<attempts, undoCalls, inCatch>>
    BY <1>6 DEF ActivityCompletes, Emit
  <2>. QED  BY <1>0, <2>1, LedgerForward
<1>7. CASE ActivityFaultsOrTerminates
  BY <1>7, LedgerKept DEF ActivityFaultsOrTerminates, Emit
<1>8. CASE ActivityThrows
  BY <1>0, <1>8, LedgerCatch DEF ActivityThrows, Control
<1>9. CASE AfterActivityCompleted
  BY <1>9, LedgerKept DEF AfterActivityCompleted, Goto
<1>10. CASE AfterActivityFaulted
  <2>1. ~inCatch /\ Forward
    BY <1>0, <1>10 DEF AfterActivityFaulted, Control
  <2>2. inCatch' \in BOOLEAN
    BY <1>0, <1>10 DEF AfterActivityFaulted, SlipTypes
  <2>3. BeginCompensate /\ UNCHANGED <<completed, attempts, undoCalls>>
    BY <1>10 DEF AfterActivityFaulted
  <2>. QED  BY <2>1, <2>2, <2>3, LedgerBegins
<1>11. CASE AfterFaulted
  BY <1>11, LedgerKept DEF AfterFaulted, Goto
<1>12. CASE Resolve
  BY <1>12, LedgerKept DEF Resolve, Goto
<1>13. CASE CompensateNext
  BY <1>13, LedgerAttempt DEF CompensateNext, Goto
<1>14. CASE CompensatePublishFails
  BY <1>14, LedgerAttempt DEF CompensatePublishFails, Emit
<1>15. CASE CompensateSkips
  <2>1. undoing \notin Undoable
    <3>1. undoing \in 1 .. completed
      BY <1>15, TypedFacts DEF CompensateSkips
    <3>. QED  BY <1>15, <3>1, Compensated DEF CompensateSkips, Typed, Undoable
  <2>. QED  BY <1>15, <2>1, LedgerMoves DEF CompensateSkips
<1>16. CASE CompensateReturns
  BY <1>16, LedgerKept DEF CompensateReturns, Emit, Frontier
<1>17. CASE CompensateThrows
  BY <1>17, LedgerKept DEF CompensateThrows, Emit, Frontier
<1>18. CASE ContinueCompensating
  BY <1>18, LedgerMoves DEF ContinueCompensating, Goto
<1>19. CASE CompensationDone
  BY <1>19, LedgerKept DEF CompensationDone, Emit
<1>20. CASE SubscriberThrows
  <2>1. CASE event = "ActivityCompensated" /\ Emit("CompensationFailed") /\ UNCHANGED slipVars
    BY <1>20, <2>1, LedgerKept DEF SubscriberThrows, Emit, Frontier
  <2>2. CASE Goto("rejected") /\ UNCHANGED slipVars
    BY <1>20, <2>2, LedgerKept DEF SubscriberThrows, Goto
  <2>3. CASE ~Uncaught /\ event # "ActivityCompensated" /\ EnterCatch
    BY <1>20, <2>3, LedgerCatch DEF Uncaught
  <2>. QED  BY <1>20, <2>1, <2>2, <2>3 DEF SubscriberThrows
<1>21. CASE Consumers \/ Lose
  <2>1. UNCHANGED executorVars
    BY <1>0, <1>21, ConsumersTyped DEF Typed, TypeOK
  <2>. QED  BY <2>1, LedgerIdle
<1>22. CASE UNCHANGED vars
  BY <1>22, LedgerIdle DEF vars
<1>. QED
  BY <1>1, <1>2, <1>3, <1>4, <1>5, <1>6, <1>7, <1>8, <1>9, <1>10, <1>11, <1>12, <1>13,
     <1>14, <1>15, <1>16, <1>17, <1>18, <1>19, <1>20, <1>21, <1>22
     DEF Next, Executor, Done

\* The ledger holds throughout.
LEMMA LedgerInvariant == Spec => []Ledger
<1>1. Init => Ledger
  <2>. SUFFICES ASSUME Init PROVE Ledger
    OBVIOUS
  <2>1. /\ \A i \in Itinerary : attempts[i] = 0 /\ undoCalls[i] = 0
        /\ pc = "next" /\ inCatch = FALSE
    BY DEF Init
  <2>2. Undoable \subseteq Itinerary
    BY DistributedAssumption DEF Undoable
  <2>. QED  BY <2>1, <2>2 DEF Ledger, InLoop, Emits, Passes
<1>. QED  BY <1>1, TypedInvariant, NextLedger, PTL DEF Spec

-----------------------------------------------------------------------------
\* What was announced, and what was undone by then.

\* Nothing completes, and what was undone stays undone.
LEMMA FaultedKept ==
    ASSUME FaultedMeansUndone, UNCHANGED completed, announced \subseteq announced',
           "Faulted" \in announced' => "Faulted" \in announced,
           \A i \in Compensatable :
               i <= completed /\ undoCalls[i] >= 1 => undoCalls'[i] >= 1
    PROVE  FaultedMeansUndone'
  BY DEF FaultedMeansUndone

\* On the way forward no ending has been announced.
LEMMA AnnouncedForward ==
    ASSUME Forward', announced' \cap Endings = {}
    PROVE  Announced'
<1>1. ~InLoop' /\ ~Emits({"Faulted"})' /\ pc' # "resolved"
  BY DEF Forward, InLoop, Emits
<1>2. "Faulted" \notin announced'
  BY DEF Endings
<1>. QED
  BY <1>1, <1>2 DEF Announced, FaultedMeansUndone, ResolvedHasOneEnding

\* A pass begins: no position is beyond the frontier.
LEMMA AnnouncedBegins ==
    ASSUME Typed, BeginCompensate, UNCHANGED completed, FaultedMeansUndone',
           inCatch' \/ announced' \cap Endings = {}
    PROVE  Announced'
<1>1. completed \in 0 .. Activities /\ Undoable' \subseteq Itinerary
  BY TypedFacts, DistributedAssumption DEF Undoable
<1>2. ~Forward' /\ pc' # "resolved"
  BY DEF BeginCompensate, Goto, Emit, Forward, Emits
<1>3. InLoop' => Frontier' = completed
  BY DEF BeginCompensate, Goto, Emit, InLoop, Emits, Frontier, FirstToUndo
<1>4. \A i \in Undoable' : 1 <= i /\ ~(completed < i)
  BY <1>1 DEF Undoable, Itinerary
<1>5. Emits({"Faulted"})' => completed = 0
  BY DEF BeginCompensate, Goto, Emit, Emits
<1>6. Emits({"Faulted"})' => Undoable' = {}
  BY <1>1, <1>4, <1>5 DEF Undoable, Itinerary
<1>. QED
  BY <1>2, <1>3, <1>4, <1>6 DEF Announced, ResolvedHasOneEnding

\* The catch block, wherever it is entered from.
LEMMA AnnouncedCatch ==
    ASSUME Typed, EnterCatch, FaultedMeansUndone'
    PROVE  Announced'
  BY AnnouncedBegins DEF EnterCatch

\* A step of a pass announces no ending, and keeps what the pass owes.
LEMMA AnnouncedLoop ==
    ASSUME Announced, InLoop, InLoop', UNCHANGED <<completed, inCatch>>,
           announced \subseteq announced', announced' \cap Endings = announced \cap Endings,
           \A i \in Compensatable :
               i <= completed /\ undoCalls[i] >= 1 => undoCalls'[i] >= 1,
           \/ "CompensationFailed" \in announced' \/ Emits({"CompensationFailed"})'
           \/ \A i \in Undoable' : Frontier' < i => undoCalls'[i] >= 1
    PROVE  Announced'
<1>1. FaultedMeansUndone'
  <2>1. "Faulted" \in announced' => "Faulted" \in announced
    BY DEF Endings
  <2>. QED  BY <2>1, FaultedKept DEF Announced
<1>2. ~Forward' /\ ~Emits({"Faulted"})' /\ pc' # "resolved"
  BY DEF Forward, InLoop, Emits
<1>3. ~inCatch' => announced' \cap Endings = {}
  BY DEF Announced
<1>. QED
  BY <1>1, <1>2, <1>3 DEF Announced, ResolvedHasOneEnding

\* The promise settles; a rejection promises nothing.
LEMMA AnnouncedSettles ==
    ASSUME pc' \in {"resolved", "rejected"}, FaultedMeansUndone', ResolvedHasOneEnding'
    PROVE  Announced'
  BY DEF Announced, Forward, InLoop, Emits

\* Whatever the environment does, the executor announces and undoes nothing.
LEMMA AnnouncedIdle ==
    ASSUME Announced, UNCHANGED executorVars
    PROVE  Announced'
  BY DEF Announced, FaultedMeansUndone, ResolvedHasOneEnding, Undoable, Forward, InLoop,
         Emits, Frontier, executorVars, slipVars

\* Every step keeps what the announced events say.
LEMMA NextAnnounced == Typed /\ Ledger /\ Announced /\ [Next]_vars => Announced'
<1>. SUFFICES ASSUME Typed, Ledger, Announced, [Next]_vars PROVE Announced'
  OBVIOUS
<1>. USE DEF Forward, InLoop, Emits, slipVars, Endings
<1>0. /\ Control /\ SlipTypes /\ ConsumerTypes /\ FaultedMeansUndone
      /\ Forward => announced \cap Endings = {}
      /\ completed \in 0 .. Activities /\ undoing \in 0 .. completed
      /\ undoCalls \in [Itinerary -> Nat] /\ Undoable \subseteq Itinerary
  BY TypesSplit, TypedFacts DEF Typed, Announced
<1>1. CASE NextActivity
  BY <1>0, <1>1, AnnouncedForward DEF NextActivity, Goto
<1>2. CASE NotConfigured
  <2>1. FaultedMeansUndone'
    BY <1>0, <1>2, FaultedKept DEF NotConfigured
  <2>. QED  BY <1>2, <2>1, AnnouncedSettles DEF NotConfigured, Goto, ResolvedHasOneEnding
<1>3. CASE ItineraryDone
  BY <1>0, <1>3, AnnouncedForward DEF ItineraryDone, Emit
<1>4. CASE PublishExecute \/ PublishFails
  <2>1. CASE Goto("execute") /\ UNCHANGED slipVars /\ UNCHANGED announced /\ pc = "publish"
    BY <1>0, <2>1, AnnouncedForward DEF Goto
  <2>2. CASE EnterCatch /\ UNCHANGED announced
    <3>1. FaultedMeansUndone'
      BY <1>0, <2>2, FaultedKept DEF EnterCatch
    <3>. QED  BY <2>2, <3>1, AnnouncedCatch
  <2>. QED  BY <1>4, <2>1, <2>2 DEF PublishExecute, PublishFails
<1>5. CASE ActivityCompletes
  BY <1>0, <1>5, AnnouncedForward DEF ActivityCompletes, Emit
<1>6. CASE ActivityFaultsOrTerminates
  BY <1>0, <1>6, AnnouncedForward DEF ActivityFaultsOrTerminates, Emit
<1>7. CASE ActivityThrows
  <2>1. FaultedMeansUndone'
    BY <1>0, <1>7, FaultedKept DEF ActivityThrows, EnterCatch
  <2>. QED  BY <1>7, <2>1, AnnouncedCatch DEF ActivityThrows
<1>8. CASE AfterActivityCompleted
  BY <1>0, <1>8, AnnouncedForward DEF AfterActivityCompleted, Emitted, Goto
<1>9. CASE AfterActivityFaulted
  <2>1. announced' \cap Endings = {} /\ UNCHANGED <<completed, undoCalls>> /\ BeginCompensate
    BY <1>0, <1>9 DEF AfterActivityFaulted, Emitted
  <2>2. FaultedMeansUndone'
    BY <2>1 DEF FaultedMeansUndone
  <2>. QED  BY <2>1, <2>2, AnnouncedBegins
<1>10. CASE AfterFaulted \/ (SubscriberThrows /\ event = "Faulted")
  <2>0. Emitted({"Faulted"}) /\ UNCHANGED <<completed, undoCalls>>
    BY <1>10 DEF AfterFaulted, SubscriberThrows, Emitted, EnterCatch
  <2>1. FaultedMeansUndone'
    BY <2>0 DEF Announced, Emitted, Undoable, FaultedMeansUndone
  <2>2. CASE AfterFaulted
    <3>1. ResolvedHasOneEnding'
      <4>1. CASE inCatch
        BY <2>2, <4>1 DEF AfterFaulted, Goto, ResolvedHasOneEnding
      <4>2. CASE ~inCatch
        BY <2>0, <4>2 DEF Emitted, Announced, ResolvedHasOneEnding
      <4>. QED  BY <4>1, <4>2
    <3>. QED  BY <2>1, <2>2, <3>1, AnnouncedSettles DEF AfterFaulted, Goto
  <2>3. CASE SubscriberThrows
    <3>1. CASE pc' = "rejected"
      BY <2>1, <3>1, AnnouncedSettles DEF ResolvedHasOneEnding
    <3>2. CASE EnterCatch
      BY <2>1, <3>2, AnnouncedCatch
    <3>. QED  BY <2>0, <2>3, <3>1, <3>2 DEF SubscriberThrows, Emitted, Goto
  <2>. QED  BY <1>10, <2>2, <2>3
<1>11. CASE Resolve
  <2>1. /\ announced' = announced \cup {event} /\ event \in {"Completed", "Terminated"}
        /\ announced \cap Endings = {} /\ UNCHANGED <<completed, undoCalls>>
        /\ pc' = "resolved"
    BY <1>0, <1>11 DEF Resolve, Emitted, Goto
  <2>2. FaultedMeansUndone'
    BY <1>0, <2>1, FaultedKept
  <2>3. \A i \in Itinerary : undoCalls'[i] = 0
    BY <1>0, <1>11, <2>1 DEF Resolve, Emitted, Ledger
  <2>4. ResolvedHasOneEnding'
    BY <2>1, <2>3 DEF ResolvedHasOneEnding
  <2>. QED  BY <2>1, <2>2, <2>4, AnnouncedSettles
<1>12. CASE CompensateNext
  <2>1. /\ pc = "compensate" /\ pc' = "undo" /\ undoing \in 1 .. completed
        /\ HasCompensation(undoing) /\ undoCalls' = [undoCalls EXCEPT ![undoing] = @ + 1]
        /\ UNCHANGED <<completed, inCatch, undoing, announced>>
    BY <1>0, <1>12 DEF CompensateNext, Goto
  <2>2. undoing \in Itinerary
    BY <1>0, <2>1, DistributedAssumption DEF Itinerary
  <2>3. \A i \in Itinerary :
            undoCalls'[i] = IF i = undoing THEN undoCalls[i] + 1 ELSE undoCalls[i]
    BY <1>0, <2>1, <2>2
  <2>4. \A i \in Itinerary : undoCalls[i] >= 1 => undoCalls'[i] >= 1
    BY <1>0, <2>3
  <2>5. \A i \in Undoable' : undoing - 1 < i => i = undoing \/ undoing < i
    BY <1>0, <2>1, DistributedAssumption DEF Undoable, Itinerary
  <2>6. Undoable' = Undoable
    BY <2>1 DEF Undoable
  <2>7. undoCalls'[undoing] >= 1
    BY <1>0, <2>2, <2>3
  <2>8. \/ "CompensationFailed" \in announced'
        \/ \A i \in Undoable' : Frontier' < i => undoCalls'[i] >= 1
    BY <1>0, <2>1, <2>4, <2>5, <2>6, <2>7 DEF Announced, Frontier
  <2>. QED
    BY <2>1, <2>4, <2>8, AnnouncedLoop, DistributedAssumption
<1>13. CASE CompensatePublishFails
  BY <1>13, AnnouncedLoop DEF CompensatePublishFails, Emit
<1>14. CASE CompensateSkips
  <2>1. /\ pc = "compensate" /\ pc' = pc /\ undoing \in 1 .. completed /\ undoing' = undoing - 1
        /\ ~HasCompensation(undoing)
        /\ UNCHANGED <<completed, inCatch, announced, undoCalls, event>>
    BY <1>0, <1>14 DEF CompensateSkips
  <2>2. undoing \notin Undoable
    BY <2>1, Compensated DEF Typed, Undoable
  <2>3. \A i \in Undoable' : i \in Undoable /\ (undoing - 1 < i => undoing < i)
    BY <1>0, <2>1, <2>2, DistributedAssumption DEF Undoable, Itinerary
  <2>4. \/ "CompensationFailed" \in announced'
        \/ \A i \in Undoable' : Frontier' < i => undoCalls'[i] >= 1
    BY <2>1, <2>3 DEF Announced, Frontier
  <2>. QED  BY <2>1, <2>4, AnnouncedLoop
<1>15. CASE CompensateReturns
  BY <1>15, AnnouncedLoop DEF CompensateReturns, Emit, Announced, Frontier, Undoable
<1>16. CASE CompensateThrows
  BY <1>16, AnnouncedLoop DEF CompensateThrows, Emit
<1>17. CASE ContinueCompensating
  <2>1. /\ pc = "emit" /\ event \in {"ActivityCompensated", "CompensationFailed"}
        /\ announced' = announced \cup {event} /\ pc' = "compensate" /\ undoing' = undoing - 1
        /\ UNCHANGED <<completed, inCatch, undoCalls>>
    BY <1>17 DEF ContinueCompensating, Emitted, Goto
  <2>2. \/ "CompensationFailed" \in announced'
        \/ \A i \in Undoable' : Frontier' < i => undoCalls'[i] >= 1
    BY <2>1 DEF Announced, Frontier, Undoable
  <2>. QED  BY <2>1, <2>2, AnnouncedLoop
<1>18. CASE CompensationDone
  <2>1. /\ pc = "compensate" /\ undoing = 0 /\ pc' = "emit" /\ event' = "Faulted"
        /\ UNCHANGED <<completed, inCatch, announced, undoCalls>>
    BY <1>18 DEF CompensationDone, Emit
  <2>2. \A i \in Undoable : Frontier < i
    BY <1>0, <2>1 DEF Frontier, Itinerary
  <2>3. Undoable' = Undoable
    BY <2>1 DEF Undoable
  <2>4. FaultedMeansUndone'
    BY <1>0, <2>1, FaultedKept
  <2>. QED  BY <2>1, <2>2, <2>3, <2>4 DEF Announced, ResolvedHasOneEnding
<1>19. CASE SubscriberThrows /\ event # "Faulted"
  <2>1. announced' = announced \cup {event} /\ UNCHANGED <<completed, undoCalls>>
    BY <1>19 DEF SubscriberThrows, Emitted, EnterCatch
  <2>2. FaultedMeansUndone'
    BY <1>0, <1>19, <2>1, FaultedKept
  <2>3. CASE event = "ActivityCompensated" /\ Emit("CompensationFailed") /\ UNCHANGED slipVars
    BY <1>19, <2>1, <2>3, AnnouncedLoop DEF SubscriberThrows, Emitted, Emit
  <2>4. CASE Goto("rejected") /\ UNCHANGED slipVars
    BY <2>2, <2>4, AnnouncedSettles DEF Goto, ResolvedHasOneEnding
  <2>5. CASE EnterCatch
    BY <2>2, <2>5, AnnouncedCatch
  <2>. QED  BY <1>19, <2>3, <2>4, <2>5 DEF SubscriberThrows
<1>20. CASE Consumers \/ Lose
  <2>1. UNCHANGED executorVars
    BY <1>0, <1>20, ConsumersTyped DEF Typed, TypeOK
  <2>. QED  BY <2>1, AnnouncedIdle
<1>21. CASE UNCHANGED vars
  BY <1>21, AnnouncedIdle DEF vars
<1>. QED
  BY <1>1, <1>2, <1>3, <1>4, <1>5, <1>6, <1>7, <1>8, <1>9, <1>10, <1>11, <1>12,
     <1>13, <1>14, <1>15, <1>16, <1>17, <1>18, <1>19, <1>20, <1>21
     DEF Next, Executor, Done

\* What the announced events say holds throughout.
LEMMA AnnouncedInvariant == Spec => []Announced
<1>1. Init => Announced
  <2>. SUFFICES ASSUME Init PROVE Announced
    OBVIOUS
  <2>1. pc = "next" /\ announced = {}
    BY DEF Init
  <2>. QED
    BY <2>1 DEF Announced, FaultedMeansUndone, ResolvedHasOneEnding, InLoop, Emits
<1>. QED  BY <1>1, TypedInvariant, LedgerInvariant, NextAnnounced, PTL DEF Spec

\* RoutingSlipFaulted is emitted only when all that completed was undone, unless
\* RoutingSlipCompensationFailed was.
THEOREM FaultedCorrect == Spec => []FaultedMeansUndone
<1>1. Announced => FaultedMeansUndone
  BY DEF Announced
<1>. QED  BY <1>1, AnnouncedInvariant, PTL

\* A promise that resolves had one ending, and undid nothing unless it faulted.
THEOREM ResolvedCorrect == Spec => []ResolvedHasOneEnding
<1>1. Announced => ResolvedHasOneEnding
  BY DEF Announced
<1>. QED  BY <1>1, AnnouncedInvariant, PTL

-----------------------------------------------------------------------------
\* The executor takes only steps that the contract allows.
LEMMA StepContract ==
    ASSUME Typed, Ledger, Typed', [Next]_vars
    PROVE  [Contract!Next]_(Contract!cvars)
<1>. USE DEF slipVars, Phase, TurnedBack, Settled, Contract!cvars, Contract!Next
<1>0. Control /\ SlipTypes /\ ConsumerTypes /\ Control' /\ SlipTypes'
  BY TypesSplit, PTL DEF Typed
<1>1. CASE NextActivity
  BY <1>1 DEF NextActivity, Goto
<1>2. CASE NotConfigured
  BY <1>0, <1>2 DEF NotConfigured, Goto, Contract!Reject, Control, InLoop, Emits
<1>3. CASE ItineraryDone
  BY <1>3 DEF ItineraryDone, Emit
<1>4. CASE PublishExecute
  <2>1. ~inCatch
    BY <1>0, <1>4 DEF PublishExecute, Control, InLoop, Emits
  <2>. QED
    BY <1>4, <2>1
       DEF PublishExecute, Goto, EnterCatch, BeginCompensate, Emit, Contract!TurnBack
<1>5. CASE PublishFails \/ ActivityThrows
  <2>1. ~inCatch
    BY <1>0, <1>5 DEF PublishFails, ActivityThrows, Control, InLoop, Emits
  <2>. QED
    BY <1>5, <2>1
       DEF PublishFails, ActivityThrows, EnterCatch, BeginCompensate, Goto, Emit,
           Contract!TurnBack
<1>6. CASE ActivityCompletes
  <2>1. completed' = completed + 1 /\ completed < Activities /\ UNCHANGED attempts
    BY <1>0, <1>6, DistributedAssumption DEF ActivityCompletes, Control, SlipTypes
  <2>2. Phase = "forward" /\ Phase' = "forward"
    BY <1>0, <1>6 DEF ActivityCompletes, Emit, Control, InLoop, Emits
  <2>. QED  BY <2>1, <2>2 DEF Contract!Complete
<1>7. CASE ActivityFaultsOrTerminates
  BY <1>7 DEF ActivityFaultsOrTerminates, Emit
<1>8. CASE AfterActivityCompleted
  BY <1>8 DEF AfterActivityCompleted, Emitted, Goto
<1>9. CASE AfterActivityFaulted
  BY <1>0, <1>9
     DEF AfterActivityFaulted, Emitted, BeginCompensate, Emit, Goto, Contract!TurnBack,
         Control, InLoop, Emits
<1>10. CASE AfterFaulted
  BY <1>10 DEF AfterFaulted, Emitted, Goto, Contract!Reject, Contract!Resolve
<1>11. CASE Resolve
  BY <1>0, <1>11 DEF Resolve, Emitted, Goto, Contract!Resolve, Control, InLoop, Emits
<1>12. CASE CompensateNext \/ CompensatePublishFails
  <2>1. /\ pc = "compensate" /\ undoing \in 1 .. completed /\ HasCompensation(undoing)
        /\ Attempt /\ UNCHANGED completed
        /\ Phase = "backward" /\ Phase' = "backward"
    BY <1>0, <1>12
       DEF CompensateNext, CompensatePublishFails, Goto, Emit, SlipTypes
  <2>2. undoing \in Undoable
    BY <2>1, Compensated DEF Typed, Undoable
  <2>3. InLoop /\ Frontier = undoing /\ undoing \in Nat
    BY <2>1 DEF InLoop, Frontier
  <2>4. attempts[undoing] < 2
    <3>1. attempts[undoing] < Passes
      BY <2>2, <2>3 DEF Ledger
    <3>2. attempts[undoing] \in Nat
      BY <2>2, TypedFacts
    <3>. QED  BY <3>1, <3>2 DEF Passes
  <2>5. \A j \in Compensatable :
            undoing < j /\ j <= completed => attempts[undoing] < attempts[j]
    BY <2>2, <2>3 DEF Ledger, Undoable
  <2>6. Contract!Undo(undoing)
    BY <2>1, <2>2, <2>4, <2>5 DEF Contract!Undo, Attempt, Undoable
  <2>. QED  BY <2>2, <2>6, TypedFacts DEF Itinerary
<1>13. CASE CompensateSkips
  BY <1>13 DEF CompensateSkips
<1>14. CASE CompensateReturns
  BY <1>14 DEF CompensateReturns, Emit
<1>15. CASE CompensateThrows
  BY <1>15 DEF CompensateThrows, Emit
<1>16. CASE ContinueCompensating
  BY <1>16 DEF ContinueCompensating, Emitted, Goto
<1>17. CASE CompensationDone
  BY <1>17 DEF CompensationDone, Emit
<1>18. CASE SubscriberThrows
  BY <1>18
     DEF SubscriberThrows, Emitted, Uncaught, EnterCatch, BeginCompensate, Emit, Goto,
         Contract!TurnBack, Contract!Reject
<1>19. CASE Consumers \/ Lose
  <2>1. UNCHANGED executorVars
    BY <1>0, <1>19, ConsumersTyped DEF Typed, TypeOK
  <2>. QED  BY <2>1 DEF executorVars
<1>20. CASE UNCHANGED vars
  BY <1>20 DEF vars, executorVars
<1>. QED
  BY <1>1, <1>2, <1>3, <1>4, <1>5, <1>6, <1>7, <1>8, <1>9, <1>10, <1>11, <1>12,
     <1>13, <1>14, <1>15, <1>16, <1>17, <1>18, <1>19, <1>20 DEF Next, Executor, Done

\* In its own process the executor implements the contract, apart from its
\* liveness: it starts as the contract allows and takes only steps it allows.
THEOREM ContractSafety ==
    Spec => Contract!Init /\ [][Contract!Next]_(Contract!cvars)
<1>1. Init => Contract!Init
  BY DEF Init, Contract!Init, Phase, TurnedBack, Settled, Itinerary
<1>. QED
  BY <1>1, StepContract, TypedInvariant, LedgerInvariant, PTL DEF Spec
-----------------------------------------------------------------------------
\* How often consumers call an activity for the messages of a position.

\* How often a position was published at most: once on the way forward, and on
\* the way back as often as it was compensated here.
Sent(kind, i) ==
    IF kind = "Compensate" THEN undoCalls[i]
    ELSE IF i < index \/ (i = index /\ pc \notin {"next", "publish"}) THEN 1 ELSE 0

\* Every message has one call at most with each connection: those that are due
\* are counted with those that ended.
CountedFor(kind, i) ==
    /\ pending[<<kind, i>>] + unacked[<<kind, i>>] <= Sent(kind, i)
    /\ \A a \in Itinerary :
          IF a = Served(kind, i)
          THEN runs[<<kind, i, a>>] + pending[<<kind, i>>] <= (1 + losses) * Sent(kind, i)
          ELSE runs[<<kind, i, a>>] = 0

Counted == \A kind \in Kinds, i \in Itinerary : CountedFor(kind, i)

\* Messages, publishes and calls are numbers.
LEMMA CountedTyped ==
    ASSUME Typed, NEW kind \in Kinds, NEW i \in Itinerary
    PROVE  /\ pending[<<kind, i>>] \in Nat /\ unacked[<<kind, i>>] \in Nat
           /\ Sent(kind, i) \in Nat /\ losses \in Nat
           /\ \A a \in Itinerary : runs[<<kind, i, a>>] \in Nat
<1>1. /\ pending \in [Messages -> Nat] /\ unacked \in [Messages -> Nat]
      /\ runs \in [Calls -> Nat] /\ losses \in Nat /\ undoCalls \in [Itinerary -> Nat]
  BY DistributedAssumption DEF Typed, TypeOK
<1>2. <<kind, i>> \in Messages /\ \A a \in Itinerary : <<kind, i, a>> \in Calls
  BY DEF Messages, Calls
<1>3. Sent(kind, i) \in Nat
  BY <1>1 DEF Sent
<1>. QED  BY <1>1, <1>2, <1>3

\* Whatever the executor does, it has sent no fewer messages than before.
LEMMA SentGrows ==
    ASSUME Typed, Executor, NEW kind \in Kinds, NEW i \in Itinerary
    PROVE  /\ Sent(kind, i)' >= Sent(kind, i)
           /\ PublishExecute /\ kind = "Execute" /\ i = index =>
                 Sent(kind, i)' = 1 /\ Sent(kind, i) = 0
           /\ CompensateNext /\ kind = "Compensate" /\ i = undoing =>
                 Sent(kind, i)' = Sent(kind, i) + 1
<1>0. index \in Nat /\ undoCalls \in [Itinerary -> Nat] /\ i \in Nat
  BY DistributedAssumption DEF Typed, TypeOK, Itinerary
<1>1. CASE PublishExecute
  <2>1. pc = "publish" /\ pc' \notin {"next", "publish"} /\ UNCHANGED <<index, undoCalls>>
    BY <1>1 DEF PublishExecute, Goto, EnterCatch, BeginCompensate, Emit, slipVars
  <2>2. ~CompensateNext
    BY <2>1 DEF CompensateNext
  <2>. QED  BY <1>0, <2>1, <2>2 DEF Sent
<1>2. CASE CompensateNext
  <2>1. /\ pc = "compensate" /\ pc' = "undo" /\ UNCHANGED index
        /\ undoCalls' = [undoCalls EXCEPT ![undoing] = @ + 1]
    BY <1>2 DEF CompensateNext, Goto
  <2>2. undoCalls'[i] = IF i = undoing THEN undoCalls[i] + 1 ELSE undoCalls[i]
    BY <1>0, <2>1
  <2>3. ~PublishExecute
    BY <2>1 DEF PublishExecute
  <2>. QED  BY <1>0, <2>1, <2>2, <2>3 DEF Sent
<1>3. CASE ~PublishExecute /\ ~CompensateNext
  <2>1. /\ undoCalls' = undoCalls
        /\ \/ index' = index + 1
           \/ index' = index /\ (pc \notin {"next", "publish"} => pc' \notin {"next", "publish"})
    BY <1>3
       DEF Executor, NextActivity, NotConfigured, ItineraryDone, PublishFails,
           ActivityCompletes, ActivityFaultsOrTerminates, ActivityThrows,
           AfterActivityCompleted, AfterActivityFaulted, AfterFaulted, Resolve,
           CompensatePublishFails, CompensateSkips, CompensateReturns,
           CompensateThrows, ContinueCompensating, CompensationDone, SubscriberThrows,
           EnterCatch, BeginCompensate, Emit, Emitted, Goto, slipVars
  <2>. QED  BY <1>0, <1>3, <2>1 DEF Sent
<1>. QED  BY <1>1, <1>2, <1>3

\* The executor counts what it publishes.
LEMMA CountedExecutor ==
    ASSUME Typed, Counted, Executor, NEW kind \in Kinds, NEW i \in Itinerary
    PROVE  CountedFor(kind, i)'
<1>0. /\ pending[<<kind, i>>] \in Nat /\ unacked[<<kind, i>>] \in Nat
      /\ Sent(kind, i) \in Nat /\ losses \in Nat
      /\ \A a \in Itinerary : runs[<<kind, i, a>>] \in Nat
  BY CountedTyped
<1>1. /\ SlipTypes /\ Configured /\ pending \in [Messages -> Nat]
      /\ CountedFor(kind, i) /\ <<kind, i>> \in Messages
  BY TypesSplit DEF Typed, Counted, Messages
<1>2. UNCHANGED <<unacked, runs, losses>>
  BY <1>1, ExecutorPublishes DEF consumerVars
<1>3. ASSUME NEW d \in {0, 1}, pending'[<<kind, i>>] = pending[<<kind, i>>] + d,
             NEW sent \in Nat, sent = Sent(kind, i)', sent >= Sent(kind, i) + d
      PROVE  CountedFor(kind, i)'
  <2>1. (1 + losses) * sent >= (1 + losses) * Sent(kind, i) + d
    <3>1. PICK n \in Nat : sent = Sent(kind, i) + d + n
      <4>1. sent - Sent(kind, i) - d \in Nat
        BY <1>0, <1>3
      <4>. QED  BY <1>0, <1>3, <4>1
    <3>2. (1 + losses) * (d + n) >= d
      <4>1. losses * (d + n) \in Nat
        BY <1>0, <3>1
      <4>. QED  BY <1>0, <3>1, <4>1
    <3>. QED  BY <1>0, <3>1, <3>2
  <2>2. pending'[<<kind, i>>] + unacked'[<<kind, i>>] <= sent
    BY <1>0, <1>1, <1>2, <1>3 DEF CountedFor
  <2>3. ASSUME NEW a \in Itinerary
        PROVE  IF a = Served(kind, i)
               THEN runs'[<<kind, i, a>>] + pending'[<<kind, i>>] <= (1 + losses') * sent
               ELSE runs'[<<kind, i, a>>] = 0
    <3>1. (1 + losses) * sent \in Nat /\ (1 + losses) * Sent(kind, i) \in Nat
      BY <1>0, <1>3
    <3>2. IF a = Served(kind, i)
          THEN runs[<<kind, i, a>>] + pending[<<kind, i>>] <= (1 + losses) * Sent(kind, i)
          ELSE runs[<<kind, i, a>>] = 0
      BY <1>1 DEF CountedFor
    <3>. QED  BY <1>0, <1>2, <1>3, <2>1, <3>1, <3>2
  <2>. QED  BY <1>3, <2>2, <2>3 DEF CountedFor, Served, LastEndpoint
<1>4. Sent(kind, i)' >= Sent(kind, i) /\ Sent(kind, i)' \in Nat
  <2>1. Typed'
    BY NextTyped DEF Next
  <2>2. undoCalls' \in [Itinerary -> Nat]
    BY <2>1 DEF Typed, TypeOK
  <2>3. Sent(kind, i)' \in Nat
    BY <2>2 DEF Sent
  <2>. QED  BY <2>3, SentGrows
<1>5. CASE PublishExecute
  <2>1. pending' = [pending EXCEPT ![<<"Execute", index>>] = @ + 1]
    BY <1>5 DEF PublishExecute, Publish
  <2>2. pending'[<<kind, i>>] = IF <<kind, i>> = <<"Execute", index>>
                                THEN pending[<<kind, i>>] + 1 ELSE pending[<<kind, i>>]
    BY <1>1, <2>1, Bump
  <2>3. CASE kind = "Execute" /\ i = index
    <3>1. Sent(kind, i)' = 1 /\ Sent(kind, i) = 0
      BY <1>5, <2>3, SentGrows
    <3>. QED  BY <1>0, <1>3, <2>2, <2>3, <3>1
  <2>4. CASE ~(kind = "Execute" /\ i = index)
    <3>1. pending'[<<kind, i>>] = pending[<<kind, i>>] + 0
      BY <1>0, <2>2, <2>4
    <3>. QED  BY <1>0, <1>3, <1>4, <3>1
  <2>. QED  BY <2>3, <2>4
<1>6. CASE CompensateNext
  <2>1. pending' = [pending EXCEPT ![<<"Compensate", undoing>>] = @ + 1]
    BY <1>6 DEF CompensateNext, Publish
  <2>2. pending'[<<kind, i>>] = IF <<kind, i>> = <<"Compensate", undoing>>
                                THEN pending[<<kind, i>>] + 1 ELSE pending[<<kind, i>>]
    BY <1>1, <2>1, Bump
  <2>3. CASE kind = "Compensate" /\ i = undoing
    <3>1. Sent(kind, i)' = Sent(kind, i) + 1
      BY <1>6, <2>3, SentGrows
    <3>. QED  BY <1>0, <1>3, <1>4, <2>2, <2>3, <3>1
  <2>4. CASE ~(kind = "Compensate" /\ i = undoing)
    <3>1. pending'[<<kind, i>>] = pending[<<kind, i>>] + 0
      BY <1>0, <2>2, <2>4
    <3>. QED  BY <1>0, <1>3, <1>4, <3>1
  <2>. QED  BY <2>3, <2>4
<1>7. CASE UNCHANGED pending
  <2>1. pending'[<<kind, i>>] = pending[<<kind, i>>] + 0
    BY <1>0, <1>7
  <2>. QED  BY <1>0, <1>3, <1>4, <2>1
<1>8. PublishExecute \/ CompensateNext \/ UNCHANGED pending
  BY DEF Executor, NextActivity, NotConfigured, ItineraryDone, PublishFails,
         ActivityCompletes, ActivityFaultsOrTerminates, ActivityThrows,
         AfterActivityCompleted, AfterActivityFaulted, AfterFaulted, Resolve,
         CompensatePublishFails, CompensateSkips, CompensateReturns,
         CompensateThrows, ContinueCompensating, CompensationDone, SubscriberThrows
<1>. QED  BY <1>5, <1>6, <1>7, <1>8

\* A consumer's step: a call that is due ends, or a loss makes calls due again,
\* each for a message that was sent.
LEMMA CountedConsumers ==
    ASSUME Typed, Counted, Consumers \/ Lose, NEW kind \in Kinds, NEW i \in Itinerary
    PROVE  CountedFor(kind, i)'
<1>. DEFINE m == <<kind, i>>
<1>0. /\ pending[m] \in Nat /\ unacked[m] \in Nat
      /\ Sent(kind, i) \in Nat /\ losses \in Nat
      /\ \A a \in Itinerary : runs[<<kind, i, a>>] \in Nat
      /\ (1 + losses) * Sent(kind, i) \in Nat
  <2>1. /\ pending[m] \in Nat /\ unacked[m] \in Nat
        /\ Sent(kind, i) \in Nat /\ losses \in Nat
        /\ \A a \in Itinerary : runs[<<kind, i, a>>] \in Nat
    BY CountedTyped
  <2>. QED  BY <2>1
<1>1. /\ ConsumerTypes /\ pending \in [Messages -> Nat] /\ unacked \in [Messages -> Nat]
      /\ runs \in [Calls -> Nat] /\ m \in Messages
      /\ \A a \in Itinerary : <<kind, i, a>> \in Calls
  BY TypesSplit DEF Typed, ConsumerTypes, Messages, Calls
<1>2. /\ pending[m] + unacked[m] <= Sent(kind, i)
      /\ \A a \in Itinerary :
            IF a = Served(kind, i)
            THEN runs[<<kind, i, a>>] + pending[m] <= (1 + losses) * Sent(kind, i)
            ELSE runs[<<kind, i, a>>] = 0
  BY DEF Counted, CountedFor
<1>3. Sent(kind, i)' = Sent(kind, i) /\ Served(kind, i)' = Served(kind, i)
  <2>1. UNCHANGED <<executorVars, configurations>>
    BY <1>1, ConsumersTyped
  <2>2. Sent(kind, i)' = Sent(kind, i)
    BY <2>1 DEF Sent, executorVars, slipVars
  <2>. QED  BY <2>2 DEF Served, LastEndpoint
<1>4. ASSUME pending'[m] + unacked'[m] <= Sent(kind, i),
             \A a \in Itinerary :
                 IF a = Served(kind, i)
                 THEN runs'[<<kind, i, a>>] + pending'[m] <= (1 + losses') * Sent(kind, i)
                 ELSE runs'[<<kind, i, a>>] = 0
      PROVE  CountedFor(kind, i)'
  <2>. QED  BY <1>3, <1>4 DEF CountedFor
<1>5. ASSUME NEW k \in Kinds, NEW p \in Itinerary, Return(k, p)
      PROVE  CountedFor(kind, i)'
  <2>1. /\ pending[<<k, p>>] > 0
        /\ pending' = [pending EXCEPT ![<<k, p>>] = @ - 1]
        /\ unacked' = [unacked EXCEPT ![<<k, p>>] = @ + 1]
        /\ runs' = [runs EXCEPT ![<<k, p, Served(k, p)>>] = @ + 1]
        /\ losses' = losses
    BY <1>5 DEF Return
  <2>2. /\ pending'[m] = IF m = <<k, p>> THEN pending[m] - 1 ELSE pending[m]
        /\ unacked'[m] = IF m = <<k, p>> THEN unacked[m] + 1 ELSE unacked[m]
    BY <1>1, <2>1
  <2>3. ASSUME NEW a \in Itinerary
        PROVE  runs'[<<kind, i, a>>] =
                   IF m = <<k, p>> /\ a = Served(kind, i) THEN runs[<<kind, i, a>>] + 1
                   ELSE runs[<<kind, i, a>>]
    <3>1. runs'[<<kind, i, a>>] = IF <<kind, i, a>> = <<k, p, Served(k, p)>>
                                  THEN runs[<<kind, i, a>>] + 1 ELSE runs[<<kind, i, a>>]
      BY <1>1, <2>1, Bump
    <3>2. <<kind, i, a>> = <<k, p, Served(k, p)>> <=> m = <<k, p>> /\ a = Served(kind, i)
      OBVIOUS
    <3>. QED  BY <3>1, <3>2
  <2>4. pending'[m] + unacked'[m] <= Sent(kind, i)
    BY <1>0, <1>2, <2>2
  <2>5. ASSUME NEW a \in Itinerary
        PROVE  IF a = Served(kind, i)
               THEN runs'[<<kind, i, a>>] + pending'[m] <= (1 + losses') * Sent(kind, i)
               ELSE runs'[<<kind, i, a>>] = 0
    BY <1>0, <1>2, <2>1, <2>2, <2>3
  <2>. QED  BY <1>4, <2>4, <2>5
<1>6. ASSUME NEW message \in Messages, Ack(message)
      PROVE  CountedFor(kind, i)'
  <2>1. /\ unacked[message] > 0 /\ unacked' = [unacked EXCEPT ![message] = @ - 1]
        /\ UNCHANGED <<pending, runs, losses>>
    BY <1>6 DEF Ack
  <2>2. unacked'[m] <= unacked[m] /\ unacked'[m] \in Nat
    <3>1. unacked'[m] = IF m = message THEN unacked[m] - 1 ELSE unacked[m]
      BY <1>1, <2>1
    <3>. QED  BY <1>0, <2>1, <3>1
  <2>3. pending'[m] + unacked'[m] <= Sent(kind, i)
    BY <1>0, <1>2, <2>1, <2>2
  <2>. QED  BY <1>2, <1>4, <2>1, <2>3
<1>7. CASE Lose
  <2>1. /\ losses' = losses + 1 /\ pending' = Redelivered /\ unacked' = None
        /\ \/ UNCHANGED runs
           \/ runs' = [call \in Calls |-> runs[call] + Orphaned(call[1], call[2], call[3])]
    BY <1>7 DEF Lose
  <2>2. pending'[m] = pending[m] + unacked[m] /\ unacked'[m] = 0
    BY <1>1, <2>1 DEF Redelivered, None
  <2>3. (1 + losses') * Sent(kind, i) = (1 + losses) * Sent(kind, i) + Sent(kind, i)
    BY <1>0, <2>1
  <2>4. pending'[m] + unacked'[m] <= Sent(kind, i)
    BY <1>0, <1>2, <2>2
  <2>5. ASSUME NEW a \in Itinerary
        PROVE  IF a = Served(kind, i)
               THEN runs'[<<kind, i, a>>] + pending'[m] <= (1 + losses') * Sent(kind, i)
               ELSE runs'[<<kind, i, a>>] = 0
    <3>1. CASE UNCHANGED runs
      BY <1>0, <1>2, <2>2, <2>3, <3>1
    <3>2. CASE runs' = [call \in Calls |-> runs[call] + Orphaned(call[1], call[2], call[3])]
      <4>1. runs'[<<kind, i, a>>] =
                runs[<<kind, i, a>>] + (IF a = Served(kind, i) THEN pending[m] ELSE 0)
        BY <1>1, <3>2 DEF Orphaned
      <4>. QED  BY <1>0, <1>2, <2>2, <2>3, <4>1
    <3>. QED  BY <2>1, <3>1, <3>2
  <2>. QED  BY <1>4, <2>4, <2>5
<1>. QED
  BY <1>5, <1>6, <1>7
     DEF Consumers, ExecuteConsumerReturns, CompensateConsumerReturns, Kinds

\* The count holds throughout.
LEMMA CountedInvariant == Spec => []Counted
<1>1. Init => Counted
  <2>. SUFFICES ASSUME Init, NEW kind \in Kinds, NEW i \in Itinerary PROVE CountedFor(kind, i)
    BY DEF Counted
  <2>1. /\ pending[<<kind, i>>] = 0 /\ unacked[<<kind, i>>] = 0
        /\ \A a \in Itinerary : runs[<<kind, i, a>>] = 0
        /\ losses = 0 /\ undoCalls[i] = 0
        /\ index = 1 /\ pc = "next" /\ i >= 1 /\ i \in Nat
    <3>1. <<kind, i>> \in Messages /\ \A a \in Itinerary : <<kind, i, a>> \in Calls
      BY DEF Messages, Calls
    <3>2. i >= 1 /\ i \in Nat
      BY DistributedAssumption DEF Itinerary
    <3>. QED  BY <3>1, <3>2 DEF Init, None
  <2>2. Sent(kind, i) = 0
    BY <2>1 DEF Sent
  <2>. QED  BY <2>1, <2>2 DEF CountedFor
<1>2. Typed /\ Counted /\ [Next]_vars => Counted'
  <2>. SUFFICES ASSUME Typed, Counted, [Next]_vars, NEW kind \in Kinds, NEW i \in Itinerary
                PROVE  CountedFor(kind, i)'
    BY DEF Counted
  <2>1. CASE Executor
    BY <2>1, CountedExecutor
  <2>2. CASE Consumers \/ Lose
    BY <2>2, CountedConsumers
  <2>3. CASE UNCHANGED vars
    <3>1. UNCHANGED <<pending, runs, losses, unacked, undoCalls, index, pc>>
      BY <2>3 DEF vars, executorVars, slipVars, consumerVars
    <3>2. CountedFor(kind, i)
      BY DEF Counted
    <3>. QED  BY <3>1, <3>2 DEF CountedFor, Sent, Served, LastEndpoint
  <2>. QED  BY <2>1, <2>2, <2>3 DEF Next, Done
<1>. QED  BY <1>1, <1>2, TypedInvariant, PTL DEF Spec

\* Of all activities, the consumers only ever call those of the last endpoints:
\* for a position that was published once, and once more for every connection
\* they lose; for one that was undone, at most twice as often.
THEOREM RunsCorrect == Spec => []RunsBounded
<1>1. Typed /\ Ledger /\ Counted => RunsBounded
  <2>. SUFFICES ASSUME Typed, Ledger, Counted, NEW i \in Itinerary, NEW a \in Itinerary
                PROVE  /\ runs[<<"Execute", i, a>>] <=
                              IF a = Endpoints[LastEndpoint("Execute")]
                              THEN 1 + losses ELSE 0
                       /\ runs[<<"Compensate", i, a>>] <=
                              IF a = Endpoints[LastEndpoint("Compensate")]
                              THEN 2 * (1 + losses) ELSE 0
    BY DEF RunsBounded
  <2>0. losses \in Nat
    BY DistributedAssumption DEF Typed, TypeOK
  <2>1. ASSUME NEW kind \in Kinds
        PROVE  /\ runs[<<kind, i, a>>] \in Nat /\ Sent(kind, i) \in Nat
               /\ IF a = Endpoints[LastEndpoint(kind)]
                  THEN runs[<<kind, i, a>>] <= (1 + losses) * Sent(kind, i)
                  ELSE runs[<<kind, i, a>>] = 0
    <3>1. /\ pending[<<kind, i>>] \in Nat /\ Sent(kind, i) \in Nat
          /\ runs[<<kind, i, a>>] \in Nat /\ (1 + losses) * Sent(kind, i) \in Nat
      <4>1. /\ pending[<<kind, i>>] \in Nat /\ Sent(kind, i) \in Nat
            /\ runs[<<kind, i, a>>] \in Nat
        BY CountedTyped
      <4>. QED  BY <2>0, <4>1
    <3>2. IF a = Endpoints[LastEndpoint(kind)]
          THEN runs[<<kind, i, a>>] + pending[<<kind, i>>] <= (1 + losses) * Sent(kind, i)
          ELSE runs[<<kind, i, a>>] = 0
      BY DEF Counted, CountedFor, Served
    <3>. QED  BY <3>1, <3>2
  <2>2. Sent("Execute", i) \in {0, 1} /\ Sent("Compensate", i) = undoCalls[i]
    BY DEF Sent
  <2>3. undoCalls[i] \in {0, 1, 2}
    <3>1. undoCalls[i] <= attempts[i] /\ attempts[i] <= Passes /\ Passes \in {1, 2}
      BY DEF Ledger, Passes
    <3>2. undoCalls[i] \in Nat /\ attempts[i] \in Nat
      BY TypedFacts
    <3>. QED  BY <3>1, <3>2
  <2>4. runs[<<"Execute", i, a>>] <=
            IF a = Endpoints[LastEndpoint("Execute")] THEN 1 + losses ELSE 0
    BY <2>0, <2>1, <2>2 DEF Kinds
  <2>5. runs[<<"Compensate", i, a>>] <=
            IF a = Endpoints[LastEndpoint("Compensate")] THEN 2 * (1 + losses) ELSE 0
    BY <2>0, <2>1, <2>2, <2>3 DEF Kinds
  <2>. QED  BY <2>4, <2>5
<1>. QED  BY <1>1, TypedInvariant, LedgerInvariant, CountedInvariant, PTL
=============================================================================
