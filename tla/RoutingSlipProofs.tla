-------------------------- MODULE RoutingSlipProofs --------------------------
(***************************************************************************)
(* Proofs about RoutingSlip, for every itinerary, every number of          *)
(* subscribers and every choice of what is compensatable and what throws.  *)
(*                                                                         *)
(* The inductive invariant is built in three layers, each proved on top of *)
(* the one below it: Control ties the program counter to the log and the   *)
(* cursors, Ledger says how often each position was undone on either side  *)
(* of the compensation cursor, Announced says which events were heard.     *)
(***************************************************************************)
EXTENDS RoutingSlip, TLAPS

Logged == Len(activityLogs)

Forward ==
    \/ pc \in {"next", "execute"}
    \/ pc = "emit" /\ event = "ActivityCompleted"

InLoop ==
    \/ pc \in {"compensate", "undo"}
    \/ pc = "emit" /\ event \in {"ActivityCompensated", "CompensationFailed"}

Control ==
    /\ pc \in {"next", "execute"} => Logged = index - 1
    /\ pc = "execute" => index <= Activities
    /\ pc = "emit" /\ event = "ActivityCompleted" => Logged = index
    /\ pc = "emit" /\ event = "Completed" => Logged = Activities /\ index = Activities + 1
    /\ pc = "emit" /\ event \in {"ActivityFaulted", "Terminated"} =>
          index <= Activities /\ Logged = index - 1
    /\ InLoop \/ (pc = "emit" /\ event = "Faulted") => index <= Activities
    /\ InLoop => cursor \in 1 .. Logged + 1
    /\ InLoop /\ pc # "compensate" =>
          cursor <= Logged /\ Logged + 1 - cursor \in Compensatable
    /\ inCatch => InLoop \/ (pc = "emit" /\ event = "Faulted") \/ pc = "rejected"
    /\ pc = "resolved" => Logged = Activities \/ event = "Terminated"

\* The oldest positions, those the current pass has not reached.
Frontier == IF pc = "compensate" THEN Logged + 1 - cursor ELSE Logged - cursor

Passes == IF inCatch THEN 2 ELSE 1

Untouched == \A i \in Itinerary : undoCalls[i] = 0

Covered == \A i \in Undoable : undoCalls[i] >= 1

Ledger ==
    /\ UndoIsLifo
    /\ \A i \in Itinerary : undoCalls[i] <= Passes
    /\ ~InLoop /\ ~(pc = "emit" /\ event = "Faulted") /\ pc # "rejected" => Untouched
    /\ pc = "emit" /\ event = "Faulted" => Covered
    /\ InLoop =>
          /\ \A i, j \in Undoable : i <= Frontier /\ Frontier < j => undoCalls[i] < undoCalls[j]
          /\ \A i \in Undoable : i <= Frontier => undoCalls[i] < Passes
          /\ \A i \in Undoable : Frontier < i => undoCalls[i] >= 1

\* Events nobody heard yet.
Unheard(events) == \A s \in 1 .. Subscribers : \A e \in events : e \notin heard[s]

Announced ==
    /\ FaultedMeansUndone
    /\ CompletedIsFinal
    /\ Forward => Unheard(EventNames \ {"ActivityCompleted"})
    /\ pc = "emit" /\ event \in {"Completed", "Terminated", "ActivityFaulted"} =>
          Unheard(EventNames \ {"ActivityCompleted", event})
    /\ InLoop \/ (pc = "emit" /\ event = "Faulted") => Unheard({"Completed"})
    /\ pc = "emit" /\ event = "Terminated" =>
          \A s \in 1 .. Subscribers : s < subscriber => "Terminated" \in heard[s]
    /\ pc = "resolved" /\ event = "Terminated" =>
          \A s \in 1 .. Subscribers : "Terminated" \in heard[s]

-----------------------------------------------------------------------------
\* The entry of LogsToCompensate that the loop of compensate() is at: since the
\* log is 1, 2, ..., it is the position as far from the end as the cursor from 1.
LEMMA LogAtCursor ==
    ASSUME TypeOK, cursor \in 1 .. Logged
    PROVE  /\ LogsToCompensate[cursor] = Logged + 1 - cursor
           /\ LogsToCompensate[cursor] \in 1 .. Logged
<1>1. Logged \in Nat
  BY DEF TypeOK, Logged
<1>2. LogsToCompensate[cursor] = activityLogs[Logged - cursor + 1]
  BY <1>1 DEF LogsToCompensate, Reverse, Logged
<1>3. Logged - cursor + 1 \in 1 .. Logged
  BY <1>1
<1> QED
  BY <1>1, <1>2, <1>3 DEF TypeOK, Logged

\* The log never outgrows the itinerary: its last entry is its length, a position.
LEMMA LoggedBound ==
    ASSUME TypeOK
    PROVE  Logged \in 0 .. Activities
<1>1. Logged \in Nat
  BY DEF TypeOK, Logged
<1>2. CASE Logged = 0
  BY <1>2, SlipAssumption
<1>3. CASE Logged > 0
  <2>1. activityLogs[Logged] = Logged /\ activityLogs[Logged] \in Itinerary
    BY <1>1, <1>3 DEF TypeOK, Logged
  <2> QED
    BY <2>1, <1>1, SlipAssumption DEF Itinerary
<1> QED
  BY <1>1, <1>2, <1>3

\* Counting one more call of one function value.
LEMMA Bump ==
    ASSUME NEW S, NEW f \in [S -> Nat], NEW p \in S
    PROVE  LET g == [f EXCEPT ![p] = @ + 1]
           IN  /\ g \in [S -> Nat]
               /\ \A i \in S : g[i] = IF i = p THEN f[i] + 1 ELSE f[i]
  OBVIOUS

\* execute() starts typed, with an empty log and nothing in progress.
LEMMA InitTyped == Init => TypeOK /\ Control
<1> SUFFICES ASSUME Init PROVE TypeOK /\ Control
  OBVIOUS
<1> USE SlipAssumption DEF Init, Itinerary, EventNames
<1>1. heard \in [1 .. Subscribers -> SUBSET EventNames]
  OBVIOUS
<1>2. undoCalls \in [Itinerary -> Nat]
  OBVIOUS
<1>3. activityLogs \in Seq(Itinerary)
  OBVIOUS
<1>31. \A k \in 1 .. Len(activityLogs) : activityLogs[k] = k
  OBVIOUS
<1>32. subscriber \in 1 .. Subscribers + 1 /\ index \in 1 .. Activities + 1
  OBVIOUS
<1>33. event \in EventNames /\ inCatch \in BOOLEAN /\ cursor \in Nat
  OBVIOUS
<1>34. TypeOK
  BY <1>1, <1>2, <1>3, <1>31, <1>32, <1>33 DEF TypeOK
<1>4. Control
  BY DEF Control, InLoop, Logged
<1> QED
  BY <1>34, <1>4

\* What the event machinery does to the types, in every step that runs it.
LEMMA EnterCatchTyped ==
    ASSUME TypeOK, index <= Activities, EnterCatch, heard' = heard
    PROVE  TypeOK'
<1> USE DEF EnterCatch
<1>1. activityExceptions' \in Seq(Itinerary)
  BY SlipAssumption DEF TypeOK, RecordException, Itinerary
<1>2. /\ pc' \in {"emit", "compensate"}
      /\ event' \in EventNames
      /\ subscriber' \in 1 .. Subscribers + 1
      /\ cursor' \in Nat
  BY SlipAssumption DEF TypeOK, BeginCompensate, Emit, Goto, EventNames
<1> QED
  BY <1>1, <1>2 DEF TypeOK

\* Every step of execute(), compensate() and the event emission keeps the types
\* and what the program counter says of the log and the cursors.
LEMMA NextTyped ==
    ASSUME TypeOK, Control, [Next]_vars
    PROVE  TypeOK' /\ Control'
<1> USE SlipAssumption DEF Control, InLoop, Emitted, Emitting, slipVars
<1>0. Logged \in 0 .. Activities /\ (activityLogs = << >> <=> Logged = 0)
  BY LoggedBound DEF TypeOK, Logged
<1>1. CASE NextActivity
  BY <1>1 DEF NextActivity, Goto, TypeOK, Logged
<1>2. CASE ActivityNotFound
  BY <1>2 DEF ActivityNotFound, Goto, TypeOK, Logged
<1>3. CASE ItineraryDone
  BY <1>3 DEF ItineraryDone, Emit, TypeOK, Logged, EventNames
<1>4. CASE ActivityCompletes
  BY <1>0, <1>4 DEF ActivityCompletes, Emit, TypeOK, Logged, EventNames, Itinerary
<1>5. CASE ActivityFaults
  BY <1>5 DEF ActivityFaults, RecordException, Emit, TypeOK, Logged, EventNames, Itinerary
<1>6. CASE ActivityTerminates
  BY <1>6 DEF ActivityTerminates, Emit, TypeOK, Logged, EventNames
<1>7. CASE ActivityThrows
  <2>1. TypeOK'
    BY <1>7, EnterCatchTyped DEF ActivityThrows
  <2>2. Control'
    BY <1>0, <1>7 DEF ActivityThrows, EnterCatch, BeginCompensate, Emit, Goto, Logged
  <2> QED
    BY <2>1, <2>2
<1>8. CASE AfterActivityCompleted
  BY <1>0, <1>8 DEF AfterActivityCompleted, Goto, TypeOK, Logged
<1>9. CASE AfterActivityFaulted
  <2>1. /\ pc' \in {"emit", "compensate"}
        /\ event' \in EventNames
        /\ subscriber' \in 1 .. Subscribers + 1
        /\ cursor' \in Nat
    BY <1>9 DEF TypeOK, AfterActivityFaulted, BeginCompensate, Emit, Goto, EventNames
  <2>2. TypeOK'
    BY <1>9, <2>1 DEF AfterActivityFaulted, TypeOK
  <2>3. Control'
    BY <1>0, <1>9 DEF AfterActivityFaulted, BeginCompensate, Emit, Goto, Logged
  <2> QED
    BY <2>2, <2>3
<1>10. CASE AfterFaultBranch
  <2>1. TypeOK'
    BY <1>10, EnterCatchTyped DEF AfterFaultBranch
  <2>2. Control'
    BY <1>0, <1>10 DEF AfterFaultBranch, EnterCatch, BeginCompensate, Emit, Goto, Logged
  <2> QED
    BY <2>1, <2>2
<1>11. CASE AfterCatchBlock
  BY <1>11 DEF AfterCatchBlock, Goto, TypeOK, Logged
<1>12. CASE Resolve
  BY <1>12 DEF Resolve, Goto, TypeOK, Logged
<1>13. CASE CompensateNext
  <2>1. cursor \in 1 .. Logged
    BY <1>13 DEF CompensateNext, TypeOK, Logged
  <2>2. LogsToCompensate[cursor] = Logged + 1 - cursor
    BY <2>1, LogAtCursor
  <2>2a. Logged + 1 - cursor \in Itinerary
    BY <1>0, <2>1 DEF Itinerary
  <2>3. CASE Logged + 1 - cursor \in Compensatable
    <3>0. undoCalls' = [undoCalls EXCEPT ![Logged + 1 - cursor] = @ + 1]
      BY <1>13, <2>2, <2>3 DEF CompensateNext
    <3>1. undoCalls' \in [Itinerary -> Nat]
      <4>1. undoCalls \in [Itinerary -> Nat]
        BY DEF TypeOK
      <4> QED
        BY <2>2a, <3>0, <4>1, Bump
    <3>2. /\ pc' = "undo"
          /\ UNCHANGED <<event, subscriber, cursor, index, inCatch, activityLogs,
                         activityExceptions, compensateLogs, heard>>
      BY <1>13, <2>2, <2>3 DEF CompensateNext, Goto
    <3> QED
      BY <1>13, <2>1, <2>3, <3>1, <3>2 DEF CompensateNext, TypeOK, Logged
  <2>4. CASE Logged + 1 - cursor \notin Compensatable
    <3>1. /\ cursor' = cursor + 1
          /\ UNCHANGED <<pc, event, subscriber, undoCalls, index, inCatch, activityLogs,
                         activityExceptions, compensateLogs, heard>>
      BY <1>13, <2>2, <2>4 DEF CompensateNext, SkipLog
    <3> QED
      BY <1>13, <2>1, <3>1 DEF CompensateNext, TypeOK, Logged
  <2> QED
    BY <2>3, <2>4
<1>14. CASE CompensateReturns
  <2>1. LogsToCompensate[cursor] \in Itinerary
    BY <1>0, <1>14, LogAtCursor DEF CompensateReturns, TypeOK, Itinerary
  <2>2. compensateLogs' \in Seq(Itinerary)
    BY <1>14, <2>1 DEF CompensateReturns, TypeOK
  <2> QED
    BY <1>14, <2>2 DEF CompensateReturns, Emit, TypeOK, Logged, EventNames
<1>15. CASE CompensateThrows
  BY <1>15 DEF CompensateThrows, Emit, TypeOK, Logged, EventNames
<1>16. CASE ContinueCompensating
  <2>1. cursor' \in Nat
    BY <1>16 DEF ContinueCompensating, TypeOK
  <2> QED
    BY <1>0, <1>16, <2>1 DEF ContinueCompensating, Goto, TypeOK, Logged
<1>17. CASE CompensationDone
  BY <1>17 DEF CompensationDone, Emit, TypeOK, Logged, EventNames
<1>18. CASE Notify
  <2>1. heard' \in [1 .. Subscribers -> SUBSET EventNames]
    BY <1>18 DEF Notify, CallSubscriber, TypeOK
  <2>2. subscriber' \in 1 .. Subscribers + 1
    BY <1>18 DEF Notify, CallSubscriber, TypeOK
  <2> QED
    BY <1>18, <2>1, <2>2 DEF Notify, TypeOK, Logged
<1>19. CASE SubscriberThrows
  <2>1. heard' \in [1 .. Subscribers -> SUBSET EventNames]
    BY <1>19 DEF SubscriberThrows, TypeOK
  <2>2. CASE event = "ActivityCompensated" /\ Emit("CompensationFailed") /\ UNCHANGED slipVars
    BY <1>19, <2>1, <2>2 DEF SubscriberThrows, Emit, TypeOK, Logged, EventNames
  <2>3. CASE Uncaught /\ Goto("rejected") /\ UNCHANGED slipVars
    BY <1>19, <2>1, <2>3 DEF SubscriberThrows, Goto, TypeOK, Logged
  <2>4. CASE ~Uncaught /\ event # "ActivityCompensated" /\ EnterCatch
    <3>1. index \in Itinerary
      BY <1>0, <1>19, <2>4 DEF SubscriberThrows, Uncaught, TypeOK, EventNames, Itinerary
    <3>2. activityExceptions' \in Seq(Itinerary)
      BY <3>1, <2>4 DEF EnterCatch, RecordException, TypeOK
    <3>3. /\ pc' \in {"emit", "compensate"}
          /\ event' \in EventNames
          /\ subscriber' \in 1 .. Subscribers + 1
          /\ cursor' \in Nat
      BY <2>4 DEF TypeOK, EnterCatch, BeginCompensate, Emit, Goto, EventNames
    <3>4. TypeOK'
      BY <2>1, <2>4, <3>2, <3>3 DEF EnterCatch, TypeOK
    <3>5. Control'
      BY <1>0, <2>4, <3>1 DEF EnterCatch, BeginCompensate, Emit, Goto, Logged, Itinerary
    <3> QED
      BY <3>4, <3>5
  <2> QED
    BY <1>19, <2>2, <2>3, <2>4 DEF SubscriberThrows
<1>20. CASE UNCHANGED vars
  BY <1>20 DEF vars, TypeOK, Logged
<1> QED
  BY <1>1, <1>2, <1>3, <1>4, <1>5, <1>6, <1>7, <1>8, <1>9, <1>10, <1>11, <1>12,
     <1>13, <1>14, <1>15, <1>16, <1>17, <1>18, <1>19, <1>20 DEF Next, Done

\* Every variable keeps its type, and activities complete in itinerary order
\* without gap or repetition, for every itinerary.
THEOREM TypeCorrect == Spec => [](TypeOK /\ Control)
  BY InitTyped, NextTyped, PTL DEF Spec

-----------------------------------------------------------------------------
\* Before its first activity execute() has undone nothing.
LEMMA InitLedger == Init => Ledger
  BY DEF Init, Ledger, UndoIsLifo, Undoable, Untouched, Passes, InLoop

\* A step that neither completes, nor undoes, nor moves the compensation loop.
LEMMA IdleLedger ==
    ASSUME TypeOK, Ledger,
           UNCHANGED <<activityLogs, undoCalls, inCatch>>,
           ~InLoop', ~InLoop,
           (pc = "emit" /\ event = "Faulted") <=> (pc = "emit" /\ event = "Faulted")',
           pc = "rejected" => pc' = "rejected"
    PROVE  Ledger'
  BY DEF Ledger, UndoIsLifo, Undoable, Untouched, Passes, Covered

\* The catch block starts a second pass over positions undone at most once.
LEMMA EnterCatchLedger ==
    ASSUME TypeOK, Ledger, ~inCatch, EnterCatch
    PROVE  Ledger'
<1>1. Logged \in Nat /\ (activityLogs = << >> <=> Logged = 0)
  BY DEF TypeOK, Logged
<1>2. \A i \in Itinerary : undoCalls[i] \in Nat /\ undoCalls[i] <= 1
  BY DEF TypeOK, Ledger, Passes
<1>3. UndoIsLifo'
  BY DEF Ledger, UndoIsLifo, Undoable, EnterCatch
<1>4. UNCHANGED <<activityLogs, undoCalls>> /\ inCatch'
  BY DEF EnterCatch
<1>5. CASE activityLogs = << >>
  <2>1. Undoable' = {}
    BY <1>1, <1>4, <1>5, SlipAssumption DEF Undoable, Logged, Itinerary
  <2>2. pc' = "emit" /\ event' = "Faulted"
    BY <1>5 DEF EnterCatch, BeginCompensate, Emit
  <2> QED
    BY <1>2, <1>3, <1>4, <2>1, <2>2 DEF Ledger, Passes, Covered, InLoop
<1>6. CASE activityLogs # << >>
  <2>1. pc' = "compensate" /\ Frontier' = Logged
    BY <1>1, <1>4, <1>6 DEF EnterCatch, BeginCompensate, Goto, Frontier, Logged
  <2>2. \A i \in Undoable' : i <= Frontier' /\ i \in Itinerary
    BY <1>4, <2>1 DEF Undoable, Logged
  <2>3. \A i \in Undoable' : ~(Frontier' < i)
    BY <1>1, <2>1, <2>2, SlipAssumption DEF Itinerary
  <2> QED
    BY <1>2, <1>3, <1>4, <2>1, <2>2, <2>3 DEF Ledger, Passes, InLoop
<1> QED
  BY <1>5, <1>6

\* Every step keeps the account of undone positions on both sides of the cursor
\* of compensate(): the fact that makes newest-first hold across passes.
LEMMA NextLedger ==
    ASSUME TypeOK, Control, Ledger, TypeOK', Control', [Next]_vars
    PROVE  Ledger'
<1> USE DEF slipVars
<1>0. Logged \in 0 .. Activities /\ (activityLogs = << >> <=> Logged = 0)
  BY LoggedBound DEF TypeOK, Logged
<1>1. CASE NextActivity
  BY <1>1, IdleLedger DEF NextActivity, Goto, InLoop
<1>2. CASE ActivityNotFound
  BY <1>2, IdleLedger DEF ActivityNotFound, Goto, InLoop
<1>3. CASE ItineraryDone
  BY <1>3, IdleLedger DEF ItineraryDone, Emit, InLoop
<1>4. CASE ActivityCompletes
  <2>1. Untouched /\ UNCHANGED <<undoCalls, inCatch>>
    BY <1>4 DEF ActivityCompletes, Ledger, InLoop
  <2>2. pc' = "emit" /\ event' = "ActivityCompleted"
    BY <1>4 DEF ActivityCompletes, Emit
  <2>3. UndoIsLifo'
    BY <2>1 DEF UndoIsLifo, Undoable, Untouched
  <2>4. \A i \in Itinerary : undoCalls'[i] <= Passes'
    BY <2>1 DEF Untouched, Passes
  <2> QED
    BY <2>1, <2>2, <2>3, <2>4 DEF Ledger, InLoop, Untouched
<1>5. CASE ActivityFaults
  BY <1>5, IdleLedger DEF ActivityFaults, Emit, InLoop
<1>6. CASE ActivityTerminates
  BY <1>6, IdleLedger DEF ActivityTerminates, Emit, InLoop
<1>7. CASE ActivityThrows
  BY <1>7, EnterCatchLedger DEF ActivityThrows, Control, InLoop
<1>8. CASE AfterActivityCompleted
  BY <1>8, IdleLedger DEF AfterActivityCompleted, Emitted, Goto, InLoop
<1>9. CASE AfterActivityFaulted
  <2>1. Untouched /\ UNCHANGED <<undoCalls, inCatch, activityLogs>>
    BY <1>9 DEF AfterActivityFaulted, Emitted, Ledger, InLoop
  <2>2. UndoIsLifo'
    BY <2>1 DEF Ledger, UndoIsLifo, Undoable
  <2>3. \A i \in Itinerary : undoCalls'[i] = 0 /\ undoCalls'[i] < Passes'
    BY <2>1 DEF Untouched, Passes
  <2>4. CASE activityLogs = << >>
    <3>1. Undoable' = {}
      BY <1>0, <2>1, <2>4, SlipAssumption DEF Undoable, Logged, Itinerary
    <3>2. pc' = "emit" /\ event' = "Faulted"
      BY <1>9, <2>4 DEF AfterActivityFaulted, BeginCompensate, Emit
    <3> QED
      BY <2>2, <2>3, <3>1, <3>2 DEF Ledger, Covered, InLoop, Passes
  <2>5. CASE activityLogs # << >>
    <3>1. pc' = "compensate" /\ Frontier' = Logged
      BY <1>0, <1>9, <2>1, <2>5 DEF AfterActivityFaulted, BeginCompensate, Goto, Frontier, Logged
    <3>2. \A i \in Undoable' : i \in Itinerary /\ ~(Frontier' < i)
      BY <1>0, <2>1, <3>1, SlipAssumption DEF Undoable, Logged, Itinerary
    <3> QED
      BY <2>2, <2>3, <3>1, <3>2 DEF Ledger, InLoop, Passes
  <2> QED
    BY <2>4, <2>5
<1>10. CASE AfterFaultBranch
  BY <1>10, EnterCatchLedger DEF AfterFaultBranch
<1>11. CASE AfterCatchBlock
  BY <1>11 DEF AfterCatchBlock, Goto, Ledger, UndoIsLifo, Undoable, Passes, InLoop
<1>12. CASE Resolve
  BY <1>12, IdleLedger DEF Resolve, Emitted, Goto, InLoop
<1>13. CASE CompensateNext
  <2>1. cursor \in 1 .. Logged /\ pc = "compensate" /\ Frontier = Logged + 1 - cursor
    BY <1>13 DEF CompensateNext, TypeOK, Control, InLoop, Logged, Frontier
  <2>2. LogsToCompensate[cursor] = Frontier
    BY <2>1, LogAtCursor
  <2>3. Frontier \in 1 .. Logged
    BY <1>0, <2>1
  <2>4. Frontier \in Itinerary
    BY <1>0, <2>3, SlipAssumption DEF Itinerary
  <2>5. CASE Frontier \in Compensatable
    <3>1. /\ undoCalls' = [undoCalls EXCEPT ![Frontier] = @ + 1]
          /\ pc' = "undo"
          /\ UNCHANGED <<activityLogs, inCatch, cursor>>
      BY <1>13, <2>2, <2>5 DEF CompensateNext, Goto
    <3>2. Frontier' = Frontier - 1 /\ Undoable' = Undoable /\ Passes' = Passes
      BY <1>0, <2>1, <3>1 DEF Frontier, Logged, Undoable, Passes
    <3>3. undoCalls \in [Itinerary -> Nat]
      BY DEF TypeOK
    <3>4. \A i \in Itinerary :
             undoCalls'[i] = IF i = Frontier THEN undoCalls[i] + 1 ELSE undoCalls[i]
      BY <2>4, <3>1, <3>3, Bump
    <3>5. Frontier \in Undoable
      BY <2>3, <2>4, <2>5 DEF Undoable, Logged
    <3>6. /\ \A i, j \in Undoable : i <= Frontier /\ Frontier < j => undoCalls[i] < undoCalls[j]
          /\ \A i \in Undoable : i <= Frontier => undoCalls[i] < Passes
          /\ \A i \in Undoable : Frontier < i => undoCalls[i] >= 1
          /\ \A i, j \in Undoable : i < j => undoCalls[i] <= undoCalls[j]
          /\ \A i \in Itinerary \ Undoable : undoCalls[i] = 0
          /\ \A i \in Itinerary : undoCalls[i] <= Passes
      BY <2>1 DEF Ledger, InLoop, UndoIsLifo
    <3>7. \A i \in Undoable : i \in Itinerary /\ i \in Int
      BY DEF Undoable, Itinerary
    <3>8. UndoIsLifo'
      BY <2>3, <3>2, <3>3, <3>4, <3>5, <3>6, <3>7 DEF UndoIsLifo
    <3>9. \A i \in Itinerary : undoCalls'[i] <= Passes'
      BY <2>3, <3>2, <3>3, <3>4, <3>5, <3>6 DEF Passes
    <3>10. /\ \A i, j \in Undoable : i <= Frontier - 1 /\ Frontier - 1 < j => undoCalls'[i] < undoCalls'[j]
           /\ \A i \in Undoable : i <= Frontier - 1 => undoCalls'[i] < Passes
           /\ \A i \in Undoable : Frontier - 1 < i => undoCalls'[i] >= 1
      BY <2>3, <3>3, <3>4, <3>5, <3>6, <3>7 DEF Passes
    <3> QED
      BY <3>1, <3>2, <3>8, <3>9, <3>10 DEF Ledger, InLoop
  <2>6. CASE Frontier \notin Compensatable
    <3>1. /\ cursor' = cursor + 1
          /\ UNCHANGED <<pc, event, undoCalls, inCatch, activityLogs>>
      BY <1>13, <2>2, <2>6 DEF CompensateNext, SkipLog
    <3>2. Frontier' = Frontier - 1 /\ Undoable' = Undoable /\ Passes' = Passes
      BY <1>0, <2>1, <3>1 DEF Frontier, Logged, Undoable, Passes
    <3>3. \A i \in Undoable : i \in Int /\ i # Frontier
      BY <2>6 DEF Undoable, Itinerary
    <3>4. \A i \in Undoable : /\ i <= Frontier - 1 <=> i <= Frontier
                              /\ Frontier - 1 < i <=> Frontier < i
      BY <2>3, <3>3
    <3> QED
      BY <2>1, <3>1, <3>2, <3>4 DEF Ledger, UndoIsLifo, InLoop
  <2> QED
    BY <2>5, <2>6
<1>14. CASE CompensateReturns
  BY <1>14 DEF CompensateReturns, Emit, Ledger, UndoIsLifo, Undoable, Passes, InLoop, Frontier, Logged
<1>15. CASE CompensateThrows
  BY <1>15 DEF CompensateThrows, Emit, Ledger, UndoIsLifo, Undoable, Passes, InLoop, Frontier, Logged
<1>16. CASE ContinueCompensating
  <2>1. InLoop /\ InLoop' /\ UNCHANGED <<activityLogs, undoCalls, inCatch>>
    BY <1>16 DEF ContinueCompensating, Emitted, Goto, InLoop
  <2>2. Frontier' = Frontier
    BY <1>0, <1>16 DEF ContinueCompensating, Emitted, Goto, Frontier, Logged, TypeOK
  <2>3. pc' = "compensate"
    BY <1>16 DEF ContinueCompensating, Goto
  <2> QED
    BY <2>1, <2>2, <2>3 DEF Ledger, UndoIsLifo, Undoable, Passes
<1>17. CASE CompensationDone
  <2>1. InLoop /\ Frontier = 0
    BY <1>0, <1>17 DEF CompensationDone, Control, InLoop, Frontier, Logged, TypeOK
  <2>2. Covered
    BY <2>1 DEF Ledger, Covered, Undoable, Itinerary
  <2>3. pc' = "emit" /\ event' = "Faulted" /\ UNCHANGED <<activityLogs, undoCalls, inCatch>>
    BY <1>17 DEF CompensationDone, Emit
  <2> QED
    BY <2>2, <2>3 DEF Ledger, UndoIsLifo, Undoable, Passes, Covered, InLoop
<1>18. CASE Notify
  BY <1>18 DEF Notify, Ledger, UndoIsLifo, Undoable, Untouched, Covered, Passes, InLoop, Frontier, Logged
<1>19. CASE SubscriberThrows
  <2>1. CASE event = "ActivityCompensated" /\ Emit("CompensationFailed") /\ UNCHANGED slipVars
    BY <1>19, <2>1 DEF SubscriberThrows, Emitting, Emit, Ledger, UndoIsLifo, Undoable, Passes, InLoop, Frontier, Logged
  <2>2. CASE Uncaught /\ Goto("rejected") /\ UNCHANGED slipVars
    BY <2>2 DEF Goto, Ledger, UndoIsLifo, Undoable, Passes, InLoop
  <2>3. CASE ~Uncaught /\ event # "ActivityCompensated" /\ EnterCatch
    BY <2>3, EnterCatchLedger DEF Uncaught
  <2> QED
    BY <1>19, <2>1, <2>2, <2>3 DEF SubscriberThrows
<1>20. CASE UNCHANGED vars
  BY <1>20 DEF vars, Ledger, UndoIsLifo, Undoable, Untouched, Covered, Passes, InLoop, Frontier, Logged
<1> QED
  BY <1>1, <1>2, <1>3, <1>4, <1>5, <1>6, <1>7, <1>8, <1>9, <1>10, <1>11, <1>12,
     <1>13, <1>14, <1>15, <1>16, <1>17, <1>18, <1>19, <1>20 DEF Next, Done

\* The account of undone positions is right in every reachable state.
THEOREM LedgerInvariant == Spec => []Ledger
  BY InitLedger, NextLedger, TypeCorrect, PTL DEF Init, Spec

\* Whatever throws and wherever it surfaces, no activity is ever undone more
\* often than one that completed after it, and only completed ones are undone.
THEOREM LifoCorrect == Spec => []UndoIsLifo
<1>1. Ledger => UndoIsLifo
  BY DEF Ledger
<1> QED
  BY <1>1, LedgerInvariant, PTL

\* The double compensation of the Fault branch is bounded: two undos, not three.
THEOREM TwoPassesCorrect == Spec => []AtMostTwoPasses
<1>1. TypeOK /\ Ledger => AtMostTwoPasses
  BY DEF Ledger, Passes, AtMostTwoPasses, TypeOK
<1> QED
  BY <1>1, TypeCorrect, LedgerInvariant, PTL

-----------------------------------------------------------------------------
\* Before execute() runs no subscriber was called.
LEMMA InitAnnounced == Init => Announced
  BY SlipAssumption DEF Init, Announced, FaultedMeansUndone, CompletedIsFinal,
     HeardBySome, Unheard, Forward, InLoop

\* A step that no subscriber is called in and that announces nothing new.
LEMMA QuietAnnounced ==
    ASSUME TypeOK, Announced, Ledger', heard' = heard,
           Undoable' = Undoable,
           \A i \in Itinerary : undoCalls[i] \in Nat /\ undoCalls'[i] \in Nat
                                /\ undoCalls[i] <= undoCalls'[i]
    PROVE  FaultedMeansUndone'
<1>1. \A i \in Undoable : i \in Itinerary
  BY DEF Undoable
<1> QED
  BY <1>1 DEF Announced, FaultedMeansUndone, HeardBySome

\* Every step keeps what the subscribers were told consistent with the phase of
\* the slip, in particular a throw that ends an emission half way.
LEMMA NextAnnounced ==
    ASSUME TypeOK, Control, Ledger, Announced, TypeOK', Control', Ledger', [Next]_vars
    PROVE  Announced'
<1> USE DEF slipVars, Announced, Unheard, HeardBySome, FaultedMeansUndone,
        CompletedIsFinal, InLoop, Forward, EventNames
<1>1. CASE NextActivity
  BY <1>1 DEF NextActivity, Goto, Undoable
<1>2. CASE ActivityNotFound
  BY <1>2 DEF ActivityNotFound, Goto, Undoable
<1>3. CASE ItineraryDone
  BY <1>3 DEF ItineraryDone, Emit, Undoable
<1>4. CASE ActivityCompletes
  BY <1>4 DEF ActivityCompletes, Emit
<1>5. CASE ActivityFaults
  BY <1>5 DEF ActivityFaults, Emit, Undoable
<1>6. CASE ActivityTerminates
  BY <1>6 DEF ActivityTerminates, Emit, Undoable, TypeOK
<1>7. CASE ActivityThrows
  BY <1>7 DEF ActivityThrows, EnterCatch, BeginCompensate, Emit, Goto, Undoable
<1>8. CASE AfterActivityCompleted
  BY <1>8 DEF AfterActivityCompleted, Emitted, Goto, Undoable
<1>9. CASE AfterActivityFaulted
  BY <1>9 DEF AfterActivityFaulted, Emitted, BeginCompensate, Emit, Goto, Undoable
<1>10. CASE AfterFaultBranch
  BY <1>10 DEF AfterFaultBranch, Emitted, EnterCatch, BeginCompensate, Emit, Goto, Undoable
<1>11. CASE AfterCatchBlock
  BY <1>11 DEF AfterCatchBlock, Emitted, Goto, Undoable
<1>12. CASE Resolve
  <2>1. /\ pc = "emit" /\ event \in {"Completed", "Terminated"} /\ pc' = "resolved"
        /\ UNCHANGED <<event, heard, undoCalls, activityLogs>>
    BY <1>12 DEF Resolve, Emitted, Goto
  <2>2. \A s \in 1 .. Subscribers : s < subscriber
    BY <1>12, SlipAssumption DEF Resolve, Emitted, TypeOK
  <2>3. event = "Terminated" => \A s \in 1 .. Subscribers : "Terminated" \in heard[s]
    BY <2>1, <2>2
  <2>4. FaultedMeansUndone' /\ CompletedIsFinal'
    BY <2>1 DEF Undoable
  <2> QED
    BY <2>1, <2>3, <2>4
<1>13. CASE CompensateNext
  <2>1. CASE UNCHANGED undoCalls
    BY <1>13, <2>1 DEF CompensateNext, Goto, SkipLog, Undoable
  <2>2. CASE undoCalls' = [undoCalls EXCEPT ![LogsToCompensate[cursor]] = @ + 1]
    <3>1. cursor \in 1 .. Logged
      BY <1>13 DEF CompensateNext, TypeOK, Control, Logged
    <3>2. LogsToCompensate[cursor] \in Itinerary
      BY <3>1, LogAtCursor, LoggedBound, SlipAssumption DEF Itinerary
    <3>3. undoCalls \in [Itinerary -> Nat]
      BY DEF TypeOK
    <3>4. \A i \in Itinerary : undoCalls[i] <= undoCalls'[i]
      BY <2>2, <3>2, <3>3, Bump
    <3>5. heard' = heard /\ Undoable' = Undoable
      BY <1>13 DEF CompensateNext, Undoable
    <3>6. FaultedMeansUndone'
      BY <3>3, <3>4, <3>5, QuietAnnounced DEF TypeOK
    <3>7. Unheard({"Completed"}) /\ pc' \in {"compensate", "undo"}
      BY <1>13 DEF CompensateNext, Goto, SkipLog
    <3> QED
      BY <3>5, <3>6, <3>7
  <2> QED
    BY <1>13, <2>1, <2>2 DEF CompensateNext, SkipLog
<1>14. CASE CompensateReturns
  BY <1>14 DEF CompensateReturns, Emit, Undoable
<1>15. CASE CompensateThrows
  BY <1>15 DEF CompensateThrows, Emit, Undoable
<1>16. CASE ContinueCompensating
  BY <1>16 DEF ContinueCompensating, Emitted, Goto, Undoable
<1>17. CASE CompensationDone
  BY <1>17 DEF CompensationDone, Emit, Undoable
<1>18. CASE Notify
  BY <1>18 DEF Notify, CallSubscriber, Emitting, Undoable, TypeOK, Ledger, Covered, Untouched
<1>19. CASE SubscriberThrows
  BY <1>19 DEF SubscriberThrows, Emitting, Uncaught, EnterCatch, BeginCompensate, Emit, Goto,
     Undoable, TypeOK, Ledger, Covered, Untouched, Control
<1>20. CASE UNCHANGED vars
  BY <1>20 DEF vars, Undoable
<1> QED
  BY <1>1, <1>2, <1>3, <1>4, <1>5, <1>6, <1>7, <1>8, <1>9, <1>10, <1>11, <1>12,
     <1>13, <1>14, <1>15, <1>16, <1>17, <1>18, <1>19, <1>20 DEF Next, Done

\* What subscribers heard is consistent with the slip in every reachable state.
THEOREM AnnouncedInvariant == Spec => []Announced
  BY InitAnnounced, NextAnnounced, TypeCorrect, LedgerInvariant, PTL DEF Spec

\* No subscriber ever hears RoutingSlipFaulted before every completed activity
\* that can be undone was attempted.
THEOREM FaultedCorrect == Spec => []FaultedMeansUndone
<1>1. Announced => FaultedMeansUndone
  BY DEF Announced
<1> QED
  BY <1>1, AnnouncedInvariant, PTL

\* RoutingSlipCompleted is never followed or preceded by the news of a failure.
THEOREM CompletedCorrect == Spec => []CompletedIsFinal
<1>1. Announced => CompletedIsFinal
  BY DEF Announced
<1> QED
  BY <1>1, AnnouncedInvariant, PTL

\* A promise that resolves stands for work that was left in place.
THEOREM ResolvedCorrect == Spec => []ResolvedMeansKept
<1>1. Control /\ Ledger /\ Announced => ResolvedMeansKept
  BY DEF Control, Ledger, Announced, Untouched, InLoop, Logged, ResolvedMeansKept
<1> QED
  BY <1>1, TypeCorrect, LedgerInvariant, AnnouncedInvariant, PTL

\* Once anything was undone, the log of completed activities is frozen.
THEOREM NoWorkCorrect == Spec => NoWorkAfterUndo
<1>1. ASSUME TypeOK, Ledger, [Next]_vars, \E i \in Itinerary : undoCalls[i] > 0
      PROVE  activityLogs' = activityLogs
  <2>1. ~ActivityCompletes
    BY <1>1 DEF ActivityCompletes, Ledger, Untouched, InLoop, TypeOK
  <2> QED
    BY <1>1, <2>1 DEF Next, vars, slipVars, Done, NextActivity, ActivityNotFound, ItineraryDone,
       ActivityFaults, ActivityTerminates, ActivityThrows, AfterActivityCompleted,
       AfterActivityFaulted, AfterFaultBranch, AfterCatchBlock, Resolve, CompensateNext,
       CompensateReturns, CompensateThrows, ContinueCompensating, CompensationDone,
       Notify, SubscriberThrows, EnterCatch
<1> QED
  BY <1>1, TypeCorrect, LedgerInvariant, PTL DEF NoWorkAfterUndo, Spec

-----------------------------------------------------------------------------
\* Every step of the executor is a step of the contract or leaves what the
\* contract speaks of unchanged.
LEMMA StepContract ==
    ASSUME TypeOK, Control, Ledger, TypeOK', Control', [Next]_vars
    PROVE  [Contract!Next]_(Contract!cvars)
<1> USE DEF slipVars, Phase, TurnedBack, Settled, Contract!cvars, Contract!Next
<1>0. Logged \in 0 .. Activities
  BY LoggedBound
<1>1. CASE NextActivity
  BY <1>1 DEF NextActivity, Goto
<1>2. CASE ActivityNotFound
  BY <1>2 DEF ActivityNotFound, Goto, Contract!Reject, Control
<1>3. CASE ItineraryDone
  BY <1>3 DEF ItineraryDone, Emit
<1>4. CASE ActivityCompletes
  <2>1. /\ Len(activityLogs') = Len(activityLogs) + 1
        /\ Len(activityLogs) < Activities
    <3>1. index \in Nat /\ index <= Activities /\ Len(activityLogs) = index - 1
      BY <1>4 DEF ActivityCompletes, TypeOK, Control, Logged
    <3>2. activityLogs' = Append(activityLogs, index) /\ activityLogs \in Seq(Itinerary)
      BY <1>4 DEF ActivityCompletes, TypeOK
    <3> QED
      BY <3>1, <3>2, SlipAssumption
  <2>2. /\ Phase = "forward" /\ Phase' = "forward" /\ UNCHANGED undoCalls
    BY <1>4 DEF ActivityCompletes, Emit, Control, InLoop
  <2> QED
    BY <2>1, <2>2 DEF Contract!Complete
<1>5. CASE ActivityFaults
  BY <1>5 DEF ActivityFaults, Emit
<1>6. CASE ActivityTerminates
  BY <1>6 DEF ActivityTerminates, Emit
<1>7. CASE ActivityThrows
  BY <1>7 DEF ActivityThrows, EnterCatch, BeginCompensate, Emit, Goto, Contract!TurnBack
<1>8. CASE AfterActivityCompleted
  BY <1>8 DEF AfterActivityCompleted, Emitted, Goto
<1>9. CASE AfterActivityFaulted
  BY <1>9 DEF AfterActivityFaulted, Emitted, BeginCompensate, Emit, Goto, Contract!TurnBack
<1>10. CASE AfterFaultBranch
  BY <1>10 DEF AfterFaultBranch, Emitted, EnterCatch, BeginCompensate, Emit, Goto
<1>11. CASE AfterCatchBlock
  BY <1>11 DEF AfterCatchBlock, Emitted, Goto, Contract!Reject
<1>12. CASE Resolve
  BY <1>12 DEF Resolve, Emitted, Goto, Contract!Resolve, Control, InLoop
<1>13. CASE CompensateNext
  <2>1. cursor \in 1 .. Logged /\ pc = "compensate" /\ Frontier = Logged + 1 - cursor
    BY <1>13 DEF CompensateNext, TypeOK, Control, InLoop, Logged, Frontier
  <2>2. LogsToCompensate[cursor] = Frontier /\ Frontier \in 1 .. Logged
    BY <1>0, <2>1, LogAtCursor
  <2>3. CASE Frontier \in Compensatable
    <3>1. /\ undoCalls' = [undoCalls EXCEPT ![Frontier] = @ + 1]
          /\ Phase = "backward" /\ Phase' = "backward"
          /\ UNCHANGED activityLogs
      BY <1>13, <2>1, <2>2, <2>3 DEF CompensateNext, Goto
    <3>2. Frontier \in Undoable /\ Frontier \in 1 .. Activities /\ Frontier <= Len(activityLogs)
      BY <1>0, <2>2, <2>3, SlipAssumption DEF Undoable, Logged, Itinerary
    <3>3. undoCalls[Frontier] < 2
      <4>1. undoCalls[Frontier] < Passes
        BY <2>1, <3>2, SlipAssumption DEF Ledger, InLoop
      <4>2. undoCalls[Frontier] \in Nat
        BY <3>2 DEF TypeOK, Itinerary
      <4> QED
        BY <4>1, <4>2 DEF Passes
    <3>4. ASSUME NEW j \in Compensatable, Frontier < j, j <= Len(activityLogs)
          PROVE  undoCalls[Frontier] < undoCalls[j]
      <4>1. j \in Undoable
        BY <3>4, SlipAssumption DEF Undoable
      <4>2. Frontier <= Frontier
        BY <3>2
      <4> QED
        BY <2>1, <3>2, <3>4, <4>1, <4>2 DEF Ledger, InLoop
    <3>5. Contract!Undo(Frontier)
      BY <2>3, <3>1, <3>2, <3>3, <3>4 DEF Contract!Undo
    <3> QED
      BY <3>2, <3>5
  <2>4. CASE Frontier \notin Compensatable
    BY <1>13, <2>2, <2>4 DEF CompensateNext, SkipLog
  <2> QED
    BY <2>3, <2>4
<1>14. CASE CompensateReturns
  BY <1>14 DEF CompensateReturns, Emit
<1>15. CASE CompensateThrows
  BY <1>15 DEF CompensateThrows, Emit
<1>16. CASE ContinueCompensating
  BY <1>16 DEF ContinueCompensating, Emitted, Goto
<1>17. CASE CompensationDone
  BY <1>17 DEF CompensationDone, Emit
<1>18. CASE Notify
  BY <1>18 DEF Notify, CallSubscriber
<1>19. CASE SubscriberThrows
  BY <1>19 DEF SubscriberThrows, Emitting, Uncaught, EnterCatch, BeginCompensate, Emit, Goto,
     Contract!TurnBack, Contract!Reject
<1>20. CASE UNCHANGED vars
  BY <1>20 DEF vars
<1> QED
  BY <1>1, <1>2, <1>3, <1>4, <1>5, <1>6, <1>7, <1>8, <1>9, <1>10, <1>11, <1>12,
     <1>13, <1>14, <1>15, <1>16, <1>17, <1>18, <1>19, <1>20 DEF Next, Done

\* The executor implements the contract, apart from its liveness: every
\* behaviour starts as the contract allows and takes only steps it allows.
THEOREM ContractSafety ==
    Spec => Contract!Init /\ [][Contract!Next]_(Contract!cvars)
<1>1. Init => Contract!Init
  BY DEF Init, Contract!Init, Phase, TurnedBack, Settled, Itinerary
<1> QED
  BY <1>1, StepContract, TypeCorrect, LedgerInvariant, PTL DEF Spec

=============================================================================
