---------------------------- MODULE HybridProofs -----------------------------
(***************************************************************************)
(* Proofs about Hybrid for any workflow whose commands execute slips.      *)
(***************************************************************************)
EXTENDS Hybrid, SagaProofs

-----------------------------------------------------------------------------
\* Type correctness.

HybridPhases == Phases \cup {"working", "fulfilled"}

SlipIds == 1 .. Len(slips)

\* Only the distributed executor has a Fault branch that returns.
SlipStates ==
    {"forward", "thrown", "resolved", "rejected", "lost"}
        \cup (IF ExecutionMode = "Distributed" THEN {"faulted"} ELSE {})

SlipRecords == [command : Nat, state : SlipStates, done : 0 .. Activities]

\* A command waits for one slip at most, and for one as long as it works.
Owned ==
    /\ slips \in Seq(SlipRecords)
    /\ \A s \in SlipIds :
           /\ slips[s].command \in Ids
           /\ msgs[slips[s].command].kind \in SlipCommands
           /\ Live(slips[s]) => msgs[slips[s].command].phase = "working"
    /\ \A s, t \in SlipIds :
           Live(slips[s]) /\ Live(slips[t]) /\ slips[s].command = slips[t].command => s = t
    /\ \A m \in Ids :
           /\ msgs[m].phase \in {"working", "fulfilled"} => msgs[m].kind \in SlipCommands
           /\ msgs[m].phase = "working" =>
                  \E s \in SlipIds : slips[s].command = m /\ Live(slips[s])

HybridTyped == Typed(HybridPhases) /\ Owned

\* What the proofs use of the types.
LEMMA HybridFacts ==
    ASSUME HybridTyped
    PROVE  /\ MessagesTyped(HybridPhases) /\ Phases \subseteq HybridPhases
           /\ Len(msgs) \in Nat /\ Len(slips) \in Nat /\ row \in Rows
           /\ \A m \in Ids :
                  /\ msgs[m] \in Handlers(HybridPhases) /\ Fits(msgs[m]) /\ m \in Nat \ {0}
                  /\ msgs[m].kind \in SlipCommands =>
                         /\ ~IsEvent(m) /\ msgs[m].kind \in DOMAIN Fallback
                         /\ msgs[m].kind \notin DOMAIN Outcomes
                         /\ msgs[m].phase # "ready"
           /\ \A s \in SlipIds : slips[s] \in SlipRecords
<1>1. MessagesTyped(HybridPhases) /\ Phases \subseteq HybridPhases /\ row \in Rows
  BY DEF HybridTyped, Typed, HybridPhases
<1>2. Len(msgs) \in Nat /\ Len(slips) \in Nat
  BY <1>1, LenProperties DEF MessagesTyped, HybridTyped, Owned
<1>3. \A m \in Ids : msgs[m] \in Handlers(HybridPhases) /\ Fits(msgs[m]) /\ m \in Nat \ {0}
  BY <1>1, <1>2, ElementOfSeq DEF MessagesTyped, Ids
<1>4. ASSUME NEW m \in Ids, msgs[m].kind \in SlipCommands
      PROVE  /\ ~IsEvent(m) /\ msgs[m].kind \in DOMAIN Fallback
             /\ msgs[m].kind \notin DOMAIN Outcomes
             /\ msgs[m].phase # "ready"
  <2>1. msgs[m].kind \in DOMAIN Fallback /\ msgs[m].kind \notin DOMAIN Outcomes
    BY <1>4, HybridAssumption
  <2>2. msgs[m].kind \in Commands
    BY <2>1, SagaAssumption
  <2>3. msgs[m].kind \notin Events
    BY <2>2, SagaAssumption
  <2>. QED  BY <1>3, <2>1, <2>3 DEF IsEvent, Fits
<1>5. \A s \in SlipIds : slips[s] \in SlipRecords
  BY ElementOfSeq DEF HybridTyped, Owned, SlipIds
<1>. QED  BY <1>1, <1>2, <1>3, <1>4, <1>5

\* What a step of the saga, or of a consumer outside a slip, does to handler i.
Quiet(i) ==
    /\ Same(i)
    /\ msgs[i].phase \in {"working", "fulfilled"} => msgs'[i] = msgs[i]
    /\ msgs'[i].phase \in {"working", "fulfilled"} => msgs'[i] = msgs[i]
    /\ msgs'[i].phase = "queued" => msgs'[i] = msgs[i]

Begun(phase) == phase \notin {"queued", "ready", "saving", "saved"}

\* Who sends the message that such a step adds, if it adds one.
Adds(m) ==
    LET n == Len(msgs') IN
    /\ n = Len(msgs) + 1
    /\ msgs'[n].parent = m /\ msgs'[n].phase = "queued"
    /\ msgs'[m].phase = "waiting" /\ msgs'[m].awaits = n
    /\ \/ /\ IsEvent(m) /\ msgs[m].phase = "saved"
          /\ msgs[m].kind \in DOMAIN CommandOf /\ msgs'[n].kind = CommandOf[msgs[m].kind]
       \/ /\ msgs[m].kind \in Commands /\ msgs[m].kind \in DOMAIN Outcomes
          /\ msgs'[n].kind \in Outcomes[msgs[m].kind]
       \/ /\ msgs[m].kind \in Commands /\ msgs[m].phase = "caught"
          /\ msgs[m].kind \in DOMAIN Fallback
          /\ msgs'[n].kind = Fallback[msgs[m].kind]

\* The failure of a handler that is not carrying out a slip.
LEMMA QuietFailure ==
    ASSUME HybridTyped, NEW m \in Ids, msgs' = Failed(m),
           msgs[m].phase \notin {"working", "fulfilled"}
    PROVE  /\ Len(msgs') = Len(msgs)
           /\ \A i \in Ids : Quiet(i)
           /\ MaxTries = 0 => Begun(msgs'[m].phase)
           /\ \A i \in Ids : i # m => msgs'[i] = msgs[i]
<1>1. /\ Touches(m) /\ msgs'[m].phase \in {"ready", "caught", "failed"}
  BY HasFailed, HybridFacts
<1>2. MaxTries = 0 => msgs'[m].phase # "ready"
  <2>1. SUFFICES ASSUME MaxTries = 0 PROVE msgs'[m].phase # "ready"
    OBVIOUS
  <2>2. msgs[m].tries \in 0 .. MaxTries
    BY HybridFacts DEF Handlers
  <2>3. ~(msgs[m].tries < MaxTries)
    BY <2>1, <2>2
  <2>4. msgs' = Goto(m, IF Catches(m) THEN "caught" ELSE "failed")
    BY <2>3 DEF Failed
  <2>5. msgs' = [msgs EXCEPT ![m].phase = IF Catches(m) THEN "caught" ELSE "failed"]
    BY <2>4 DEF Goto
  <2>6. msgs[m] \in Handlers(HybridPhases) /\ msgs \in Seq(Handlers(HybridPhases))
    BY HybridFacts DEF MessagesTyped
  <2>7. msgs'[m].phase = IF Catches(m) THEN "caught" ELSE "failed"
    BY <2>5, <2>6 DEF Handlers, Ids
  <2>. QED  BY <2>7
<1>. QED  BY <1>1, <1>2 DEF Touches, Quiet, Same, Begun

\* A handler that goes on by itself, to a phase that is not one of a slip's.
LEMMA QuietTouch ==
    ASSUME NEW m \in Ids, Touches(m),
           msgs[m].phase \notin {"working", "fulfilled"},
           msgs'[m].phase \notin {"working", "fulfilled", "queued"}
    PROVE  /\ Len(msgs') = Len(msgs)
           /\ \A i \in Ids : Quiet(i)
           /\ \A i \in Ids : i # m => msgs'[i] = msgs[i]
  BY DEF Touches, Quiet, Same

\* A handler that sends a message.
LEMMA QuietSend ==
    ASSUME HybridTyped, NEW m \in Ids, NEW kind \in Events \cup Commands, NEW header \in Nat,
           msgs' = Sent(m, kind, header),
           msgs[m].phase \notin {"working", "fulfilled"}
    PROVE  /\ Len(msgs') = Len(msgs) + 1
           /\ \A i \in Ids : Quiet(i)
           /\ \A i \in Ids : i # m => msgs'[i] = msgs[i]
           /\ msgs'[m].phase = "waiting" /\ msgs'[m].awaits = Len(msgs')
           /\ msgs'[Len(msgs')].parent = m /\ msgs'[Len(msgs')].phase = "queued"
           /\ msgs'[Len(msgs')].kind = kind
<1>1. Sends1(m, kind, header)
  BY HasSent, HybridFacts
<1>. QED  BY <1>1 DEF Sends1, Quiet, Same, Message

\* Every step that Saga defines is quiet and adds at most one message; without
\* retries nobody begins again.
LEMMA SagaStep ==
    ASSUME HybridTyped, NEW m \in Ids, Advance(m) \/ Disturb(m)
    PROVE  /\ Len(msgs') = Len(msgs) \/ Adds(m)
           /\ \A i \in Ids : Quiet(i)
           /\ MaxTries = 0 => \A i \in Ids : Begun(msgs[i].phase) => Begun(msgs'[i].phase)
<1>. DEFINE Goal == /\ Len(msgs') = Len(msgs) \/ Adds(m)
                    /\ \A i \in Ids : Quiet(i)
                    /\ MaxTries = 0 =>
                           \A i \in Ids : Begun(msgs[i].phase) => Begun(msgs'[i].phase)
<1>0. /\ MessagesTyped(HybridPhases) /\ Phases \subseteq HybridPhases /\ row \in Rows
      /\ msgs[m] \in Handlers(HybridPhases) /\ Fits(msgs[m])
      /\ msgs[m].kind \in SlipCommands => msgs[m].kind \notin DOMAIN Outcomes
      /\ msgs[m].phase \in {"working", "fulfilled"} => msgs[m].kind \in SlipCommands
  <2>1. msgs[m].phase \in {"working", "fulfilled"} => msgs[m].kind \in SlipCommands
    BY DEF HybridTyped, Owned
  <2>. QED  BY <2>1, HybridFacts
<1>a. ASSUME msgs' = Failed(m), msgs[m].phase \notin {"working", "fulfilled"}
      PROVE  Goal
  BY <1>a, QuietFailure
<1>b. ASSUME Touches(m), ~Begun(msgs[m].phase) \/ Begun(msgs'[m].phase),
             msgs[m].phase \notin {"working", "fulfilled"},
             msgs'[m].phase \notin {"working", "fulfilled", "queued"}
      PROVE  Goal
  BY <1>b, QuietTouch
<1>c. ASSUME NEW x \in {"acking", "finished", "done"}, msgs' = Goto(m, x),
             msgs[m].phase \notin {"working", "fulfilled"}
      PROVE  Goal
  <2>1. x \in HybridPhases /\ Begun(x) /\ x \notin {"working", "fulfilled", "queued"}
    BY DEF HybridPhases, Phases, Begun
  <2>2. Touches(m) /\ msgs'[m] = [msgs[m] EXCEPT !.phase = x]
    BY <1>0, <1>c, <2>1, WentTo
  <2>3. msgs'[m].phase = x
    BY <1>0, <2>2 DEF Handlers
  <2>. QED  BY <1>b, <1>c, <2>1, <2>2, <2>3
<1>1. CASE Find(m)
  <2>1. msgs[m].phase \in {"ready", "queued"}
    BY <1>1 DEF Find, Deliverable, Is
  <2>2. /\ Touches(m)
        /\ \/ msgs'[m].phase = "saving"
           \/ msgs'[m].phase \in {"ready", "caught", "failed"}
    BY <1>0, <1>1, HasFound
  <2>. QED  BY <1>b, <2>1, <2>2 DEF Begun
<1>2. CASE Save(m)
  <2>1. /\ Touches(m) /\ msgs[m].phase = "saving"
        /\ msgs'[m].phase = IF msgs[m].kind \in DOMAIN CommandOf THEN "saved"
                            ELSE AfterCommand(msgs[m].kind)
    BY <1>0, <1>2, HasSaved
  <2>2. msgs'[m].phase \in {"saved", "answered", "finished"}
    BY <2>1 DEF AfterCommand
  <2>. QED  BY <1>b, <2>1, <2>2 DEF Begun
<1>3. CASE SaveConflict(m) \/ Timeout(m)
  BY <1>3, <1>a DEF SaveConflict, Timeout, Is
<1>4. CASE SendCommand(m)
  <2>1. /\ msgs[m].phase = "saved" /\ msgs[m].kind \in DOMAIN CommandOf
        /\ msgs' = Sent(m, CommandOf[msgs[m].kind], msgs[m].version)
    BY <1>0, <1>4 DEF SendCommand, Is, Fits
  <2>2. CommandOf[msgs[m].kind] \in Events \cup Commands /\ msgs[m].version \in Nat
        /\ IsEvent(m)
    BY <1>0, <2>1, SagaAssumption DEF Handlers, IsEvent
  <2>3. Adds(m) /\ (\A i \in Ids : Quiet(i)) /\ msgs'[m].phase = "waiting"
        /\ \A i \in Ids : i # m => msgs'[i] = msgs[i]
    BY <2>1, <2>2, QuietSend DEF Adds
  <2>. QED  BY <2>3 DEF Begun
<1>5. CASE Finalize(m)
  BY <1>5, <1>c DEF Finalize, Is
<1>6. CASE HandleCommand(m)
  <2>1. msgs[m].kind \in DOMAIN Outcomes /\ msgs[m].kind \in Commands
        /\ msgs[m].header \in Nat /\ msgs[m].phase \notin {"working", "fulfilled"}
    <3>1. msgs[m].kind \in DOMAIN Outcomes
      BY <1>6 DEF HandleCommand
    <3>. QED  BY <1>0, <3>1, SagaAssumption DEF Handlers
  <2>2. ASSUME NEW event \in Outcomes[msgs[m].kind], msgs' = Sent(m, event, msgs[m].header)
        PROVE  Goal
    <3>1. event \in Events \cup Commands
      BY <2>1, SagaAssumption
    <3>2. Adds(m) /\ (\A i \in Ids : Quiet(i)) /\ msgs'[m].phase = "waiting"
          /\ \A i \in Ids : i # m => msgs'[i] = msgs[i]
      BY <2>1, <2>2, <3>1, QuietSend DEF Adds
    <3>. QED  BY <3>2 DEF Begun
  <2>. QED  BY <1>6, <1>c, <2>1, <2>2 DEF HandleCommand
<1>7. CASE SendFallback(m)
  <2>1. /\ msgs[m].phase = "caught" /\ msgs[m].kind \in DOMAIN Fallback
        /\ msgs' = Sent(m, Fallback[msgs[m].kind], msgs[m].header)
        /\ msgs[m].header \in Nat
    BY <1>0, <1>7 DEF SendFallback, Is, Fits, Handlers
  <2>2. Fallback[msgs[m].kind] \in Events \cup Commands /\ msgs[m].kind \in Commands
    BY <2>1, SagaAssumption
  <2>3. Adds(m) /\ (\A i \in Ids : Quiet(i)) /\ msgs'[m].phase = "waiting"
        /\ \A i \in Ids : i # m => msgs'[i] = msgs[i]
    BY <2>1, <2>2, QuietSend DEF Adds
  <2>. QED  BY <2>3 DEF Begun
<1>8. CASE Reply(m)
  <2>1. msgs[m].phase = "finished" /\ msgs' = Answered(m)
    BY <1>8 DEF Reply, Is
  <2>2. /\ Len(msgs') = Len(msgs)
        /\ \A i \in Ids :
              /\ Same(i)
              /\ \/ i = m /\ msgs'[i].phase = "acking"
                 \/ msgs[i].phase = "waiting" /\ msgs'[i].phase = AfterCommand(msgs[i].kind)
                 \/ msgs'[i] = msgs[i]
    BY <1>0, <2>1, HasAnswered
  <2>3. \A i \in Ids : /\ Same(i)
                       /\ \/ i = m /\ msgs'[i].phase = "acking"
                          \/ /\ msgs[i].phase = "waiting"
                             /\ msgs'[i].phase \in {"answered", "finished"}
                          \/ msgs'[i] = msgs[i]
    BY <2>2 DEF AfterCommand
  <2>. QED  BY <2>1, <2>2, <2>3 DEF Quiet, Begun
<1>9. CASE Ack(m)
  BY <1>9, <1>c DEF Ack, Is
<1>10. CASE Disturb(m)
  <2>1. msgs' = Failed(m)
    BY <1>10 DEF Disturb, SaveAnswerLost, FinalizeAnswerLost, CallFails, TimeoutTooSoon
  <2>2. msgs[m].phase \notin {"working", "fulfilled"}
    BY <1>10 DEF Disturb, SaveAnswerLost, FinalizeAnswerLost, CallFails, TimeoutTooSoon,
                 Deliverable, Is
  <2>. QED  BY <1>a, <2>1, <2>2
<1>. QED
  BY <1>1, <1>2, <1>3, <1>4, <1>5, <1>6, <1>7, <1>8, <1>9, <1>10 DEF Advance

-----------------------------------------------------------------------------
\* The steps of the consumer that executes slips.

\* What a step leaves of a slip: its command, and all of it once it has ended.
KeepsSlips ==
    /\ Len(slips') >= Len(slips)
    /\ \A s \in SlipIds :
           /\ slips'[s].command = slips[s].command
           /\ ~Live(slips[s]) => slips'[s] = slips[s]

\* A slip that goes on, with the handler that waits for it.
LEMMA SlipStep ==
    ASSUME HybridTyped, NEW s \in SlipIds, ExecuteSlip(s)
    PROVE  /\ slips' \in Seq(SlipRecords) /\ Len(slips') = Len(slips)
           /\ KeepsSlips /\ Live(slips[s])
           /\ \A t \in SlipIds : t # s => slips'[t] = slips[t]
           /\ \/ msgs' = msgs /\ Live(slips'[s])
              \/ /\ msgs' = Goto(slips[s].command, "fulfilled")
                 /\ slips'[s].state = "resolved" /\ Resolvable(slips'[s])
              \/ /\ msgs' = Goto(slips[s].command, "caught")
                 /\ slips'[s].state = "rejected" /\ slips'[s].done = 0
           /\ UNCHANGED <<row, crashes, faults>>
<1>. DEFINE R == SlipRecords
<1>1. slips \in Seq(R) /\ slips[s] \in R /\ s \in 1 .. Len(slips)
  BY HybridFacts DEF HybridTyped, Owned, SlipIds
<1>2. Activities \in Nat \ {0} /\ slips[s].done \in 0 .. Activities
  BY <1>1, HybridAssumption DEF SlipRecords
<1>3. ASSUME NEW h \in R, slips' = [slips EXCEPT ![s] = h], h.command = slips[s].command,
             Live(slips[s])
      PROVE  /\ slips' \in Seq(R) /\ Len(slips') = Len(slips)
             /\ slips'[s] = h /\ KeepsSlips
             /\ \A t \in SlipIds : t # s => slips'[t] = slips[t]
  <2>. HIDE DEF R
  <2>1. /\ slips' \in Seq(R) /\ Len(slips') = Len(slips)
        /\ \A t \in 1 .. Len(slips) : slips'[t] = IF t = s THEN h ELSE slips[t]
    BY <1>1, <1>3, ExceptSeq
  <2>2. Len(slips) \in Nat
    BY HybridFacts
  <2>. QED  BY <1>1, <1>3, <2>1, <2>2 DEF KeepsSlips, SlipIds
<1>4. CASE ActivityCompletes(s)
  <2>. DEFINE h == [slips[s] EXCEPT !.done = @ + 1]
  <2>1. slips[s].done + 1 \in 0 .. Activities
    BY <1>2, <1>4 DEF ActivityCompletes, Executing
  <2>2. h \in R /\ h.command = slips[s].command /\ h.state = slips[s].state
    BY <1>1, <2>1 DEF SlipRecords
  <2>3. slips' = [slips EXCEPT ![s] = h] /\ Live(slips[s]) /\ UNCHANGED vars
    BY <1>4 DEF ActivityCompletes, Executing, SlipIs, Live
  <2>4. Live(h)
    BY <2>2, <2>3 DEF Live
  <2>. HIDE DEF h
  <2>. QED  BY <1>3, <2>2, <2>3, <2>4 DEF vars
<1>5. ASSUME NEW x \in SlipStates \cap {"faulted", "thrown"}, Executing(s), TurnBack(s, x)
      PROVE  /\ slips' \in Seq(R) /\ Len(slips') = Len(slips)
             /\ KeepsSlips /\ Live(slips[s])
             /\ \A t \in SlipIds : t # s => slips'[t] = slips[t]
             /\ msgs' = msgs /\ Live(slips'[s])
             /\ UNCHANGED <<row, crashes, faults>>
  <2>. DEFINE h == [slips[s] EXCEPT !.state = x]
  <2>1. h \in R /\ h.command = slips[s].command /\ h.state = x
    BY <1>1 DEF SlipRecords
  <2>2. slips' = [slips EXCEPT ![s] = h] /\ Live(slips[s]) /\ UNCHANGED vars
    BY <1>5 DEF Executing, TurnBack, SlipIs, Live
  <2>3. Live(h)
    BY <1>5, <2>1 DEF Live
  <2>. HIDE DEF h
  <2>. QED  BY <1>3, <2>1, <2>2, <2>3 DEF vars
<1>6. CASE CompensateActivity(s)
  <2>. DEFINE h == [slips[s] EXCEPT !.done = @ - 1]
  <2>1. slips[s].done - 1 \in 0 .. Activities
    BY <1>2, <1>6 DEF CompensateActivity, SlipIs
  <2>2. h \in R /\ h.command = slips[s].command /\ h.state = slips[s].state
    BY <1>1, <2>1 DEF SlipRecords
  <2>3. slips' = [slips EXCEPT ![s] = h] /\ Live(slips[s]) /\ UNCHANGED vars
    BY <1>6 DEF CompensateActivity, SlipIs, Live
  <2>4. Live(h)
    BY <2>2, <2>3 DEF Live
  <2>. HIDE DEF h
  <2>. QED  BY <1>3, <2>2, <2>3, <2>4 DEF vars
<1>7. CASE SlipResolves(s)
  <2>. DEFINE h == [slips[s] EXCEPT !.state = "resolved"]
  <2>1. h \in R /\ h.command = slips[s].command /\ h.state = "resolved"
        /\ h.done = slips[s].done
    BY <1>1 DEF SlipRecords, SlipStates
  <2>3. Resolvable(h)
    <3>1. CASE SlipIs(s, "forward") /\ slips[s].done = Activities
      BY <2>1, <3>1 DEF Resolvable
    <3>2. CASE SlipIs(s, "faulted") /\ slips[s].done = 0
      BY <1>1, <2>1, <3>2 DEF Resolvable, SlipIs, SlipRecords, SlipStates
    <3>. QED  BY <1>7, <3>1, <3>2 DEF SlipResolves
  <2>2. slips' = [slips EXCEPT ![s] = h] /\ Live(slips[s])
        /\ msgs' = Goto(slips[s].command, "fulfilled")
        /\ UNCHANGED <<row, crashes, faults>>
    BY <1>7 DEF SlipResolves, SlipIs, Live
  <2>. HIDE DEF h
  <2>. QED  BY <1>3, <2>1, <2>2, <2>3
<1>8. CASE SlipRejects(s)
  <2>. DEFINE h == [slips[s] EXCEPT !.state = "rejected"]
  <2>1. h \in R /\ h.command = slips[s].command /\ h.state = "rejected" /\ h.done = 0
    BY <1>1, <1>8 DEF SlipRecords, SlipStates, SlipRejects
  <2>2. slips' = [slips EXCEPT ![s] = h] /\ Live(slips[s])
        /\ msgs' = Goto(slips[s].command, "caught")
        /\ UNCHANGED <<row, crashes, faults>>
    BY <1>8 DEF SlipRejects, SlipIs, Live
  <2>. HIDE DEF h
  <2>. QED  BY <1>3, <2>1, <2>2
<1>9. CASE ActivityFaults(s) \/ ActivityThrows(s)
  <2>1. PICK x \in SlipStates \cap {"faulted", "thrown"} : Executing(s) /\ TurnBack(s, x)
    BY <1>9 DEF ActivityFaults, ActivityThrows, SlipStates
  <2>. QED  BY <1>5, <2>1
<1>. QED  BY <1>4, <1>6, <1>7, <1>8, <1>9 DEF ExecuteSlip

\* A handler that starts a slip, or that goes on when its slip has ended.
LEMMA CommandWent ==
    ASSUME HybridTyped, NEW m \in Ids, msgs[m].kind \in SlipCommands,
           NEW x \in {"working", "fulfilled", "caught"}, msgs' = Goto(m, x)
    PROVE  Touches(m) /\ msgs'[m].phase = x /\ MessagesTyped(HybridPhases)'
<1>1. MessagesTyped(HybridPhases) /\ msgs[m] \in Handlers(HybridPhases)
      /\ ~IsEvent(m) /\ msgs[m].kind \in DOMAIN Fallback
  BY HybridFacts
<1>2. x \in HybridPhases
  BY DEF HybridPhases, Phases
<1>3. /\ msgs' \in Seq(Handlers(HybridPhases))
      /\ Touches(m)
      /\ msgs'[m] = [msgs[m] EXCEPT !.phase = x]
  BY <1>1, <1>2, WentTo
<1>4. msgs'[m].phase = x /\ msgs'[m].awaits = msgs[m].awaits /\ msgs'[m].kind = msgs[m].kind
  BY <1>1, <1>3 DEF Handlers
<1>5. Fits(msgs'[m])
  BY <1>1, <1>4 DEF Fits, IsEvent
<1>. QED  BY <1>1, <1>3, <1>4, <1>5, TouchTyped

\* The call that reports success, and how it fails.
LEMMA SuccessSent ==
    ASSUME HybridTyped, NEW m \in Ids, SendSuccess(m)
    PROVE  /\ msgs[m].kind \in SlipCommands /\ msgs[m].phase = "fulfilled"
           /\ Sends1(m, Success[msgs[m].kind], msgs[m].header)
           /\ MessagesTyped(HybridPhases)'
           /\ UNCHANGED <<row, crashes, faults, slips>>
<1>1. /\ msgs[m].phase = "fulfilled"
      /\ msgs' = Sent(m, Success[msgs[m].kind], msgs[m].header)
      /\ UNCHANGED <<row, crashes, faults, slips>>
  BY DEF SendSuccess, Is
<1>2. msgs[m].kind \in SlipCommands
  BY <1>1 DEF HybridTyped, Owned
<1>3. /\ Success[msgs[m].kind] \in Events \cup Commands /\ msgs[m].header \in Nat
      /\ msgs[m].kind \notin Events
      /\ MessagesTyped(HybridPhases) /\ Phases \subseteq HybridPhases
  BY <1>2, HybridFacts, HybridAssumption DEF Handlers, IsEvent
<1>4. /\ msgs' \in Seq(Handlers(HybridPhases))
      /\ Sends1(m, Success[msgs[m].kind], msgs[m].header)
  BY <1>1, <1>3, HasSent
<1>5. MessagesTyped(HybridPhases)'
  BY <1>3, <1>4, SendTyped
<1>. QED  BY <1>1, <1>2, <1>4, <1>5

LEMMA SuccessFailed ==
    ASSUME HybridTyped, NEW m \in Ids, SendSuccessFails(m)
    PROVE  /\ msgs[m].kind \in SlipCommands /\ msgs[m].phase = "fulfilled"
           /\ Touches(m) /\ msgs'[m].phase = "caught"
           /\ MessagesTyped(HybridPhases)'
           /\ Fault /\ UNCHANGED <<row, crashes, slips>>
<1>1. msgs[m].phase = "fulfilled" /\ msgs' = Failed(m)
      /\ Fault /\ UNCHANGED <<row, crashes, slips>>
  BY DEF SendSuccessFails, Is
<1>2. msgs[m].kind \in SlipCommands
  BY <1>1 DEF HybridTyped, Owned
<1>3. ~IsEvent(m) /\ msgs[m].kind \in DOMAIN Fallback
  BY <1>2, HybridFacts
<1>4. Catches(m)
  BY <1>1, <1>3 DEF Catches
<1>5. msgs' = Goto(m, "caught")
  BY <1>1, <1>3, <1>4 DEF Failed
<1>. QED  BY <1>1, <1>2, <1>5, CommandWent

\* A delivery of the command that starts a slip.
LEMMA SlipStarted ==
    ASSUME HybridTyped, NEW m \in Ids, StartSlip(m)
    PROVE  /\ msgs[m].kind \in SlipCommands /\ msgs[m].phase = "queued"
           /\ Touches(m) /\ msgs'[m].phase = "working"
           /\ MessagesTyped(HybridPhases)'
           /\ slips' \in Seq(SlipRecords) /\ Len(slips') = Len(slips) + 1
           /\ \A s \in SlipIds : slips'[s] = slips[s]
           /\ slips'[Len(slips')] = [command |-> m, state |-> "forward", done |-> 0]
           /\ KeepsSlips /\ UNCHANGED <<row, crashes, faults>>
<1>. DEFINE h == [command |-> m, state |-> "forward", done |-> 0]
            R == SlipRecords
<1>1. /\ msgs[m].kind \in SlipCommands /\ msgs' = Goto(m, "working")
      /\ slips' = Append(slips, h) /\ UNCHANGED <<row, crashes, faults>>
      /\ msgs[m].phase \in {"queued", "ready"}
  BY DEF StartSlip, Deliverable, Is
<1>2. msgs[m].phase = "queued"
  BY <1>1, HybridFacts
<1>3. h \in R /\ slips \in Seq(R)
  <2>1. m \in Nat /\ 0 \in 0 .. Activities
    BY HybridFacts, HybridAssumption
  <2>. QED  BY <2>1 DEF SlipRecords, SlipStates, HybridTyped, Owned
<1>4. Touches(m) /\ msgs'[m].phase = "working" /\ MessagesTyped(HybridPhases)'
  BY <1>1, CommandWent
<1>. HIDE DEF h, R
<1>5. /\ slips' \in Seq(R) /\ Len(slips') = Len(slips) + 1
      /\ \A s \in 1 .. Len(slips) : slips'[s] = slips[s]
      /\ slips'[Len(slips) + 1] = h
  BY <1>1, <1>3, AppendProperties
<1>6. Len(slips) \in Nat
  BY HybridFacts
<1>. QED  BY <1>1, <1>2, <1>4, <1>5, <1>6 DEF KeepsSlips, SlipIds, h, R

\* The process of the consumer dies, and its slips with it.
LEMMA ProcessDied ==
    ASSUME HybridTyped, NEW process, Crash(process), slips' = Lost(process)
    PROVE  /\ MessagesTyped(HybridPhases)' /\ Len(msgs') = Len(msgs)
           /\ \A i \in Ids :
                 /\ Same(i)
                 /\ \/ msgs'[i] = msgs[i]
                    \/ /\ InFlight(i) /\ msgs[i].kind \in process
                       /\ msgs'[i].phase = "queued"
                 /\ InFlight(i) /\ msgs[i].kind \in process => msgs'[i].phase = "queued"
           /\ slips' \in Seq(SlipRecords) /\ Len(slips') = Len(slips) /\ KeepsSlips
           /\ \A s \in SlipIds :
                 IF Live(slips[s]) /\ msgs[slips[s].command].kind \in process
                 THEN slips'[s].state = "lost" ELSE slips'[s] = slips[s]
           /\ crashes' = crashes + 1 /\ faults' = faults
<1>. DEFINE e(s) == IF Live(slips[s]) /\ msgs[slips[s].command].kind \in process
                    THEN [slips[s] EXCEPT !.state = "lost"]
                    ELSE slips[s]
<1>1. /\ msgs' \in Seq(Handlers(HybridPhases)) /\ Len(msgs') = Len(msgs)
      /\ \A i \in Ids : Same(i) /\ Fits(msgs'[i])
                        /\ (msgs'[i] = msgs[i] \/ msgs'[i].awaits = 0)
  BY HasCrashed, HybridFacts
<1>2. MessagesTyped(HybridPhases)'
  <2>1. Ids' = Ids
    BY <1>1 DEF Ids
  <2>2. \A i \in Ids : /\ msgs'[i].parent \in 0 .. i - 1
                       /\ msgs'[i].awaits \in {0} \cup i + 1 .. Len(msgs')
    BY <1>1, HybridFacts DEF MessagesTyped, Same
  <2>. QED  BY <1>1, <2>1, <2>2 DEF MessagesTyped, Fits
<1>3. ASSUME NEW i \in Ids
      PROVE  IF InFlight(i) /\ msgs[i].kind \in process
             THEN msgs'[i].phase = "queued" ELSE msgs'[i] = msgs[i]
  <2>1. msgs[i] \in Handlers(HybridPhases)
    BY HybridFacts
  <2>. QED  BY <2>1 DEF Crash, Handlers
<1>4. slips' = [s \in 1 .. Len(slips) |-> e(s)]
  BY DEF Lost
<1>5. slips \in Seq(SlipRecords) /\ Len(slips) \in Nat /\ SlipIds = 1 .. Len(slips)
  BY HybridFacts DEF HybridTyped, Owned, SlipIds
<1>6. ASSUME NEW s \in 1 .. Len(slips)
      PROVE  /\ e(s) \in SlipRecords /\ e(s).command = slips[s].command
             /\ IF Live(slips[s]) /\ msgs[slips[s].command].kind \in process
                THEN e(s).state = "lost" ELSE e(s) = slips[s]
  <2>1. slips[s] \in SlipRecords
    BY <1>5, HybridFacts
  <2>. QED  BY <2>1 DEF SlipRecords, SlipStates
<1>. HIDE DEF e
<1>7. slips' \in Seq(SlipRecords)
  BY <1>4, <1>5, <1>6, IsASeq
<1>8. Len(slips') = Len(slips) /\ \A s \in SlipIds : slips'[s] = e(s)
  <2>1. DOMAIN slips' = 1 .. Len(slips)
    BY <1>4
  <2>2. DOMAIN slips' = 1 .. Len(slips') /\ Len(slips') \in Nat
    BY <1>7, LenProperties
  <2>. QED  BY <1>4, <1>5, <2>1, <2>2
<1>9. KeepsSlips
  BY <1>5, <1>6, <1>8 DEF KeepsSlips
<1>10. crashes' = crashes + 1 /\ faults' = faults
  BY DEF Crash
<1>. QED  BY <1>1, <1>2, <1>3, <1>5, <1>6, <1>7, <1>8, <1>9, <1>10

-----------------------------------------------------------------------------
\* Every step keeps the types.

\* A step that neither starts nor ends a slip.
LEMMA OwnedKept ==
    ASSUME HybridTyped, MessagesTyped(HybridPhases)', slips' = slips,
           \/ Len(msgs') = Len(msgs)
           \/ Len(msgs') = Len(msgs) + 1 /\ msgs'[Len(msgs')].phase = "queued",
           \A i \in Ids : /\ Same(i)
                          /\ msgs[i].phase = "working" <=> msgs'[i].phase = "working"
                          /\ msgs'[i].phase = "fulfilled" => msgs[i].phase = "fulfilled"
    PROVE  Owned'
<1>1. Len(msgs) \in Nat /\ SlipIds' = SlipIds
  BY HybridFacts DEF SlipIds
<1>2. Ids \subseteq Ids'
  BY <1>1 DEF Ids
<1>3. ASSUME NEW m \in Ids'
      PROVE  /\ msgs'[m].phase \in {"working", "fulfilled"} => msgs'[m].kind \in SlipCommands
             /\ msgs'[m].phase = "working" =>
                    \E s \in SlipIds : slips'[s].command = m /\ Live(slips'[s])
  <2>1. CASE m \in Ids
    BY <2>1 DEF HybridTyped, Owned, Same
  <2>2. CASE m \notin Ids
    <3>1. msgs'[m].phase = "queued"
      BY <1>1, <2>2 DEF Ids
    <3>. QED  BY <3>1
  <2>. QED  BY <2>1, <2>2
<1>4. ASSUME NEW s \in SlipIds
      PROVE  /\ slips'[s].command \in Ids'
             /\ msgs'[slips'[s].command].kind \in SlipCommands
             /\ Live(slips'[s]) => msgs'[slips'[s].command].phase = "working"
  BY <1>2 DEF HybridTyped, Owned, Same
<1>5. /\ slips' \in Seq(SlipRecords)
      /\ \A s, t \in SlipIds :
           Live(slips'[s]) /\ Live(slips'[t]) /\ slips'[s].command = slips'[t].command => s = t
  BY DEF HybridTyped, Owned
<1>. QED  BY <1>1, <1>3, <1>4, <1>5 DEF Owned, Live

LEMMA OwnedExecuted ==
    ASSUME HybridTyped, NEW s \in SlipIds, ExecuteSlip(s)
    PROVE  MessagesTyped(HybridPhases)' /\ Owned'
<1>. DEFINE c == slips[s].command
<1>1. /\ slips' \in Seq(SlipRecords) /\ Len(slips') = Len(slips)
      /\ KeepsSlips /\ Live(slips[s])
      /\ \A t \in SlipIds : t # s => slips'[t] = slips[t]
  BY SlipStep
<1>2. \/ msgs' = msgs /\ Live(slips'[s])
      \/ msgs' = Goto(c, "fulfilled") /\ slips'[s].state = "resolved"
      \/ msgs' = Goto(c, "caught") /\ slips'[s].state = "rejected"
  BY SlipStep
<1>3. c \in Ids /\ msgs[c].kind \in SlipCommands /\ msgs[c].phase = "working"
  BY <1>1 DEF HybridTyped, Owned
<1>4. SlipIds' = SlipIds
  BY <1>1 DEF SlipIds
<1>5. \A t \in SlipIds : slips'[t].command = slips[t].command
  BY <1>1 DEF KeepsSlips
<1>6. ASSUME NEW t \in SlipIds, Live(slips'[t])
      PROVE  Live(slips[t])
  BY <1>1, <1>6
<1>7. ASSUME NEW t \in SlipIds, Live(slips[t]), slips[t].command = c
      PROVE  t = s
  BY <1>1, <1>7 DEF HybridTyped, Owned
<1>8. CASE msgs' = msgs /\ Live(slips'[s])
  <2>1. MessagesTyped(HybridPhases)'
    <3>1. MessagesTyped(HybridPhases)
      BY HybridFacts
    <3>. QED  BY <1>8, <3>1 DEF MessagesTyped, Ids, Fits
  <2>2. Ids' = Ids
    BY <1>8 DEF Ids
  <2>3. \A t \in SlipIds : Live(slips'[t]) <=> Live(slips[t])
    BY <1>1, <1>8
  <2>4. \A t \in SlipIds : /\ slips'[t].command \in Ids
                           /\ msgs'[slips'[t].command].kind \in SlipCommands
                           /\ Live(slips'[t]) => msgs'[slips'[t].command].phase = "working"
    BY <1>5, <1>8, <2>3 DEF HybridTyped, Owned
  <2>5. \A t, u \in SlipIds :
            Live(slips'[t]) /\ Live(slips'[u]) /\ slips'[t].command = slips'[u].command => t = u
    BY <1>5, <2>3 DEF HybridTyped, Owned
  <2>6. \A m \in Ids :
            /\ msgs'[m].phase \in {"working", "fulfilled"} => msgs'[m].kind \in SlipCommands
            /\ msgs'[m].phase = "working" =>
                   \E t \in SlipIds : slips'[t].command = m /\ Live(slips'[t])
    BY <1>5, <1>8, <2>3 DEF HybridTyped, Owned
  <2>. QED  BY <1>1, <1>4, <2>1, <2>2, <2>4, <2>5, <2>6 DEF Owned, Live
<1>9. ASSUME NEW x \in {"fulfilled", "caught"}, msgs' = Goto(c, x), ~Live(slips'[s])
      PROVE  MessagesTyped(HybridPhases)' /\ Owned'
  <2>1. Touches(c) /\ msgs'[c].phase = x /\ MessagesTyped(HybridPhases)'
    BY <1>3, <1>9, CommandWent
  <2>2. Ids' = Ids
    BY <2>1 DEF Ids, Touches
  <2>3. \A m \in Ids : msgs'[m].kind = msgs[m].kind /\ (m # c => msgs'[m] = msgs[m])
    BY <2>1 DEF Touches, Same
  <2>4. ASSUME NEW t \in SlipIds
        PROVE  /\ slips'[t].command \in Ids
               /\ msgs'[slips'[t].command].kind \in SlipCommands
               /\ Live(slips'[t]) => msgs'[slips'[t].command].phase = "working"
    <3>1. slips[t].command \in Ids /\ msgs[slips[t].command].kind \in SlipCommands
          /\ (Live(slips[t]) => msgs[slips[t].command].phase = "working")
      BY DEF HybridTyped, Owned
    <3>2. Live(slips'[t]) => slips[t].command # c
      BY <1>6, <1>7, <1>9
    <3>. QED  BY <1>5, <1>6, <2>3, <3>1, <3>2
  <2>5. \A t, u \in SlipIds :
            Live(slips'[t]) /\ Live(slips'[u]) /\ slips'[t].command = slips'[u].command => t = u
    BY <1>5, <1>6 DEF HybridTyped, Owned
  <2>6. ASSUME NEW m \in Ids
        PROVE  /\ msgs'[m].phase \in {"working", "fulfilled"} => msgs'[m].kind \in SlipCommands
               /\ msgs'[m].phase = "working" =>
                      \E t \in SlipIds : slips'[t].command = m /\ Live(slips'[t])
    <3>1. CASE m = c
      BY <1>3, <1>9, <2>1, <2>3, <3>1
    <3>2. CASE m # c
      <4>1. msgs'[m] = msgs[m]
        BY <2>3, <3>2
      <4>2. ASSUME msgs[m].phase = "working"
            PROVE  \E t \in SlipIds : slips'[t].command = m /\ Live(slips'[t])
        <5>1. PICK t \in SlipIds : slips[t].command = m /\ Live(slips[t])
          BY <4>2 DEF HybridTyped, Owned
        <5>2. slips'[t] = slips[t]
          BY <1>1, <3>2, <5>1
        <5>. QED  BY <5>1, <5>2
      <4>3. msgs[m].phase \in {"working", "fulfilled"} => msgs[m].kind \in SlipCommands
        BY DEF HybridTyped, Owned
      <4>. QED  BY <4>1, <4>2, <4>3
    <3>. QED  BY <3>1, <3>2
  <2>. QED  BY <1>1, <1>4, <2>1, <2>2, <2>4, <2>5, <2>6 DEF Owned, Live
<1>10. slips'[s].state \in {"resolved", "rejected"} => ~Live(slips'[s])
  BY DEF Live
<1>. HIDE DEF c
<1>. QED  BY <1>2, <1>8, <1>9, <1>10

LEMMA OwnedStarted ==
    ASSUME HybridTyped, NEW m \in Ids, StartSlip(m)
    PROVE  Owned'
<1>. DEFINE n == Len(slips) + 1
<1>1. /\ msgs[m].kind \in SlipCommands /\ msgs[m].phase = "queued"
      /\ Touches(m) /\ msgs'[m].phase = "working"
      /\ slips' \in Seq(SlipRecords) /\ Len(slips') = n
      /\ \A s \in SlipIds : slips'[s] = slips[s]
      /\ slips'[n] = [command |-> m, state |-> "forward", done |-> 0]
  BY SlipStarted
<1>2. Len(slips) \in Nat /\ Ids' = Ids
  BY <1>1, HybridFacts DEF Ids, Touches
<1>3. SlipIds' = SlipIds \cup {n} /\ n \notin SlipIds
  BY <1>1, <1>2 DEF SlipIds
<1>4. slips'[n].command = m /\ Live(slips'[n])
  BY <1>1 DEF Live
<1>5. \A i \in Ids : msgs'[i].kind = msgs[i].kind /\ (i # m => msgs'[i] = msgs[i])
  BY <1>1 DEF Touches, Same
<1>6. \A s \in SlipIds : Live(slips[s]) => slips[s].command # m
  BY <1>1 DEF HybridTyped, Owned
<1>7. ASSUME NEW s \in SlipIds'
      PROVE  /\ slips'[s].command \in Ids
             /\ msgs'[slips'[s].command].kind \in SlipCommands
             /\ Live(slips'[s]) => msgs'[slips'[s].command].phase = "working"
  <2>1. CASE s = n
    BY <1>1, <1>4, <1>5, <2>1
  <2>2. CASE s \in SlipIds
    <3>1. slips'[s] = slips[s]
      BY <1>1, <2>2
    <3>2. slips[s].command \in Ids /\ msgs[slips[s].command].kind \in SlipCommands
          /\ (Live(slips[s]) => msgs[slips[s].command].phase = "working")
      BY <2>2 DEF HybridTyped, Owned
    <3>. QED  BY <1>5, <1>6, <2>2, <3>1, <3>2
  <2>. QED  BY <1>3, <2>1, <2>2
<1>8. ASSUME NEW s \in SlipIds', NEW t \in SlipIds', Live(slips'[s]), Live(slips'[t]),
             slips'[s].command = slips'[t].command
      PROVE  s = t
  BY <1>1, <1>3, <1>4, <1>6, <1>8 DEF HybridTyped, Owned
<1>9. ASSUME NEW i \in Ids
      PROVE  /\ msgs'[i].phase \in {"working", "fulfilled"} => msgs'[i].kind \in SlipCommands
             /\ msgs'[i].phase = "working" =>
                    \E s \in SlipIds' : slips'[s].command = i /\ Live(slips'[s])
  <2>1. CASE i = m
    BY <1>1, <1>3, <1>4, <1>5, <2>1
  <2>2. CASE i # m
    BY <1>1, <1>3, <1>5, <2>2 DEF HybridTyped, Owned
  <2>. QED  BY <2>1, <2>2
<1>. QED  BY <1>1, <1>2, <1>7, <1>8, <1>9 DEF Owned, Live

LEMMA OwnedDied ==
    ASSUME HybridTyped, NEW process, Crash(process), slips' = Lost(process)
    PROVE  Owned'
<1>1. /\ Len(msgs') = Len(msgs)
      /\ \A i \in Ids :
            /\ Same(i)
            /\ msgs'[i] = msgs[i] \/ (InFlight(i) /\ msgs[i].kind \in process
                                      /\ msgs'[i].phase = "queued")
            /\ InFlight(i) /\ msgs[i].kind \in process => msgs'[i].phase = "queued"
      /\ slips' \in Seq(SlipRecords) /\ Len(slips') = Len(slips) /\ KeepsSlips
      /\ \A s \in SlipIds :
            IF Live(slips[s]) /\ msgs[slips[s].command].kind \in process
            THEN slips'[s].state = "lost" ELSE slips'[s] = slips[s]
  BY ProcessDied
<1>2. Ids' = Ids /\ SlipIds' = SlipIds
  BY <1>1 DEF Ids, SlipIds
<1>3. \A s \in SlipIds : slips'[s].command = slips[s].command
  BY <1>1 DEF KeepsSlips
<1>4. ASSUME NEW s \in SlipIds, Live(slips'[s])
      PROVE  /\ slips'[s] = slips[s]
             /\ msgs'[slips[s].command] = msgs[slips[s].command]
  <2>1. slips'[s].state # "lost"
    BY <1>4 DEF Live
  <2>2. slips'[s] = slips[s] /\ msgs[slips[s].command].kind \notin process
    BY <1>1, <1>4, <2>1
  <2>3. slips[s].command \in Ids
    BY DEF HybridTyped, Owned
  <2>. QED  BY <1>1, <2>2, <2>3
<1>5. ASSUME NEW s \in SlipIds
      PROVE  /\ slips'[s].command \in Ids
             /\ msgs'[slips'[s].command].kind \in SlipCommands
             /\ Live(slips'[s]) => msgs'[slips'[s].command].phase = "working"
  <2>1. slips[s].command \in Ids /\ msgs[slips[s].command].kind \in SlipCommands
        /\ (Live(slips[s]) => msgs[slips[s].command].phase = "working")
    BY DEF HybridTyped, Owned
  <2>. QED  BY <1>1, <1>3, <1>4, <2>1 DEF Same
<1>6. \A s, t \in SlipIds :
          Live(slips'[s]) /\ Live(slips'[t]) /\ slips'[s].command = slips'[t].command => s = t
  BY <1>3, <1>4 DEF HybridTyped, Owned
<1>7. ASSUME NEW i \in Ids
      PROVE  /\ msgs'[i].phase \in {"working", "fulfilled"} => msgs'[i].kind \in SlipCommands
             /\ msgs'[i].phase = "working" =>
                    \E s \in SlipIds : slips'[s].command = i /\ Live(slips'[s])
  <2>1. CASE msgs'[i].phase = "queued"
    BY <2>1
  <2>2. CASE msgs'[i] = msgs[i] /\ msgs'[i].phase # "queued"
    <3>1. ASSUME msgs[i].phase = "working"
          PROVE  \E s \in SlipIds : slips'[s].command = i /\ Live(slips'[s])
      <4>1. PICK s \in SlipIds : slips[s].command = i /\ Live(slips[s])
        BY <3>1 DEF HybridTyped, Owned
      <4>2. msgs[i].kind \notin process
        BY <1>1, <2>2, <3>1 DEF InFlight
      <4>3. slips'[s] = slips[s]
        BY <1>1, <4>1, <4>2
      <4>. QED  BY <4>1, <4>3
    <3>2. msgs[i].phase \in {"working", "fulfilled"} => msgs[i].kind \in SlipCommands
      BY DEF HybridTyped, Owned
    <3>. QED  BY <2>2, <3>1, <3>2
  <2>. QED  BY <1>1, <2>1, <2>2
<1>. QED  BY <1>1, <1>2, <1>5, <1>6, <1>7 DEF Owned, Live

LEMMA HybridTypedNext ==
    ASSUME HybridTyped, [HybridNext]_hybridVars
    PROVE  HybridTyped'
<1>0. Typed(HybridPhases) /\ Phases \subseteq HybridPhases
  BY DEF HybridTyped, HybridPhases
<1>1. CASE UNCHANGED hybridVars
  BY <1>1 DEF hybridVars, HybridTyped, Typed, MessagesTyped, Owned, Ids, SlipIds, Fits
<1>2. ASSUME NEW m \in Ids, Advance(m) \/ Disturb(m), UNCHANGED slips
      PROVE  HybridTyped'
  <2>1. Typed(HybridPhases)'
    BY <1>0, <1>2, AdvanceTyped, DisturbTyped
  <2>2. /\ Len(msgs') = Len(msgs) \/ Adds(m)
        /\ \A i \in Ids : Quiet(i)
    BY <1>2, SagaStep
  <2>3. Owned'
    <3>1. MessagesTyped(HybridPhases)' /\ slips' = slips
      BY <1>2, <2>1 DEF Typed
    <3>2. \/ Len(msgs') = Len(msgs)
          \/ Len(msgs') = Len(msgs) + 1 /\ msgs'[Len(msgs')].phase = "queued"
      BY <2>2 DEF Adds
    <3>3. \A i \in Ids : /\ Same(i)
                         /\ msgs[i].phase = "working" <=> msgs'[i].phase = "working"
                         /\ msgs'[i].phase = "fulfilled" => msgs[i].phase = "fulfilled"
      BY <2>2 DEF Quiet
    <3>. QED  BY <3>1, <3>2, <3>3, OwnedKept
  <2>. QED  BY <2>1, <2>3 DEF HybridTyped
<1>3. ASSUME NEW m \in Ids, StartSlip(m)
      PROVE  HybridTyped'
  <2>1. MessagesTyped(HybridPhases)' /\ UNCHANGED <<row, crashes, faults>>
    BY <1>3, SlipStarted
  <2>2. Owned'
    BY <1>3, OwnedStarted
  <2>. QED  BY <1>0, <2>1, <2>2 DEF HybridTyped, Typed
<1>4. ASSUME NEW m \in Ids, SendSuccess(m)
      PROVE  HybridTyped'
  <2>1. /\ msgs[m].kind \in SlipCommands /\ msgs[m].phase = "fulfilled"
        /\ Sends1(m, Success[msgs[m].kind], msgs[m].header)
        /\ MessagesTyped(HybridPhases)'
        /\ UNCHANGED <<row, crashes, faults, slips>>
    BY <1>4, SuccessSent
  <2>2. \A i \in Ids : /\ Same(i)
                       /\ msgs[i].phase = "working" <=> msgs'[i].phase = "working"
                       /\ msgs'[i].phase = "fulfilled" => msgs[i].phase = "fulfilled"
    BY <2>1 DEF Sends1, Same
  <2>3. Owned'
    BY <2>1, <2>2, OwnedKept DEF Sends1, Message
  <2>. QED  BY <1>0, <2>1, <2>3 DEF HybridTyped, Typed
<1>5. ASSUME NEW m \in Ids, SendSuccessFails(m)
      PROVE  HybridTyped'
  <2>1. /\ msgs[m].phase = "fulfilled"
        /\ Touches(m) /\ msgs'[m].phase = "caught"
        /\ MessagesTyped(HybridPhases)'
        /\ Fault /\ UNCHANGED <<row, crashes, slips>>
    BY <1>5, SuccessFailed
  <2>2. \A i \in Ids : /\ Same(i)
                       /\ msgs[i].phase = "working" <=> msgs'[i].phase = "working"
                       /\ msgs'[i].phase = "fulfilled" => msgs[i].phase = "fulfilled"
    BY <2>1 DEF Touches, Same
  <2>3. Owned'
    <3>1. MessagesTyped(HybridPhases)' /\ slips' = slips /\ Len(msgs') = Len(msgs)
      BY <2>1 DEF Touches
    <3>. QED  BY <2>2, <3>1, OwnedKept
  <2>4. faults' \in 0 .. MaxFaults
    BY <1>0, <2>1, SagaAssumption DEF Fault, Typed
  <2>. QED  BY <1>0, <2>1, <2>3, <2>4 DEF HybridTyped, Typed
<1>6. ASSUME NEW s \in SlipIds, ExecuteSlip(s)
      PROVE  HybridTyped'
  <2>1. UNCHANGED <<row, crashes, faults>>
    BY <1>6, SlipStep
  <2>2. MessagesTyped(HybridPhases)' /\ Owned'
    BY <1>6, OwnedExecuted
  <2>. QED  BY <1>0, <2>1, <2>2 DEF HybridTyped, Typed
<1>7. ASSUME NEW process \in Processes, Crash(process), slips' = Lost(process)
      PROVE  HybridTyped'
  <2>1. Typed(HybridPhases)'
    BY <1>0, <1>7, CrashTyped
  <2>. QED  BY <1>7, <2>1, OwnedDied DEF HybridTyped
<1>. QED  BY <1>1, <1>2, <1>3, <1>4, <1>5, <1>6, <1>7
          DEF HybridNext, HybridProgress, SlipIds

LEMMA HybridTypedInvariant == HybridSpec => []HybridTyped
<1>1. HybridInit => HybridTyped
  <2>. SUFFICES ASSUME HybridInit PROVE HybridTyped
    OBVIOUS
  <2>1. Typed(HybridPhases)
    BY InitTyped DEF HybridInit, HybridPhases
  <2>2. SlipIds = {} /\ slips \in Seq(SlipRecords)
    BY EmptySeq DEF HybridInit, SlipIds
  <2>3. \A m \in Ids : msgs[m].phase = "queued"
    <3>1. Len(msgs) = Submissions
      BY SagaAssumption DEF HybridInit, Init
    <3>. QED  BY <3>1 DEF HybridInit, Init, Ids, Message
  <2>. QED  BY <2>1, <2>2, <2>3 DEF HybridTyped, Owned
<1>. QED  BY <1>1, HybridTypedNext, PTL DEF HybridSpec

\* Types, and that a handler works exactly as long as one slip of its message does.
THEOREM HybridTypeCorrect == HybridSpec => []HybridTypeOK
<1>1. HybridTyped => HybridTypeOK
  <2>. SUFFICES ASSUME HybridTyped PROVE HybridTypeOK
    OBVIOUS
  <2>1. ASSUME NEW s \in SlipIds
        PROVE  /\ slips[s].command \in Ids
               /\ slips[s].state \in {"forward", "faulted", "thrown",
                                     "resolved", "rejected", "lost"}
               /\ slips[s].done \in 0 .. Activities
    BY HybridFacts DEF HybridTyped, Owned, SlipRecords, SlipStates
  <2>2. ASSUME NEW m \in Ids
        PROVE  LET live == {s \in SlipIds : slips[s].command = m /\ Live(slips[s])}
               IN  /\ Cardinality(live) = (IF Is(m, "working") THEN 1 ELSE 0)
                   /\ msgs[m].phase \in Phases \cup {"working", "fulfilled"}
    <3>. DEFINE live == {s \in SlipIds : slips[s].command = m /\ Live(slips[s])}
    <3>1. msgs[m].phase \in Phases \cup {"working", "fulfilled"}
      BY HybridFacts DEF Handlers, HybridPhases
    <3>2. CASE Is(m, "working")
      <4>1. PICK s \in SlipIds : slips[s].command = m /\ Live(slips[s])
        BY <3>2 DEF HybridTyped, Owned, Is
      <4>2. live = {s}
        BY <4>1 DEF HybridTyped, Owned
      <4>3. Cardinality(live) = 1
        BY <4>2, FS_Singleton
      <4>. QED  BY <3>1, <3>2, <4>3
    <3>3. CASE ~Is(m, "working")
      <4>1. live = {}
        BY <3>3 DEF HybridTyped, Owned, Is
      <4>2. Cardinality(live) = 0
        BY <4>1, FS_EmptySet
      <4>. QED  BY <3>1, <3>3, <4>2
    <3>. QED  BY <3>2, <3>3
  <2>. QED  BY <2>1, <2>2 DEF HybridTypeOK, SlipIds
<1>. QED  BY <1>1, HybridTypedInvariant, PTL

-----------------------------------------------------------------------------
\* What the saga is told of a slip.

HasResolved(m) == \E s \in SlipIds : slips[s].command = m /\ slips[s].state = "resolved"

SlipsEnded ==
    \A s \in SlipIds : /\ slips[s].state = "rejected" => slips[s].done = 0
                       /\ slips[s].state = "resolved" => Resolvable(slips[s])

\* The message by which the consumer of m reports that its slip resolved.
Succeeded(r, m) ==
    /\ m \in Ids /\ msgs[r].parent = m
    /\ msgs[m].kind \in SlipCommands /\ msgs[r].kind = Success[msgs[m].kind]

\* A consumer that reports success, or is about to, has seen a slip resolve.
Told ==
    /\ SlipsEnded
    /\ \A m \in Ids : msgs[m].phase = "fulfilled" => HasResolved(m)
    /\ \A r, m \in Ids : Succeeded(r, m) => HasResolved(m)

LEMMA StillResolved ==
    ASSUME HybridTyped, KeepsSlips, slips' \in Seq(SlipRecords), NEW m, HasResolved(m)
    PROVE  HasResolved(m)'
<1>1. PICK s \in SlipIds : slips[s].command = m /\ slips[s].state = "resolved"
  BY DEF HasResolved
<1>2. slips'[s] = slips[s]
  BY <1>1 DEF KeepsSlips, Live
<1>3. s \in SlipIds'
  <2>1. Len(slips) \in Nat /\ Len(slips') \in Nat /\ Len(slips') >= Len(slips)
    BY HybridFacts, LenProperties DEF KeepsSlips
  <2>. QED  BY <2>1 DEF SlipIds
<1>. QED  BY <1>1, <1>2, <1>3 DEF HasResolved

\* A step that adds no message.
LEMMA ToldKept ==
    ASSUME HybridTyped, Told, KeepsSlips, slips' \in Seq(SlipRecords), SlipsEnded',
           Len(msgs') = Len(msgs),
           \A i \in Ids :
               /\ Same(i)
               /\ msgs'[i].phase = "fulfilled" => msgs[i].phase = "fulfilled" \/ HasResolved(i)'
    PROVE  Told'
<1>1. Ids' = Ids
  BY DEF Ids
<1>2. \A m \in Ids : HasResolved(m) => HasResolved(m)'
  BY StillResolved
<1>3. ASSUME NEW m \in Ids, msgs'[m].phase = "fulfilled"
      PROVE  HasResolved(m)'
  BY <1>2, <1>3 DEF Told
<1>4. ASSUME NEW r \in Ids, NEW m \in Ids, Succeeded(r, m)'
      PROVE  HasResolved(m)'
  <2>1. Succeeded(r, m)
    BY <1>4 DEF Succeeded, Same
  <2>. QED  BY <1>2, <2>1 DEF Told
<1>. QED  BY <1>1, <1>3, <1>4 DEF Told

\* A step that adds one.
LEMMA ToldSent ==
    ASSUME HybridTyped, HybridTyped', Told, slips' = slips, NEW n, n = Len(msgs) + 1,
           Len(msgs') = n, msgs'[n].phase = "queued",
           NEW m \in Ids, msgs'[n].parent = m,
           msgs[m].kind \in SlipCommands /\ msgs'[n].kind = Success[msgs[m].kind] =>
               msgs[m].phase = "fulfilled",
           \A i \in Ids :
               Same(i) /\ (msgs'[i].phase = "fulfilled" => msgs[i].phase = "fulfilled")
    PROVE  Told'
<1>1. Len(msgs) \in Nat /\ Ids' = Ids \cup {n} /\ n \notin Ids
  BY HybridFacts DEF Ids
<1>2. SlipsEnded' /\ (\A i : HasResolved(i) => HasResolved(i)')
  BY DEF Told, SlipsEnded, SlipIds, HasResolved
<1>3. ASSUME NEW i \in Ids', msgs'[i].phase = "fulfilled"
      PROVE  HasResolved(i)'
  <2>1. i \in Ids /\ msgs[i].phase = "fulfilled"
    BY <1>1, <1>3
  <2>. QED  BY <1>2, <2>1 DEF Told
<1>4. ASSUME NEW r \in Ids', NEW i \in Ids', Succeeded(r, i)'
      PROVE  HasResolved(i)'
  <2>1. msgs'[r].parent = i /\ msgs'[i].kind \in SlipCommands
        /\ msgs'[r].kind = Success[msgs'[i].kind]
    BY <1>4 DEF Succeeded
  <2>2. CASE r = n
    <3>1. i = m /\ msgs'[m].kind = msgs[m].kind
      BY <2>1, <2>2 DEF Same
    <3>2. msgs[m].phase = "fulfilled"
      BY <2>1, <2>2, <3>1
    <3>. QED  BY <1>2, <3>1, <3>2 DEF Told
  <2>3. CASE r \in Ids
    <3>1. msgs[r].parent = i /\ msgs[r].kind = msgs'[r].kind
      BY <2>1, <2>3 DEF Same
    <3>2. i \in Ids
      <4>1. msgs[r].parent \in 0 .. r - 1
        BY <2>3 DEF HybridTyped, Typed, MessagesTyped
      <4>. QED  BY <1>1, <2>3, <3>1, <4>1 DEF Ids
    <3>3. msgs'[i].kind = msgs[i].kind
      BY <3>2 DEF Same
    <3>4. Succeeded(r, i)
      BY <2>1, <3>1, <3>2, <3>3 DEF Succeeded
    <3>. QED  BY <1>2, <2>3, <3>2, <3>4 DEF Told
  <2>. QED  BY <1>1, <2>2, <2>3
<1>. QED  BY <1>2, <1>3, <1>4 DEF Told

LEMMA ToldNext ==
    ASSUME HybridTyped, HybridTyped', Told, [HybridNext]_hybridVars
    PROVE  Told'
<1>0. /\ slips \in Seq(SlipRecords) /\ slips' \in Seq(SlipRecords) /\ SlipsEnded
      /\ Len(slips) \in Nat
  BY HybridFacts DEF HybridTyped, Owned, Told
<1>k. slips' = slips => KeepsSlips /\ SlipsEnded'
  BY <1>0 DEF KeepsSlips, SlipsEnded, SlipIds
<1>1. CASE UNCHANGED hybridVars
  BY <1>1 DEF hybridVars, Told, SlipsEnded, SlipIds, HasResolved, Succeeded, Ids
<1>2. ASSUME NEW m \in Ids, Advance(m) \/ Disturb(m), UNCHANGED slips
      PROVE  Told'
  <2>1. /\ Len(msgs') = Len(msgs) \/ Adds(m)
        /\ \A i \in Ids : Quiet(i)
    BY <1>2, SagaStep
  <2>2. \A i \in Ids :
            Same(i) /\ (msgs'[i].phase = "fulfilled" => msgs[i].phase = "fulfilled")
    BY <2>1 DEF Quiet
  <2>3. CASE Len(msgs') = Len(msgs)
    BY <1>0, <1>2, <1>k, <2>2, <2>3, ToldKept
  <2>4. CASE Adds(m)
    <3>1. /\ Len(msgs') = Len(msgs) + 1
          /\ msgs'[Len(msgs')].parent = m /\ msgs'[Len(msgs')].phase = "queued"
      BY <2>4 DEF Adds
    <3>2. ~(msgs[m].kind \in SlipCommands /\ msgs'[Len(msgs')].kind = Success[msgs[m].kind])
      <4>1. SUFFICES ASSUME msgs[m].kind \in SlipCommands
                     PROVE  msgs'[Len(msgs')].kind # Success[msgs[m].kind]
        OBVIOUS
      <4>2. ~IsEvent(m) /\ msgs[m].kind \notin DOMAIN Outcomes
        BY <4>1, HybridFacts
      <4>3. msgs'[Len(msgs')].kind = Fallback[msgs[m].kind]
        BY <2>4, <4>2 DEF Adds
      <4>. QED  BY <4>1, <4>3, HybridAssumption
    <3>. HIDE DEF Told
    <3>. QED  BY <1>2, <2>2, <3>1, <3>2, ToldSent
  <2>. QED  BY <2>1, <2>3, <2>4
<1>3. ASSUME NEW m \in Ids, StartSlip(m)
      PROVE  Told'
  <2>1. /\ Touches(m) /\ msgs'[m].phase = "working"
        /\ Len(slips') = Len(slips) + 1
        /\ \A s \in SlipIds : slips'[s] = slips[s]
        /\ slips'[Len(slips')].state = "forward"
        /\ KeepsSlips
    <3>1. slips'[Len(slips')] = [command |-> m, state |-> "forward", done |-> 0]
      BY <1>3, SlipStarted
    <3>. QED  BY <1>3, <3>1, SlipStarted
  <2>2. SlipsEnded'
    BY <1>0, <2>1 DEF SlipsEnded, SlipIds
  <2>3. \A i \in Ids :
            Same(i) /\ (msgs'[i].phase = "fulfilled" => msgs[i].phase = "fulfilled")
    BY <2>1 DEF Touches, Same
  <2>. QED  BY <1>0, <2>1, <2>2, <2>3, ToldKept DEF Touches
<1>4. ASSUME NEW m \in Ids, SendSuccess(m)
      PROVE  Told'
  <2>1. /\ msgs[m].phase = "fulfilled"
        /\ Sends1(m, Success[msgs[m].kind], msgs[m].header) /\ slips' = slips
    BY <1>4, SuccessSent
  <2>2. \A i \in Ids :
            Same(i) /\ (msgs'[i].phase = "fulfilled" => msgs[i].phase = "fulfilled")
    BY <2>1 DEF Sends1, Same
  <2>3. Len(msgs') = Len(msgs) + 1 /\ msgs'[Len(msgs')].phase = "queued"
        /\ msgs'[Len(msgs')].parent = m
    BY <2>1 DEF Sends1, Message
  <2>. QED  BY <2>1, <2>2, <2>3, ToldSent
<1>5. ASSUME NEW m \in Ids, SendSuccessFails(m)
      PROVE  Told'
  <2>1. Touches(m) /\ msgs'[m].phase = "caught" /\ slips' = slips
    BY <1>5, SuccessFailed
  <2>2. \A i \in Ids :
            Same(i) /\ (msgs'[i].phase = "fulfilled" => msgs[i].phase = "fulfilled")
    BY <2>1 DEF Touches, Same
  <2>. QED  BY <1>0, <1>k, <2>1, <2>2, ToldKept DEF Touches
<1>6. ASSUME NEW s \in SlipIds, ExecuteSlip(s)
      PROVE  Told'
  <2>1. PICK c \in Ids : c = slips[s].command /\ msgs[c].kind \in SlipCommands
    BY DEF HybridTyped, Owned
  <2>2. /\ Len(slips') = Len(slips) /\ KeepsSlips /\ Live(slips[s])
        /\ \A t \in SlipIds : t # s => slips'[t] = slips[t]
    BY <1>6, SlipStep
  <2>3. \/ msgs' = msgs /\ Live(slips'[s])
        \/ /\ msgs' = Goto(c, "fulfilled")
           /\ slips'[s].state = "resolved" /\ Resolvable(slips'[s])
        \/ /\ msgs' = Goto(c, "caught")
           /\ slips'[s].state = "rejected" /\ slips'[s].done = 0
    BY <1>6, <2>1, SlipStep
  <2>4. SlipIds' = SlipIds
    BY <2>2 DEF SlipIds
  <2>5. SlipsEnded'
    BY <1>0, <2>2, <2>3, <2>4 DEF SlipsEnded, Live, Resolvable
  <2>6. slips'[s].command = c
    BY <2>2, <2>1 DEF KeepsSlips
  <2>7. slips'[s].state = "resolved" => HasResolved(c)'
    BY <2>4, <2>6 DEF HasResolved
  <2>8. ASSUME NEW x \in {"fulfilled", "caught"}, msgs' = Goto(c, x)
        PROVE  /\ Len(msgs') = Len(msgs) /\ msgs'[c].phase = x
               /\ \A i \in Ids : Same(i) /\ (i # c => msgs'[i] = msgs[i])
    BY <2>1, <2>8, CommandWent DEF Touches, Same
  <2>9. CASE msgs' = msgs
    <3>1. Len(msgs') = Len(msgs) /\ \A i \in Ids : Same(i) /\ msgs'[i] = msgs[i]
      BY <2>9 DEF Same
    <3>. QED  BY <1>0, <2>2, <2>5, <3>1, ToldKept
  <2>10. CASE msgs' = Goto(c, "fulfilled") /\ slips'[s].state = "resolved"
    <3>1. /\ Len(msgs') = Len(msgs) /\ HasResolved(c)'
          /\ \A i \in Ids : Same(i) /\ (i # c => msgs'[i] = msgs[i])
      BY <2>7, <2>8, <2>10
    <3>2. \A i \in Ids :
              /\ Same(i)
              /\ msgs'[i].phase = "fulfilled" => msgs[i].phase = "fulfilled" \/ HasResolved(i)'
      BY <3>1
    <3>. QED  BY <1>0, <2>2, <2>5, <3>1, <3>2, ToldKept
  <2>11. CASE msgs' = Goto(c, "caught")
    BY <1>0, <2>2, <2>5, <2>8, <2>11, ToldKept
  <2>. QED  BY <2>3, <2>9, <2>10, <2>11
<1>7. ASSUME NEW process \in Processes, Crash(process), slips' = Lost(process)
      PROVE  Told'
  <2>1. /\ Len(msgs') = Len(msgs)
        /\ \A i \in Ids : Same(i) /\ (msgs'[i] = msgs[i] \/ msgs'[i].phase = "queued")
        /\ Len(slips') = Len(slips) /\ KeepsSlips
        /\ \A s \in SlipIds : slips'[s].state = "lost" \/ slips'[s] = slips[s]
    BY <1>7, ProcessDied
  <2>2. SlipsEnded'
    BY <1>0, <2>1 DEF SlipsEnded, SlipIds
  <2>3. \A i \in Ids :
            Same(i) /\ (msgs'[i].phase = "fulfilled" => msgs[i].phase = "fulfilled")
    BY <2>1
  <2>. QED  BY <1>0, <2>1, <2>2, <2>3, ToldKept
<1>. QED  BY <1>1, <1>2, <1>3, <1>4, <1>5, <1>6, <1>7
          DEF HybridNext, HybridProgress, SlipIds

LEMMA ToldInvariant == HybridSpec => [](HybridTyped /\ Told)
<1>1. HybridInit => Told
  <2>. SUFFICES ASSUME HybridInit PROVE Told
    OBVIOUS
  <2>1. SlipIds = {}
    BY DEF HybridInit, SlipIds
  <2>2. \A m \in Ids : msgs[m].phase = "queued" /\ msgs[m].parent = 0 /\ m # 0
    <3>1. Len(msgs) = Submissions /\ Submissions \in Nat
      BY SagaAssumption DEF HybridInit, Init
    <3>. QED  BY <3>1 DEF HybridInit, Init, Ids, Message
  <2>. QED  BY <2>1, <2>2 DEF Told, SlipsEnded, Succeeded
<1>. QED  BY <1>1, ToldNext, HybridTypedInvariant, PTL DEF HybridSpec

-----------------------------------------------------------------------------
\* How often work is started.

SlipMsgs == {c \in Ids : msgs[c].kind \in SlipCommands}

QueuedSlipMsgs == {c \in SlipMsgs : msgs[c].phase = "queued"}

\* Each submission sends the command to execute its order once.
OncePerOrder ==
    /\ \A m \in Ids : msgs[m].kind = Starting => m \in 1 .. Submissions
    /\ \A c \in SlipMsgs :
           /\ msgs[c].parent \in Ids /\ msgs[msgs[c].parent].kind = Starting
           /\ Begun(msgs[msgs[c].parent].phase)
    /\ \A c, d \in SlipMsgs : msgs[c].parent = msgs[d].parent => c = d

\* A slip for each command that left its queue, and a crash puts back each at most once.
SlipsPaidFor ==
    Len(slips) + Cardinality(QueuedSlipMsgs) <= Cardinality(SlipMsgs) + Submissions * crashes

LEMMA SlipKinds ==
    ASSUME NEW k \in SlipCommands
    PROVE  k \in Commands /\ k \notin Events /\ k # Starting
BY HybridAssumption, SagaAssumption

\* The sets of commands are finite, and there is one at most for each submission.
LEMMA CommandsBounded ==
    ASSUME HybridTyped, OncePerOrder
    PROVE  /\ IsFiniteSet(SlipMsgs) /\ IsFiniteSet(QueuedSlipMsgs)
           /\ Cardinality(SlipMsgs) \in Nat /\ Cardinality(QueuedSlipMsgs) \in Nat
           /\ Cardinality(QueuedSlipMsgs) <= Cardinality(SlipMsgs)
           /\ Cardinality(SlipMsgs) <= Submissions
<1>. DEFINE f == [c \in SlipMsgs |-> msgs[c].parent]
            T == 1 .. Submissions
<1>1. Submissions \in Nat /\ IsFiniteSet(T) /\ Cardinality(T) = Submissions
  <2>1. Submissions \in Nat \ {0}
    BY SagaAssumption
  <2>. QED  BY <2>1, FS_Interval
<1>2. f \in [SlipMsgs -> T] /\ \A c, d \in SlipMsgs : f[c] = f[d] => c = d
  BY DEF OncePerOrder
<1>3. f \in Injection(SlipMsgs, T)
  BY <1>2 DEF Injection, IsInjective
<1>. HIDE DEF f, T
<1>4. IsFiniteSet(SlipMsgs) /\ Cardinality(SlipMsgs) <= Submissions
  BY <1>1, <1>3, FS_Injection
<1>5. QueuedSlipMsgs \in SUBSET SlipMsgs
  BY DEF QueuedSlipMsgs
<1>6. IsFiniteSet(QueuedSlipMsgs) /\ Cardinality(QueuedSlipMsgs) <= Cardinality(SlipMsgs)
  BY <1>4, <1>5, FS_Subset
<1>. QED  BY <1>4, <1>6, FS_CardinalityType

\* A step that adds no message.
LEMMA OrderKept ==
    ASSUME HybridTyped, OncePerOrder, Len(msgs') = Len(msgs), \A i \in Ids : Same(i),
           \A i \in Ids : msgs[i].kind = Starting /\ Begun(msgs[i].phase) =>
                              Begun(msgs'[i].phase)
    PROVE  OncePerOrder' /\ SlipMsgs' = SlipMsgs
<1>1. Ids' = Ids
  BY DEF Ids
<1>2. SlipMsgs' = SlipMsgs
  BY <1>1 DEF SlipMsgs, Same
<1>3. ASSUME NEW c \in SlipMsgs
      PROVE  /\ msgs'[c].parent \in Ids /\ msgs'[msgs'[c].parent].kind = Starting
             /\ Begun(msgs'[msgs'[c].parent].phase)
             /\ msgs'[c].parent = msgs[c].parent
  <2>1. msgs'[c].parent = msgs[c].parent
    BY DEF SlipMsgs, Same
  <2>2. /\ msgs[c].parent \in Ids /\ msgs[msgs[c].parent].kind = Starting
        /\ Begun(msgs[msgs[c].parent].phase)
    BY DEF OncePerOrder
  <2>. QED  BY <2>1, <2>2 DEF Same
<1>4. \A m \in Ids : msgs'[m].kind = Starting => m \in 1 .. Submissions
  BY DEF OncePerOrder, Same
<1>5. \A c, d \in SlipMsgs : msgs'[c].parent = msgs'[d].parent => c = d
  BY <1>3 DEF OncePerOrder
<1>. QED  BY <1>1, <1>2, <1>3, <1>4, <1>5 DEF OncePerOrder, Begun

\* A step that adds one.
LEMMA OrderSent ==
    ASSUME HybridTyped, OncePerOrder, NEW n, n = Len(msgs) + 1, Len(msgs') = n,
           NEW m \in Ids, msgs'[n].parent = m, msgs'[n].kind # Starting,
           \A i \in Ids : Same(i),
           \A i \in Ids : msgs[i].kind = Starting /\ Begun(msgs[i].phase) =>
                              Begun(msgs'[i].phase),
           msgs'[n].kind \in SlipCommands =>
               /\ msgs[m].kind = Starting
               /\ ~Begun(msgs[m].phase) /\ Begun(msgs'[m].phase)
    PROVE  /\ OncePerOrder' /\ n \notin SlipMsgs
           /\ SlipMsgs' = IF msgs'[n].kind \in SlipCommands THEN SlipMsgs \cup {n} ELSE SlipMsgs
<1>1. Len(msgs) \in Nat /\ Ids' = Ids \cup {n} /\ n \notin Ids
  BY HybridFacts DEF Ids
<1>2. /\ SlipMsgs' = IF msgs'[n].kind \in SlipCommands THEN SlipMsgs \cup {n} ELSE SlipMsgs
      /\ n \notin SlipMsgs
  BY <1>1 DEF SlipMsgs, Same
<1>3. ASSUME NEW c \in SlipMsgs
      PROVE  /\ msgs'[c].parent \in Ids /\ msgs'[msgs'[c].parent].kind = Starting
             /\ Begun(msgs[msgs'[c].parent].phase) /\ Begun(msgs'[msgs'[c].parent].phase)
             /\ msgs'[c].parent = msgs[c].parent
  <2>1. msgs'[c].parent = msgs[c].parent
    BY DEF SlipMsgs, Same
  <2>2. /\ msgs[c].parent \in Ids /\ msgs[msgs[c].parent].kind = Starting
        /\ Begun(msgs[msgs[c].parent].phase)
    BY DEF OncePerOrder
  <2>. QED  BY <2>1, <2>2 DEF Same
<1>4. \A i \in Ids' : msgs'[i].kind = Starting => i \in 1 .. Submissions
  BY <1>1 DEF OncePerOrder, Same
<1>5. ASSUME NEW c \in SlipMsgs'
      PROVE  /\ msgs'[c].parent \in Ids' /\ msgs'[msgs'[c].parent].kind = Starting
             /\ Begun(msgs'[msgs'[c].parent].phase)
  <2>1. CASE c = n
    <3>1. msgs'[n].kind \in SlipCommands
      BY <2>1 DEF SlipMsgs
    <3>. QED  BY <1>1, <2>1, <3>1 DEF Same
  <2>2. CASE c \in SlipMsgs
    BY <1>1, <1>3, <2>2
  <2>. QED  BY <1>2, <2>1, <2>2
<1>6. ASSUME NEW c \in SlipMsgs', NEW d \in SlipMsgs', msgs'[c].parent = msgs'[d].parent
      PROVE  c = d
  <2>1. ASSUME NEW b \in SlipMsgs, n \in SlipMsgs', msgs'[b].parent = msgs'[n].parent
        PROVE  FALSE
    <3>1. msgs'[n].kind \in SlipCommands
      BY <2>1 DEF SlipMsgs
    <3>. QED  BY <1>3, <2>1, <3>1
  <2>2. CASE c \in SlipMsgs /\ d \in SlipMsgs
    BY <1>3, <1>6, <2>2 DEF OncePerOrder
  <2>. QED  BY <1>2, <1>6, <2>1, <2>2
<1>. QED  BY <1>2, <1>4, <1>5, <1>6 DEF OncePerOrder, Begun

\* Only a crash puts a command back into its queue.
LEMMA PaidKept ==
    ASSUME HybridTyped, OncePerOrder, SlipsPaidFor, Len(slips') = Len(slips),
           crashes' = crashes, SlipMsgs' = SlipMsgs,
           \A i \in SlipMsgs : msgs'[i].phase = "queued" => msgs[i].phase = "queued"
    PROVE  SlipsPaidFor'
<1>1. QueuedSlipMsgs' \in SUBSET QueuedSlipMsgs
  BY DEF QueuedSlipMsgs
<1>2. /\ Cardinality(QueuedSlipMsgs') <= Cardinality(QueuedSlipMsgs)
      /\ Cardinality(QueuedSlipMsgs') \in Nat
  BY <1>1, CommandsBounded, FS_Subset, FS_CardinalityType
<1>. DEFINE a == Submissions * crashes
<1>3. a \in Nat /\ Submissions * crashes' = a
  BY SagaAssumption DEF HybridTyped, Typed
<1>4. Len(slips) + Cardinality(QueuedSlipMsgs) <= Cardinality(SlipMsgs) + a
  BY DEF SlipsPaidFor
<1>. HIDE DEF a
<1>5. Len(slips) \in Nat /\ Cardinality(SlipMsgs) \in Nat /\ Cardinality(QueuedSlipMsgs) \in Nat
  BY HybridFacts, CommandsBounded
<1>6. Len(slips') + Cardinality(QueuedSlipMsgs') <= Cardinality(SlipMsgs') + a
  BY <1>2, <1>3, <1>4, <1>5
<1>. QED  BY <1>3, <1>6 DEF SlipsPaidFor

LEMMA PaidSent ==
    ASSUME HybridTyped, OncePerOrder, SlipsPaidFor, slips' = slips, crashes' = crashes,
           NEW n \in Nat, n \notin SlipMsgs, SlipMsgs' = SlipMsgs \cup {n},
           \A i \in SlipMsgs : msgs'[i].phase = "queued" => msgs[i].phase = "queued"
    PROVE  SlipsPaidFor'
<1>1. QueuedSlipMsgs' \in SUBSET (QueuedSlipMsgs \cup {n})
  BY DEF QueuedSlipMsgs
<1>2. IsFiniteSet(SlipMsgs) /\ IsFiniteSet(QueuedSlipMsgs) /\ n \notin QueuedSlipMsgs
      /\ Len(slips) \in Nat
      /\ Cardinality(SlipMsgs) \in Nat /\ Cardinality(QueuedSlipMsgs) \in Nat
  BY HybridFacts, CommandsBounded DEF QueuedSlipMsgs
<1>3. /\ IsFiniteSet(QueuedSlipMsgs \cup {n})
      /\ Cardinality(QueuedSlipMsgs \cup {n}) = Cardinality(QueuedSlipMsgs) + 1
      /\ Cardinality(SlipMsgs \cup {n}) = Cardinality(SlipMsgs) + 1
  BY <1>2, FS_AddElement
<1>4. /\ Cardinality(QueuedSlipMsgs') <= Cardinality(QueuedSlipMsgs) + 1
      /\ Cardinality(QueuedSlipMsgs') \in Nat
  BY <1>1, <1>3, FS_Subset, FS_CardinalityType
<1>. DEFINE a == Submissions * crashes
<1>5. a \in Nat /\ Submissions * crashes' = a
  BY SagaAssumption DEF HybridTyped, Typed
<1>6. Len(slips) + Cardinality(QueuedSlipMsgs) <= Cardinality(SlipMsgs) + a
  BY DEF SlipsPaidFor
<1>. HIDE DEF a
<1>7. Len(slips') + Cardinality(QueuedSlipMsgs') <= Cardinality(SlipMsgs') + a
  BY <1>2, <1>3, <1>4, <1>5, <1>6
<1>. QED  BY <1>5, <1>7 DEF SlipsPaidFor

LEMMA PaidStarted ==
    ASSUME HybridTyped, OncePerOrder, SlipsPaidFor, Len(slips') = Len(slips) + 1,
           crashes' = crashes, SlipMsgs' = SlipMsgs,
           NEW m \in SlipMsgs, msgs[m].phase = "queued", msgs'[m].phase # "queued",
           \A i \in SlipMsgs : i # m => msgs'[i] = msgs[i]
    PROVE  SlipsPaidFor'
<1>1. QueuedSlipMsgs' = QueuedSlipMsgs \ {m} /\ m \in QueuedSlipMsgs
  BY DEF QueuedSlipMsgs
<1>2. IsFiniteSet(QueuedSlipMsgs) /\ Len(slips) \in Nat
      /\ Cardinality(SlipMsgs) \in Nat /\ Cardinality(QueuedSlipMsgs) \in Nat
  BY HybridFacts, CommandsBounded
<1>3. Cardinality(QueuedSlipMsgs') = Cardinality(QueuedSlipMsgs) - 1
  BY <1>1, <1>2, FS_RemoveElement
<1>. DEFINE a == Submissions * crashes
<1>4. a \in Nat /\ Submissions * crashes' = a
  BY SagaAssumption DEF HybridTyped, Typed
<1>5. Len(slips) + Cardinality(QueuedSlipMsgs) <= Cardinality(SlipMsgs) + a
  BY DEF SlipsPaidFor
<1>. HIDE DEF a
<1>6. Len(slips') + Cardinality(QueuedSlipMsgs') <= Cardinality(SlipMsgs') + a
  BY <1>2, <1>3, <1>4, <1>5
<1>. QED  BY <1>4, <1>6 DEF SlipsPaidFor

LEMMA PaidDied ==
    ASSUME HybridTyped, OncePerOrder, SlipsPaidFor, Len(slips') = Len(slips),
           crashes' = crashes + 1, SlipMsgs' = SlipMsgs
    PROVE  SlipsPaidFor'
<1>1. QueuedSlipMsgs' \in SUBSET SlipMsgs
  BY DEF QueuedSlipMsgs
<1>2. IsFiniteSet(SlipMsgs) /\ Len(slips) \in Nat /\ Cardinality(SlipMsgs) \in Nat
      /\ Cardinality(QueuedSlipMsgs) \in Nat /\ Cardinality(SlipMsgs) <= Submissions
  BY HybridFacts, CommandsBounded
<1>3. Cardinality(QueuedSlipMsgs') <= Cardinality(SlipMsgs) /\ Cardinality(QueuedSlipMsgs') \in Nat
  BY <1>1, <1>2, FS_Subset, FS_CardinalityType
<1>. DEFINE a == Submissions * crashes
<1>4. a \in Nat /\ Submissions \in Nat /\ Submissions * crashes' = a + Submissions
  <2>1. Submissions \in Nat /\ crashes \in Nat
    BY SagaAssumption DEF HybridTyped, Typed
  <2>2. Submissions * (crashes + 1) = Submissions * crashes + Submissions
    BY <2>1
  <2>. QED  BY <2>1, <2>2
<1>5. Len(slips) + Cardinality(QueuedSlipMsgs) <= Cardinality(SlipMsgs) + a
  BY DEF SlipsPaidFor
<1>. HIDE DEF a
<1>6. Len(slips') + Cardinality(QueuedSlipMsgs') <= Cardinality(SlipMsgs') + (a + Submissions)
  BY <1>2, <1>3, <1>4, <1>5
<1>. QED  BY <1>4, <1>6 DEF SlipsPaidFor

LEMMA PaidNext ==
    ASSUME WorkStartsOnce, HybridTyped, OncePerOrder, SlipsPaidFor, [HybridNext]_hybridVars
    PROVE  OncePerOrder' /\ SlipsPaidFor'
<1>1. CASE UNCHANGED hybridVars
  BY <1>1 DEF hybridVars, OncePerOrder, SlipsPaidFor, SlipMsgs, QueuedSlipMsgs, Ids, Begun
<1>k. ASSUME NEW i \in Ids, msgs[i].kind = Starting
      PROVE  i \notin SlipMsgs /\ msgs[i].kind \notin SlipCommands
  BY <1>k, SlipKinds DEF SlipMsgs
<1>2. ASSUME NEW m \in Ids, Advance(m) \/ Disturb(m), UNCHANGED slips
      PROVE  OncePerOrder' /\ SlipsPaidFor'
  <2>1. /\ Len(msgs') = Len(msgs) \/ Adds(m)
        /\ \A i \in Ids : Quiet(i)
        /\ \A i \in Ids : Begun(msgs[i].phase) => Begun(msgs'[i].phase)
    BY <1>2, SagaStep DEF WorkStartsOnce
  <2>2. \A i \in Ids : Same(i) /\ (msgs'[i].phase = "queued" => msgs[i].phase = "queued")
    BY <2>1 DEF Quiet
  <2>3. slips' = slips /\ crashes' = crashes
    BY <1>2 DEF Advance, Disturb, Find, Save, SaveConflict, SendCommand, Finalize, HandleCommand,
                SendFallback, Reply, Ack, Timeout, SaveAnswerLost, FinalizeAnswerLost, CallFails,
                TimeoutTooSoon
  <2>4. \A i \in SlipMsgs : msgs'[i].phase = "queued" => msgs[i].phase = "queued"
    BY <2>2 DEF SlipMsgs
  <2>5. CASE Len(msgs') = Len(msgs)
    <3>1. OncePerOrder' /\ SlipMsgs' = SlipMsgs
      BY <2>1, <2>2, <2>5, OrderKept
    <3>. QED  BY <2>3, <2>4, <3>1, PaidKept
  <2>6. CASE Adds(m)
    <3>. DEFINE n == Len(msgs) + 1
    <3>1. n \in Nat /\ Len(msgs') = n
      BY <2>6, HybridFacts DEF Adds
    <3>2. /\ msgs'[n].parent = m /\ msgs'[m].phase = "waiting"
          /\ \/ /\ IsEvent(m) /\ msgs[m].phase = "saved"
                /\ msgs[m].kind \in DOMAIN CommandOf /\ msgs'[n].kind = CommandOf[msgs[m].kind]
             \/ /\ msgs[m].kind \in Commands /\ msgs[m].kind \in DOMAIN Outcomes
                /\ msgs'[n].kind \in Outcomes[msgs[m].kind]
             \/ /\ msgs[m].kind \in Commands /\ msgs[m].kind \in DOMAIN Fallback
                /\ msgs'[n].kind = Fallback[msgs[m].kind]
      BY <2>6, <3>1 DEF Adds
    <3>. HIDE DEF n
    <3>3. CASE /\ IsEvent(m) /\ msgs[m].phase = "saved"
               /\ msgs[m].kind \in DOMAIN CommandOf /\ msgs'[n].kind = CommandOf[msgs[m].kind]
      <4>1. msgs'[n].kind \in Commands
        BY <3>3, SagaAssumption
      <4>2. msgs'[n].kind # Starting
        BY <4>1, SagaAssumption
      <4>3. msgs'[n].kind \in SlipCommands => /\ msgs[m].kind = Starting
                                              /\ ~Begun(msgs[m].phase) /\ Begun(msgs'[m].phase)
        BY <3>2, <3>3 DEF WorkStartsOnce, Begun
      <4>4. /\ OncePerOrder' /\ n \notin SlipMsgs
            /\ SlipMsgs' = IF msgs'[n].kind \in SlipCommands THEN SlipMsgs \cup {n}
                           ELSE SlipMsgs
        BY <2>1, <2>2, <3>1, <3>2, <4>2, <4>3, OrderSent DEF n
      <4>5. CASE msgs'[n].kind \in SlipCommands
        BY <2>3, <2>4, <3>1, <4>4, <4>5, PaidSent
      <4>6. CASE msgs'[n].kind \notin SlipCommands
        BY <2>3, <2>4, <4>4, <4>6, PaidKept
      <4>. QED  BY <4>4, <4>5, <4>6
    <3>4. CASE /\ msgs[m].kind \in Commands
               /\ \/ /\ msgs[m].kind \in DOMAIN Outcomes
                     /\ msgs'[n].kind \in Outcomes[msgs[m].kind]
                  \/ /\ msgs[m].kind \in DOMAIN Fallback
                     /\ msgs'[n].kind = Fallback[msgs[m].kind]
      <4>1. msgs'[n].kind \in Events
        BY <3>4, SagaAssumption
      <4>2. msgs'[n].kind \in Sendable(msgs[m].kind)
        BY <3>4 DEF Sendable
      <4>3. msgs'[n].kind # Starting
        BY <3>4, <4>2 DEF WorkStartsOnce
      <4>4. msgs'[n].kind \notin SlipCommands
        BY <4>1, SlipKinds
      <4>5. OncePerOrder' /\ SlipMsgs' = SlipMsgs
        BY <2>1, <2>2, <3>1, <3>2, <4>3, <4>4, OrderSent DEF n
      <4>. QED  BY <2>3, <2>4, <4>5, PaidKept
    <3>. QED  BY <3>2, <3>3, <3>4
  <2>. QED  BY <2>1, <2>5, <2>6
<1>3. ASSUME NEW m \in Ids, StartSlip(m)
      PROVE  OncePerOrder' /\ SlipsPaidFor'
  <2>1. /\ msgs[m].kind \in SlipCommands /\ msgs[m].phase = "queued"
        /\ Touches(m) /\ msgs'[m].phase = "working"
        /\ Len(slips') = Len(slips) + 1 /\ crashes' = crashes
    BY <1>3, SlipStarted
  <2>2. /\ Len(msgs') = Len(msgs) /\ m \in SlipMsgs
        /\ \A i \in Ids : Same(i) /\ (i # m => msgs'[i] = msgs[i])
    BY <2>1 DEF Touches, Same, SlipMsgs
  <2>3. OncePerOrder' /\ SlipMsgs' = SlipMsgs
    BY <1>k, <2>2, OrderKept
  <2>4. msgs'[m].phase # "queued" /\ \A i \in SlipMsgs : i # m => msgs'[i] = msgs[i]
    BY <2>1, <2>2 DEF SlipMsgs
  <2>. QED  BY <2>1, <2>2, <2>3, <2>4, PaidStarted
<1>4. ASSUME NEW m \in Ids, SendSuccess(m)
      PROVE  OncePerOrder' /\ SlipsPaidFor'
  <2>. DEFINE n == Len(msgs) + 1
  <2>1. /\ msgs[m].kind \in SlipCommands /\ msgs[m].phase = "fulfilled"
        /\ Sends1(m, Success[msgs[m].kind], msgs[m].header)
        /\ UNCHANGED <<row, crashes, faults, slips>>
    BY <1>4, SuccessSent
  <2>2. /\ Len(msgs') = n /\ msgs'[n].kind = Success[msgs[m].kind] /\ msgs'[n].parent = m
        /\ msgs'[m].phase = "waiting"
        /\ \A i \in Ids : Same(i) /\ (i # m => msgs'[i] = msgs[i])
    BY <2>1 DEF Sends1, Message, Same
  <2>. HIDE DEF n
  <2>3. msgs'[n].kind \in Events /\ msgs'[n].kind \in Sendable(msgs[m].kind)
    BY <2>1, <2>2, HybridAssumption DEF Sendable
  <2>4. msgs'[n].kind # Starting /\ msgs'[n].kind \notin SlipCommands
    BY <2>1, <2>3, SlipKinds DEF WorkStartsOnce
  <2>5. \A i \in Ids : msgs[i].kind = Starting => msgs'[i] = msgs[i]
    BY <1>k, <2>1, <2>2
  <2>6. OncePerOrder' /\ SlipMsgs' = SlipMsgs
    BY <2>2, <2>4, <2>5, OrderSent DEF n
  <2>7. \A i \in SlipMsgs : msgs'[i].phase = "queued" => msgs[i].phase = "queued"
    BY <2>2 DEF SlipMsgs
  <2>. QED  BY <2>1, <2>6, <2>7, PaidKept
<1>5. ASSUME NEW m \in Ids, SendSuccessFails(m)
      PROVE  OncePerOrder' /\ SlipsPaidFor'
  <2>1. /\ msgs[m].kind \in SlipCommands
        /\ Touches(m) /\ msgs'[m].phase = "caught"
        /\ UNCHANGED <<row, crashes, slips>>
    BY <1>5, SuccessFailed
  <2>2. Len(msgs') = Len(msgs) /\ \A i \in Ids : Same(i) /\ (i # m => msgs'[i] = msgs[i])
    BY <2>1 DEF Touches, Same
  <2>3. OncePerOrder' /\ SlipMsgs' = SlipMsgs
    BY <1>k, <2>1, <2>2, OrderKept
  <2>4. \A i \in SlipMsgs : msgs'[i].phase = "queued" => msgs[i].phase = "queued"
    BY <2>1, <2>2 DEF SlipMsgs
  <2>. QED  BY <2>1, <2>3, <2>4, PaidKept
<1>6. ASSUME NEW s \in SlipIds, ExecuteSlip(s)
      PROVE  OncePerOrder' /\ SlipsPaidFor'
  <2>1. PICK c \in Ids : c = slips[s].command /\ msgs[c].kind \in SlipCommands
    BY DEF HybridTyped, Owned
  <2>2. /\ Len(slips') = Len(slips) /\ crashes' = crashes
        /\ \/ msgs' = msgs
           \/ msgs' = Goto(c, "fulfilled")
           \/ msgs' = Goto(c, "caught")
    BY <1>6, <2>1, SlipStep
  <2>3. ASSUME NEW x \in {"fulfilled", "caught"}, msgs' = Goto(c, x)
        PROVE  /\ Len(msgs') = Len(msgs) /\ msgs'[c].phase = x
               /\ \A i \in Ids : Same(i) /\ (i # c => msgs'[i] = msgs[i])
    BY <2>1, <2>3, CommandWent DEF Touches, Same
  <2>4. /\ Len(msgs') = Len(msgs)
        /\ \A i \in Ids : /\ Same(i) /\ (i # c => msgs'[i] = msgs[i])
                          /\ msgs'[i].phase = "queued" => msgs[i].phase = "queued"
    BY <2>2, <2>3 DEF Same
  <2>5. \A i \in Ids : msgs[i].kind = Starting => msgs'[i] = msgs[i]
    BY <1>k, <2>1, <2>4
  <2>6. OncePerOrder' /\ SlipMsgs' = SlipMsgs
    BY <2>4, <2>5, OrderKept
  <2>7. \A i \in SlipMsgs : msgs'[i].phase = "queued" => msgs[i].phase = "queued"
    BY <2>4 DEF SlipMsgs
  <2>. QED  BY <2>2, <2>6, <2>7, PaidKept
<1>7. ASSUME NEW process \in Processes, Crash(process), slips' = Lost(process)
      PROVE  OncePerOrder' /\ SlipsPaidFor'
  <2>1. /\ Len(msgs') = Len(msgs)
        /\ \A i \in Ids : Same(i) /\ (msgs'[i] = msgs[i] \/ msgs[i].kind \in process)
        /\ Len(slips') = Len(slips) /\ crashes' = crashes + 1
    BY <1>7, ProcessDied
  <2>2. Starting \notin process
    BY SagaAssumption DEF WorkStartsOnce
  <2>3. OncePerOrder' /\ SlipMsgs' = SlipMsgs
    BY <2>1, <2>2, OrderKept
  <2>. QED  BY <2>1, <2>3, PaidDied
<1>. QED  BY <1>1, <1>2, <1>3, <1>4, <1>5, <1>6, <1>7
          DEF HybridNext, HybridProgress, SlipIds

\* A slip is executed once for each order submitted, and again only after a crash:
\* no retry, timeout, late reply or lost answer repeats it.
THEOREM HybridWorkCorrect ==
    ASSUME WorkStartsOnce
    PROVE  HybridSpec => []WorkBounded
<1>1. HybridInit => OncePerOrder /\ SlipsPaidFor
  <2>. SUFFICES ASSUME HybridInit PROVE OncePerOrder /\ SlipsPaidFor
    OBVIOUS
  <2>1. Len(msgs) = Submissions /\ Submissions \in Nat
    BY SagaAssumption DEF HybridInit, Init
  <2>2. \A m \in Ids : msgs[m].kind = Starting /\ m \in 1 .. Submissions
    BY <2>1 DEF HybridInit, Init, Ids, Message
  <2>3. SlipMsgs = {} /\ QueuedSlipMsgs = {}
    BY <2>2, SlipKinds DEF SlipMsgs, QueuedSlipMsgs
  <2>4. Cardinality(SlipMsgs) = 0 /\ Cardinality(QueuedSlipMsgs) = 0
    BY <2>3, FS_EmptySet
  <2>5. Len(slips) = 0 /\ Submissions * crashes = 0
    BY <2>1 DEF HybridInit, Init
  <2>. QED  BY <2>2, <2>3, <2>4, <2>5 DEF OncePerOrder, SlipsPaidFor
<1>2. HybridTyped /\ OncePerOrder /\ SlipsPaidFor => WorkBounded
  <2>. SUFFICES ASSUME HybridTyped, OncePerOrder, SlipsPaidFor PROVE WorkBounded
    OBVIOUS
  <2>. DEFINE a == Submissions * crashes
  <2>1. a \in Nat /\ Submissions \in Nat /\ Submissions * (1 + crashes) = Submissions + a
    BY SagaAssumption DEF HybridTyped, Typed
  <2>2. Len(slips) + Cardinality(QueuedSlipMsgs) <= Cardinality(SlipMsgs) + a
    BY DEF SlipsPaidFor
  <2>. HIDE DEF a
  <2>3. Len(slips) \in Nat /\ Cardinality(SlipMsgs) <= Submissions
        /\ Cardinality(SlipMsgs) \in Nat /\ Cardinality(QueuedSlipMsgs) \in Nat
    BY HybridFacts, CommandsBounded
  <2>4. Len(slips) <= Submissions + a
    BY <2>1, <2>2, <2>3
  <2>. QED  BY <2>1, <2>4 DEF WorkBounded
<1>3. HybridTyped /\ OncePerOrder /\ SlipsPaidFor /\ [HybridNext]_hybridVars
      => OncePerOrder' /\ SlipsPaidFor'
  BY PaidNext
<1>. QED  BY <1>1, <1>2, <1>3, HybridTypedInvariant, PTL DEF HybridSpec

-----------------------------------------------------------------------------
\* The course of one order that nothing disturbs.

Over(m) == msgs[m].phase \in {"acking", "done"}

Reached(m) == Visible(row) /\ row.content = Target[msgs[m].kind]

\* Events and commands alternate, each the child of the one before.
ChainLink(m) ==
    /\ msgs[m].parent = m - 1
    /\ m = 1 => msgs[m].kind = Starting
    /\ m > 1 /\ IsEvent(m) =>
           ~IsEvent(m - 1) /\ msgs[m].kind \in Sendable(msgs[m - 1].kind)
    /\ m > 1 /\ ~IsEvent(m) =>
           msgs[m - 1].kind \in DOMAIN CommandOf /\ msgs[m].kind = CommandOf[msgs[m - 1].kind]

\* Nothing fails but slips, and a handler that waits does so for the next message.
ChainPhase(m) ==
    /\ msgs[m].phase \notin {"failed", "ready"}
    /\ msgs[m].phase = "caught" => msgs[m].kind \in SlipCommands
    /\ IF msgs[m].phase = "waiting"
       THEN m < Len(msgs) /\ msgs[m].awaits = m + 1 /\ ~Over(m + 1)
       ELSE m < Len(msgs) => msgs[m].phase \in {"answered", "finished", "acking", "done"}

\* The saga is where the last message expects it.
ChainEnd ==
    LET m == Len(msgs) IN
    /\ IsEvent(m) /\ msgs[m].phase = "queued" => IF m = 1 THEN row = NoRow ELSE Reached(m - 2)
    /\ IsEvent(m) /\ msgs[m].phase = "saving" => ~row.archived /\ CanSaveNow(m)
    /\ IsEvent(m) /\ msgs[m].phase = "saved" => Reached(m)
    /\ ~IsEvent(m) /\ msgs[m].phase \in {"queued", "working", "fulfilled", "caught"} =>
           Reached(m - 1)

Chain ==
    /\ \A m \in Ids : ChainLink(m) /\ ChainPhase(m)
    /\ \A i, j \in Ids : i < j /\ ~Over(j) => msgs[i].phase = "waiting"
    /\ ChainEnd

\* A handler in a phase of its own is the one of the last message.
LEMMA AtEnd ==
    ASSUME HybridTyped, Chain, NEW m \in Ids,
           msgs[m].phase \notin {"waiting", "answered", "finished", "acking", "done"}
    PROVE  m = Len(msgs)
<1>1. ~(m < Len(msgs))
  BY DEF Chain, ChainPhase
<1>2. m \in 1 .. Len(msgs) /\ Len(msgs) \in Nat
  BY HybridFacts DEF Ids
<1>. QED  BY <1>1, <1>2

LEMMA ChainMoved ==
    ASSUME HybridTyped, Chain, NEW m \in Ids, Touches(m), msgs[m].phase # "waiting",
           msgs'[m].phase \notin {"waiting", "failed", "ready"},
           msgs'[m].phase = "caught" => msgs[m].kind \in SlipCommands,
           m < Len(msgs) => msgs'[m].phase \in {"answered", "finished", "acking", "done"},
           Over(m)' <=> Over(m), ChainEnd'
    PROVE  Chain'
<1>1. /\ Len(msgs') = Len(msgs) /\ Ids' = Ids /\ Len(msgs) \in Nat
      /\ \A i \in Ids : Same(i) /\ (i # m => msgs'[i] = msgs[i])
      /\ \A i \in Ids : i \in Nat \ {0} /\ i <= Len(msgs)
  BY HybridFacts DEF Touches, Same, Ids
<1>2. \A i \in Ids : Over(i)' <=> Over(i)
  BY <1>1 DEF Over
<1>3. ASSUME NEW i \in Ids
      PROVE  ChainLink(i)'
  <2>1. ChainLink(i) /\ (i > 1 => i - 1 \in Ids)
    BY <1>1 DEF Chain, Ids
  <2>2. /\ msgs'[i].kind = msgs[i].kind /\ msgs'[i].parent = msgs[i].parent
        /\ i > 1 => msgs'[i - 1].kind = msgs[i - 1].kind
    BY <1>1, <2>1 DEF Same
  <2>. QED  BY <2>1, <2>2 DEF ChainLink, IsEvent
<1>4. ASSUME NEW i \in Ids
      PROVE  ChainPhase(i)'
  <2>1. CASE i = m
    BY <1>1, <2>1 DEF ChainPhase, Same
  <2>2. CASE i # m
    <3>1. ChainPhase(i) /\ msgs'[i] = msgs[i]
      BY <1>1, <2>2 DEF Chain
    <3>2. i < Len(msgs) => i + 1 \in Ids
      BY <1>1 DEF Ids
    <3>3. i < Len(msgs) => (Over(i + 1)' <=> Over(i + 1))
      BY <1>2, <3>2
    <3>. QED  BY <1>1, <3>1, <3>3 DEF ChainPhase
  <2>. QED  BY <2>1, <2>2
<1>5. ASSUME NEW i \in Ids, NEW j \in Ids, i < j, ~Over(j)'
      PROVE  msgs'[i].phase = "waiting"
  <2>1. msgs[i].phase = "waiting"
    BY <1>2, <1>5 DEF Chain
  <2>. QED  BY <1>1, <2>1
<1>. QED  BY <1>1, <1>3, <1>4, <1>5 DEF Chain

LEMMA ChainSent ==
    ASSUME HybridTyped, Chain, NEW m, m = Len(msgs), m \in Ids, ~Over(m),
           NEW n, n = m + 1, Len(msgs') = n,
           msgs'[n].phase = "queued", msgs'[n].parent = m,
           msgs'[m].phase = "waiting", msgs'[m].awaits = n,
           \A i \in Ids : Same(i) /\ (i # m => msgs'[i] = msgs[i]),
           IF msgs'[n].kind \in Events
           THEN /\ ~IsEvent(m) /\ msgs'[n].kind \in Sendable(msgs[m].kind)
                /\ row'= row /\ Reached(m - 1)
           ELSE /\ msgs[m].kind \in DOMAIN CommandOf /\ msgs'[n].kind = CommandOf[msgs[m].kind]
                /\ row'= row /\ Reached(m)
    PROVE  Chain'
<1>1. /\ Len(msgs) \in Nat /\ Ids' = Ids \cup {n} /\ n \notin Ids
      /\ \A i \in Ids : i \in Nat \ {0} /\ i <= m
  BY HybridFacts DEF Ids
<1>2. ASSUME NEW i \in Ids'
      PROVE  ChainLink(i)'
  <2>1. CASE i = n
    <3>1. /\ msgs'[n].parent = n - 1 /\ n > 1 /\ n - 1 = m
          /\ msgs'[m].kind = msgs[m].kind
      BY <1>1 DEF Same
    <3>. QED  BY <2>1, <3>1 DEF ChainLink, IsEvent
  <2>2. CASE i \in Ids
    <3>1. ChainLink(i) /\ (i > 1 => i - 1 \in Ids)
      BY <1>1, <2>2 DEF Chain, Ids
    <3>2. /\ msgs'[i].kind = msgs[i].kind /\ msgs'[i].parent = msgs[i].parent
          /\ i > 1 => msgs'[i - 1].kind = msgs[i - 1].kind
      BY <2>2, <3>1 DEF Same
    <3>. QED  BY <3>1, <3>2 DEF ChainLink, IsEvent
  <2>. QED  BY <1>1, <2>1, <2>2
<1>3. ~Over(n)' /\ ~Over(m)'
  BY DEF Over
<1>4. ASSUME NEW i \in Ids'
      PROVE  ChainPhase(i)'
  <2>1. CASE i = n
    BY <2>1 DEF ChainPhase
  <2>2. CASE i = m
    BY <1>1, <1>3, <2>2 DEF ChainPhase
  <2>3. CASE i \in Ids /\ i # m
    <3>1. i < m /\ msgs'[i] = msgs[i] /\ i + 1 \in Ids
      BY <1>1, <2>3 DEF Ids
    <3>2. ChainPhase(i)
      BY <2>3 DEF Chain
    <3>3. Over(i + 1)' => Over(i + 1)
      BY <1>3, <3>1 DEF Over
    <3>. QED  BY <1>1, <3>1, <3>2, <3>3 DEF ChainPhase
  <2>. QED  BY <1>1, <2>1, <2>2, <2>3
<1>5. ASSUME NEW i \in Ids', NEW j \in Ids', i < j, ~Over(j)'
      PROVE  msgs'[i].phase = "waiting"
  <2>1. i \in Ids /\ i <= m
    BY <1>1, <1>5
  <2>2. CASE i = m
    BY <2>2
  <2>3. CASE i # m
    BY <1>1, <2>1, <2>3 DEF Chain
  <2>. QED  BY <2>2, <2>3
<1>6. ChainEnd'
  <2>1. CASE msgs'[n].kind \in Events
    <3>1. Reached(n - 2)'
      <4>1. m > 1
        <5>1. ChainLink(m)
          BY DEF Chain
        <5>2. m # 1
          BY <2>1, <5>1, SagaAssumption DEF ChainLink, IsEvent
        <5>. QED  BY <1>1, <5>2
      <4>2. m - 1 \in Ids /\ n - 2 = m - 1
        BY <1>1, <4>1 DEF Ids
      <4>. QED  BY <2>1, <4>2 DEF Reached, Same
    <3>2. n # 1
      BY <1>1
    <3>. QED  BY <2>1, <3>1, <3>2 DEF ChainEnd, IsEvent
  <2>2. CASE msgs'[n].kind \notin Events
    <3>1. Reached(n - 1)'
      <4>1. n - 1 = m /\ msgs'[m].kind = msgs[m].kind
        BY <1>1 DEF Same
      <4>. QED  BY <2>2, <4>1 DEF Reached
    <3>. QED  BY <2>2, <3>1 DEF ChainEnd, IsEvent
  <2>. QED  BY <2>1, <2>2
<1>. QED  BY <1>2, <1>4, <1>5, <1>6 DEF Chain

LEMMA ChainReplied ==
    ASSUME HybridTyped, Chain, NEW m \in Ids, Reply(m)
    PROVE  /\ Chain' /\ Len(msgs') = Len(msgs)
           /\ \A i \in Ids : msgs'[i].phase = "caught" => msgs[i].phase = "caught"
<1>0. /\ msgs[m].phase = "finished" /\ msgs' = Answered(m) /\ row' = row
      /\ MessagesTyped(HybridPhases) /\ Phases \subseteq HybridPhases
  BY HybridFacts DEF Reply, Is
<1>1. /\ Len(msgs') = Len(msgs)
      /\ \A i \in Ids :
            /\ Same(i) /\ msgs'[i].awaits = msgs[i].awaits
            /\ \/ i = m /\ msgs'[i].phase = "acking"
               \/ /\ i # m /\ msgs[i].phase = "waiting" /\ i = m - 1
                  /\ msgs'[i].phase \in {"answered", "finished"}
               \/ i # m /\ msgs'[i] = msgs[i]
  <2>1. msgs[m].parent = m - 1
    BY DEF Chain, ChainLink
  <2>. QED  BY <1>0, <2>1, HasAnswered DEF AfterCommand
<1>2. /\ Ids' = Ids /\ Len(msgs) \in Nat
      /\ \A i \in Ids : i \in Nat \ {0} /\ i <= Len(msgs)
  BY <1>1, HybridFacts DEF Ids
<1>3. ASSUME NEW i \in Ids
      PROVE  ChainLink(i)'
  <2>1. ChainLink(i) /\ (i > 1 => i - 1 \in Ids)
    BY <1>2 DEF Chain, Ids
  <2>2. /\ msgs'[i].kind = msgs[i].kind /\ msgs'[i].parent = msgs[i].parent
        /\ i > 1 => msgs'[i - 1].kind = msgs[i - 1].kind
    BY <1>1, <2>1 DEF Same
  <2>. QED  BY <2>1, <2>2 DEF ChainLink, IsEvent
<1>4. ~Over(m) /\ Over(m)'
  BY <1>0, <1>1 DEF Over
<1>5. \A i \in Ids : /\ i < m => msgs[i].phase = "waiting"
                     /\ i > m => Over(i)
  BY <1>0, <1>4 DEF Chain
<1>6. \A i \in Ids : i # m => (Over(i)' <=> Over(i))
  BY <1>1 DEF Over
<1>7. m > 1 => m - 1 \in Ids /\ msgs[m - 1].awaits = m
  <2>1. ASSUME m > 1 PROVE m - 1 \in Ids /\ msgs[m - 1].awaits = m
    <3>1. m - 1 \in Ids /\ m - 1 < m
      BY <1>2, <2>1 DEF Ids
    <3>2. msgs[m - 1].phase = "waiting" /\ ChainPhase(m - 1)
      BY <1>5, <3>1 DEF Chain
    <3>. QED  BY <1>2, <3>1, <3>2 DEF ChainPhase
  <2>. QED  BY <2>1
<1>8. m > 1 => msgs'[m - 1].phase \in {"answered", "finished"}
  <2>1. SUFFICES ASSUME m > 1 PROVE msgs'[m - 1].phase \in {"answered", "finished"}
    OBVIOUS
  <2>2. m - 1 \in Ids /\ msgs[m - 1].awaits = m /\ msgs[m - 1].phase = "waiting"
        /\ m - 1 < m /\ m - 1 # 0
    BY <1>2, <1>5, <1>7, <2>1
  <2>3. msgs[m].parent = m - 1
    BY DEF Chain, ChainLink
  <2>4. msgs'[m - 1] = [msgs[m - 1] EXCEPT !.phase = AfterCommand(msgs[m - 1].kind)]
    BY <1>0, <1>2, <2>2, <2>3 DEF Answered, Is
  <2>5. msgs[m - 1] \in Handlers(HybridPhases)
    BY <2>2, HybridFacts
  <2>6. msgs'[m - 1].phase = AfterCommand(msgs[m - 1].kind)
    BY <2>4, <2>5 DEF Handlers
  <2>. QED  BY <2>6 DEF AfterCommand
<1>9. ASSUME NEW i \in Ids
      PROVE  ChainPhase(i)'
  <2>1. CASE i = m \/ (m > 1 /\ i = m - 1)
    BY <1>1, <1>8, <2>1 DEF ChainPhase
  <2>2. CASE i # m /\ ~(m > 1 /\ i = m - 1)
    <3>1. msgs'[i] = msgs[i] /\ ChainPhase(i)
      BY <1>1, <1>2, <2>2 DEF Chain
    <3>2. i < Len(msgs) => i + 1 \in Ids /\ i + 1 # m
      BY <1>2, <2>2 DEF Ids
    <3>3. i < Len(msgs) => (Over(i + 1)' <=> Over(i + 1))
      BY <1>6, <3>2
    <3>. QED  BY <1>1, <3>1, <3>3 DEF ChainPhase
  <2>. QED  BY <2>1, <2>2
<1>10. ASSUME NEW i \in Ids, NEW j \in Ids, i < j, ~Over(j)'
       PROVE  msgs'[i].phase = "waiting"
  <2>1. j < m
    BY <1>2, <1>4, <1>5, <1>6, <1>10
  <2>2. i < m /\ i # m - 1
    BY <1>2, <1>10, <2>1
  <2>3. msgs'[i] = msgs[i] /\ msgs[i].phase = "waiting"
    BY <1>1, <1>2, <1>5, <2>2
  <2>. QED  BY <2>3
<1>11. ChainEnd'
  <2>1. PICK t \in Ids : t = Len(msgs) /\ m <= t
    BY <1>2 DEF Ids
  <2>2. Over(t)'
    BY <1>2, <1>4, <1>5, <1>6, <2>1
  <2>. QED  BY <1>1, <2>1, <2>2 DEF ChainEnd, Over
<1>. QED  BY <1>1, <1>2, <1>3, <1>9, <1>10, <1>11 DEF Chain

\* The row after a save, and after finalize.
LEMMA SaveReaches ==
    ASSUME HybridTyped, Chain, NEW m \in Ids, Save(m)
    PROVE  m = Len(msgs) /\ IsEvent(m) /\ Visible(row') /\ row'.content = Target[msgs[m].kind]
<1>1. /\ IsEvent(m) /\ msgs[m].phase = "saving"
      /\ row' = Saved(Target[msgs[m].kind])
  BY HasSaved, HybridFacts
<1>2. m = Len(msgs)
  BY <1>1, AtEnd
<1>3. ~row.archived /\ row \in Rows
  BY <1>1, <1>2, HybridFacts DEF Chain, ChainEnd
<1>. QED  BY <1>1, <1>2, <1>3 DEF Saved, AfterSave, Visible, Exists, Rows

\* What the saga finds expects the event, and it will still be there to be saved.
LEMMA FindAccepts ==
    ASSUME ReportsExpected, HybridTyped, Chain, NEW m \in Ids, Find(m)
    PROVE  /\ m = Len(msgs) /\ msgs[m].phase = "queued" /\ IsEvent(m)
           /\ Accepts(msgs[m].kind, FoundState)
           /\ ~row.archived /\ (Visible(row) \/ row = NoRow)
<1>1. IsEvent(m) /\ msgs[m].phase \in {"queued", "ready"}
  BY DEF Find, Deliverable, Is
<1>2. msgs[m].phase = "queued" /\ m = Len(msgs)
  <2>1. ChainPhase(m)
    BY DEF Chain
  <2>2. msgs[m].phase = "queued"
    BY <1>1, <2>1 DEF ChainPhase
  <2>. QED  BY <2>2, AtEnd
<1>3. CASE m = 1
  <2>1. row = NoRow
    BY <1>1, <1>2, <1>3 DEF Chain, ChainEnd
  <2>2. ~Visible(row) /\ ~row.archived
    BY <2>1 DEF NoRow, AfterDelete, Visible, Exists
  <2>. QED  BY <1>1, <1>2, <2>1, <2>2 DEF Accepts, FoundState
<1>4. CASE m # 1
  <2>1. m \in Nat /\ m > 1 /\ m - 1 \in Ids
    BY <1>4, HybridFacts DEF Ids
  <2>2. ~IsEvent(m - 1) /\ msgs[m].kind \in Sendable(msgs[m - 1].kind)
    BY <1>1, <2>1 DEF Chain, ChainLink
  <2>3. m - 1 > 1
    <3>1. m - 1 # 1
      BY <2>1, <2>2, SagaAssumption DEF Chain, ChainLink, IsEvent
    <3>. QED  BY <2>1, <3>1
  <2>4. msgs[m - 2].kind \in DOMAIN CommandOf
        /\ msgs[m - 1].kind = CommandOf[msgs[m - 2].kind]
    <3>1. ChainLink(m - 1) /\ (m - 1) - 1 = m - 2
      BY <2>1 DEF Chain
    <3>. QED  BY <2>2, <2>3, <3>1 DEF ChainLink
  <2>5. Reached(m - 2)
    BY <1>1, <1>2, <1>4 DEF Chain, ChainEnd
  <2>6. row.content \in Previous[msgs[m].kind]
    BY <2>2, <2>4, <2>5 DEF ReportsExpected, Reached
  <2>. QED  BY <1>1, <1>2, <2>5, <2>6 DEF Accepts, FoundState, Reached, Visible
<1>. QED  BY <1>3, <1>4

\* Every step of a handler outside slips, when nothing disturbs it.
LEMMA ChainAdvanced ==
    ASSUME ReportsExpected, HybridTyped, Chain, NEW m \in Ids, Advance(m)
    PROVE  /\ Chain'
           /\ \A i \in Ids : msgs'[i].phase = "caught" => msgs[i].phase = "caught"
<1>. DEFINE Goal == /\ Chain'
                    /\ \A i \in Ids : msgs'[i].phase = "caught" => msgs[i].phase = "caught"
<1>0. /\ MessagesTyped(HybridPhases) /\ Phases \subseteq HybridPhases /\ row \in Rows
      /\ Len(msgs) \in Nat /\ msgs[m] \in Handlers(HybridPhases) /\ Fits(msgs[m])
      /\ m \in Nat \ {0} /\ m <= Len(msgs)
  BY HybridFacts DEF Ids
<1>a. ASSUME Touches(m), msgs[m].phase \notin {"waiting", "acking", "done"},
             msgs'[m].phase \in {"saving", "saved", "answered", "finished"},
             m < Len(msgs) => msgs'[m].phase = "finished", ChainEnd'
      PROVE  Goal
  <2>1. Over(m)' <=> Over(m)
    BY <1>a DEF Over
  <2>2. Chain'
    BY <1>a, <2>1, ChainMoved
  <2>. QED  BY <1>a, <2>2 DEF Touches
<1>b. ASSUME NEW kind \in Events \cup Commands, NEW header \in Nat, m = Len(msgs), ~Over(m),
             msgs' = Sent(m, kind, header),
             IF kind \in Events
             THEN /\ ~IsEvent(m) /\ kind \in Sendable(msgs[m].kind)
                  /\ row'= row /\ Reached(m - 1)
             ELSE /\ msgs[m].kind \in DOMAIN CommandOf /\ kind = CommandOf[msgs[m].kind]
                  /\ row'= row /\ Reached(m)
      PROVE  Goal
  <2>. DEFINE n == m + 1
  <2>1. Sends1(m, kind, header)
    BY <1>0, <1>b, HasSent
  <2>2. /\ Len(msgs') = n /\ msgs'[n].kind = kind /\ msgs'[n].phase = "queued"
        /\ msgs'[n].parent = m
        /\ msgs'[m].phase = "waiting" /\ msgs'[m].awaits = n
        /\ \A i \in Ids : Same(i) /\ (i # m => msgs'[i] = msgs[i])
    BY <1>b, <2>1 DEF Sends1, Message, Same
  <2>. HIDE DEF n
  <2>3. Chain'
    BY <1>b, <2>2, ChainSent DEF n
  <2>. QED  BY <2>2, <2>3
<1>c. ASSUME NEW x \in {"finished", "done"}, msgs' = Goto(m, x)
      PROVE  Touches(m) /\ msgs'[m].phase = x
  <2>1. x \in HybridPhases
    BY DEF HybridPhases, Phases
  <2>2. Touches(m) /\ msgs'[m] = [msgs[m] EXCEPT !.phase = x]
    BY <1>0, <1>c, <2>1, WentTo
  <2>. QED  BY <1>0, <2>2 DEF Handlers
<1>1. CASE Find(m)
  <2>1. /\ m = Len(msgs) /\ msgs[m].phase = "queued" /\ IsEvent(m)
        /\ Accepts(msgs[m].kind, FoundState)
        /\ ~row.archived /\ (Visible(row) \/ row = NoRow)
    BY <1>1, FindAccepts
  <2>2. Touches(m) /\ msgs'[m].phase = "saving" /\ msgs'[m].version = FoundVersion(m)
    BY <1>0, <1>1, <2>1, HasFound
  <2>3. CanSave(row, msgs'[m].version)
    BY <2>1, <2>2 DEF CanSave, FoundVersion, Visible, NoRow, AfterDelete, Exists
  <2>4. ChainEnd'
    <3>1. Len(msgs') = m /\ row' = row
      BY <1>1, <2>1, <2>2 DEF Find, Touches
    <3>2. CanSaveNow(m)'
      BY <2>3, <3>1 DEF CanSaveNow
    <3>3. IsEvent(m)'
      BY <2>1, <2>2 DEF IsEvent, Touches, Same
    <3>. QED  BY <2>1, <2>2, <3>1, <3>2, <3>3 DEF ChainEnd
  <2>. QED  BY <1>a, <2>1, <2>2, <2>4
<1>2. CASE Save(m)
  <2>1. m = Len(msgs) /\ IsEvent(m) /\ Visible(row') /\ row'.content = Target[msgs[m].kind]
    BY <1>2, SaveReaches
  <2>2. /\ Touches(m) /\ msgs[m].phase = "saving"
        /\ msgs'[m].phase = IF msgs[m].kind \in DOMAIN CommandOf THEN "saved"
                            ELSE AfterCommand(msgs[m].kind)
    BY <1>0, <1>2, HasSaved
  <2>3. msgs'[m].phase \in {"saved", "answered", "finished"}
    BY <2>2 DEF AfterCommand
  <2>4. ChainEnd'
    <3>1. Len(msgs') = m /\ msgs'[m].kind = msgs[m].kind
      BY <2>1, <2>2 DEF Touches, Same
    <3>2. Reached(m)'
      BY <2>1, <3>1 DEF Reached
    <3>. QED  BY <2>1, <2>3, <3>1, <3>2 DEF ChainEnd, IsEvent
  <2>. QED  BY <1>a, <2>1, <2>2, <2>3, <2>4
<1>3. CASE SaveConflict(m)
  <2>1. msgs[m].phase = "saving" /\ ~CanSaveNow(m)
    BY <1>3 DEF SaveConflict, Is
  <2>2. m = Len(msgs) /\ IsEvent(m)
    BY <1>0, <2>1, AtEnd DEF Fits, IsEvent
  <2>. QED  BY <2>1, <2>2 DEF Chain, ChainEnd
<1>4. CASE SendCommand(m)
  <2>1. /\ msgs[m].phase = "saved" /\ msgs[m].kind \in DOMAIN CommandOf /\ row' = row
        /\ msgs' = Sent(m, CommandOf[msgs[m].kind], msgs[m].version)
        /\ msgs[m].version \in Nat
    BY <1>0, <1>4 DEF SendCommand, Is, Fits, Handlers
  <2>2. CommandOf[msgs[m].kind] \in Commands /\ IsEvent(m)
    BY <2>1, SagaAssumption DEF IsEvent
  <2>3. CommandOf[msgs[m].kind] \notin Events
    BY <2>2, SagaAssumption
  <2>4. m = Len(msgs) /\ ~Over(m)
    BY <2>1, AtEnd DEF Over
  <2>5. Reached(m)
    BY <2>1, <2>2, <2>4 DEF Chain, ChainEnd
  <2>. QED  BY <1>b, <2>1, <2>2, <2>3, <2>4, <2>5
<1>5. CASE Finalize(m)
  <2>1. msgs[m].phase = "answered" /\ Touches(m) /\ msgs'[m].phase = "finished"
    BY <1>5, <1>c DEF Finalize, Is
  <2>2. ~Over(m) /\ Len(msgs') = Len(msgs)
    BY <2>1 DEF Over, Touches
  <2>3. PICK t \in Ids : t = Len(msgs)
    BY <1>0 DEF Ids
  <2>4. t = m \/ Over(t)
    BY <1>0, <2>1, <2>2, <2>3 DEF Chain
  <2>5. msgs'[t].phase \in {"finished", "acking", "done"}
    BY <2>1, <2>4 DEF Over, Touches
  <2>6. ChainEnd'
    BY <2>2, <2>3, <2>5 DEF ChainEnd
  <2>. QED  BY <1>a, <2>1, <2>6
<1>6. CASE HandleCommand(m)
  <2>1. /\ msgs[m].kind \in DOMAIN Outcomes /\ row' = row
        /\ msgs[m].phase \in {"queued", "ready"} /\ msgs[m].header \in Nat
    BY <1>0, <1>6 DEF HandleCommand, Deliverable, Is, Handlers
  <2>2. msgs[m].kind \in Commands /\ ~IsEvent(m)
    BY <2>1, SagaAssumption DEF IsEvent
  <2>3. msgs[m].phase = "queued" /\ m = Len(msgs) /\ ~Over(m)
    <3>1. ChainPhase(m)
      BY DEF Chain
    <3>2. msgs[m].phase = "queued"
      BY <2>1, <3>1 DEF ChainPhase
    <3>. QED  BY <3>2, AtEnd DEF Over
  <2>4. Reached(m - 1)
    BY <2>2, <2>3 DEF Chain, ChainEnd
  <2>5. ASSUME NEW event \in Outcomes[msgs[m].kind], msgs' = Sent(m, event, msgs[m].header)
        PROVE  Goal
    <3>1. event \in Events /\ event \in Sendable(msgs[m].kind)
      BY <2>1, SagaAssumption DEF Sendable
    <3>. QED  BY <1>b, <2>1, <2>2, <2>3, <2>4, <2>5, <3>1
  <2>6. ASSUME msgs' = Goto(m, "finished")
        PROVE  Goal
    <3>1. Touches(m) /\ msgs'[m].phase = "finished"
      BY <1>c, <2>6
    <3>2. ChainEnd'
      BY <2>3, <3>1 DEF ChainEnd, Touches
    <3>. QED  BY <1>a, <2>3, <3>1, <3>2
  <2>. QED  BY <1>6, <2>5, <2>6 DEF HandleCommand
<1>7. CASE SendFallback(m)
  <2>1. /\ msgs[m].phase = "caught" /\ msgs[m].kind \in DOMAIN Fallback /\ row' = row
        /\ msgs' = Sent(m, Fallback[msgs[m].kind], msgs[m].header)
        /\ msgs[m].header \in Nat
    BY <1>0, <1>7 DEF SendFallback, Is, Fits, Handlers
  <2>2. msgs[m].kind \in Commands /\ Fallback[msgs[m].kind] \in Events
        /\ Fallback[msgs[m].kind] \in Sendable(msgs[m].kind)
    BY <2>1, SagaAssumption DEF Sendable
  <2>3. ~IsEvent(m)
    BY <2>2, SagaAssumption DEF IsEvent
  <2>4. m = Len(msgs) /\ ~Over(m)
    BY <2>1, AtEnd DEF Over
  <2>5. Reached(m - 1)
    BY <2>1, <2>3, <2>4 DEF Chain, ChainEnd
  <2>. QED  BY <1>b, <2>1, <2>2, <2>3, <2>4, <2>5
<1>8. CASE Reply(m)
  BY <1>8, ChainReplied
<1>9. CASE Ack(m)
  <2>1. msgs[m].phase = "acking" /\ Touches(m) /\ msgs'[m].phase = "done" /\ row' = row
    BY <1>9, <1>c DEF Ack, Is
  <2>2. (Over(m)' <=> Over(m)) /\ Len(msgs') = Len(msgs)
    BY <2>1 DEF Over, Touches
  <2>3. ChainEnd'
    <3>1. CASE m = Len(msgs)
      BY <2>1, <2>2, <3>1 DEF ChainEnd
    <3>2. CASE m # Len(msgs)
      <4>1. PICK t \in Ids : t = Len(msgs)
        BY <1>0 DEF Ids
      <4>2. msgs'[t] = msgs[t] /\ Over(t)
        BY <1>0, <2>1, <3>2, <4>1 DEF Touches, Chain
      <4>. QED  BY <2>2, <4>1, <4>2 DEF ChainEnd, Over
    <3>. QED  BY <3>1, <3>2
  <2>4. Chain'
    BY <2>1, <2>2, <2>3, ChainMoved
  <2>. QED  BY <2>1, <2>4 DEF Touches
<1>10. CASE Timeout(m)
  <2>1. msgs[m].awaits \in Ids /\ msgs[msgs[m].awaits].phase = "failed"
    BY <1>10 DEF Timeout, Is
  <2>. QED  BY <2>1 DEF Chain, ChainPhase
<1>. QED
  BY <1>1, <1>2, <1>3, <1>4, <1>5, <1>6, <1>7, <1>8, <1>9, <1>10 DEF Advance

\* A command has one slip, and reports failure only when that has been rejected.
OneSlip ==
    /\ \A s, t \in SlipIds : slips[s].command = slips[t].command => s = t
    /\ \A s \in SlipIds :
           /\ msgs[slips[s].command].phase # "queued" /\ slips[s].state # "lost"
           /\ msgs[slips[s].command].phase = "caught" => slips[s].state = "rejected"
    /\ \A r \in Ids : \A s \in SlipIds :
           LET m == slips[s].command IN
           msgs[r].parent = m /\ msgs[r].kind = Fallback[msgs[m].kind] =>
               slips[s].state = "rejected"

\* The handler of a slip goes on.
LEMMA ChainWorks ==
    ASSUME HybridTyped, Chain, NEW m \in Ids, msgs[m].kind \in SlipCommands,
           NEW x \in {"working", "fulfilled", "caught"}, msgs' = Goto(m, x), row' = row,
           msgs[m].phase \in {"queued", "working"}
    PROVE  /\ Chain' /\ Len(msgs') = Len(msgs) /\ msgs'[m].phase = x
           /\ \A i \in Ids : Same(i) /\ (i # m => msgs'[i] = msgs[i])
<1>1. Touches(m) /\ msgs'[m].phase = x
  BY CommandWent
<1>2. m = Len(msgs) /\ ~Over(m)
  BY AtEnd DEF Over
<1>3. ~IsEvent(m) /\ ~Over(m)' /\ msgs'[m].kind = msgs[m].kind
  BY <1>1, HybridFacts DEF Over, Touches, Same
<1>4. ChainEnd'
  <2>1. Reached(m - 1)
    BY <1>2, <1>3 DEF Chain, ChainEnd
  <2>2. m - 1 \in Ids
    <3>1. m # 1
      BY <1>3, SagaAssumption DEF Chain, ChainLink, IsEvent
    <3>. QED  BY <3>1, HybridFacts DEF Ids
  <2>3. Reached(m - 1)'
    <3>1. m - 1 # m
      BY HybridFacts
    <3>. QED  BY <1>1, <2>1, <2>2, <3>1 DEF Touches, Reached
  <2>4. Len(msgs') = m
    BY <1>1, <1>2 DEF Touches
  <2>. QED  BY <1>1, <1>3, <2>3, <2>4 DEF ChainEnd, IsEvent
<1>5. Chain'
  BY <1>1, <1>2, <1>3, <1>4, ChainMoved
<1>. QED  BY <1>1, <1>5 DEF Touches, Same

LEMMA StraightNext ==
    ASSUME ReportsExpected, HybridTyped, HybridTyped', [HybridNext]_hybridVars,
           Undisturbed => Chain /\ OneSlip, Undisturbed'
    PROVE  Chain' /\ OneSlip'
<1>1. CASE UNCHANGED hybridVars
  <2>1. Undisturbed
    BY <1>1 DEF hybridVars, Undisturbed
  <2>2. msgs' = msgs /\ row' = row /\ slips' = slips
    BY <1>1 DEF hybridVars
  <2>3. Chain'
    BY <2>1, <2>2 DEF Chain, ChainLink, ChainPhase, ChainEnd, Over, Reached, CanSaveNow, Ids, IsEvent
  <2>4. OneSlip'
    BY <2>1, <2>2 DEF OneSlip, SlipIds, Ids
  <2>. QED  BY <2>3, <2>4
<1>k. crashes \in Nat /\ faults \in Nat
  BY SagaAssumption DEF HybridTyped, Typed
<1>f. ~Fault
  BY <1>k DEF Fault, Undisturbed
<1>2. ASSUME NEW m \in Ids, Advance(m), UNCHANGED slips
      PROVE  Chain' /\ OneSlip'
  <2>1. crashes' = crashes /\ faults' = faults
    BY <1>2 DEF Advance, Find, Save, SaveConflict, SendCommand, Finalize, HandleCommand,
                SendFallback, Reply, Ack, Timeout
  <2>2. Chain /\ OneSlip
    BY <2>1 DEF Undisturbed
  <2>3. /\ Chain'
        /\ \A i \in Ids : msgs'[i].phase = "caught" => msgs[i].phase = "caught"
    BY <1>2, <2>2, ChainAdvanced
  <2>4. /\ Len(msgs') = Len(msgs) \/ Adds(m)
        /\ \A i \in Ids : Same(i) /\ (msgs'[i].phase = "queued" => msgs[i].phase = "queued")
    BY <1>2, SagaStep DEF Quiet
  <2>5. /\ SlipIds' = SlipIds /\ slips' = slips
        /\ \A s \in SlipIds : slips[s].command \in Ids
                              /\ msgs[slips[s].command].kind \in SlipCommands
    BY <1>2 DEF SlipIds, HybridTyped, Owned
  <2>6. ASSUME NEW r \in Ids', NEW s \in SlipIds, msgs'[r].parent = slips[s].command,
               msgs'[r].kind = Fallback[msgs'[slips[s].command].kind]
        PROVE  slips[s].state = "rejected"
    <3>. DEFINE c == slips[s].command
    <3>1. msgs'[c].kind = msgs[c].kind /\ c \in Ids /\ msgs[c].kind \in SlipCommands
      BY <2>4, <2>5 DEF Same
    <3>2. CASE r \in Ids
      <4>1. msgs[r].parent = c /\ msgs[r].kind = Fallback[msgs[c].kind]
        BY <2>4, <2>6, <3>1, <3>2 DEF Same
      <4>. HIDE DEF c
      <4>. QED  BY <2>2, <3>2, <4>1 DEF OneSlip, c
    <3>3. CASE r \notin Ids
      <4>1. Adds(m) /\ r = Len(msgs')
        BY <2>4, <3>3, HybridFacts DEF Ids, Adds
      <4>2. c = m
        BY <2>6, <4>1 DEF Adds
      <4>3. ~IsEvent(m) /\ msgs[m].kind \notin DOMAIN Outcomes
        BY <3>1, <4>2, HybridFacts
      <4>4. msgs[m].phase = "caught"
        BY <4>1, <4>3 DEF Adds
      <4>. QED  BY <2>2, <4>2, <4>4 DEF OneSlip
    <3>. QED  BY <3>2, <3>3
  <2>7. ASSUME NEW s \in SlipIds
        PROVE  /\ msgs'[slips[s].command].phase # "queued" /\ slips[s].state # "lost"
               /\ msgs'[slips[s].command].phase = "caught" => slips[s].state = "rejected"
    BY <2>2, <2>3, <2>4, <2>5 DEF OneSlip
  <2>. QED  BY <2>2, <2>3, <2>5, <2>6, <2>7 DEF OneSlip
<1>3. ASSUME NEW m \in Ids, StartSlip(m)
      PROVE  Chain' /\ OneSlip'
  <2>. DEFINE n == Len(slips) + 1
  <2>1. /\ msgs[m].kind \in SlipCommands /\ msgs[m].phase = "queued"
        /\ Len(slips') = n /\ \A s \in SlipIds : slips'[s] = slips[s]
        /\ UNCHANGED <<row, crashes, faults>>
    BY <1>3, SlipStarted
  <2>2. slips'[n].command = m /\ slips'[n].state = "forward"
    <3>1. slips'[Len(slips')] = [command |-> m, state |-> "forward", done |-> 0]
      BY <1>3, SlipStarted
    <3>. QED  BY <2>1, <3>1
  <2>3. Chain /\ OneSlip
    BY <2>1 DEF Undisturbed
  <2>4. /\ Chain' /\ Len(msgs') = Len(msgs) /\ msgs'[m].phase = "working"
        /\ \A i \in Ids : Same(i) /\ (i # m => msgs'[i] = msgs[i])
    BY <1>3, <2>1, <2>3, ChainWorks DEF StartSlip
  <2>5. Len(slips) \in Nat /\ Ids' = Ids /\ m \in Nat /\ Len(msgs) \in Nat
    BY <2>4, HybridFacts DEF Ids
  <2>6. SlipIds' = SlipIds \cup {n} /\ n \notin SlipIds
    BY <2>1, <2>5 DEF SlipIds
  <2>. HIDE DEF n
  <2>7. \A s \in SlipIds : slips[s].command \in Ids /\ slips[s].command # m
    BY <2>1, <2>3 DEF OneSlip, HybridTyped, Owned
  <2>8. m = Len(msgs)
    BY <2>1, <2>3, AtEnd
  <2>9. ASSUME NEW r \in Ids, msgs'[r].parent = m
        PROVE  FALSE
    <3>1. msgs[r].parent \in 0 .. r - 1 /\ r \in Nat
      BY HybridFacts DEF MessagesTyped
    <3>2. r <= m
      BY <2>8 DEF Ids
    <3>3. msgs[r].parent = m
      BY <2>4, <2>9 DEF Same
    <3>. QED  BY <2>5, <3>1, <3>2, <3>3
  <2>10. ASSUME NEW s \in SlipIds', NEW t \in SlipIds', slips'[s].command = slips'[t].command
         PROVE  s = t
    BY <2>1, <2>2, <2>3, <2>6, <2>7, <2>10 DEF OneSlip
  <2>11. ASSUME NEW s \in SlipIds'
         PROVE  /\ msgs'[slips'[s].command].phase # "queued" /\ slips'[s].state # "lost"
                /\ msgs'[slips'[s].command].phase = "caught" => slips'[s].state = "rejected"
    <3>1. CASE s = n
      BY <2>2, <2>4, <3>1
    <3>2. CASE s \in SlipIds
      BY <2>1, <2>3, <2>4, <2>7, <3>2 DEF OneSlip
    <3>. QED  BY <2>6, <3>1, <3>2
  <2>12. ASSUME NEW r \in Ids, NEW s \in SlipIds', msgs'[r].parent = slips'[s].command,
                msgs'[r].kind = Fallback[msgs'[slips'[s].command].kind]
         PROVE  slips'[s].state = "rejected"
    <3>1. CASE s = n
      BY <2>2, <2>9, <2>12, <3>1
    <3>2. CASE s \in SlipIds
      <4>1. slips'[s] = slips[s] /\ slips[s].command \in Ids
        BY <2>1, <2>7, <3>2
      <4>2. msgs[r].parent = slips[s].command
            /\ msgs[r].kind = Fallback[msgs[slips[s].command].kind]
        BY <2>4, <2>12, <4>1 DEF Same
      <4>. QED  BY <2>3, <3>2, <4>1, <4>2 DEF OneSlip
    <3>. QED  BY <2>6, <3>1, <3>2
  <2>. QED  BY <2>4, <2>5, <2>10, <2>11, <2>12 DEF OneSlip
<1>4. ASSUME NEW m \in Ids, SendSuccess(m)
      PROVE  Chain' /\ OneSlip'
  <2>. DEFINE n == m + 1
  <2>1. /\ msgs[m].kind \in SlipCommands /\ msgs[m].phase = "fulfilled"
        /\ Sends1(m, Success[msgs[m].kind], msgs[m].header)
        /\ UNCHANGED <<row, crashes, faults, slips>>
    BY <1>4, SuccessSent
  <2>2. Chain /\ OneSlip
    BY <2>1 DEF Undisturbed
  <2>3. m = Len(msgs) /\ ~Over(m)
    BY <2>1, <2>2, AtEnd DEF Over
  <2>4. /\ Len(msgs') = n /\ msgs'[n].kind = Success[msgs[m].kind]
        /\ msgs'[n].phase = "queued" /\ msgs'[n].parent = m
        /\ msgs'[m].phase = "waiting" /\ msgs'[m].awaits = n
        /\ \A i \in Ids : Same(i) /\ (i # m => msgs'[i] = msgs[i])
    BY <2>1, <2>3 DEF Sends1, Message, Same
  <2>5. ~IsEvent(m) /\ Ids' = Ids \cup {n}
    BY <2>1, <2>3, <2>4, HybridFacts DEF Ids
  <2>. HIDE DEF n
  <2>6. /\ msgs'[n].kind \in Events /\ msgs'[n].kind \in Sendable(msgs[m].kind)
        /\ msgs'[n].kind # Fallback[msgs[m].kind]
    BY <2>1, <2>4, HybridAssumption DEF Sendable
  <2>7. Reached(m - 1)
    BY <2>1, <2>2, <2>3, <2>5 DEF Chain, ChainEnd
  <2>8. Chain'
    BY <2>1, <2>2, <2>3, <2>4, <2>5, <2>6, <2>7, ChainSent DEF n
  <2>9. \A s \in SlipIds : slips[s].command \in Ids
    BY DEF HybridTyped, Owned
  <2>10. SlipIds' = SlipIds /\ slips' = slips
    BY <2>1 DEF SlipIds
  <2>11. ASSUME NEW r \in Ids', NEW s \in SlipIds, msgs'[r].parent = slips[s].command,
                msgs'[r].kind = Fallback[msgs'[slips[s].command].kind]
         PROVE  slips[s].state = "rejected"
    <3>1. msgs'[slips[s].command].kind = msgs[slips[s].command].kind
      BY <2>4, <2>9 DEF Same
    <3>2. r # n
      BY <2>4, <2>6, <2>11, <3>1
    <3>3. r \in Ids /\ msgs[r].parent = slips[s].command
          /\ msgs[r].kind = Fallback[msgs[slips[s].command].kind]
      BY <2>4, <2>5, <2>11, <3>1, <3>2 DEF Same
    <3>. QED  BY <2>2, <3>3 DEF OneSlip
  <2>12. ASSUME NEW s \in SlipIds
         PROVE  /\ msgs'[slips[s].command].phase # "queued" /\ slips[s].state # "lost"
                /\ msgs'[slips[s].command].phase = "caught" => slips[s].state = "rejected"
    BY <2>2, <2>4, <2>9 DEF OneSlip
  <2>. QED  BY <2>2, <2>8, <2>10, <2>11, <2>12 DEF OneSlip
<1>5. ASSUME NEW s \in SlipIds, ExecuteSlip(s)
      PROVE  Chain' /\ OneSlip'
  <2>1. PICK c \in Ids : c = slips[s].command /\ msgs[c].kind \in SlipCommands
    BY DEF HybridTyped, Owned
  <2>2. /\ Len(slips') = Len(slips) /\ KeepsSlips /\ Live(slips[s])
        /\ \A t \in SlipIds : t # s => slips'[t] = slips[t]
        /\ UNCHANGED <<row, crashes, faults>>
    BY <1>5, SlipStep
  <2>3. \/ msgs' = msgs /\ Live(slips'[s])
        \/ msgs' = Goto(c, "fulfilled") /\ slips'[s].state = "resolved"
        \/ msgs' = Goto(c, "caught") /\ slips'[s].state = "rejected"
    BY <1>5, <2>1, SlipStep
  <2>4. Chain /\ OneSlip
    BY <2>2 DEF Undisturbed
  <2>5. msgs[c].phase = "working" /\ slips[s].state \notin {"rejected", "lost"}
    BY <2>1, <2>2 DEF HybridTyped, Owned, Live
  <2>6. /\ Chain' /\ Len(msgs') = Len(msgs)
        /\ \A i \in Ids : Same(i) /\ (i # c => msgs'[i] = msgs[i])
        /\ msgs'[c].phase # "queued" /\ slips'[s].state # "lost"
        /\ msgs'[c].phase = "caught" => slips'[s].state = "rejected"
    <3>1. CASE msgs' = msgs /\ Live(slips'[s])
      <4>1. Chain'
        BY <2>2, <2>4, <3>1 DEF Chain, ChainLink, ChainPhase, ChainEnd, Over, Reached, CanSaveNow,
                                Ids, IsEvent
      <4>. QED  BY <2>5, <3>1, <4>1 DEF Same, Live
    <3>2. CASE msgs' = Goto(c, "fulfilled") /\ slips'[s].state = "resolved"
      BY <2>1, <2>2, <2>4, <2>5, <3>2, ChainWorks
    <3>3. CASE msgs' = Goto(c, "caught") /\ slips'[s].state = "rejected"
      BY <2>1, <2>2, <2>4, <2>5, <3>3, ChainWorks
    <3>. QED  BY <2>3, <3>1, <3>2, <3>3
  <2>7. /\ SlipIds' = SlipIds /\ Ids' = Ids
        /\ \A t \in SlipIds : slips'[t].command = slips[t].command /\ slips[t].command \in Ids
    BY <2>2, <2>6 DEF SlipIds, Ids, KeepsSlips, HybridTyped, Owned
  <2>8. \A t \in SlipIds : t # s => slips[t].command # c
    BY <2>1, <2>4 DEF OneSlip
  <2>9. ASSUME NEW t \in SlipIds
        PROVE  /\ msgs'[slips'[t].command].phase # "queued" /\ slips'[t].state # "lost"
               /\ msgs'[slips'[t].command].phase = "caught" => slips'[t].state = "rejected"
    <3>1. CASE t = s
      BY <2>1, <2>6, <2>7, <3>1
    <3>2. CASE t # s
      BY <2>2, <2>4, <2>6, <2>7, <2>8, <3>2 DEF OneSlip
    <3>. QED  BY <3>1, <3>2
  <2>10. ASSUME NEW r \in Ids, NEW t \in SlipIds, msgs'[r].parent = slips'[t].command,
                msgs'[r].kind = Fallback[msgs'[slips'[t].command].kind]
         PROVE  slips'[t].state = "rejected"
    <3>1. msgs[r].parent = slips[t].command
          /\ msgs[r].kind = Fallback[msgs[slips[t].command].kind]
      BY <2>6, <2>7, <2>10 DEF Same
    <3>2. slips[t].state = "rejected"
      BY <2>4, <3>1 DEF OneSlip
    <3>. QED  BY <2>2, <2>5, <3>2
  <2>11. \A t, u \in SlipIds : slips'[t].command = slips'[u].command => t = u
    BY <2>4, <2>7 DEF OneSlip
  <2>. QED  BY <2>6, <2>7, <2>9, <2>10, <2>11 DEF OneSlip
<1>6. ASSUME NEW m \in Ids, SendSuccessFails(m) \/ Disturb(m)
      PROVE  FALSE
  BY <1>6, <1>f DEF SendSuccessFails, Disturb, SaveAnswerLost, FinalizeAnswerLost, CallFails,
                    TimeoutTooSoon
<1>7. ASSUME NEW process \in Processes, Crash(process)
      PROVE  FALSE
  <2>1. crashes' = crashes + 1
    BY <1>7 DEF Crash
  <2>2. crashes' = 0
    BY DEF Undisturbed
  <2>. QED  BY <1>k, <2>1, <2>2
<1>. QED  BY <1>1, <1>2, <1>3, <1>4, <1>5, <1>6, <1>7
          DEF HybridNext, HybridProgress, SlipIds

\* What the saga is told of a slip is what happened to it.  It is told of success
\* only after a slip that kept all its work or, with the distributed executor,
\* none of it; of an order that nothing disturbs it is told of failure only when no
\* slip has work in place, and never of both.
THEOREM ReportsCorrect ==
    ASSUME Submissions = 1, ReportsExpected
    PROVE  HybridSpec => []ReportsAreTrue
<1>. DEFINE Straight == Undisturbed => Chain /\ OneSlip
<1>1. HybridInit => Straight
  <2>. SUFFICES ASSUME HybridInit PROVE Chain /\ OneSlip
    OBVIOUS
  <2>1. Len(msgs) = 1 /\ msgs[1] = Message(Starting, 0, 0) /\ row = NoRow
    BY DEF HybridInit, Init
  <2>2. Ids = {1} /\ SlipIds = {}
    BY <2>1 DEF Ids, SlipIds, HybridInit
  <2>3. /\ msgs[1].parent = 0 /\ msgs[1].kind = Starting /\ msgs[1].phase = "queued"
        /\ IsEvent(1)
    BY <2>1, SagaAssumption DEF Message, IsEvent
  <2>. QED  BY <2>1, <2>2, <2>3 DEF Chain, ChainLink, ChainPhase, ChainEnd, OneSlip
<1>2. HybridTyped /\ HybridTyped' /\ Straight /\ [HybridNext]_hybridVars => Straight'
  BY StraightNext
<1>3. HybridTyped /\ Told /\ Straight => ReportsAreTrue
  <2>. SUFFICES ASSUME HybridTyped, Told, Straight,
                       NEW m \in Ids, msgs[m].kind \in SlipCommands
                PROVE  LET told == Reports(m, Success[msgs[m].kind])
                           toldFailed == Reports(m, Fallback[msgs[m].kind])
                       IN  /\ told # {} =>
                                  \E s \in Slips(m, "resolved") : Resolvable(slips[s])
                           /\ Undisturbed /\ toldFailed # {} =>
                                  /\ told = {}
                                  /\ \A s \in 1 .. Len(slips) :
                                         slips[s].command = m => slips[s].done = 0
    BY DEF ReportsAreTrue
  <2>1. ASSUME NEW r \in Reports(m, Success[msgs[m].kind])
        PROVE  \E s \in Slips(m, "resolved") : Resolvable(slips[s])
    <3>1. r \in Ids /\ Succeeded(r, m)
      BY <2>1 DEF Reports, Succeeded
    <3>2. PICK s \in SlipIds : slips[s].command = m /\ slips[s].state = "resolved"
      BY <3>1 DEF Told, HasResolved
    <3>. QED  BY <3>2 DEF Told, SlipsEnded, Slips, SlipIds
  <2>2. ASSUME Undisturbed, NEW r \in Reports(m, Fallback[msgs[m].kind])
        PROVE  /\ Reports(m, Success[msgs[m].kind]) = {}
               /\ \A s \in SlipIds : slips[s].command = m => slips[s].done = 0
    <3>1. /\ Chain /\ OneSlip
          /\ r \in Ids /\ msgs[r].parent = m /\ msgs[r].kind = Fallback[msgs[m].kind]
      BY <2>2 DEF Reports
    <3>2. ASSUME NEW q \in Reports(m, Success[msgs[m].kind])
          PROVE  FALSE
      <4>1. q \in Ids /\ msgs[q].parent = m /\ msgs[q].kind = Success[msgs[m].kind]
        BY <3>2 DEF Reports
      <4>2. q = r
        <5>1. msgs[q].parent = q - 1 /\ msgs[r].parent = r - 1
          BY <3>1, <4>1 DEF Chain, ChainLink
        <5>. QED  BY <3>1, <4>1, <5>1, HybridFacts
      <4>. QED  BY <3>1, <4>1, <4>2, HybridAssumption
    <3>3. ASSUME NEW s \in SlipIds, slips[s].command = m
          PROVE  slips[s].done = 0
      <4>1. slips[s].state = "rejected"
        BY <3>1, <3>3 DEF OneSlip
      <4>. QED  BY <4>1 DEF Told, SlipsEnded
    <3>. QED  BY <3>2, <3>3
  <2>. QED  BY <2>1, <2>2 DEF SlipIds
<1>. HIDE DEF Straight
<1>. QED  BY <1>1, <1>2, <1>3, ToldInvariant, PTL DEF HybridSpec
=============================================================================
