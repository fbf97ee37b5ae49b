-------------------------------- MODULE Saga --------------------------------
(***************************************************************************)
(* One saga (one CorrelationId) of a state machine,                        *)
(* lib/factories/saga.bustransit.state-machine.ts, on a database or the    *)
(* in-memory repository, with the consumers that carry out its commands.   *)
(*                                                                         *)
(* A conversation is a chain of nested calls: the handler of an event      *)
(* saves the saga, sends a command with PublishEndpoint.Send and waits for *)
(* its reply; the consumer of the command in turn sends the next event and *)
(* waits for it.  Every handler in between holds its unacknowledged        *)
(* message.  A message is its position in msgs; the payload is left out.   *)
(***************************************************************************)
EXTENDS SagaRow, Sequences, FiniteSets

CONSTANTS
    Events, Commands,
    Starting,    \* the event that clients of the system publish
    Submissions, \* how often they publish it
    Previous,    \* event -> previousStates of its binder
    Target,      \* event -> transitionTo
    CommandOf,   \* event -> the command of publishAsync, of the events with one
    FinalEvents, \* events whose binder has finalize
    Outcomes,    \* command -> events its consumer may send, {} if it just answers
    Fallback,    \* command -> event its consumer sends from its catch block
    Durable,     \* a database keeps the saga, and not the memory of the process
    Archives,    \* options.autoArchive
    Processes,   \* the kinds of messages handled by each process that may die
    Prefetch,    \* prefetch count of the saga's queue
    MaxTries,    \* retries of the saga's consumer, 0 without UseMessageRetry
    MaxCrashes,  \* bound: crashes of a process with messages unacknowledged
    MaxFaults,   \* bound: calls that fail for good, or are answered too late
    MaxTroubles  \* bound: crashes and failures together

Initially == "INITIALLY"

ASSUME SagaAssumption ==
    /\ Starting \in Events /\ IsFiniteSet(Events)
    /\ Events \cap Commands = {}
    /\ DOMAIN CommandOf \subseteq Events /\ CommandOf \in [DOMAIN CommandOf -> Commands]
    /\ DOMAIN Outcomes \cup DOMAIN Fallback \subseteq Commands
    /\ Outcomes \in [DOMAIN Outcomes -> SUBSET Events]
    /\ Fallback \in [DOMAIN Fallback -> Events]
    /\ FinalEvents \subseteq Events
    /\ UNION Processes \subseteq Events \cup Commands
    /\ Initially \notin {Target[e] : e \in Events}
    /\ {Submissions, Prefetch} \subseteq Nat \ {0}
    /\ {MaxTries, MaxCrashes, MaxFaults, MaxTroubles} \subseteq Nat
    /\ {Durable, Archives} \subseteq BOOLEAN

VARIABLES
    row,     \* the row of the saga, its content the CurrentState
    msgs,    \* every message so far, with the progress of its handler
    crashes, \* crashes so far
    faults   \* failures so far

vars == <<row, msgs, crashes, faults>>

NoRow == AfterDelete(Initially)

\* A message and the handler that has it.  version is the one of ctx.Saga:
\* after Find the row's, and before that the snapshot in the message's headers.
Message(kind, parent, header) ==
    [kind |-> kind, parent |-> parent, header |-> header, phase |-> "queued",
     tries |-> 0, version |-> header, awaits |-> 0]

Init ==
    /\ row = NoRow
    /\ msgs = [i \in 1 .. Submissions |-> Message(Starting, 0, 0)]
    /\ crashes = 0
    /\ faults = 0

-----------------------------------------------------------------------------
\* Mutants of the definitions that follow.

FreeSlot_OffByOne ==
    Cardinality({m \in 1 .. Len(msgs) :
        /\ msgs[m].kind \in Events
        /\ msgs[m].phase \notin {"queued", "done", "failed"}}) < Prefetch - 1

FoundVersion_OfArchivedToo(m) == row.version

Failed_OffByOne(m) ==
    IF msgs[m].kind \in Events /\ msgs[m].tries <= MaxTries
    THEN [msgs EXCEPT ![m].phase = "ready", ![m].tries = @ + 1]
    ELSE [msgs EXCEPT ![m].phase = "failed"]

Accepts_Anything(event, state) == TRUE

CanSaveNow_Unchecked(m) == TRUE

SaveConflict_Ignored(m) ==
    /\ m \in 1 .. Len(msgs)
    /\ msgs[m].phase = "saving"
    /\ ~CanSave(row, msgs[m].version)
    /\ msgs' = [msgs EXCEPT ![m].phase = "saved"]
    /\ UNCHANGED <<row, crashes, faults>>

SendCommand_BeforeSave(m) ==
    /\ m \in 1 .. Len(msgs)
    /\ msgs[m].phase = "saving"
    /\ CanSave(row, msgs[m].version)
    /\ msgs' = Append([msgs EXCEPT ![m].phase = "waiting", ![m].awaits = Len(msgs) + 1],
                      Message(CommandOf[msgs[m].kind], m, msgs[m].version))
    /\ UNCHANGED <<row, crashes, faults>>

Timeout_Never(m) == FALSE /\ UNCHANGED vars

-----------------------------------------------------------------------------
Ids == 1 .. Len(msgs)

Is(m, phase) == m \in Ids /\ msgs[m].phase = phase

IsEvent(m) == msgs[m].kind \in Events

\* Delivered and not acknowledged.
InFlight(m) == msgs[m].phase \notin {"queued", "done", "failed"}

FreeSlot == Cardinality({m \in Ids : IsEvent(m) /\ InFlight(m)}) < Prefetch

Goto(m, phase) == [msgs EXCEPT ![m].phase = phase]

\* What the state machine works on: the saga found, or a new one, which keeps
\* the version of the message's headers.
FoundState == IF Visible(row) THEN row.content ELSE Initially

FoundVersion(m) == IF Visible(row) THEN row.version ELSE msgs[m].header

\* The consumer of the command is in the try block whose catch block reports
\* the failure, and not in the catch block itself.
Catches(m) ==
    /\ msgs[m].kind \in DOMAIN Fallback
    /\ msgs[m].phase # "caught"
    /\ msgs[m].phase = "waiting" => msgs[msgs[m].awaits].kind # Fallback[msgs[m].kind]

\* An attempt of the handler failed: it catches that, rxjs retries it, or the
\* message moves to the error queue, and nobody answers its sender.
Failed(m) ==
    IF IsEvent(m) /\ msgs[m].tries < MaxTries
    THEN [msgs EXCEPT ![m].phase = "ready", ![m].tries = @ + 1]
    ELSE Goto(m, IF Catches(m) THEN "caught" ELSE "failed")

\* channelTemp.publish: a child message, with a snapshot of ctx.Saga.
Sent(m, kind, header) ==
    Append([msgs EXCEPT ![m].phase = "waiting", ![m].awaits = Len(msgs) + 1],
           Message(kind, m, header))

\* What a handler does once its command is answered, or when it has none.
AfterCommand(kind) == IF kind \in FinalEvents THEN "answered" ELSE "finished"

\* The reply resolves the promise of the sender that still waits for it.
Answered(m) ==
    LET p == msgs[m].parent
        waits == p # 0 /\ Is(p, "waiting") /\ msgs[p].awaits = m
    IN  [i \in Ids |->
            IF i = m THEN [msgs[m] EXCEPT !.phase = "acking"]
            ELSE IF i = p /\ waits THEN [msgs[p] EXCEPT !.phase = AfterCommand(msgs[p].kind)]
            ELSE msgs[i]]

-----------------------------------------------------------------------------
\* The guard of Consume: a new saga accepts every event.
Accepts(event, state) == state = Initially \/ state \in Previous[event]

\* Delivered for the first time or again, or retried in process.
Deliverable(m) == Is(m, "ready") \/ (Is(m, "queued") /\ (IsEvent(m) => FreeSlot))

\* The consumer of the command sends an event and waits for its reply.
Calls(m) == msgs[m].kind \in DOMAIN Outcomes /\ Outcomes[msgs[m].kind] # {}

\* Load the saga, check the event, run stepThen and transitionTo.
Find(m) ==
    /\ Deliverable(m)
    /\ IsEvent(m)
    /\ msgs' = IF Accepts(msgs[m].kind, FoundState)
               THEN [msgs EXCEPT ![m].phase = "saving", ![m].version = FoundVersion(m)]
               ELSE Failed(m)
    /\ UNCHANGED <<row, crashes, faults>>

\* A saga in memory has no version (1 here): the last save wins.
Saved(content) ==
    IF Durable THEN AfterSave(row, content)
    ELSE [version |-> 1, archived |-> FALSE, content |-> content]

CanSaveNow(m) == Durable => CanSave(row, msgs[m].version)

Save(m) ==
    /\ Is(m, "saving")
    /\ CanSaveNow(m)
    /\ row' = Saved(Target[msgs[m].kind])
    /\ msgs' = LET kind == msgs[m].kind
                   next == IF kind \in DOMAIN CommandOf THEN "saved" ELSE AfterCommand(kind)
               IN  [msgs EXCEPT ![m].phase = next, ![m].version = row'.version]
    /\ UNCHANGED <<crashes, faults>>

\* The repository gives up on a version that does not match.
SaveConflict(m) ==
    /\ Is(m, "saving")
    /\ ~CanSaveNow(m)
    /\ msgs' = Failed(m)
    /\ UNCHANGED <<row, crashes, faults>>

Trouble == crashes + faults < MaxTroubles

Fault == Trouble /\ faults < MaxFaults /\ faults' = faults + 1

\* save() threw although its statement took effect: only the answer was lost.
SaveAnswerLost(m) ==
    /\ Is(m, "saving")
    /\ Durable
    /\ CanSaveNow(m)
    /\ Fault
    /\ row' = AfterSave(row, Target[msgs[m].kind])
    /\ msgs' = Failed(m)
    /\ UNCHANGED crashes

SendCommand(m) ==
    /\ Is(m, "saved")
    /\ msgs' = Sent(m, CommandOf[msgs[m].kind], msgs[m].version)
    /\ UNCHANGED <<row, crashes, faults>>

\* The repository or the connection fails, and nothing took effect.  Nothing
\* fails in memory, but the first call of a consumer sends its event.
CallFails(m) ==
    /\ \/ Deliverable(m) /\ (IF IsEvent(m) THEN Durable ELSE Calls(m))
       \/ Is(m, "saving") /\ Durable
       \/ Is(m, "saved")
       \/ Is(m, "answered") /\ Durable
       \/ Is(m, "caught")
    /\ Fault
    /\ msgs' = Failed(m)
    /\ UNCHANGED <<row, crashes>>

\* In memory an archived saga moves to another map, which nobody searches.
RemovedRow == IF Archives /\ Durable THEN AfterArchive(row) ELSE AfterDelete(Initially)

\* A final event archives or deletes the saga, whatever became of it since.
Finalize(m) ==
    /\ Is(m, "answered")
    /\ row' = RemovedRow
    /\ msgs' = Goto(m, "finished")
    /\ UNCHANGED <<crashes, faults>>

FinalizeAnswerLost(m) ==
    /\ Is(m, "answered")
    /\ Durable
    /\ Fault
    /\ row' = RemovedRow
    /\ msgs' = Failed(m)
    /\ UNCHANGED crashes

-----------------------------------------------------------------------------
\* The consumers of commands are outside lib: they send one of the outcomes and
\* return its reply, or answer at once.  ctx.Saga is the one of the headers.
HandleCommand(m) ==
    /\ Deliverable(m)
    /\ msgs[m].kind \in DOMAIN Outcomes
    /\ \/ \E event \in Outcomes[msgs[m].kind] : msgs' = Sent(m, event, msgs[m].header)
       \/ Outcomes[msgs[m].kind] = {} /\ msgs' = Goto(m, "finished")
    /\ UNCHANGED <<row, crashes, faults>>

\* The catch block of a consumer reports a failure, of its work or of the call
\* that reported its success.
SendFallback(m) ==
    /\ Is(m, "caught")
    /\ msgs' = Sent(m, Fallback[msgs[m].kind], msgs[m].header)
    /\ UNCHANGED <<row, crashes, faults>>

-----------------------------------------------------------------------------
\* The consumer pipeline of the broker, for events and commands.

Reply(m) ==
    /\ Is(m, "finished")
    /\ msgs' = Answered(m)
    /\ UNCHANGED <<row, crashes, faults>>

Ack(m) ==
    /\ Is(m, "acking")
    /\ msgs' = Goto(m, "done")
    /\ UNCHANGED <<row, crashes, faults>>

\* No answer within ten seconds, since the message awaited failed ...
Timeout(m) ==
    /\ Is(m, "waiting")
    /\ Is(msgs[m].awaits, "failed")
    /\ msgs' = Failed(m)
    /\ UNCHANGED <<row, crashes, faults>>

\* ... or is still queued, delayed or being handled, and goes on without us.
TimeoutTooSoon(m) ==
    /\ Is(m, "waiting")
    /\ ~Is(msgs[m].awaits, "failed")
    /\ Fault
    /\ msgs' = Failed(m)
    /\ UNCHANGED <<row, crashes>>

\* A process dies with the handlers it runs, and with a saga that was only in
\* its memory; the broker delivers the messages again.
Crash(process) ==
    /\ Trouble
    /\ crashes < MaxCrashes
    /\ crashes' = crashes + 1
    /\ LET dead == {m \in Ids : InFlight(m) /\ msgs[m].kind \in process}
       IN  /\ dead # {}
           /\ msgs' = [m \in Ids |->
                  IF m \in dead
                  THEN [msgs[m] EXCEPT !.phase = "queued", !.tries = 0,
                                       !.version = msgs[m].header, !.awaits = 0]
                  ELSE msgs[m]]
    /\ row' = IF Durable \/ process \cap Events = {} THEN row ELSE NoRow
    /\ UNCHANGED faults

-----------------------------------------------------------------------------
\* What the process of a handler does next.
Advance(m) ==
    \/ Find(m) \/ Save(m) \/ SaveConflict(m) \/ SendCommand(m) \/ Finalize(m)
    \/ HandleCommand(m) \/ SendFallback(m) \/ Reply(m) \/ Ack(m) \/ Timeout(m)

Disturb(m) ==
    SaveAnswerLost(m) \/ FinalizeAnswerLost(m) \/ CallFails(m) \/ TimeoutTooSoon(m)

Progress == \E m \in Ids : Advance(m)

Next ==
    \/ Progress
    \/ \E m \in Ids : Disturb(m)
    \/ \E process \in Processes : Crash(process)

\* The broker delivers to a free slot, promises settle and timers fire: some
\* handler goes on as long as one can.
Spec == Init /\ [][Next]_vars /\ WF_vars(Progress)

-----------------------------------------------------------------------------
States == {Initially} \cup {Target[e] : e \in Events}

FinalStates == {Target[e] : e \in FinalEvents}

Phases == {"queued", "ready", "saving", "saved", "waiting", "answered",
           "finished", "acking", "caught", "done", "failed"}

TypeOK ==
    /\ row \in [version : Nat, archived : BOOLEAN, content : States]
    /\ \A m \in Ids :
           /\ msgs[m].kind \in Events \cup Commands
           /\ msgs[m].phase \in Phases
           /\ msgs[m].parent \in 0 .. m - 1
           /\ msgs[m].awaits \in {0} \cup m + 1 .. Len(msgs)
           /\ msgs[m].tries \in 0 .. MaxTries
           /\ msgs[m].header \in Nat /\ msgs[m].version \in Nat
    /\ crashes \in 0 .. MaxCrashes
    /\ faults \in 0 .. MaxFaults

\* What a state machine has to respect for the properties that follow: it never
\* comes back to a state, leaves no final one, and its command tells which state
\* the saga had entered.
OrderlyWorkflow ==
    /\ \E rank \in [States -> 0 .. Cardinality(Events)] :
           \A e \in Events : \A s \in States \cap Previous[e] : rank[s] < rank[Target[e]]
    /\ \A e \in Events : Previous[e] \cap FinalStates = {}
    /\ \A e, f \in DOMAIN CommandOf : CommandOf[e] = CommandOf[f] => Target[e] = Target[f]

\* The row only ever moves along the workflow, one version at a time: created
\* by the starting event, moved by an event that its state expects.
WorkflowRespected ==
    [][row'.version > row.version =>
          /\ row'.version = row.version + 1
          /\ \E e \in Events :
                /\ row'.content = Target[e]
                /\ IF Exists(row) THEN row.content \in Previous[e] ELSE e = Starting]_vars

Sends(kind) == {m \in Ids : msgs[m].kind = kind}

\* A saga sends each of its commands at most once, whatever is delivered twice,
\* retried or concurrent.
CommandsSentOnce == \A c \in Commands : Cardinality(Sends(c)) <= 1

\* ... and the commands of two ways to end never both.
OneEnding ==
    LET endings == {CommandOf[e] : e \in FinalEvents \cap DOMAIN CommandOf}
    IN  Cardinality({c \in endings : Sends(c) # {}}) <= 1

\* archive() has no version check; still only a saga in a final state is
\* archived, and what is archived no longer changes.
ArchivedIsFrozen ==
    [][/\ row'.archived => row'.content \in FinalStates
       /\ row.archived => row' = row]_vars

\* A command was sent only for a state that is in the database, so no consumer
\* acts on a saga that was never saved.
SavedBeforeSent ==
    \A m \in Ids : msgs[m].kind \in Commands =>
        /\ msgs[m].header <= row.version
        /\ msgs[m].header > 0

\* No handler hangs: whatever fails, each message is in the end acknowledged,
\* after its handler returned or it moved to the error queue.
HandlersEnd == <>[](\A m \in Ids : msgs[m].phase \in {"done", "failed"})

\* A saga that was submitted comes to its end ...
SagaFinishes == <>(Exists(row) /\ row.archived)

\* ... when no call fails and no process dies, however often it is submitted.
SagaFinishesUndisturbed == [](crashes = 0 /\ faults = 0) => SagaFinishes

=============================================================================
