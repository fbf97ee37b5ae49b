---------------------------- MODULE SagaRepository ----------------------------
(***************************************************************************)
(* A database saga repository, mongodb-saga.repository.ts and              *)
(* postgresql-saga.repository.ts, on one CorrelationId.  A client is one   *)
(* message handler of a saga state machine: it finds the saga, saves it    *)
(* and, on a final event, archives or deletes it.                          *)
(*                                                                         *)
(* A database may fail before a statement takes effect or after it, when   *)
(* only its answer is lost.  withRetry() treats every error alike.         *)
(***************************************************************************)
EXTENDS SagaRow

CONSTANTS
    Clients,    \* handlers, in any number of processes
    Attempts,   \* options.retry.attempts
    Archives,   \* options.autoArchive: archive() instead of delete()
    MaxFaults,  \* bound: failures of the database
    MaxCalls    \* bound: sagas found, by all clients together

ASSUME RepositoryAssumption ==
    /\ Attempts \in Nat \ {0}
    /\ Archives \in BOOLEAN
    /\ MaxFaults \in Nat
    /\ MaxCalls \in Nat

VARIABLES
    row,      \* the row, its content identified by the save that wrote it
    pc,       \* what each client is doing
    copy,     \* version and content each client's saga object was found with
    attempt,  \* the attempt of the client's current call
    commits,  \* history: statements of the client's save() that took effect
    writes,   \* history: number of saves that took effect so far
    faults,   \* failures of the database so far
    calls     \* number of calls of findByCorrelationId so far

vars == <<row, pc, copy, attempt, commits, writes, faults, calls>>

NoRow == [version |-> 0, archived |-> FALSE, content |-> 0]

\* new _classMessage(): the saga of a handler that finds nothing.
NewSaga == [version |-> 0, content |-> 0]

Calling == {"find", "save", "remove"}

Init ==
    /\ row = NoRow
    /\ pc = [c \in Clients |-> "idle"]
    /\ copy = [c \in Clients |-> NewSaga]
    /\ attempt = [c \in Clients |-> 1]
    /\ commits = [c \in Clients |-> 0]
    /\ writes = 0
    /\ faults = 0
    /\ calls = 0

-----------------------------------------------------------------------------
Goto(c, label) == pc' = [pc EXCEPT ![c] = label]

BeginCall(c, label) ==
    /\ Goto(c, label)
    /\ attempt' = [attempt EXCEPT ![c] = 1]

-----------------------------------------------------------------------------
\* Mutants of the definitions that follow.

Retry_RereadsTheVersion(c) ==
    IF attempt[c] < Attempts
    THEN /\ attempt' = [attempt EXCEPT ![c] = @ + 1]
         /\ copy' = [copy EXCEPT ![c].version = row.version]
         /\ UNCHANGED pc
    ELSE Goto(c, "threw") /\ UNCHANGED <<copy, attempt>>

Retry_Forever(c) == UNCHANGED <<pc, copy, attempt>>

Retry_OffByOne(c) ==
    IF attempt[c] <= Attempts
    THEN attempt' = [attempt EXCEPT ![c] = @ + 1] /\ UNCHANGED <<pc, copy>>
    ELSE Goto(c, "threw") /\ UNCHANGED <<copy, attempt>>

-----------------------------------------------------------------------------
\* The end of one attempt of withRetry() that threw: the operation is called
\* again with the same saga object, or the error leaves the repository.
Retry(c) ==
    IF attempt[c] < Attempts
    THEN attempt' = [attempt EXCEPT ![c] = @ + 1] /\ UNCHANGED <<pc, copy>>
    ELSE Goto(c, "threw") /\ UNCHANGED <<copy, attempt>>

Fault == faults < MaxFaults /\ faults' = faults + 1

\* The statement did not reach the database.
Unreachable(c) ==
    /\ pc[c] \in Calling
    /\ Fault
    /\ Retry(c)
    /\ UNCHANGED <<row, commits, writes, calls>>

-----------------------------------------------------------------------------
BeginFind(c) ==
    /\ pc[c] = "idle"
    /\ calls < MaxCalls
    /\ calls' = calls + 1
    /\ BeginCall(c, "find")
    /\ UNCHANGED <<row, copy, commits, writes, faults>>

Find(c) ==
    /\ pc[c] = "find"
    /\ copy' = [copy EXCEPT ![c] =
           IF Visible(row) THEN [version |-> row.version, content |-> row.content]
           ELSE NewSaga]
    /\ Goto(c, "loaded")
    /\ UNCHANGED <<row, attempt, commits, writes, faults, calls>>

BeginSave(c) ==
    /\ pc[c] = "loaded"
    /\ BeginCall(c, "save")
    /\ commits' = [commits EXCEPT ![c] = 0]
    /\ UNCHANGED <<row, copy, writes, faults, calls>>

\* The upsert of save() matches the row or inserts one.
Matches(c) == pc[c] = "save" /\ CanSave(row, copy[c].version)

Written == AfterSave(row, writes + 1)

Commit(c) ==
    /\ Matches(c)
    /\ row' = Written
    /\ writes' = writes + 1
    /\ commits' = [commits EXCEPT ![c] = @ + 1]

Save(c) ==
    /\ Commit(c)
    /\ copy' = [copy EXCEPT ![c] = [version |-> Written.version, content |-> Written.content]]
    /\ Goto(c, "saved")
    /\ UNCHANGED <<attempt, faults, calls>>

SaveAnswerLost(c) ==
    /\ Commit(c)
    /\ Fault
    /\ Retry(c)
    /\ UNCHANGED calls

\* No row returned, or the unique index rejects the insert of the upsert.
Conflict(c) ==
    /\ pc[c] = "save"
    /\ ~CanSave(row, copy[c].version)
    /\ Retry(c)
    /\ UNCHANGED <<row, commits, writes, faults, calls>>

BeginRemove(c) ==
    /\ pc[c] = "saved"
    /\ BeginCall(c, "remove")
    /\ UNCHANGED <<row, copy, commits, writes, faults, calls>>

Removed == IF Archives THEN AfterArchive(row) ELSE AfterDelete(0)

Remove(c) ==
    /\ pc[c] = "remove"
    /\ row' = Removed
    /\ Goto(c, "idle")
    /\ UNCHANGED <<copy, attempt, commits, writes, faults, calls>>

RemoveAnswerLost(c) ==
    /\ pc[c] = "remove"
    /\ row' = Removed
    /\ Fault
    /\ Retry(c)
    /\ UNCHANGED <<commits, writes, calls>>

\* The handler returned or threw, and the client takes its next message.
NextMessage(c) ==
    /\ pc[c] \in {"saved", "threw"}
    /\ Goto(c, "idle")
    /\ UNCHANGED <<row, copy, attempt, commits, writes, faults, calls>>

-----------------------------------------------------------------------------
\* One attempt of a repository call; it succeeds, conflicts or fails.
Attempt(c) ==
    \/ Find(c) \/ Save(c) \/ SaveAnswerLost(c) \/ Conflict(c)
    \/ Remove(c) \/ RemoveAnswerLost(c) \/ Unreachable(c)

Step(c) ==
    \/ BeginFind(c) \/ BeginSave(c) \/ BeginRemove(c) \/ NextMessage(c)
    \/ Attempt(c)

Next == \E c \in Clients : Step(c)

\* The driver answers every statement or gives up on it.
Spec == Init /\ [][Next]_vars /\ \A c \in Clients : WF_vars(Attempt(c))

-----------------------------------------------------------------------------
Sagas == [version : Nat, content : Nat]

TypeOK ==
    /\ row \in [version : Nat, archived : BOOLEAN, content : Nat]
    /\ pc \in [Clients -> {"idle", "loaded", "saved", "threw"} \cup Calling]
    /\ copy \in [Clients -> Sagas]
    /\ attempt \in [Clients -> 1 .. Attempts]
    /\ commits \in [Clients -> Nat]
    /\ writes \in Nat
    /\ faults \in 0 .. MaxFaults
    /\ calls \in 0 .. MaxCalls

\* One call of save() takes effect at most once, however often withRetry()
\* sends its statement and whatever answers are lost; and if it returns, it did
\* take effect.
SaveTakesEffectOnce ==
    \A c \in Clients :
        /\ commits[c] <= 1
        /\ pc[c] = "saved" => commits[c] = 1

\* docs/SAGA_PERSISTENCE.md: "Prevents concurrent updates to the same saga".  A
\* save overwrites exactly what its client had found, so that no save and no
\* removal in between is lost.
NoLostUpdate ==
    [][\A c \in Clients :
           commits'[c] > commits[c] => row.content = copy[c].content]_vars

\* A saga that was removed stays removed: nobody finds it again.
RemovedIsNotFound ==
    [][Exists(row) /\ ~Visible(row) => ~Visible(row')]_vars

\* Every call of the repository returns or throws, conflicts and faults or not.
CallsSettle ==
    \A c \in Clients : pc[c] \in Calling ~> pc[c] \notin Calling
=============================================================================
