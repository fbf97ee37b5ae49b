------------------------ MODULE SagaRepositoryProofs ------------------------
(***************************************************************************)
(* Proofs about SagaRepository for any clients, attempts, faults and calls *)
(***************************************************************************)
EXTENDS SagaRepository, TLAPS

USE DEF Calling

-----------------------------------------------------------------------------
\* Type correctness.

\* What a failed attempt does to the client that made it.
LEMMA RetryTyped ==
    ASSUME TypeOK, NEW c \in Clients, Retry(c)
    PROVE  /\ pc' \in [Clients -> {"idle", "loaded", "saved", "threw"} \cup Calling]
           /\ copy' = copy
           /\ attempt' \in [Clients -> 1 .. Attempts]
           /\ \A d \in Clients : pc'[d] = pc[d] \/ (d = c /\ pc'[d] = "threw")
  BY RepositoryAssumption DEF TypeOK, Retry, Goto

\* What a save that takes effect does to the row and the counters.
LEMMA CommitTyped ==
    ASSUME TypeOK, NEW c \in Clients, Commit(c)
    PROVE  /\ row' \in [version : Nat, archived : BOOLEAN, content : Nat]
           /\ row'.version = row.version + 1 /\ row'.content = writes + 1
           /\ Written.version = row'.version /\ Written.content = row'.content
           /\ commits' \in [Clients -> Nat]
           /\ commits' = [commits EXCEPT ![c] = commits[c] + 1]
           /\ writes' \in Nat
           /\ Exists(row) => row.version = copy[c].version
<1>. DEFINE Rows == [version : Nat, archived : BOOLEAN, content : Nat]
<1>1. row \in Rows /\ writes \in Nat /\ commits \in [Clients -> Nat]
  BY DEF TypeOK
<1>2. row' = Written
  BY DEF Commit
<1>3. Written \in Rows /\ Written.version = row.version + 1 /\ Written.content = writes + 1
  BY <1>1 DEF Written, AfterSave
<1>4. Exists(row) => row.version = copy[c].version
  BY DEF Commit, Matches, CanSave
<1>5. commits' = [commits EXCEPT ![c] = commits[c] + 1] /\ writes' = writes + 1
  BY DEF Commit
<1>6. commits' \in [Clients -> Nat]
  BY <1>1, <1>5
<1>. QED  BY <1>1, <1>2, <1>3, <1>4, <1>5, <1>6

\* Every step of a client of the repository keeps the types.
LEMMA NextTyped == TypeOK /\ [Next]_vars => TypeOK'
<1> SUFFICES ASSUME TypeOK, [Next]_vars
             PROVE  TypeOK'
  OBVIOUS
<1>1. CASE UNCHANGED vars
  BY <1>1 DEF TypeOK, vars
<1>2. ASSUME NEW c \in Clients, Step(c)
      PROVE  TypeOK'
  <2>1. CASE BeginFind(c)
    BY <2>1, RepositoryAssumption DEF TypeOK, BeginFind, BeginCall, Goto
  <2>2. CASE Find(c)
    <3>1. copy' \in [Clients -> Sagas]
      BY <2>2 DEF TypeOK, Find, NewSaga, Sagas
    <3>. QED  BY <2>2, <3>1 DEF TypeOK, Find, Goto
  <2>3. CASE BeginSave(c)
    BY <2>3, RepositoryAssumption DEF TypeOK, BeginSave, BeginCall, Goto
  <2>4. CASE Save(c)
    <3>1. copy' \in [Clients -> Sagas]
      BY <2>4, CommitTyped DEF TypeOK, Save, Sagas
    <3>. QED  BY <2>4, <3>1, CommitTyped DEF TypeOK, Save, Goto
  <2>5. CASE SaveAnswerLost(c)
    BY <2>5, CommitTyped, RetryTyped, RepositoryAssumption DEF TypeOK, SaveAnswerLost, Fault
  <2>6. CASE Conflict(c)
    BY <2>6, RetryTyped DEF TypeOK, Conflict
  <2>7. CASE BeginRemove(c)
    BY <2>7, RepositoryAssumption DEF TypeOK, BeginRemove, BeginCall, Goto
  <2>8. Removed \in [version : Nat, archived : BOOLEAN, content : Nat]
    <3>1. CASE Archives
      <4>1. row \in [version : Nat, archived : BOOLEAN, content : Nat]
        BY DEF TypeOK
      <4>2. Exists(row) \in BOOLEAN
        BY <4>1 DEF Exists
      <4>. QED  BY <3>1, <4>1, <4>2 DEF Removed, AfterArchive
    <3>2. CASE ~Archives
      BY <3>2 DEF Removed, AfterDelete
    <3>. QED  BY <3>1, <3>2
  <2>9. CASE Remove(c)
    BY <2>8, <2>9 DEF TypeOK, Remove, Goto
  <2>10. CASE RemoveAnswerLost(c)
    BY <2>8, <2>10, RetryTyped, RepositoryAssumption DEF TypeOK, RemoveAnswerLost, Fault
  <2>11. CASE NextMessage(c)
    BY <2>11 DEF TypeOK, NextMessage, Goto
  <2>12. CASE Unreachable(c)
    BY <2>12, RetryTyped, RepositoryAssumption DEF TypeOK, Unreachable, Fault
  <2>. QED  BY <1>2, <2>1, <2>2, <2>3, <2>4, <2>5, <2>6, <2>7, <2>9, <2>10, <2>11, <2>12
            DEF Step, Attempt
<1>. QED  BY <1>1, <1>2 DEF Next

\* Every reachable state is typed, whatever the number of clients.
THEOREM TypeCorrect == Spec => []TypeOK
<1>1. Init => TypeOK
  BY RepositoryAssumption DEF Init, TypeOK, NoRow, NewSaga, Sagas
<1>. QED  BY <1>1, NextTyped, PTL DEF Spec

-----------------------------------------------------------------------------
\* Optimistic locking.  A row that is never deleted only gains versions, so a
\* version stands for one content, and a statement that took effect left a
\* version behind that its own repetition cannot match.

Versions ==
    \A c \in Clients :
        /\ copy[c].version <= row.version
        /\ copy[c].version = row.version => copy[c].content = row.content

Commits ==
    \A c \in Clients :
        /\ commits[c] <= 1
        /\ pc[c] = "save" /\ commits[c] = 1 => copy[c].version < row.version
        /\ pc[c] = "saved" => commits[c] = 1

Absent == row.version = 0 => row.content = 0

LockInv == Versions /\ Commits /\ Absent

\* Without a row and a saga object nothing is committed or stale.
LEMMA InitLock == Init => LockInv
  BY DEF Init, LockInv, Versions, Commits, Absent, NoRow, NewSaga

\* An attempt that failed without touching the row keeps the invariant.
LEMMA RetryLock ==
    ASSUME TypeOK, LockInv, NEW c \in Clients, Retry(c),
           row'.version = row.version, row'.content = row.content, commits' = commits
    PROVE  LockInv'
  BY RetryTyped DEF LockInv, Versions, Commits, Absent

\* A statement takes effect only if none of the same call did.
LEMMA FirstCommit ==
    ASSUME TypeOK, LockInv, NEW c \in Clients, Commit(c)
    PROVE  /\ commits[c] = 0
           /\ copy[c].version = row.version
           /\ copy[c].content = row.content
<1>1. copy[c].version \in Nat /\ row.version \in Nat /\ commits[c] \in Nat
  BY DEF TypeOK, Sagas
<1>2. copy[c].version = row.version
  BY <1>1, CommitTyped DEF LockInv, Versions, Exists
<1>3. pc[c] = "save"
  BY DEF Commit, Matches
<1>. QED  BY <1>1, <1>2, <1>3 DEF LockInv, Versions, Commits, Absent

\* With autoArchive, every step of a client keeps the relation between the row,
\* the versions the clients hold and what their calls committed.
LEMMA NextLock ==
    ASSUME Archives, TypeOK, LockInv, [Next]_vars
    PROVE  LockInv'
<1>1. CASE UNCHANGED vars
  BY <1>1 DEF LockInv, Versions, Commits, Absent, vars
<1>2. ASSUME NEW c \in Clients, Step(c)
      PROVE  LockInv'
  <2>. /\ row.version \in Nat
       /\ \A d \in Clients : copy[d].version \in Nat /\ commits[d] \in Nat
    BY DEF TypeOK, Sagas
  <2>1. CASE BeginFind(c)
    BY <2>1 DEF TypeOK, LockInv, Versions, Commits, Absent, BeginFind, BeginCall, Goto
  <2>2. CASE Find(c)
    <3>1. /\ copy'[c].version <= row'.version
          /\ copy'[c].version = row'.version => copy'[c].content = row'.content
      BY <2>2 DEF TypeOK, LockInv, Versions, Absent, Find, NewSaga, Visible, Exists
    <3>. QED  BY <2>2, <3>1 DEF TypeOK, LockInv, Versions, Commits, Absent, Find, Goto
  <2>3. CASE BeginSave(c)
    BY <2>3 DEF TypeOK, LockInv, Versions, Commits, Absent, BeginSave, BeginCall, Goto
  <2>4. CASE Save(c)
    <3>1. Commit(c)
      BY <2>4 DEF Save
    <3>2. Versions'
      <4>1. copy' = [copy EXCEPT ![c] = [version |-> row'.version, content |-> row'.content]]
        BY <2>4, <3>1, CommitTyped DEF Save
      <4>2. row'.version = row.version + 1
        BY <3>1, CommitTyped
      <4>. QED  BY <4>1, <4>2 DEF TypeOK, LockInv, Versions
    <3>3. Commits'
      <4>1. commits' = [commits EXCEPT ![c] = 1]
        BY <3>1, CommitTyped, FirstCommit DEF TypeOK
      <4>2. /\ pc' = [pc EXCEPT ![c] = "saved"]
            /\ row'.version = row.version + 1
            /\ \A d \in Clients \ {c} : copy'[d] = copy[d]
        BY <2>4, <3>1, CommitTyped DEF Save, Goto, TypeOK
      <4>. QED  BY <4>1, <4>2 DEF TypeOK, LockInv, Versions, Commits, Absent
    <3>4. Absent'
      BY <3>1, CommitTyped DEF Absent
    <3>. QED  BY <3>2, <3>3, <3>4 DEF LockInv
  <2>5. CASE SaveAnswerLost(c)
    <3>1. Commit(c) /\ Retry(c)
      BY <2>5 DEF SaveAnswerLost
    <3>2. copy' = copy /\ row'.version = row.version + 1
      BY <3>1, CommitTyped, RetryTyped
    <3>3. Versions'
      BY <3>2 DEF LockInv, Versions
    <3>4. commits' = [commits EXCEPT ![c] = 1]
      BY <3>1, CommitTyped, FirstCommit DEF TypeOK
    <3>5. \A d \in Clients : pc'[d] = pc[d] \/ (d = c /\ pc'[d] = "threw")
      BY <3>1, RetryTyped
    <3>6. pc[c] = "save"
      BY <3>1 DEF Commit, Matches
    <3>7. Commits'
      BY <3>2, <3>4, <3>5, <3>6 DEF TypeOK, LockInv, Versions, Commits, Absent
    <3>8. Absent'
      BY <3>2 DEF Absent
    <3>. QED  BY <3>3, <3>7, <3>8 DEF LockInv
  <2>6. CASE Conflict(c)
    BY <2>6, RetryLock DEF Conflict
  <2>7. CASE BeginRemove(c)
    BY <2>7 DEF TypeOK, LockInv, Versions, Commits, Absent, BeginRemove, BeginCall, Goto
  <2>8. Removed.version = row.version /\ Removed.content = row.content
    BY DEF TypeOK, Removed, AfterArchive
  <2>9. CASE Remove(c)
    BY <2>8, <2>9 DEF TypeOK, LockInv, Versions, Commits, Absent, Remove, Goto
  <2>10. CASE RemoveAnswerLost(c)
    BY <2>8, <2>10, RetryLock DEF RemoveAnswerLost
  <2>11. CASE NextMessage(c)
    BY <2>11 DEF TypeOK, LockInv, Versions, Commits, Absent, NextMessage, Goto
  <2>12. CASE Unreachable(c)
    BY <2>12, RetryLock DEF Unreachable
  <2>. QED  BY <1>2, <2>1, <2>2, <2>3, <2>4, <2>5, <2>6, <2>7, <2>9, <2>10, <2>11, <2>12
            DEF Step, Attempt
<1>. QED  BY <1>1, <1>2 DEF Next

\* With autoArchive, the locking invariant holds in every reachable state.
THEOREM LockInvariant == ASSUME Archives PROVE Spec => []LockInv
  BY InitLock, NextLock, TypeCorrect, PTL DEF Spec

\* With autoArchive, one call of save() takes effect at most once, and exactly
\* once if it returns.
THEOREM SavedOnceCorrect == ASSUME Archives PROVE Spec => []SaveTakesEffectOnce
<1>1. LockInv => SaveTakesEffectOnce
  BY DEF LockInv, Commits, SaveTakesEffectOnce
<1>. QED  BY <1>1, LockInvariant, PTL

\* With autoArchive, a save overwrites exactly what its client had found: no
\* update is lost, for any number of clients and faults.
THEOREM NoLostUpdateCorrect == ASSUME Archives PROVE Spec => NoLostUpdate
<1> DEFINE Safe == \A c \in Clients : commits'[c] > commits[c] => row.content = copy[c].content
<1>1. ASSUME TypeOK, LockInv, [Next]_vars
      PROVE  [Safe]_vars
  <2>1. ASSUME NEW c \in Clients, Step(c)
        PROVE  Safe
    <3>1. CASE Commit(c)
      <4>1. commits' = [commits EXCEPT ![c] = commits[c] + 1]
        BY <1>1, <3>1, CommitTyped
      <4>2. row.content = copy[c].content
        BY <1>1, <3>1, FirstCommit
      <4>. QED  BY <1>1, <4>1, <4>2 DEF TypeOK
    <3>2. CASE ~Commit(c)
      <4>1. \A d \in Clients : ~(commits'[d] > commits[d])
        BY <1>1, <2>1, <3>2
           DEF TypeOK, Step, Attempt, BeginFind, Find, BeginSave, Save, SaveAnswerLost,
               Conflict, BeginRemove, Remove, RemoveAnswerLost, NextMessage, Unreachable
      <4>. QED  BY <4>1
    <3>. QED  BY <3>1, <3>2
  <2>. QED  BY <1>1, <2>1 DEF Next
<1>. QED  BY <1>1, LockInvariant, TypeCorrect, PTL DEF Spec, NoLostUpdate

\* With autoArchive, a saga that was archived is not found again.
THEOREM RemovedCorrect == ASSUME Archives PROVE Spec => RemovedIsNotFound
<1> DEFINE Hidden == Exists(row) /\ ~Visible(row) => ~Visible(row')
<1>1. ASSUME TypeOK, [Next]_vars
      PROVE  [Hidden]_vars
  <2>1. ASSUME NEW c \in Clients, Step(c)
        PROVE  Hidden
    <3>1. CASE Commit(c)
      BY <1>1, <3>1 DEF TypeOK, Commit, Written, AfterSave, Visible, Exists
    <3>2. CASE row' = Removed
      BY <1>1, <3>2 DEF TypeOK, Removed, AfterArchive, Visible, Exists
    <3>3. CASE UNCHANGED row
      BY <3>3 DEF Visible, Exists
    <3>. QED  BY <2>1, <3>1, <3>2, <3>3
              DEF Step, Attempt, BeginFind, Find, BeginSave, Save, SaveAnswerLost,
                  Conflict, BeginRemove, Remove, RemoveAnswerLost, NextMessage, Unreachable
  <2>. QED  BY <1>1, <2>1 DEF Next
<1>. QED  BY <1>1, TypeCorrect, PTL DEF Spec, RemovedIsNotFound
=============================================================================
