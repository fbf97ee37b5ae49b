------------------------------- MODULE SagaRow -------------------------------
(***************************************************************************)
(* The row of one CorrelationId in the saga_states table of                *)
(* lib/persistence/repositories/mongodb-saga.repository.ts and             *)
(* postgresql-saga.repository.ts, and what one statement does to it.       *)
(* The two repositories send equivalent statements.  Version 0 is no row.  *)
(***************************************************************************)
EXTENDS Naturals

Exists(row) == row.version > 0

\* Mutants of the definitions that follow.
CanSave_AtMost(row, version) == Exists(row) => version <= row.version

AfterSave_Revives(row, content) ==
    [version |-> row.version + 1, archived |-> FALSE, content |-> content]

\* find*() filters on archivedAt, so an archived row is not found ...
Visible(row) == Exists(row) /\ ~row.archived

\* ... but it keeps its unique correlationId, and save() does not filter on
\* archivedAt: with the right version it updates an archived row as well.
CanSave(row, version) == Exists(row) => row.version = version

\* An insert ignores the version it was given and starts at 1.
AfterSave(row, content) ==
    [version |-> row.version + 1, archived |-> row.archived, content |-> content]

AfterArchive(row) == [row EXCEPT !.archived = Exists(row)]

\* A hard delete removes an archived row too, and with it the version; the
\* content is the one of a saga that does not exist.
AfterDelete(content) == [version |-> 0, archived |-> FALSE, content |-> content]
=============================================================================
