-------------------------- MODULE MCSagaRepository --------------------------
(***************************************************************************)
(* Model checking SagaRepository: two handlers of the same saga that       *)
(* handle four messages between them, so that one can find, save and       *)
(* remove it, and another find and save it, between a competitor's find    *)
(* and the last attempt of its save.                                       *)
(***************************************************************************)
EXTENDS SagaRepository

CONSTANTS c1, c2

MCClients == {c1, c2}
MCAttempts == 3
MCMaxFaults == 3
MCMaxCalls == 4

Single == {c1}
=============================================================================
