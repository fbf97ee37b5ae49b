-------------------------- MODULE MCDistributedSlip --------------------------
(***************************************************************************)
(* Model checking DistributedSlip: three activities, of which the second   *)
(* cannot be compensated, the third may not have been discovered, and any  *)
(* may be unknown to the executor's factory.  The endpoints come in        *)
(* another order than the itinerary, so that the last one to execute is of *)
(* the second activity, and the last one to compensate of the first.       *)
(***************************************************************************)
EXTENDS DistributedSlip

MCActivities == 3
MCCompensatable == {1, 3}
MCEndpoints == <<3, 1, 2>>
MCDiscoveries == {1 .. 3, 1 .. 2}
=============================================================================
