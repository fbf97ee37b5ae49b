---------------------------- MODULE MCRoutingSlip ----------------------------
(***************************************************************************)
(* Model checking RoutingSlip: four activities, the second one without     *)
(* compensate, so that compensation runs over a gap; three subscribers, so *)
(* that a throw has subscribers before and behind it.                      *)
(***************************************************************************)
EXTENDS RoutingSlip

MCActivities == 4
MCSubscribers == 3
MCUnregistered == {2, 4}
MCCompensatable == {1, 3, 4}
MCThrowing == EventNames

\* Subscribers that never throw, and a factory that knows every activity.
NoThrowing == {}
AllRegistered == {}
=============================================================================
