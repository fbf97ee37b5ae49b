----------------------------- MODULE MCDelivery -----------------------------
(***************************************************************************)
(* Model checking Delivery: two messages compete for one slot of the       *)
(* channel or hold both, each with a retry and a redelivery to go.         *)
(***************************************************************************)
EXTENDS Delivery

MCMessages == {"first", "second"}

MCRetryPattern == [type |-> "Interval", value |-> <<1, 500>>]

MCRedeliveryPattern == [type |-> "Intervals", value |-> <<5000>>]
=============================================================================
