------------------------------ MODULE MCHybrid -------------------------------
(***************************************************************************)
(* Model checking Hybrid on the OrderFulfillmentSaga and its consumers in  *)
(* example/src/infrastructure/messaging/hybrid, with the repository that   *)
(* a state machine has by default, in memory.                              *)
(* MCHybrid.cfg has the executor that the example sets, the distributed    *)
(* one, and MCHybrid_FailureMeansUndone.cfg the one in process.            *)
(***************************************************************************)
EXTENDS Hybrid

MCEvents == {"OrderSubmittedForFulfillment", "FulfillmentCompleted", "FulfillmentFailed",
             "ShippingArranged", "ShippingFailed"}

MCCommands == {"ExecuteFulfillment", "ArrangeShipping", "NotifyCustomer"}

MCStarting == "OrderSubmittedForFulfillment"

MCPrevious ==
    [OrderSubmittedForFulfillment |-> {"FINALIZE"},
     FulfillmentCompleted         |-> {"FulfillingOrder"},
     FulfillmentFailed            |-> {"FulfillingOrder"},
     ShippingArranged             |-> {"ArrangingShipping"},
     ShippingFailed               |-> {"ArrangingShipping"}]

MCTarget ==
    [OrderSubmittedForFulfillment |-> "FulfillingOrder",
     FulfillmentCompleted         |-> "ArrangingShipping",
     FulfillmentFailed            |-> "Failed",
     ShippingArranged             |-> "Completed",
     ShippingFailed               |-> "Failed"]

\* FulfillmentFailed and ShippingFailed have no PublishAsync.
MCCommandOf ==
    [OrderSubmittedForFulfillment |-> "ExecuteFulfillment",
     FulfillmentCompleted         |-> "ArrangeShipping",
     ShippingArranged             |-> "NotifyCustomer"]

MCFinalEvents == {"FulfillmentFailed", "ShippingArranged", "ShippingFailed"}

MCOutcomes ==
    [ArrangeShipping |-> {"ShippingArranged", "ShippingFailed"},
     NotifyCustomer  |-> {}]

MCSuccess == [ExecuteFulfillment |-> "FulfillmentCompleted"]

MCFallback ==
    [ExecuteFulfillment |-> "FulfillmentFailed",
     ArrangeShipping    |-> "ShippingFailed"]

\* What the proofs ask of a workflow.
ASSUME MCWorkflow == WorkStartsOnce /\ ReportsExpected

\* The service that may die, the one that executes slips.  (When the process of
\* an in-memory saga dies, so does the saga, and every message starts a new one.)
Services == {{"ExecuteFulfillment"}}
=============================================================================
