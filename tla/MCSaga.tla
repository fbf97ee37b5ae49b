------------------------------- MODULE MCSaga -------------------------------
(***************************************************************************)
(* Model checking Saga on the OrderStateMachine of                         *)
(* example/src/infrastructure/messaging/sagas/OrderProcessingStateMachine. *)
(* When() returns one binder for each event, so the second When of         *)
(* OrderFailed adds RefundPayment to the first one as well.                *)
(***************************************************************************)
EXTENDS Saga

MCEvents == {"OrderSubmitted", "PaymentProcessed", "InventoryReserved", "OrderFailed"}

MCCommands == {"ProcessPayment", "ReserveInventory", "OrderConfirmed", "RefundPayment"}

MCStarting == "OrderSubmitted"

MCPrevious ==
    [OrderSubmitted    |-> {"FINALIZE"},
     PaymentProcessed  |-> {"ProcessingPayment"},
     InventoryReserved |-> {"ReservingInventory"},
     OrderFailed       |-> {"ProcessingPayment", "ReservingInventory"}]

MCTarget ==
    [OrderSubmitted    |-> "ProcessingPayment",
     PaymentProcessed  |-> "ReservingInventory",
     InventoryReserved |-> "Completed",
     OrderFailed       |-> "Failed"]

MCCommandOf ==
    [OrderSubmitted    |-> "ProcessPayment",
     PaymentProcessed  |-> "ReserveInventory",
     InventoryReserved |-> "OrderConfirmed",
     OrderFailed       |-> "RefundPayment"]

MCFinalEvents == {"InventoryReserved", "OrderFailed"}

MCOutcomes ==
    [ProcessPayment   |-> {"PaymentProcessed", "OrderFailed"},
     ReserveInventory |-> {"InventoryReserved", "OrderFailed"},
     OrderConfirmed   |-> {},
     RefundPayment    |-> {}]

\* None of these consumers has a catch block.
MCFallback == [command \in {} |-> MCStarting]

ASSUME MCOrderlyWorkflow == OrderlyWorkflow

\* The saga and its consumers in one process each, or all in one.
Services == {MCEvents} \cup {{command} : command \in MCCommands}
OneProcess == {MCEvents \cup MCCommands}
=============================================================================
