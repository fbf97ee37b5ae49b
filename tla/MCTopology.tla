----------------------------- MODULE MCTopology -----------------------------
(***************************************************************************)
(* Model checking Topology on part of the example's MessagingModule: a     *)
(* consumer with redelivery, the order saga, and a consumer with an        *)
(* endpoint name.                                                          *)
(***************************************************************************)
EXTENDS Topology

CONSTANTS TestOrderConsumer, OrderStateMachine, ProcessPaymentConsumer

MCConsumers == {TestOrderConsumer, OrderStateMachine, ProcessPaymentConsumer}

MCMessageOf ==
    [c \in MCConsumers |->
        CASE c = TestOrderConsumer -> "Message2"
          [] c = OrderStateMachine -> "OrderState"
          [] c = ProcessPaymentConsumer -> "ProcessPayment"]

MCEventsOf ==
    [c \in MCConsumers |->
        IF c = OrderStateMachine THEN {"OrderSubmitted", "PaymentProcessed"} ELSE {}]

MCEndpointName == [c \in {ProcessPaymentConsumer} |-> "saga-process-payment"]

MCEndpoints == <<"regular-orders-2", "regular-order-saga", "saga-process-payment">>

MCConsumerAt ==
    [q \in {"regular-orders-2", "regular-order-saga", "saga-process-payment"} |->
        CASE q = "regular-orders-2" -> TestOrderConsumer
          [] q = "regular-order-saga" -> OrderStateMachine
          [] q = "saga-process-payment" -> ProcessPaymentConsumer]

ASSUME MCConfigured == Configured

MCRedelivers == {"regular-orders-2"}
=============================================================================
