SPECIFICATION Spec
CONSTANTS
    TestOrderConsumer = TestOrderConsumer
    OrderStateMachine = OrderStateMachine
    ProcessPaymentConsumer = ProcessPaymentConsumer
    Consumers <- MCConsumers
    MessageOf <- MCMessageOf
    EventsOf <- MCEventsOf
    EndpointName <- MCEndpointName
    Endpoints <- MCEndpoints
    ConsumerAt <- MCConsumerAt
    Redelivers <- MCRedelivers
    Foreign = {"ShipOrder"}
    None = "none"
    MaxFaults = 2
CHECK_DEADLOCK FALSE
INVARIANTS
    TypeOK
    OneDriver
    RedeliveryHasExchange
    MessagesReachConsumers
PROPERTY
    ConsumersComeBack
