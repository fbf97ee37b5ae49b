------------------------------ MODULE Topology ------------------------------
(***************************************************************************)
(* One process and its RabbitMQ broker: how BusTransitBrokerRabbitMqFactory *)
(* connects, declares its exchanges and queues, starts its consumers and   *)
(* connects again, and where what it publishes goes.                       *)
(*                                                                         *)
(* Connections are numbered by start().  A channel is a pair of the        *)
(* connection it belongs to and the name channelList keeps it under.       *)
(* Nothing in the code handles an unhandled rejection or a connection's    *)
(* error event, so either ends the process, and a supervisor starts it     *)
(* again.                                                                  *)
(***************************************************************************)
EXTENDS Naturals, Sequences, FiniteSets, Functions

CONSTANTS
    Consumers,     \* the classes given to AddConsumer and AddSagaStateMachine
    MessageOf,     \* consumer -> its message class, a saga's state class
    EventsOf,      \* consumer -> the events of a saga, none for other consumers
    EndpointName,  \* consumer -> queue named with Endpoint(), partial
    Endpoints,     \* the queues of ReceiveEndpoint, in order
    ConsumerAt,    \* queue -> the consumer configured for it
    Redelivers,    \* the queues configured with UseDelayedRedelivery
    Foreign,       \* message classes published here and consumed elsewhere
    None,          \* a name nobody gave
    MaxFaults      \* bound: failures of any kind

Producer == "_producer"

Queues == Range(Endpoints)

Names == Queues \cup {Producer}

Events == UNION {EventsOf[c] : c \in Consumers}

Messages == {MessageOf[c] : c \in Consumers} \cup Events

ASSUME TopologyAssumption ==
    /\ Endpoints \in Seq(Queues) /\ Endpoints # <<>>
    /\ \A i, j \in DOMAIN Endpoints : Endpoints[i] = Endpoints[j] => i = j
    /\ DOMAIN ConsumerAt = Queues
    /\ \A q \in Queues : ConsumerAt[q] \in Consumers
    /\ DOMAIN EventsOf = Consumers
    /\ DOMAIN EndpointName \subseteq Consumers
    /\ Redelivers \subseteq Queues
    /\ Foreign \cap Messages = {}
    /\ None \notin Queues \cup Messages \cup Foreign
    /\ Producer \notin Queues
    /\ MaxFaults \in Nat

VARIABLES
    \* start()
    pc,          \* "idle", when isConnecting is false, or the await it is at
    next,        \* the endpoint whose channel is opened next
    timers,      \* pending setTimeout(start)
    \* the links to the broker
    connection,  \* this.connection, 0 before the first
    up,          \* connections that are open
    heard,       \* open connections with a close listener
    channelOf,   \* this.channelList: name -> connection of its latest channel
    open,        \* open channels
    pending,     \* calls of checkQueueAndAssert under way, which no one awaits
    consuming,   \* channels with a consumer
    \* what the process knows
    plugin,      \* this.delayedMessagePluginSupported
    enabled,     \* this.queueRedeliveryEnabled
    exchangeOf,  \* this.classMessageToExchange
    endpointOf,  \* this.classMessageToEndpoint
    \* what the broker keeps, however often the process restarts
    exchanges,   \* exchanges declared, by the name of their class or queue
    bound,       \* <<e, q>>: exchange e is bound to the exchange of queue q
    queues,      \* queues declared
    attached,    \* queues bound to their exchange
    delayed,     \* queues bound to a delayed exchange
    installed,   \* whether it has the x-delayed-message plugin
    faults       \* counter of failures

startVars == <<pc, next, timers>>
linkVars == <<connection, up, heard>>
channelVars == <<channelOf, open, pending, consuming>>
tableVars == <<plugin, enabled, exchangeOf, endpointOf>>
brokerVars == <<exchanges, bound, queues, attached, delayed, installed>>
vars == <<startVars, linkVars, channelVars, tableVars, brokerVars, faults>>

\* The state of a process at onApplicationBootstrap, which calls start().
Bootstrap ==
    [pc |-> "connect", next |-> 1, timers |-> 0,
     connection |-> 0, up |-> {}, heard |-> {},
     channelOf |-> [n \in Names |-> 0], open |-> {}, pending |-> {}, consuming |-> {},
     plugin |-> FALSE, enabled |-> [q \in Queues |-> FALSE],
     exchangeOf |-> [m \in Messages |-> None], endpointOf |-> [m \in Messages |-> None]]

Init ==
    /\ pc = Bootstrap.pc /\ next = Bootstrap.next /\ timers = Bootstrap.timers
    /\ connection = Bootstrap.connection /\ up = Bootstrap.up /\ heard = Bootstrap.heard
    /\ channelOf = Bootstrap.channelOf /\ open = Bootstrap.open
    /\ pending = Bootstrap.pending /\ consuming = Bootstrap.consuming
    /\ plugin = Bootstrap.plugin /\ enabled = Bootstrap.enabled
    /\ exchangeOf = Bootstrap.exchangeOf /\ endpointOf = Bootstrap.endpointOf
    /\ exchanges = {} /\ bound = {} /\ queues = {} /\ attached = {} /\ delayed = {}
    /\ installed \in BOOLEAN
    /\ faults = 0

Restart ==
    /\ pc' = Bootstrap.pc /\ next' = Bootstrap.next /\ timers' = Bootstrap.timers
    /\ connection' = Bootstrap.connection /\ up' = Bootstrap.up /\ heard' = Bootstrap.heard
    /\ channelOf' = Bootstrap.channelOf /\ open' = Bootstrap.open
    /\ pending' = Bootstrap.pending /\ consuming' = Bootstrap.consuming
    /\ plugin' = Bootstrap.plugin /\ enabled' = Bootstrap.enabled
    /\ exchangeOf' = Bootstrap.exchangeOf /\ endpointOf' = Bootstrap.endpointOf
    /\ UNCHANGED brokerVars

Fault == faults < MaxFaults /\ faults' = faults + 1

-----------------------------------------------------------------------------
\* Mutants of the definitions that follow.

EventEndpoint_OfConsumer(c) ==
    IF c \in DOMAIN EndpointName THEN EndpointName[c] ELSE None

Retry_Never == timers' = timers

OpenProducer_Listens ==
    /\ pc = "producer"
    /\ connection \in up
    /\ channelOf' = [channelOf EXCEPT ![Producer] = connection]
    /\ open' = open \cup {<<connection, Producer>>}
    /\ pc' = "plugin"
    /\ heard' = heard \cup {connection}
    /\ UNCHANGED <<next, timers, connection, up, pending, consuming, tableVars, brokerVars,
                   faults>>

OpenChannel_OffByOne ==
    /\ pc = "channels"
    /\ connection \in up
    /\ LET q == Endpoints[next]
       IN  /\ channelOf' = [channelOf EXCEPT ![q] = connection]
           /\ open' = open \cup {<<connection, q>>}
           /\ pending' = pending \cup {[on |-> connection, queue |-> q, at |-> "assert"]}
    /\ IF next <= Len(Endpoints)
       THEN next' = next + 1 /\ UNCHANGED <<pc, heard>>
       ELSE next' = next /\ pc' = "idle" /\ heard' = heard \cup {connection}
    /\ UNCHANGED <<timers, connection, up, consuming, tableVars, brokerVars, faults>>

AfterBinding_EnabledFirst(q) ==
    IF q \in Redelivers /\ plugin THEN TRUE ELSE FALSE

-----------------------------------------------------------------------------
\* The routing tables.

\* startAllConsumer: the exchange of a class is the queue of its last endpoint.
RegisteredExchange ==
    LET Carries(i, m) == MessageOf[ConsumerAt[Endpoints[i]]] = m
        Last(m) == {i \in DOMAIN Endpoints :
                        /\ Carries(i, m)
                        /\ \A j \in DOMAIN Endpoints : j > i => ~Carries(j, m)}
    IN  [m \in Messages |->
            IF Last(m) = {} THEN None ELSE Endpoints[CHOOSE i \in Last(m) : TRUE]]

\* createAllExchange: the events of a saga go to the queue of the saga.
EventEndpoint(c) == exchangeOf[MessageOf[c]]

\* createAllExchange: where Send finds the queue of a class.
RegisteredEndpoint ==
    [m \in Messages |->
        LET sagas == {c \in Consumers : m \in EventsOf[c]}
            named == {c \in DOMAIN EndpointName : MessageOf[c] = m}
        IN  CASE sagas # {} -> EventEndpoint(CHOOSE c \in sagas : TRUE)
              [] sagas = {} /\ named # {} -> EndpointName[CHOOSE c \in named : TRUE]
              [] OTHER -> endpointOf[m]]

\* publish(): the exchange of the class, its endpoint, or the class itself.
PublishExchange(m) ==
    CASE m \notin Messages -> m
      [] m \in Messages /\ exchangeOf[m] # None -> exchangeOf[m]
      [] m \in Messages /\ exchangeOf[m] = None /\ endpointOf[m] # None -> endpointOf[m]
      [] OTHER -> m

\* The queues that get what is published to exchange e.
Routed(e) == ({e} \cup {q \in Queues : <<e, q>> \in bound}) \cap attached

-----------------------------------------------------------------------------
\* start()

\* The timer of a failed start or of a closed connection calls start().
TimerFires ==
    /\ timers > 0
    /\ timers' = timers - 1
    /\ pc' = IF pc = "idle" THEN "connect" ELSE pc
    /\ UNCHANGED <<next, linkVars, channelVars, tableVars, brokerVars, faults>>

Connect ==
    /\ pc = "connect"
    /\ connection' = connection + 1
    /\ up' = up \cup {connection'}
    /\ pc' = "producer"
    /\ UNCHANGED <<next, timers, heard, channelVars, tableVars, brokerVars, faults>>

OpenProducer ==
    /\ pc = "producer"
    /\ connection \in up
    /\ channelOf' = [channelOf EXCEPT ![Producer] = connection]
    /\ open' = open \cup {<<connection, Producer>>}
    /\ pc' = "plugin"
    /\ UNCHANGED <<next, timers, linkVars, pending, consuming, tableVars, brokerVars, faults>>

\* checkDelayedMessagePlugin takes any failure for a missing plugin;
\* startAllConsumer then registers the classes without a further await.
CheckPlugin ==
    /\ pc = "plugin"
    /\ plugin' = (installed /\ connection \in up)
    /\ exchangeOf' = RegisteredExchange
    /\ pc' = "exchanges"
    /\ UNCHANGED <<next, timers, linkVars, channelVars, enabled, endpointOf, brokerVars, faults>>

CreateExchanges ==
    /\ pc = "exchanges"
    /\ <<connection, Producer>> \in open
    /\ endpointOf' = RegisteredEndpoint
    /\ exchanges' = exchanges \cup Messages \cup Queues
    /\ bound' = bound \cup
                {<<MessageOf[ConsumerAt[q]], q>> : q \in Queues} \cup
                {<<m, RegisteredEndpoint[m]>> : m \in {e \in Events : RegisteredEndpoint[e] # None}}
    /\ pc' = "channels"
    /\ next' = 1
    /\ UNCHANGED <<timers, linkVars, channelVars, plugin, enabled, exchangeOf, queues,
                   attached, delayed, installed, faults>>

\* createChannel and bindConsumerToQueue, which starts to set the queue up.
\* After the last queue start() listens to the connection, with no further await.
OpenChannel ==
    /\ pc = "channels"
    /\ connection \in up
    /\ LET q == Endpoints[next]
       IN  /\ channelOf' = [channelOf EXCEPT ![q] = connection]
           /\ open' = open \cup {<<connection, q>>}
           /\ pending' = pending \cup {[on |-> connection, queue |-> q, at |-> "assert"]}
    /\ IF next < Len(Endpoints)
       THEN next' = next + 1 /\ UNCHANGED <<pc, heard>>
       ELSE next' = next /\ pc' = "idle" /\ heard' = heard \cup {connection}
    /\ UNCHANGED <<timers, connection, up, consuming, tableVars, brokerVars, faults>>

\* The catch block: try again later.  The connection is not closed.
Retry == timers' = timers + 1

StartThrows ==
    /\ Retry
    /\ pc' = "idle"
    /\ UNCHANGED <<next, linkVars, channelVars, tableVars, brokerVars>>

\* An await of start() is rejected since its connection or channel is gone.
StartBreaks ==
    /\ \/ pc \in {"producer", "channels"} /\ connection \notin up
       \/ pc = "exchanges" /\ <<connection, Producer>> \notin open
    /\ StartThrows
    /\ UNCHANGED faults

\* An await of start() is rejected by the broker: no connection, no channel.
StartRefused ==
    /\ pc \in {"connect", "producer", "channels"}
    /\ Fault
    /\ StartThrows

-----------------------------------------------------------------------------
\* checkQueueAndAssert and its callback, for each queue on its own.

\* The setup p goes on to the await `at` on the channel now in channelList.
Proceed(p, at) ==
    pending' = (pending \ {p}) \cup {[on |-> channelOf[p.queue], queue |-> p.queue, at |-> at]}

OnOpenChannel(p) == p \in pending /\ <<p.on, p.queue>> \in open

CurrentOpen(q) == <<channelOf[q], q>> \in open

AssertQueue(p) ==
    /\ OnOpenChannel(p)
    /\ p.at = "assert"
    /\ CurrentOpen(p.queue)
    /\ queues' = queues \cup {p.queue}
    /\ Proceed(p, "bind")
    /\ UNCHANGED <<startVars, linkVars, channelOf, open, consuming, tableVars, exchanges,
                   bound, attached, delayed, installed, faults>>

\* What the callback says of redelivery before it awaits anything.
AfterBinding(q) ==
    IF q \in Redelivers /\ plugin THEN enabled[q] ELSE FALSE

\* The queue is bound; its callback consumes, or first sets up redelivery.
BindQueue(p) ==
    /\ OnOpenChannel(p)
    /\ p.at = "bind"
    /\ CurrentOpen(p.queue)
    /\ attached' = attached \cup {p.queue}
    /\ enabled' = [enabled EXCEPT ![p.queue] = AfterBinding(p.queue)]
    /\ IF p.queue \in Redelivers /\ plugin
       THEN Proceed(p, "delayed") /\ UNCHANGED consuming
       ELSE /\ pending' = pending \ {p}
            /\ consuming' = consuming \cup {<<channelOf[p.queue], p.queue>>}
    /\ UNCHANGED <<startVars, linkVars, channelOf, open, plugin, exchangeOf, endpointOf,
                   exchanges, bound, queues, delayed, installed, faults>>

\* The delayed exchange is there and bound: redelivery is on.
EnableRedelivery(p) ==
    /\ OnOpenChannel(p)
    /\ p.at = "delayed"
    /\ delayed' = delayed \cup {p.queue}
    /\ enabled' = [enabled EXCEPT ![p.queue] = TRUE]
    /\ pending' = pending \ {p}
    /\ consuming' = consuming \cup {<<p.on, p.queue>>}
    /\ UNCHANGED <<startVars, linkVars, channelOf, open, plugin, exchangeOf, endpointOf,
                   exchanges, bound, queues, attached, installed, faults>>

\* The callbacks meet a closed channel: the rejection, unhandled, ends the process.
SetupRejects(p) ==
    /\ p \in pending
    /\ p.at \in {"assert", "bind"}
    /\ ~CurrentOpen(p.queue)
    /\ Restart
    /\ UNCHANGED faults

Setup(p) == AssertQueue(p) \/ BindQueue(p) \/ EnableRedelivery(p) \/ SetupRejects(p)

-----------------------------------------------------------------------------
\* What happens to connections and channels.

\* The process dies: a crash, an error event of its connection, or a rejection
\* of a setup that no one handles.
Dies ==
    /\ Fault
    /\ Restart

\* The broker closes a connection no setup is waiting on; its listener, if any,
\* sets a timer.
ConnectionCloses(c) ==
    /\ Fault
    /\ c \in up
    /\ \A p \in pending : p.on # c
    /\ up' = up \ {c}
    /\ heard' = heard \ {c}
    /\ open' = {ch \in open : ch[1] # c}
    /\ consuming' = {ch \in consuming : ch[1] # c}
    /\ timers' = timers + (IF c \in heard THEN 1 ELSE 0)
    /\ UNCHANGED <<pc, next, connection, channelOf, pending, tableVars, brokerVars>>

\* A channel closes on an error, which is only logged.
Close(ch) ==
    /\ Fault
    /\ ch \in open
    /\ \A p \in pending : <<p.on, p.queue>> # ch
    /\ open' = open \ {ch}
    /\ consuming' = consuming \ {ch}
    /\ UNCHANGED <<startVars, linkVars, channelOf, pending, tableVars, brokerVars>>

\* The channel of a queue closes.
ChannelCloses(ch) ==
    /\ ch[2] \in Queues
    /\ Close(ch)

\* Publishing to an exchange that is not there closes the producer channel.
PublishUnroutable(m) ==
    /\ PublishExchange(m) \notin exchanges
    /\ Close(<<channelOf[Producer], Producer>>)

-----------------------------------------------------------------------------

Start ==
    \/ TimerFires \/ Connect \/ OpenProducer \/ CheckPlugin \/ CreateExchanges
    \/ OpenChannel \/ StartBreaks

Next ==
    \/ Start
    \/ StartRefused
    \/ \E p \in pending : AssertQueue(p)
    \/ \E p \in pending : BindQueue(p)
    \/ \E p \in pending : EnableRedelivery(p)
    \/ \E p \in pending : SetupRejects(p)
    \/ Dies
    \/ \E c \in up : ConnectionCloses(c)
    \/ \E ch \in open : ChannelCloses(ch)
    \/ \E m \in Messages \cup Foreign : PublishUnroutable(m)

\* Awaits are answered, timers fire, and every setup goes on.
Fairness ==
    /\ WF_vars(Start)
    /\ WF_vars(\E p \in pending : Setup(p))

Spec == Init /\ [][Next]_vars /\ Fairness

-----------------------------------------------------------------------------

TypeOK ==
    /\ pc \in {"idle", "connect", "producer", "plugin", "exchanges", "channels"}
    /\ next \in DOMAIN Endpoints
    /\ timers \in Nat
    /\ connection \in Nat
    /\ up \subseteq 1 .. connection
    /\ heard \subseteq up
    /\ channelOf \in [Names -> 0 .. connection]
    /\ open \subseteq up \X Names
    /\ pending \subseteq [on : 1 .. connection, queue : Queues, at : {"assert", "bind", "delayed"}]
    /\ consuming \subseteq open
    /\ plugin \in BOOLEAN
    /\ enabled \in [Queues -> BOOLEAN]
    /\ exchangeOf \in [Messages -> Queues \cup {None}]
    /\ endpointOf \in [Messages -> Queues \cup Range(EndpointName) \cup {None}]
    /\ exchanges \subseteq Messages \cup Queues
    /\ bound \subseteq Messages \X Queues
    /\ queues \subseteq Queues
    /\ attached \subseteq queues
    /\ delayed \subseteq attached
    /\ installed \in BOOLEAN
    /\ faults \in 0 .. MaxFaults

\* Exactly one thing will call or finish start() next - a timer, start() itself,
\* or the listener of the one connection in use - however starts fail.  (The guard
\* isConnecting alone would not keep two starts from following each other, nor a
\* close from going unnoticed; when the listener is added does.)
OneDriver ==
    timers + Cardinality(heard) + (IF pc = "idle" THEN 0 ELSE 1) = 1

\* A queue for which redelivery is on has a delayed exchange: publishing a copy
\* to an exchange that is not there would close the channel of the queue.
RedeliveryHasExchange == \A q \in Queues : enabled[q] => q \in delayed

\* The process consumes all its queues and can publish.
Ready ==
    /\ pc = "idle"
    /\ <<connection, Producer>> \in open
    /\ \A q \in Queues : <<connection, q>> \in consuming

Handles(q, m) ==
    m = MessageOf[ConsumerAt[q]] \/ m \in EventsOf[ConsumerAt[q]]

\* What the tables need of a configuration: queues are not named like classes, an
\* event has one saga, a saga's state class no other consumer, and the queue that
\* Endpoint() names for a consumer handles its class.
Configured ==
    /\ Queues \cap Messages = {}
    /\ \A c, d \in Consumers : EventsOf[c] \cap EventsOf[d] # {} => c = d
    /\ \A c, d \in Consumers : EventsOf[c] # {} /\ MessageOf[c] = MessageOf[d] => c = d
    /\ \A c \in DOMAIN EndpointName :
           /\ EndpointName[c] \in Queues
           /\ MessageOf[ConsumerAt[EndpointName[c]]] = MessageOf[c]

\* Once the process is ready, what it publishes of a class or event that one of
\* its endpoints handles reaches an endpoint, and only endpoints that handle it;
\* and so does what it sends of a class that has an endpoint.
MessagesReachConsumers ==
    Ready => \A m \in Messages :
        (\E q \in Queues : Handles(q, m)) =>
            /\ Routed(PublishExchange(m)) # {}
            /\ \A q \in Routed(PublishExchange(m)) : Handles(q, m)
            /\ endpointOf[m] # None => endpointOf[m] \in queues /\ Handles(endpointOf[m], m)

\* A channel of the connection in use has closed, and nothing will replace it.
Mute ==
    /\ connection \in up
    /\ timers = 0
    /\ \E n \in Names :
          /\ channelOf[n] = connection
          /\ <<connection, n>> \notin open
    /\ pc \in {"channels", "idle"}

\* Unless a channel closes alone, which nothing repairs, lost connections, failed
\* starts and deaths of the process are all followed by a process that consumes
\* every queue and can publish.
ConsumersComeBack == []~Mute => <>[]Ready
=============================================================================
