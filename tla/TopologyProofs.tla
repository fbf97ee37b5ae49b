--------------------------- MODULE TopologyProofs ---------------------------
(***************************************************************************)
(* Proofs about Topology for any configuration and any failures.           *)
(***************************************************************************)
EXTENDS Topology, FiniteSetTheorems, SequenceTheorems, WellFoundedInduction, TLAPS

-----------------------------------------------------------------------------
\* Who calls start() next.

\* While a start is under way there is neither a timer nor a listener; otherwise
\* there is exactly one of them, and the listener is on the latest connection.
Driven ==
    /\ connection \in Nat
    /\ \/ pc # "idle" /\ timers = 0 /\ heard = {}
       \/ pc = "idle" /\ timers = 1 /\ heard = {}
       \/ pc = "idle" /\ timers = 0 /\ heard = {connection}

\* A process that starts again is driven by its first call of start().
LEMMA RestartDriven == Restart => Driven'
  BY DEF Restart, Bootstrap, Driven

\* Every step leaves exactly one driver.
LEMMA NextDriven == Driven /\ [Next]_vars => Driven'
<1>. SUFFICES ASSUME Driven, [Next]_vars
              PROVE  Driven'
  OBVIOUS
<1>1. CASE UNCHANGED vars
  BY <1>1 DEF Driven, vars, startVars, linkVars
<1>2. CASE TimerFires
  BY <1>2 DEF Driven, TimerFires, linkVars
<1>3. CASE Connect
  BY <1>3 DEF Driven, Connect
<1>4. CASE OpenProducer
  BY <1>4 DEF Driven, OpenProducer, linkVars
<1>5. CASE CheckPlugin
  BY <1>5 DEF Driven, CheckPlugin, linkVars
<1>6. CASE CreateExchanges
  BY <1>6 DEF Driven, CreateExchanges, linkVars
<1>7. CASE OpenChannel
  BY <1>7 DEF Driven, OpenChannel
<1>8. CASE StartBreaks
  BY <1>8 DEF Driven, StartBreaks, StartThrows, Retry, linkVars
<1>9. CASE StartRefused
  BY <1>9 DEF Driven, StartRefused, StartThrows, Retry, linkVars
<1>10. ASSUME NEW p \in pending, AssertQueue(p)
       PROVE  Driven'
  BY <1>10 DEF Driven, AssertQueue, startVars, linkVars
<1>11. ASSUME NEW p \in pending, BindQueue(p)
       PROVE  Driven'
  BY <1>11 DEF Driven, BindQueue, startVars, linkVars
<1>12. ASSUME NEW p \in pending, EnableRedelivery(p)
       PROVE  Driven'
  BY <1>12 DEF Driven, EnableRedelivery, startVars, linkVars
<1>13. ASSUME NEW p \in pending, SetupRejects(p)
       PROVE  Driven'
  BY <1>13, RestartDriven DEF SetupRejects
<1>14. CASE Dies
  BY <1>14, RestartDriven DEF Dies
<1>15. ASSUME NEW c \in up, ConnectionCloses(c)
       PROVE  Driven'
  <2>1. /\ heard' = heard \ {c}
        /\ timers' = timers + (IF c \in heard THEN 1 ELSE 0)
        /\ pc' = pc /\ connection' = connection
    BY <1>15 DEF ConnectionCloses
  <2>2. CASE c \in heard
    BY <2>1, <2>2 DEF Driven
  <2>3. CASE c \notin heard
    BY <2>1, <2>3 DEF Driven
  <2>. QED  BY <2>2, <2>3
<1>16. ASSUME NEW ch \in open, ChannelCloses(ch)
       PROVE  Driven'
  BY <1>16 DEF Driven, ChannelCloses, Close, startVars, linkVars
<1>17. ASSUME NEW m \in Messages \cup Foreign, PublishUnroutable(m)
       PROVE  Driven'
  BY <1>17 DEF Driven, PublishUnroutable, Close, startVars, linkVars
<1>. QED
  BY <1>1, <1>2, <1>3, <1>4, <1>5, <1>6, <1>7, <1>8, <1>9, <1>10, <1>11, <1>12, <1>13,
     <1>14, <1>15, <1>16, <1>17 DEF Next, Start

\* One driver at a time: start() is never called twice for one failure, and never
\* not at all, for any number of queues and failures (broker.rabbitmq.ts 55-82).
THEOREM OneDriverCorrect == Spec => []OneDriver
<1>1. Init => Driven
  BY DEF Init, Bootstrap, Driven
<1>2. Driven => OneDriver
  <2>. SUFFICES ASSUME Driven PROVE OneDriver
    OBVIOUS
  <2>1. Cardinality({}) = 0 /\ Cardinality({connection}) = 1
    BY FS_EmptySet, FS_Singleton
  <2>. QED  BY <2>1 DEF Driven, OneDriver
<1>. QED  BY <1>1, <1>2, NextDriven, PTL DEF Spec

-----------------------------------------------------------------------------
\* Redelivery.

\* Redelivery is on only for queues whose delayed exchange was created.
Redelivering ==
    /\ enabled \in [Queues -> BOOLEAN]
    /\ RedeliveryHasExchange

\* A process that starts again knows of no queue with redelivery.
LEMMA RestartRedelivering == Restart => Redelivering'
  BY DEF Restart, Bootstrap, Redelivering, RedeliveryHasExchange, brokerVars

\* The steps that leave the flags and the delayed exchanges alone.
LEMMA KeptRedelivering ==
    Redelivering /\ UNCHANGED <<enabled, delayed>> => Redelivering'
  BY DEF Redelivering, RedeliveryHasExchange

\* No step turns redelivery on before the exchange is there.
LEMMA NextRedelivering == Redelivering /\ [Next]_vars => Redelivering'
<1>. SUFFICES ASSUME Redelivering, [Next]_vars
              PROVE  Redelivering'
  OBVIOUS
<1>1. CASE UNCHANGED vars
  BY <1>1, KeptRedelivering DEF vars, tableVars, brokerVars
<1>2. CASE Start \/ StartRefused
  BY <1>2, KeptRedelivering
     DEF Start, TimerFires, Connect, OpenProducer, CheckPlugin, CreateExchanges,
         OpenChannel, StartBreaks, StartRefused, StartThrows, tableVars, brokerVars
<1>3. ASSUME NEW p \in pending, AssertQueue(p)
      PROVE  Redelivering'
  BY <1>3, KeptRedelivering DEF AssertQueue, tableVars
<1>4. ASSUME NEW p \in pending, BindQueue(p)
      PROVE  Redelivering'
  <2>1. /\ enabled' = [enabled EXCEPT ![p.queue] = AfterBinding(p.queue)]
        /\ delayed' = delayed
    BY <1>4 DEF BindQueue
  <2>2. AfterBinding(p.queue) \in {enabled[p.queue], FALSE}
    BY DEF AfterBinding
  <2>. QED  BY <2>1, <2>2 DEF Redelivering, RedeliveryHasExchange
<1>5. ASSUME NEW p \in pending, EnableRedelivery(p)
      PROVE  Redelivering'
  <2>1. /\ enabled' = [enabled EXCEPT ![p.queue] = TRUE]
        /\ delayed' = delayed \cup {p.queue}
    BY <1>5 DEF EnableRedelivery
  <2>. QED  BY <2>1 DEF Redelivering, RedeliveryHasExchange
<1>6. ASSUME NEW p \in pending, SetupRejects(p)
      PROVE  Redelivering'
  BY <1>6, RestartRedelivering DEF SetupRejects
<1>7. CASE Dies
  BY <1>7, RestartRedelivering DEF Dies
<1>8. ASSUME NEW c \in up, ConnectionCloses(c)
      PROVE  Redelivering'
  BY <1>8, KeptRedelivering DEF ConnectionCloses, tableVars, brokerVars
<1>9. ASSUME NEW ch \in open, ChannelCloses(ch)
      PROVE  Redelivering'
  BY <1>9, KeptRedelivering DEF ChannelCloses, Close, tableVars, brokerVars
<1>10. ASSUME NEW m \in Messages \cup Foreign, PublishUnroutable(m)
       PROVE  Redelivering'
  BY <1>10, KeptRedelivering DEF PublishUnroutable, Close, tableVars, brokerVars
<1>. QED
  BY <1>1, <1>2, <1>3, <1>4, <1>5, <1>6, <1>7, <1>8, <1>9, <1>10 DEF Next

\* Redelivery is on only where its exchange exists, for any configuration and
\* however often the process restarts or reconnects (broker.rabbitmq.ts 332-370).
THEOREM RedeliveryCorrect == Spec => []RedeliveryHasExchange
<1>1. Init => Redelivering
  BY DEF Init, Bootstrap, Redelivering, RedeliveryHasExchange
<1>2. Redelivering => RedeliveryHasExchange
  BY DEF Redelivering
<1>. QED  BY <1>1, <1>2, NextRedelivering, PTL DEF Spec

-----------------------------------------------------------------------------
\* Types.

\* What a setup has declared by the await it is at.
Declared ==
    \A p \in pending :
        /\ p.at # "assert" => p.queue \in queues
        /\ p.at = "delayed" => p.queue \in attached

\* TypeOK by the steps that can break it: those of start(), those of links and
\* setups, and those of the tables.
StartTyped ==
    /\ pc \in {"idle", "connect", "producer", "plugin", "exchanges", "channels"}
    /\ next \in DOMAIN Endpoints
    /\ timers \in Nat
    /\ faults \in 0 .. MaxFaults

LinksTyped ==
    /\ connection \in Nat
    /\ up \subseteq 1 .. connection
    /\ heard \subseteq up
    /\ channelOf \in [Names -> 0 .. connection]
    /\ open \subseteq up \X Names
    /\ consuming \subseteq open

SetupsTyped ==
    /\ pending \subseteq [on : 1 .. connection, queue : Queues, at : {"assert", "bind", "delayed"}]
    /\ queues \subseteq Queues
    /\ attached \subseteq queues
    /\ delayed \subseteq attached
    /\ enabled \in [Queues -> BOOLEAN]
    /\ Declared

TablesTyped ==
    /\ plugin \in BOOLEAN
    /\ exchangeOf \in [Messages -> Queues \cup {None}]
    /\ endpointOf \in [Messages -> Queues \cup Range(EndpointName) \cup {None}]
    /\ exchanges \subseteq Messages \cup Queues
    /\ bound \subseteq Messages \X Queues
    /\ installed \in BOOLEAN

Typed == StartTyped /\ LinksTyped /\ SetupsTyped /\ TablesTyped

\* The endpoints are queues, and there is a first.
LEMMA EndpointQueues ==
    /\ 1 \in DOMAIN Endpoints
    /\ DOMAIN Endpoints = 1 .. Len(Endpoints) /\ Len(Endpoints) \in Nat
    /\ \A i \in DOMAIN Endpoints : Endpoints[i] \in Queues
<1>1. Endpoints \in Seq(Queues) /\ Endpoints # <<>>
  BY TopologyAssumption
<1>2. DOMAIN Endpoints = 1 .. Len(Endpoints) /\ Len(Endpoints) \in Nat
  BY <1>1
<1>3. Len(Endpoints) # 0
  BY <1>1, <1>2, EmptySeq
<1>4. \A i \in 1 .. Len(Endpoints) : Endpoints[i] \in Queues
  BY <1>1
<1>. QED  BY <1>2, <1>3, <1>4

\* A restarted process is typed.
LEMMA RestartTyped ==
    ASSUME Typed, Restart, faults' \in 0 .. MaxFaults
    PROVE  Typed'
<1>1. StartTyped'
  BY EndpointQueues DEF Restart, Bootstrap, StartTyped
<1>2. LinksTyped'
  BY DEF Restart, Bootstrap, LinksTyped
<1>3. SetupsTyped'
  BY DEF Restart, Bootstrap, Typed, SetupsTyped, Declared, brokerVars
<1>4. TablesTyped'
  BY DEF Restart, Bootstrap, Typed, TablesTyped, brokerVars
<1>. QED  BY <1>1, <1>2, <1>3, <1>4 DEF Typed

\* The tables that start() fills hold queues.
LEMMA TablesRegistered ==
    ASSUME TablesTyped
    PROVE  /\ RegisteredExchange \in [Messages -> Queues \cup {None}]
           /\ RegisteredEndpoint \in [Messages -> Queues \cup Range(EndpointName) \cup {None}]
           /\ \A m \in Events : RegisteredEndpoint[m] \in Queues \cup {None}
           /\ Events \subseteq Messages
           /\ \A q \in Queues : MessageOf[ConsumerAt[q]] \in Messages
<1>0. /\ Events \subseteq Messages
      /\ \A c \in Consumers : MessageOf[c] \in Messages
      /\ \A q \in Queues : MessageOf[ConsumerAt[q]] \in Messages
  BY TopologyAssumption DEF Messages
<1>1. RegisteredExchange \in [Messages -> Queues \cup {None}]
  <2>. DEFINE Carries(i, m) == MessageOf[ConsumerAt[Endpoints[i]]] = m
              Last(m) == {i \in DOMAIN Endpoints :
                             /\ Carries(i, m)
                             /\ \A j \in DOMAIN Endpoints : j > i => ~Carries(j, m)}
              E(m) == IF Last(m) = {} THEN None ELSE Endpoints[CHOOSE i \in Last(m) : TRUE]
  <2>1. RegisteredExchange = [m \in Messages |-> E(m)]
    BY DEF RegisteredExchange
  <2>2. \A m : Last(m) \subseteq DOMAIN Endpoints
    OBVIOUS
  <2>. HIDE DEF Last
  <2>3. ASSUME NEW m \in Messages PROVE E(m) \in Queues \cup {None}
    <3>1. CASE Last(m) = {}
      BY <3>1
    <3>2. CASE Last(m) # {}
      <4>1. (CHOOSE i \in Last(m) : TRUE) \in Last(m)
        BY <3>2
      <4>. QED  BY <2>2, <3>2, <4>1, EndpointQueues
    <3>. QED  BY <3>1, <3>2
  <2>. QED  BY <2>1, <2>3
<1>2. ASSUME NEW m \in Messages
      PROVE  /\ RegisteredEndpoint[m] \in Queues \cup Range(EndpointName) \cup {None}
             /\ m \in Events => RegisteredEndpoint[m] \in Queues \cup {None}
  <2>. DEFINE sagas == {c \in Consumers : m \in EventsOf[c]}
              named == {c \in DOMAIN EndpointName : MessageOf[c] = m}
  <2>1. RegisteredEndpoint[m] =
           CASE sagas # {} -> EventEndpoint(CHOOSE c \in sagas : TRUE)
             [] sagas = {} /\ named # {} -> EndpointName[CHOOSE c \in named : TRUE]
             [] OTHER -> endpointOf[m]
    BY DEF RegisteredEndpoint
  <2>2. m \in Events => sagas # {}
    BY DEF Events
  <2>3. CASE sagas # {}
    <3>1. (CHOOSE c \in sagas : TRUE) \in sagas
      BY <2>3
    <3>2. EventEndpoint(CHOOSE c \in sagas : TRUE) \in Queues \cup {None}
      BY <1>0, <3>1 DEF EventEndpoint, TablesTyped
    <3>. QED  BY <2>1, <2>3, <3>2
  <2>4. CASE sagas = {} /\ named # {}
    <3>1. (CHOOSE c \in named : TRUE) \in named
      BY <2>4
    <3>2. EndpointName[CHOOSE c \in named : TRUE] \in Range(EndpointName)
      BY <3>1 DEF Range
    <3>. QED  BY <2>1, <2>2, <2>4, <3>2
  <2>5. CASE sagas = {} /\ named = {}
    <3>1. endpointOf[m] \in Queues \cup Range(EndpointName) \cup {None}
      BY DEF TablesTyped
    <3>. QED  BY <2>1, <2>2, <2>5, <3>1
  <2>. QED  BY <2>3, <2>4, <2>5
<1>3. RegisteredEndpoint \in [Messages -> Queues \cup Range(EndpointName) \cup {None}]
  <2>1. RegisteredEndpoint = [m \in Messages |-> RegisteredEndpoint[m]]
    BY DEF RegisteredEndpoint
  <2>. QED  BY <1>2, <2>1
<1>. QED  BY <1>0, <1>1, <1>2, <1>3

\* A setup that is at its next await, on a channel that is open.
LEMMA ProceedTyped ==
    ASSUME LinksTyped, SetupsTyped, NEW p \in pending, CurrentOpen(p.queue),
           NEW at \in {"bind", "delayed"}, Proceed(p, at)
    PROVE  /\ pending' \subseteq [on : 1 .. connection, queue : Queues,
                                  at : {"assert", "bind", "delayed"}]
           /\ \A x \in pending' : x \in pending \/ (x.queue = p.queue /\ x.at = at)
<1>. DEFINE new == [on |-> channelOf[p.queue], queue |-> p.queue, at |-> at]
<1>1. p.queue \in Queues /\ channelOf[p.queue] \in 1 .. connection
  BY DEF LinksTyped, SetupsTyped, CurrentOpen
<1>2. /\ new \in [on : 1 .. connection, queue : Queues, at : {"assert", "bind", "delayed"}]
      /\ new.queue = p.queue /\ new.at = at
  BY <1>1
<1>3. pending' = (pending \ {p}) \cup {new}
  BY DEF Proceed
<1>. HIDE DEF new
<1>. QED  BY <1>2, <1>3 DEF SetupsTyped

\* Every step keeps the types.
LEMMA NextTyped == Typed /\ [Next]_vars => Typed'
<1>. SUFFICES ASSUME Typed, [Next]_vars PROVE Typed'
  OBVIOUS
<1>0. StartTyped /\ LinksTyped /\ SetupsTyped /\ TablesTyped
  BY DEF Typed
<1>f. MaxFaults \in Nat
  BY TopologyAssumption
<1>1. ASSUME UNCHANGED <<pc, next, timers, faults>> PROVE StartTyped'
  BY <1>0, <1>1 DEF StartTyped
<1>2. ASSUME UNCHANGED <<connection, up, heard, channelOf, open, consuming>> PROVE LinksTyped'
  BY <1>0, <1>2 DEF LinksTyped
<1>3. ASSUME UNCHANGED <<connection, pending, queues, attached, delayed, enabled>>
      PROVE  SetupsTyped'
  BY <1>0, <1>3 DEF SetupsTyped, Declared
<1>4. ASSUME UNCHANGED <<plugin, exchangeOf, endpointOf, exchanges, bound, installed>>
      PROVE  TablesTyped'
  BY <1>0, <1>4 DEF TablesTyped
<1>5. CASE UNCHANGED vars
  BY <1>1, <1>2, <1>3, <1>4, <1>5
     DEF vars, startVars, linkVars, channelVars, tableVars, brokerVars, Typed
<1>6. CASE TimerFires
  <2>1. StartTyped'
    BY <1>0, <1>6 DEF TimerFires, StartTyped
  <2>. QED  BY <1>2, <1>3, <1>4, <1>6, <2>1
            DEF TimerFires, linkVars, channelVars, tableVars, brokerVars, Typed
<1>7. CASE Connect
  <2>1. StartTyped'
    BY <1>0, <1>7 DEF Connect, StartTyped
  <2>2. LinksTyped'
    <3>1. connection \in Nat /\ connection' = connection + 1 /\ up' = up \cup {connection'}
      BY <1>0, <1>7 DEF Connect, LinksTyped
    <3>2. /\ 1 .. connection \subseteq 1 .. connection'
          /\ 0 .. connection \subseteq 0 .. connection' /\ connection' \in 1 .. connection'
      BY <3>1
    <3>. QED  BY <1>0, <1>7, <3>1, <3>2 DEF Connect, LinksTyped, channelVars
  <2>3. SetupsTyped'
    <3>1. connection \in Nat /\ connection' = connection + 1
      BY <1>0, <1>7 DEF Connect, LinksTyped
    <3>2. 1 .. connection \subseteq 1 .. connection'
      BY <3>1
    <3>. QED  BY <1>0, <1>7, <3>2
              DEF Connect, SetupsTyped, Declared, channelVars, tableVars, brokerVars
  <2>. QED  BY <1>4, <1>7, <2>1, <2>2, <2>3 DEF Connect, tableVars, brokerVars, Typed
<1>8. CASE OpenProducer
  <2>1. StartTyped'
    BY <1>0, <1>8 DEF OpenProducer, StartTyped
  <2>2. LinksTyped'
    BY <1>0, <1>8 DEF OpenProducer, LinksTyped, linkVars, Names
  <2>. QED  BY <1>3, <1>4, <1>8, <2>1, <2>2
            DEF OpenProducer, linkVars, tableVars, brokerVars, Typed
<1>9. CASE CheckPlugin
  <2>1. StartTyped'
    BY <1>0, <1>9 DEF CheckPlugin, StartTyped
  <2>2. TablesTyped'
    <3>1. plugin' \in BOOLEAN
      BY <1>9 DEF CheckPlugin
    <3>. QED  BY <1>0, <1>9, <3>1, TablesRegistered DEF CheckPlugin, TablesTyped, brokerVars
  <2>. QED  BY <1>2, <1>3, <1>9, <2>1, <2>2
            DEF CheckPlugin, linkVars, channelVars, brokerVars, Typed
<1>10. CASE CreateExchanges
  <2>1. StartTyped'
    BY <1>0, <1>10, EndpointQueues DEF CreateExchanges, StartTyped
  <2>2. TablesTyped'
    <3>1. bound' \subseteq Messages \X Queues
      <4>1. bound' = bound \cup {<<MessageOf[ConsumerAt[q]], q>> : q \in Queues} \cup
                {<<m, RegisteredEndpoint[m]>> : m \in {e \in Events : RegisteredEndpoint[e] # None}}
        BY <1>10 DEF CreateExchanges
      <4>. QED  BY <1>0, <4>1, TablesRegistered DEF TablesTyped
    <3>. QED  BY <1>0, <1>10, <3>1, TablesRegistered DEF CreateExchanges, TablesTyped
  <2>. QED  BY <1>2, <1>3, <1>10, <2>1, <2>2
            DEF CreateExchanges, linkVars, channelVars, Typed
<1>11. CASE OpenChannel
  <2>. DEFINE q == Endpoints[next]
              new == [on |-> connection, queue |-> q, at |-> "assert"]
  <2>0. /\ q \in Queues /\ connection \in up /\ connection \in 1 .. connection
        /\ channelOf' = [channelOf EXCEPT ![q] = connection]
        /\ open' = open \cup {<<connection, q>>} /\ pending' = pending \cup {new}
    BY <1>0, <1>11, EndpointQueues DEF OpenChannel, StartTyped, LinksTyped
  <2>1. StartTyped'
    BY <1>0, <1>11, EndpointQueues DEF OpenChannel, StartTyped
  <2>2. LinksTyped'
    <3>1. UNCHANGED <<connection, up, consuming>> /\ heard' \subseteq up
      BY <1>0, <1>11, <2>0 DEF OpenChannel, LinksTyped
    <3>2. q \in Names /\ connection \in 0 .. connection
      BY <1>0, <2>0 DEF LinksTyped, Names
    <3>. HIDE DEF q
    <3>3. channelOf' \in [Names -> 0 .. connection]
      BY <1>0, <2>0, <3>2 DEF LinksTyped
    <3>4. open' \subseteq up \X Names /\ consuming \subseteq open'
      BY <1>0, <2>0, <3>2 DEF LinksTyped
    <3>. QED  BY <1>0, <3>1, <3>3, <3>4 DEF LinksTyped
  <2>3. SetupsTyped'
    <3>1. /\ new \in [on : 1 .. connection, queue : Queues, at : {"assert", "bind", "delayed"}]
          /\ new.at = "assert"
      BY <2>0
    <3>. HIDE DEF new
    <3>. QED  BY <1>0, <1>11, <2>0, <3>1
              DEF OpenChannel, SetupsTyped, Declared, tableVars, brokerVars
  <2>. QED  BY <1>4, <1>11, <2>1, <2>2, <2>3 DEF OpenChannel, tableVars, brokerVars, Typed
<1>12. CASE StartBreaks \/ StartRefused
  <2>1. StartTyped'
    BY <1>0, <1>f, <1>12
       DEF StartBreaks, StartRefused, StartThrows, Retry, Fault, StartTyped
  <2>. QED  BY <1>2, <1>3, <1>4, <1>12, <2>1
            DEF StartBreaks, StartRefused, StartThrows, linkVars, channelVars, tableVars,
                brokerVars, Typed
<1>13. ASSUME NEW p \in pending, AssertQueue(p) PROVE Typed'
  <2>1. SetupsTyped'
    <3>1. Proceed(p, "bind") /\ CurrentOpen(p.queue) /\ queues' = queues \cup {p.queue}
      BY <1>13 DEF AssertQueue
    <3>2. p.queue \in Queues
      BY <1>0 DEF SetupsTyped
    <3>3. /\ pending' \subseteq [on : 1 .. connection, queue : Queues,
                                 at : {"assert", "bind", "delayed"}]
          /\ \A x \in pending' : x \in pending \/ (x.queue = p.queue /\ x.at = "bind")
      BY <1>0, <3>1, ProceedTyped
    <3>. QED  BY <1>0, <1>13, <3>1, <3>2, <3>3
              DEF AssertQueue, SetupsTyped, Declared, linkVars, tableVars
  <2>. QED  BY <1>1, <1>2, <1>4, <1>13, <2>1
            DEF AssertQueue, startVars, linkVars, tableVars, Typed
<1>14. ASSUME NEW p \in pending, BindQueue(p) PROVE Typed'
  <2>0. p.queue \in Queues /\ p.at = "bind" /\ CurrentOpen(p.queue) /\ p.queue \in queues
    BY <1>0, <1>14 DEF BindQueue, SetupsTyped, Declared
  <2>1. LinksTyped'
    BY <1>0, <1>14, <2>0 DEF BindQueue, LinksTyped, CurrentOpen, linkVars
  <2>2. SetupsTyped'
    <3>1. enabled' \in [Queues -> BOOLEAN]
      <4>1. enabled[p.queue] \in BOOLEAN
        BY <1>0, <2>0 DEF SetupsTyped
      <4>2. AfterBinding(p.queue) \in BOOLEAN
        BY <4>1 DEF AfterBinding
      <4>. QED  BY <1>0, <1>14, <4>2 DEF BindQueue, SetupsTyped
    <3>2. /\ pending' \subseteq [on : 1 .. connection, queue : Queues,
                                 at : {"assert", "bind", "delayed"}]
          /\ \A x \in pending' : x \in pending \/ (x.queue = p.queue /\ x.at = "delayed")
      <4>1. CASE p.queue \in Redelivers /\ plugin
        BY <1>0, <1>14, <2>0, <4>1, ProceedTyped DEF BindQueue
      <4>2. CASE ~(p.queue \in Redelivers /\ plugin)
        BY <1>0, <1>14, <4>2 DEF BindQueue, SetupsTyped
      <4>. QED  BY <4>1, <4>2
    <3>. QED  BY <1>0, <1>14, <2>0, <3>1, <3>2 DEF BindQueue, SetupsTyped, Declared, linkVars
  <2>. QED  BY <1>1, <1>4, <1>14, <2>1, <2>2 DEF BindQueue, startVars, Typed
<1>15. ASSUME NEW p \in pending, EnableRedelivery(p) PROVE Typed'
  <2>0. p.queue \in Queues /\ p.at = "delayed" /\ p.queue \in attached /\ <<p.on, p.queue>> \in open
    BY <1>0, <1>15 DEF EnableRedelivery, OnOpenChannel, SetupsTyped, Declared
  <2>1. LinksTyped'
    BY <1>0, <1>15, <2>0 DEF EnableRedelivery, LinksTyped, linkVars
  <2>2. SetupsTyped'
    BY <1>0, <1>15, <2>0 DEF EnableRedelivery, SetupsTyped, Declared, linkVars
  <2>. QED  BY <1>1, <1>4, <1>15, <2>1, <2>2 DEF EnableRedelivery, startVars, Typed
<1>16. ASSUME NEW p \in pending, SetupRejects(p) PROVE Typed'
  BY <1>0, <1>16, RestartTyped DEF SetupRejects, StartTyped
<1>17. CASE Dies
  <2>1. faults' \in 0 .. MaxFaults
    BY <1>0, <1>f, <1>17 DEF Dies, Fault, StartTyped
  <2>. QED  BY <1>17, <2>1, RestartTyped DEF Dies
<1>18. ASSUME NEW c \in up, ConnectionCloses(c) PROVE Typed'
  <2>1. StartTyped'
    BY <1>0, <1>f, <1>18 DEF ConnectionCloses, Fault, StartTyped
  <2>2. LinksTyped'
    <3>1. /\ up' = up \ {c} /\ heard' = heard \ {c}
          /\ open' = {ch \in open : ch[1] # c} /\ consuming' = {ch \in consuming : ch[1] # c}
          /\ UNCHANGED <<connection, channelOf>>
      BY <1>18 DEF ConnectionCloses
    <3>. QED  BY <1>0, <3>1 DEF LinksTyped
  <2>. QED  BY <1>3, <1>4, <1>18, <2>1, <2>2 DEF ConnectionCloses, tableVars, brokerVars, Typed
<1>19. ASSUME NEW ch, Close(ch) PROVE Typed'
  <2>1. StartTyped'
    BY <1>0, <1>f, <1>19 DEF Close, Fault, StartTyped, startVars
  <2>2. LinksTyped'
    BY <1>0, <1>19 DEF Close, LinksTyped, linkVars
  <2>. QED  BY <1>3, <1>4, <1>19, <2>1, <2>2 DEF Close, linkVars, tableVars, brokerVars, Typed
<1>. QED
  BY <1>5, <1>6, <1>7, <1>8, <1>9, <1>10, <1>11, <1>12, <1>13, <1>14, <1>15, <1>16, <1>17,
     <1>18, <1>19 DEF Next, Start, ChannelCloses, PublishUnroutable

\* Typed is an invariant.
LEMMA TypedInvariant == Spec => []Typed
<1>1. Init => Typed
  <2>. SUFFICES ASSUME Init PROVE Typed
    OBVIOUS
  <2>1. StartTyped
    BY EndpointQueues, TopologyAssumption DEF Init, Bootstrap, StartTyped
  <2>2. LinksTyped
    BY DEF Init, Bootstrap, LinksTyped
  <2>3. SetupsTyped
    BY DEF Init, Bootstrap, SetupsTyped, Declared
  <2>4. TablesTyped
    BY DEF Init, Bootstrap, TablesTyped
  <2>. QED  BY <2>1, <2>2, <2>3, <2>4 DEF Typed
<1>. QED  BY <1>1, NextTyped, PTL DEF Spec

\* Every variable keeps its type: a setup consumes only on an open channel, and a
\* queue is bound only after it was declared, although the setups of all queues
\* interleave with closing channels and restarts (broker.rabbitmq.ts 319-370).
THEOREM TypeCorrect == Spec => []TypeOK
<1>1. Typed => TypeOK
  BY DEF Typed, StartTyped, LinksTyped, SetupsTyped, TablesTyped, TypeOK
<1>. QED  BY <1>1, TypedInvariant, PTL

-----------------------------------------------------------------------------
\* Where messages go.

\* What RegisteredEndpoint makes of the tables that RegisteredExchange filled.
FinalEndpoint ==
    [m \in Messages |->
        LET sagas == {c \in Consumers : m \in EventsOf[c]}
            named == {c \in DOMAIN EndpointName : MessageOf[c] = m}
        IN  CASE sagas # {} -> RegisteredExchange[MessageOf[CHOOSE c \in sagas : TRUE]]
              [] sagas = {} /\ named # {} -> EndpointName[CHOOSE c \in named : TRUE]
              [] OTHER -> None]

\* No queue has a channel before both tables are filled, and consumers are there
\* only when their queue is bound.
Routing ==
    /\ endpointOf \in {[m \in Messages |-> None], FinalEndpoint}
    /\ pc = "exchanges" => exchangeOf = RegisteredExchange
    /\ pc = "channels" \/ (\E ch \in open : ch[2] \in Queues) =>
           exchangeOf = RegisteredExchange /\ endpointOf = FinalEndpoint
    /\ \A ch \in consuming : ch[2] \in attached

\* The endpoints of the second table.
LEMMA FinalIs ==
    ASSUME Routing, exchangeOf = RegisteredExchange
    PROVE  RegisteredEndpoint = FinalEndpoint
<1>1. ASSUME NEW m \in Messages
      PROVE  RegisteredEndpoint[m] = FinalEndpoint[m]
  <2>. DEFINE sagas == {c \in Consumers : m \in EventsOf[c]}
              named == {c \in DOMAIN EndpointName : MessageOf[c] = m}
  <2>1. RegisteredEndpoint[m] =
           CASE sagas # {} -> RegisteredExchange[MessageOf[CHOOSE c \in sagas : TRUE]]
             [] sagas = {} /\ named # {} -> EndpointName[CHOOSE c \in named : TRUE]
             [] OTHER -> endpointOf[m]
    BY DEF RegisteredEndpoint, EventEndpoint
  <2>2. FinalEndpoint[m] =
           CASE sagas # {} -> RegisteredExchange[MessageOf[CHOOSE c \in sagas : TRUE]]
             [] sagas = {} /\ named # {} -> EndpointName[CHOOSE c \in named : TRUE]
             [] OTHER -> None
    BY DEF FinalEndpoint
  <2>. HIDE DEF sagas, named
  <2>3. sagas = {} /\ named = {} => endpointOf[m] = None
    BY <2>2 DEF Routing
  <2>. QED  BY <2>1, <2>2, <2>3
<1>2. RegisteredEndpoint = [m \in Messages |-> RegisteredEndpoint[m]]
  BY DEF RegisteredEndpoint
<1>3. FinalEndpoint = [m \in Messages |-> FinalEndpoint[m]]
  BY DEF FinalEndpoint
<1>. QED  BY <1>1, <1>2, <1>3

\* A process that starts again has no channel and empty tables.
LEMMA RestartRouting == Restart => Routing'
  BY DEF Restart, Bootstrap, Routing

\* Every step keeps the tables in order.
LEMMA NextRouting == Typed /\ Routing /\ [Next]_vars => Routing'
<1>. SUFFICES ASSUME Typed, Routing, [Next]_vars PROVE Routing'
  OBVIOUS
\* A step that fills no table and opens no channel.
<1>0. ASSUME UNCHANGED <<exchangeOf, endpointOf>>, open' \subseteq open,
             consuming' \subseteq consuming, attached \subseteq attached',
             pc' \in {pc, "idle", "connect", "producer", "plugin"}
      PROVE  Routing'
  BY <1>0 DEF Routing
<1>1. CASE UNCHANGED vars
  BY <1>0, <1>1 DEF vars, startVars, channelVars, tableVars, brokerVars
<1>2. CASE TimerFires \/ Connect
  BY <1>0, <1>2 DEF TimerFires, Connect, channelVars, tableVars, brokerVars
<1>3. CASE OpenProducer
  <2>1. Producer \notin Queues
    BY TopologyAssumption
  <2>2. open' = open \cup {<<connection, Producer>>} /\ pc' = "plugin"
    BY <1>3 DEF OpenProducer
  <2>3. \A ch \in open' : ch[2] \in Queues => ch \in open
    BY <2>1, <2>2
  <2>. QED  BY <1>3, <2>2, <2>3 DEF OpenProducer, tableVars, brokerVars, Routing
<1>4. CASE CheckPlugin
  <2>1. exchangeOf' = RegisteredExchange /\ pc' = "exchanges"
    BY <1>4 DEF CheckPlugin
  <2>. QED  BY <1>4, <2>1 DEF CheckPlugin, channelVars, brokerVars, Routing
<1>5. CASE CreateExchanges
  <2>1. exchangeOf' = RegisteredExchange /\ endpointOf' = FinalEndpoint
    BY <1>5, FinalIs DEF CreateExchanges, Routing
  <2>. QED  BY <1>5, <2>1 DEF CreateExchanges, channelVars, Routing
<1>6. CASE OpenChannel
  <2>1. exchangeOf' = RegisteredExchange /\ endpointOf' = FinalEndpoint
    BY <1>6 DEF OpenChannel, Routing, tableVars
  <2>. QED  BY <1>6, <2>1 DEF OpenChannel, brokerVars, Routing
<1>7. CASE StartBreaks \/ StartRefused
  BY <1>0, <1>7
     DEF StartBreaks, StartRefused, StartThrows, channelVars, tableVars, brokerVars
<1>8. ASSUME NEW p \in pending, AssertQueue(p) PROVE Routing'
  BY <1>0, <1>8 DEF AssertQueue, startVars, tableVars
<1>9. ASSUME NEW p \in pending, BindQueue(p) PROVE Routing'
  <2>1. /\ UNCHANGED <<pc, open, exchangeOf, endpointOf>>
        /\ attached' = attached \cup {p.queue}
        /\ consuming' \subseteq consuming \cup {<<channelOf[p.queue], p.queue>>}
    BY <1>9 DEF BindQueue, startVars
  <2>. QED  BY <2>1 DEF Routing
<1>10. ASSUME NEW p \in pending, EnableRedelivery(p) PROVE Routing'
  <2>1. p.queue \in attached
    BY <1>10 DEF EnableRedelivery, Typed, SetupsTyped, Declared
  <2>2. /\ UNCHANGED <<pc, open, exchangeOf, endpointOf, attached>>
        /\ consuming' = consuming \cup {<<p.on, p.queue>>}
    BY <1>10 DEF EnableRedelivery, startVars
  <2>. QED  BY <2>1, <2>2 DEF Routing
<1>11. ASSUME NEW p \in pending, SetupRejects(p) PROVE Routing'
  BY <1>11, RestartRouting DEF SetupRejects
<1>12. CASE Dies
  BY <1>12, RestartRouting DEF Dies
<1>13. ASSUME NEW c \in up, ConnectionCloses(c) PROVE Routing'
  BY <1>0, <1>13 DEF ConnectionCloses, tableVars, brokerVars
<1>14. ASSUME NEW ch, Close(ch) PROVE Routing'
  BY <1>0, <1>14 DEF Close, startVars, tableVars, brokerVars
<1>. QED
  BY <1>1, <1>2, <1>3, <1>4, <1>5, <1>6, <1>7, <1>8, <1>9, <1>10, <1>11, <1>12, <1>13, <1>14
     DEF Next, Start, ChannelCloses, PublishUnroutable

\* A set of positions has a last one.
LEMMA LastOf ==
    ASSUME NEW n \in Nat, NEW T \in SUBSET (1 .. n), T # {}
    PROVE  \E i \in T : \A j \in T : j <= i
<1>. DEFINE R == OpToRel(<, Nat)
            D == {n - i : i \in T}
<1>1. IsWellFoundedOn(R, Nat)
  BY NatLessThanWellFounded
<1>0. \A i \in T : i \in 1 .. n /\ n - i \in Nat /\ n - i \in D
  OBVIOUS
<1>2. D \subseteq Nat /\ D # {}
  BY <1>0
<1>3. \A x, y \in Nat : <<x, y>> \in R <=> x < y
  BY DEF OpToRel
<1>. HIDE DEF R, D
<1>4. PICK x \in D : \A y \in D : ~(<<y, x>> \in R)
  BY <1>1, <1>2, WFMin
<1>5. \A y \in D : x <= y
  <2>1. ASSUME NEW y \in D PROVE x <= y
    <3>1. x \in Nat /\ y \in Nat
      BY <1>2
    <3>2. ~(y < x)
      BY <1>3, <1>4, <3>1
    <3>. QED  BY <3>1, <3>2
  <2>. QED  BY <2>1
<1>6. PICK i \in T : x = n - i
  BY DEF D
<1>. QED  BY <1>0, <1>5, <1>6
\* The exchange of a class that an endpoint carries is a queue that handles it,
\* and a class that none carries has none.
LEMMA ExchangeIs ==
    ASSUME NEW m \in Messages
    PROVE  \/ /\ RegisteredExchange[m] \in Queues
              /\ MessageOf[ConsumerAt[RegisteredExchange[m]]] = m
           \/ /\ RegisteredExchange[m] = None
              /\ \A q \in Queues : MessageOf[ConsumerAt[q]] # m
<1>. DEFINE Carries(i) == MessageOf[ConsumerAt[Endpoints[i]]] = m
            Last == {i \in DOMAIN Endpoints :
                        Carries(i) /\ \A j \in DOMAIN Endpoints : j > i => ~Carries(j)}
            All == {i \in DOMAIN Endpoints : Carries(i)}
<1>1. RegisteredExchange[m] = IF Last = {} THEN None ELSE Endpoints[CHOOSE i \in Last : TRUE]
  BY DEF RegisteredExchange
<1>2. CASE Last # {}
  <2>1. PICK i \in Last : RegisteredExchange[m] = Endpoints[i]
    BY <1>1, <1>2
  <2>. QED  BY <2>1, EndpointQueues
<1>3. CASE Last = {}
  <2>1. All = {}
    <3>1. SUFFICES ASSUME All # {} PROVE FALSE
      OBVIOUS
    <3>2. All \in SUBSET (1 .. Len(Endpoints)) /\ Len(Endpoints) \in Nat
      BY EndpointQueues
    <3>3. PICK i \in All : \A j \in All : j <= i
      <4>. HIDE DEF All
      <4>. QED  BY <3>1, <3>2, LastOf
    <3>4. \A j \in DOMAIN Endpoints : j > i => j \notin All
      BY <3>2, <3>3
    <3>. QED  BY <1>3, <3>3, <3>4
  <2>2. \A q \in Queues : \E i \in DOMAIN Endpoints : q = Endpoints[i]
    BY DEF Queues, Range
  <2>. QED  BY <1>1, <1>3, <2>1, <2>2
<1>. QED  BY <1>2, <1>3

\* The endpoint of a class or event is a queue that handles it.
LEMMA EndpointIs ==
    ASSUME Configured, NEW m \in Messages
    PROVE  /\ FinalEndpoint[m] # None =>
                 FinalEndpoint[m] \in Queues /\ Handles(FinalEndpoint[m], m)
           /\ \A q \in Queues : m \in EventsOf[ConsumerAt[q]] => FinalEndpoint[m] # None
<1>. DEFINE sagas == {c \in Consumers : m \in EventsOf[c]}
            named == {c \in DOMAIN EndpointName : MessageOf[c] = m}
<1>1. FinalEndpoint[m] =
         CASE sagas # {} -> RegisteredExchange[MessageOf[CHOOSE c \in sagas : TRUE]]
           [] sagas = {} /\ named # {} -> EndpointName[CHOOSE c \in named : TRUE]
           [] OTHER -> None
  BY DEF FinalEndpoint
<1>2. \A q \in Queues : ConsumerAt[q] \in Consumers
  BY TopologyAssumption
<1>3. CASE sagas # {}
  <2>1. PICK c \in sagas : FinalEndpoint[m] = RegisteredExchange[MessageOf[c]]
    BY <1>1, <1>3
  <2>2. MessageOf[c] \in Messages
    BY DEF Messages
  <2>3. \A d \in Consumers : m \in EventsOf[d] => d = c
    BY DEF Configured
  <2>4. \A d \in Consumers : MessageOf[d] = MessageOf[c] => d = c
    BY DEF Configured
  <2>5. CASE RegisteredExchange[MessageOf[c]] = None
    <3>1. \A q \in Queues : MessageOf[ConsumerAt[q]] # MessageOf[c]
      BY <2>2, <2>5, ExchangeIs, TopologyAssumption
    <3>. QED  BY <1>2, <2>1, <2>3, <2>5, <3>1
  <2>6. CASE RegisteredExchange[MessageOf[c]] # None
    <3>1. /\ FinalEndpoint[m] \in Queues
          /\ MessageOf[ConsumerAt[FinalEndpoint[m]]] = MessageOf[c]
      BY <2>1, <2>2, <2>6, ExchangeIs
    <3>2. ConsumerAt[FinalEndpoint[m]] = c
      BY <1>2, <2>4, <3>1
    <3>. QED  BY <2>1, <2>6, <3>1, <3>2 DEF Handles
  <2>. QED  BY <2>5, <2>6
<1>4. CASE sagas = {} /\ named # {}
  <2>1. PICK c \in named : FinalEndpoint[m] = EndpointName[c]
    BY <1>1, <1>4
  <2>2. FinalEndpoint[m] \in Queues /\ MessageOf[ConsumerAt[FinalEndpoint[m]]] = m
    BY <2>1 DEF Configured
  <2>. QED  BY <1>2, <1>4, <2>2 DEF Handles
<1>5. CASE sagas = {} /\ named = {}
  BY <1>1, <1>2, <1>5
<1>. QED  BY <1>3, <1>4, <1>5

\* With a proper configuration a process that is ready reaches the queues of what
\* it publishes and sends, and no others, whatever failed before: the tables are
\* filled in two passes, the second from the first, before any queue has a channel
\* (broker.rabbitmq.ts 183-272).
THEOREM RoutingCorrect ==
    ASSUME Configured
    PROVE  Spec => []MessagesReachConsumers
<1>1. ASSUME Typed, Routing
      PROVE  MessagesReachConsumers
  <2>. SUFFICES ASSUME Ready, NEW m \in Messages, \E q \in Queues : Handles(q, m)
                PROVE  /\ Routed(PublishExchange(m)) # {}
                       /\ \A q \in Routed(PublishExchange(m)) : Handles(q, m)
                       /\ endpointOf[m] # None =>
                             endpointOf[m] \in queues /\ Handles(endpointOf[m], m)
    BY DEF MessagesReachConsumers
  <2>1. Queues \subseteq attached /\ attached \subseteq queues
    BY <1>1 DEF Ready, Routing, Typed, SetupsTyped
  <2>2. exchangeOf = RegisteredExchange /\ endpointOf = FinalEndpoint
    <3>1. PICK q \in Queues : <<connection, q>> \in consuming
      BY DEF Ready
    <3>2. <<connection, q>> \in open
      BY <1>1, <3>1 DEF Typed, LinksTyped
    <3>. QED  BY <1>1, <3>2 DEF Routing
  <2>3. ASSUME NEW e \in Queues
        PROVE  Routed(e) = {e}
    <3>1. \A q \in Queues : <<e, q>> \notin bound
      BY <1>1 DEF Typed, TablesTyped, Configured
    <3>. QED  BY <2>1, <3>1 DEF Routed
  <2>4. PublishExchange(m) \in Queues /\ Handles(PublishExchange(m), m)
    <3>1. CASE RegisteredExchange[m] # None
      BY <2>2, <3>1, ExchangeIs DEF PublishExchange, Handles
    <3>2. CASE RegisteredExchange[m] = None
      <4>1. \E q \in Queues : m \in EventsOf[ConsumerAt[q]]
        BY <3>2, ExchangeIs, TopologyAssumption DEF Handles
      <4>2. /\ FinalEndpoint[m] # None
            /\ FinalEndpoint[m] \in Queues /\ Handles(FinalEndpoint[m], m)
        BY <4>1, EndpointIs
      <4>. QED  BY <2>2, <3>2, <4>2 DEF PublishExchange
    <3>. QED  BY <3>1, <3>2
  <2>5. endpointOf[m] # None => endpointOf[m] \in queues /\ Handles(endpointOf[m], m)
    BY <2>1, <2>2, EndpointIs
  <2>. QED  BY <2>3, <2>4, <2>5
<1>2. Init => Routing
  BY DEF Init, Bootstrap, Routing
<1>3. Spec => []Routing
  BY <1>2, TypedInvariant, NextRouting, PTL DEF Spec
<1>. QED  BY <1>1, <1>3, TypedInvariant, PTL
=============================================================================
