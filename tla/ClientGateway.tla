---------------------------- MODULE ClientGateway ----------------------------
(***************************************************************************)
(* The server's side of the wire: TcpServer (src/tcp_server.cpp), its      *)
(* select loop and callbacks, and ClientGateway (src/client_gateway.cpp),  *)
(* sessions, framing, handlers, reports and subscriptions, on top of the   *)
(* matching engine.  One thread runs all of it: a packet is handled to its *)
(* end, the engine's loop included, before the next byte is looked at.     *)
(* Clients connect, send, close and are cut off at any time.               *)
(*                                                                         *)
(* The stream of a connection is a sequence of units.  A message is its    *)
(* header and its body, one unit each, so that a recv can end within a     *)
(* message.  INVALID is one whose header has a length out of range.        *)
(***************************************************************************)
EXTENDS MatchingEngine

CONSTANTS
    Fds,            \* descriptors
    NoFd,           \* none of them
    Scripts,        \* sequences of messages: what a client may send
    RecvSize,       \* units that one recv returns at most
    MaxConnections  \* bound on the connections made in a behaviour

Messages == UNION { Range(script) : script \in Scripts }

\* The fields that the handlers read.
HasFields(m) ==
    /\ m.type = "NEW_ORDER" => m.order \in Requests
    /\ m.type = "ORDER_CANCEL" => m.id \in OrderIds /\ m.symbol \in Symbols
    /\ m.type \in {"SUBSCRIPTION_REQUEST", "MARKET_DATA_REQUEST"} => m.symbol \in Symbols

\* No two orders of the script have the same id.
UsesIdsOnce(script) ==
    \A i, j \in DOMAIN script :
        /\ script[i].type = "NEW_ORDER" /\ script[j].type = "NEW_ORDER"
        /\ script[i].order.id = script[j].order.id
        => i = j

ASSUME GatewayAssumption ==
    /\ NoFd \notin Fds
    /\ RecvSize \in Nat \ {0}
    /\ MaxConnections \in Nat
    /\ Scripts \subseteq Seq(Messages)
    /\ \A m \in Messages : HasFields(m)
    /\ \A script \in Scripts : UsesIdsOnce(script)

VARIABLES
    peer,           \* the client's end of each descriptor: none, open, closed,
                    \* or reset: closed, and it has answered a packet with a reset
    wire,           \* what it sends and the server has not received
    clients,        \* the descriptors the server polls, in order
    fds,            \* those that select reported and the round has not reached
    sessions,       \* sessions_: a partial function on Fds
    subscriptions,  \* market_data_subscriptions_
    event_log,      \* the records of orders.bin: the requests as they came
    serving,        \* the descriptor that onMessage is parsing, or NoFd
    processing,     \* handleNewOrderInternal is in process_new_order
    sent,           \* the packets of the last handler, with their descriptors
    crashed,        \* the process is gone: a null pointer, or SIGPIPE

    unhandled,      \* the messages each client sends that were not handled
    shown,          \* the last snapshot of each symbol each subscriber was sent
    submitted,      \* the order ids that clients have used
    connections     \* how many connections were made

netVars == << peer, wire, clients, fds, unhandled, submitted, connections >>
gatewayVars == << sessions, subscriptions, event_log, serving, processing, sent,
                  crashed, shown >>
systemVars == << vars, netVars, gatewayVars >>

NoSession == [logged_in |-> FALSE, buffer |-> << >>]

NothingShown == [symbol \in Symbols |-> << >>]

GatewayInit ==
    /\ Init
    /\ peer = [fd \in Fds |-> "none"]
    /\ wire = [fd \in Fds |-> << >>]
    /\ clients = << >>
    /\ fds = {}
    /\ sessions = [fd \in {} |-> NoSession]
    /\ subscriptions = [symbol \in Symbols |-> {}]
    /\ event_log = << >>
    /\ serving = NoFd
    /\ processing = FALSE
    /\ sent = << >>
    /\ crashed = FALSE
    /\ unhandled = [fd \in Fds |-> << >>]
    /\ shown = [fd \in Fds |-> NothingShown]
    /\ submitted = {}
    /\ connections = 0

-----------------------------------------------------------------------------
(***************************************************************************)
(* Clients.  A descriptor that is closed on both sides may be used again.  *)
(* What a client is going to send is on the wire at once, and what has     *)
(* arrived of it by the time of a select or a recv is left open there.     *)
(***************************************************************************)
Stream(script) ==
    [k \in 1 .. 2 * Len(script) |->
        << script[(k + 1) \div 2], IF k % 2 = 1 THEN "header" ELSE "body" >>]

IdsOf(script) ==
    {script[i].order.id : i \in {j \in DOMAIN script : script[j].type = "NEW_ORDER"}}

\* An order id is used once: what FreshId asks of the clients.
ClientConnects(fd, script) ==
    /\ peer[fd] = "none"
    /\ connections < MaxConnections
    /\ connections' = connections + 1
    /\ IdsOf(script) \cap submitted = {}
    /\ submitted' = submitted \cup IdsOf(script)
    /\ peer' = [peer EXCEPT ![fd] = "open"]
    /\ wire' = [wire EXCEPT ![fd] = Stream(script)]
    /\ unhandled' = [unhandled EXCEPT ![fd] = script]
    /\ UNCHANGED << vars, gatewayVars, clients, fds >>

\* A client that closes leaves what it sent to be read; one that is reset, or
\* closes before it sends the rest, takes it along.
ClientCloses(fd) ==
    /\ peer[fd] = "open"
    /\ peer' = [peer EXCEPT ![fd] = "closed"]
    /\ wire' \in {wire, [wire EXCEPT ![fd] = << >>]}
    /\ UNCHANGED << vars, gatewayVars, clients, fds, unhandled, submitted,
                    connections >>

-----------------------------------------------------------------------------
(***************************************************************************)
(* TcpServer::start                                                        *)
(***************************************************************************)
Polled == {clients[i] : i \in DOMAIN clients}

Readable == {fd \in Polled : wire[fd] # << >> \/ peer[fd] \in {"closed", "reset"}}

Backlog == {fd \in Fds \ Polled : peer[fd] # "none"}

AtSelect == ~crashed /\ serving = NoFd /\ fds = {}

\* A round: what is readable is remembered, and a new client is not in it.
Select ==
    /\ AtSelect
    /\ fds' \in SUBSET Readable \ {{}}
    /\ UNCHANGED << vars, gatewayVars, peer, wire, clients, unhandled, submitted,
                    connections >>

onConnection(fd) == sessions' = Put(sessions, fd, NoSession)

SelectAndAccept(fd) ==
    /\ AtSelect
    /\ fd \in Backlog
    /\ fds' \in SUBSET Readable
    /\ clients' = Append(clients, fd)
    /\ onConnection(fd)
    /\ UNCHANGED << vars, subscriptions, event_log, serving, processing, sent, crashed,
                    shown, peer, wire, unhandled, submitted, connections >>

\* The next of the round, in the order of clients.
NextReadable == Min({i \in DOMAIN clients : clients[i] \in fds})

AtClient(fd) ==
    /\ ~crashed /\ serving = NoFd /\ fds # {}
    /\ fd = clients[NextReadable]
    /\ fds' = fds \ {fd}

ReceiveSome(fd) ==
    /\ AtClient(fd)
    /\ \E n \in 1 .. Min({RecvSize, Len(wire[fd])}) :
          /\ sessions' = [sessions EXCEPT ![fd].buffer = @ \o SubSeq(wire[fd], 1, n)]
          /\ wire' = [wire EXCEPT ![fd] = SubSeq(@, n + 1, Len(@))]
    /\ serving' = fd
    /\ UNCHANGED << vars, subscriptions, event_log, processing, sent, crashed, shown,
                    peer, clients, unhandled, submitted, connections >>

\* Variation: the subscriptions outlive the connection.
onDisconnectionKeeping(fd) ==
    /\ sessions' = Without(sessions, fd)
    /\ UNCHANGED subscriptions

\* Variation: the session outlives the connection.
onDisconnectionOfSubscriber(fd) ==
    /\ UNCHANGED sessions
    /\ subscriptions' = [symbol \in Symbols |-> subscriptions[symbol] \ {fd}]

onDisconnection(fd) ==
    /\ sessions' = Without(sessions, fd)
    /\ subscriptions' = [symbol \in Symbols |-> subscriptions[symbol] \ {fd}]

\* recv returns 0, or an error after a reset.
Disconnect(fd) ==
    /\ AtClient(fd)
    /\ wire[fd] = << >>
    /\ onDisconnection(fd)
    /\ clients' = Erased(clients, NextReadable)
    /\ peer' = [peer EXCEPT ![fd] = "none"]
    /\ unhandled' = [unhandled EXCEPT ![fd] = << >>]
    /\ shown' = [shown EXCEPT ![fd] = NothingShown]
    /\ UNCHANGED << vars, event_log, serving, processing, sent, crashed, wire,
                    submitted, connections >>

-----------------------------------------------------------------------------
(***************************************************************************)
(* ClientGateway::onMessage: the loop over the packets in the buffer.      *)
(***************************************************************************)
Buffer == sessions[serving].buffer

Parsing == ~crashed /\ serving # NoFd /\ ~processing

Packet == Buffer[1][1]

PacketInBuffer == Len(Buffer) >= 2 /\ Packet.type # "INVALID"

\* Too little for a header or for the packet, or a length out of range: the
\* loop ends and the buffer stays as it is.
NothingToHandle ==
    /\ Parsing
    /\ ~PacketInBuffer
    /\ serving' = NoFd
    /\ sent' = << >>
    /\ UNCHANGED << vars, netVars, sessions, subscriptions, event_log, processing,
                    crashed, shown >>

Complete == Parsing /\ PacketInBuffer

\* Variation: a packet of maximal size is assumed, and the rest dropped.
ErasePacketAndRest(update) ==
    /\ sessions' = [sessions EXCEPT ![serving] = [update EXCEPT !.buffer = << >>]]
    /\ unhandled' = [unhandled EXCEPT ![serving] = Tail(@)]
    /\ UNCHANGED << wire, clients, fds, submitted, connections >>

\* The packet has been handled; the session is update but for its buffer.
ErasePacket(update) ==
    /\ sessions' = [sessions EXCEPT ![serving] =
                       [update EXCEPT !.buffer = SubSeq(@, 3, Len(@))]]
    /\ unhandled' = [unhandled EXCEPT ![serving] = Tail(@)]
    /\ UNCHANGED << wire, clients, fds, submitted, connections >>

SnapshotsIn(packets, fd, symbol) ==
    {i \in DOMAIN packets : /\ packets[i].type = "MARKET_DATA_SNAPSHOT"
                            /\ packets[i].fd = fd
                            /\ packets[i].symbol = symbol}

\* Packets that the server sends in one handler; the last snapshot is what its
\* receiver knows of the symbol from then on, if it is subscribed.
ShownAfter(packets) ==
    [fd \in Fds |-> [symbol \in Symbols |->
        LET snapshots == SnapshotsIn(packets, fd, symbol)
        IN  IF fd \notin subscriptions'[symbol] THEN << >>
            ELSE IF snapshots = {} THEN shown[fd][symbol]
            ELSE << packets[Max(snapshots)].quote >>]]

PacketsTo(fd, packets) == Cardinality({i \in DOMAIN packets : packets[i].fd = fd})

\* A client that is gone answers the first packet with a reset, and the next
\* send on that connection raises SIGPIPE if the reset has arrived by then.
\* Nothing ignores the signal: it ends the process.
RaisesSigpipe(packets) ==
    \E fd \in Fds :
        \/ peer[fd] = "closed" /\ PacketsTo(fd, packets) > 1
        \/ peer[fd] = "reset" /\ PacketsTo(fd, packets) > 0

\* sent is what the handler sends, or would have sent if it dies on the way.
SendPackets(packets) ==
    /\ sent' = packets
    /\ shown' = ShownAfter(packets)
    /\ peer' = [fd \in Fds |-> IF peer[fd] = "closed" /\ PacketsTo(fd, packets) > 0
                               THEN "reset" ELSE peer[fd]]
    /\ crashed' \in {FALSE, RaisesSigpipe(packets)}

\* Variation: the rest of the buffer is left for the next recv.
HandledOnce(update, packets) ==
    /\ ErasePacket(update)
    /\ UNCHANGED processing
    /\ SendPackets(packets)
    /\ serving' = NoFd

Handled(update, packets) ==
    /\ ErasePacket(update)
    /\ UNCHANGED << serving, processing >>
    /\ SendPackets(packets)

Session == sessions[serving]

\* Every handler but the login wants a logged in client and else does nothing.
Request(type) == Complete /\ Packet.type = type /\ Session.logged_in

-----------------------------------------------------------------------------
(***************************************************************************)
(* The handlers.                                                           *)
(***************************************************************************)
handleLogin ==
    /\ Complete
    /\ Packet.type = "LOGIN_REQUEST"
    /\ UNCHANGED << vars, subscriptions, event_log >>
    /\ Handled([Session EXCEPT !.logged_in = TRUE],
               << [fd |-> serving, type |-> "LOGIN_RESPONSE"] >>)

\* A client that is not logged in, or a type that processPacket does not know.
Ignored ==
    /\ Complete
    /\ Packet.type # "LOGIN_REQUEST"
    /\ ~Session.logged_in \/ Packet.type = "UNKNOWN"
    /\ UNCHANGED << vars, subscriptions, event_log >>
    /\ Handled(Session, << >>)

handleSubscriptionRequest ==
    /\ Request("SUBSCRIPTION_REQUEST")
    /\ subscriptions' = [subscriptions EXCEPT ![Packet.symbol] =
                            IF Packet.is_subscribe THEN @ \cup {serving} ELSE @ \ {serving}]
    /\ UNCHANGED << vars, event_log >>
    /\ Handled(Session, << >>)

SnapshotDepth == 5

Snapshot(fd, symbol, books, memory) ==
    [fd |-> fd, type |-> "MARKET_DATA_SNAPSHOT", symbol |-> symbol,
     quote |-> getL2Quote(books[symbol], memory, SnapshotDepth)]

\* A symbol without a book is not answered.
handleMarketDataRequest ==
    /\ Request("MARKET_DATA_REQUEST")
    /\ UNCHANGED << vars, subscriptions, event_log >>
    /\ Handled(Session, IF Packet.symbol \in created
                        THEN << Snapshot(serving, Packet.symbol, order_books, mem) >>
                        ELSE << >>)

\* The subscribers that a broadcast does not skip.
Audience(symbol) ==
    {fd \in subscriptions[symbol] : fd \in DOMAIN sessions /\ sessions[fd].logged_in}

\* Variation: the books as they were before the order or the cancel.
broadcastStaleMarketData(symbol) ==
    IF symbol \notin created' THEN << >>
    ELSE LET audience == SetToSeq(Audience(symbol))
         IN  [i \in DOMAIN audience |-> Snapshot(audience[i], symbol, order_books, mem)]

broadcastMarketData(symbol) ==
    IF symbol \notin created' THEN << >>
    ELSE LET audience == SetToSeq(Audience(symbol))
         IN  [i \in DOMAIN audience |-> Snapshot(audience[i], symbol, order_books', mem')]

broadcastTradeUpdate(trade) ==
    LET audience == SetToSeq(Audience(trade.symbol))
    IN  [i \in DOMAIN audience |->
            [fd |-> audience[i], type |-> "TRADE_UPDATE", symbol |-> trade.symbol,
             price |-> trade.price, quantity |-> trade.quantity]]

ExecutionReport(id, user_id, quantity, filled_quantity, status) ==
    [fd |-> serving, type |-> "EXECUTION_REPORT", client_order_id |-> id,
     user_id |-> user_id, quantity |-> quantity, filled_quantity |-> filled_quantity,
     status |-> status]

NEW_REPORT == 0
PARTIALLY_FILLED == 1
FILLED == 2
CANCELED == 3
REJECTED == 4

\* The cancel is logged, done and reported; the order as it was.
handleOrderCancel ==
    /\ Request("ORDER_CANCEL")
    /\ event_log' = Append(event_log, Packet)
    /\ CancelOrder(Packet.id, Packet.symbol)
    /\ UNCHANGED subscriptions
    /\ LET slot == cancelled(order_books[Packet.symbol], mem, Packet.id)
           report == IF slot = NoSlot
                     THEN ExecutionReport(Packet.id, Packet.user_id, 0, 0, REJECTED)
                     ELSE ExecutionReport(Packet.id, Packet.user_id, mem[slot].quantity,
                                          mem[slot].quantity_filled, CANCELED)
       IN  Handled(Session, << report >> \o broadcastMarketData(Packet.symbol))

\* Variation: the order is given the user of the session.
handleNewOrderOfSession ==
    /\ Request("NEW_ORDER")
    /\ event_log' = Append(event_log, Packet)
    /\ ProcessNewOrder([Packet.order EXCEPT !.user_id = serving])
    /\ processing' = TRUE
    /\ UNCHANGED << netVars, sessions, subscriptions, serving, sent, crashed, shown >>

\* The order is logged and given to the engine ...
handleNewOrder ==
    /\ Request("NEW_ORDER")
    /\ event_log' = Append(event_log, Packet)
    /\ ProcessNewOrder(Packet.order)
    /\ processing' = TRUE
    /\ UNCHANGED << netVars, sessions, subscriptions, serving, sent, crashed, shown >>

EngineRuns ==
    /\ ~crashed /\ processing
    /\ EngineStep
    /\ UNCHANGED << netVars, gatewayVars >>

\* What the local copy of the order has filled after the first n trades.
CopyFilled(n) ==
    SumFunctionOnSet([k \in DOMAIN trades |-> trades[k].quantity], 1 .. n) % QuantityModulus

\* Variation: the report is composed before the copy is reduced.
TakerReportOfBefore(n) ==
    LET order == Packet.order
    IN  ExecutionReport(order.id, order.user_id, trades[n].quantity, CopyFilled(n - 1),
            IF CopyFilled(n - 1) >= order.quantity THEN FILLED ELSE PARTIALLY_FILLED)

TakerReport(n) ==
    LET order == Packet.order
    IN  ExecutionReport(order.id, order.user_id, trades[n].quantity, CopyFilled(n),
            IF CopyFilled(n) >= order.quantity THEN FILLED ELSE PARTIALLY_FILLED)

\* The report meant for the other side: its user_id is an order id, its fill
\* is that of the incoming order if that rests, and its status is always 2.
MakerReport(n) ==
    LET order == Packet.order
        trade == trades[n]
        maker == IF order.side = BUY THEN trade.sell_order_id ELSE trade.buy_order_id
        slot  == getOrderbyId(order_books[order.symbol], order.id)
    IN  ExecutionReport(maker, maker, trade.quantity,
            IF slot = NoSlot THEN trade.quantity ELSE mem[slot].quantity_filled, FILLED)

ReportsOf(n) == << TakerReport(n), MakerReport(n) >> \o broadcastTradeUpdate(trades[n])

\* ... and what came of it is reported when process_new_order has returned.
ReportOrder ==
    /\ ~crashed /\ processing /\ Idle
    /\ trades # << >> => Packet.exact
    /\ processing' = FALSE
    /\ ErasePacket(Session)
    /\ UNCHANGED << vars, subscriptions, event_log, serving >>
    /\ LET order   == Packet.order
           reports == IF trades = << >>
                      THEN << ExecutionReport(order.id, order.user_id, order.quantity,
                                              0, NEW_REPORT) >>
                      ELSE FlattenSeq([n \in DOMAIN trades |-> ReportsOf(n)])
       IN  SendPackets(reports \o broadcastMarketData(order.symbol))

\* The book is looked up by the symbol as it was sent.  Unless that is the
\* symbol without its padding, there is none, and its null pointer is used
\* after the first report.
ReportCrashes ==
    /\ ~crashed /\ processing /\ Idle
    /\ trades # << >> /\ ~Packet.exact
    /\ crashed' = TRUE
    /\ sent' = << TakerReport(1) >>
    /\ UNCHANGED << vars, netVars, sessions, subscriptions, event_log, serving,
                    processing, shown >>

-----------------------------------------------------------------------------
Clients ==
    \E fd \in Fds :
        \/ \E script \in Scripts : ClientConnects(fd, script)
        \/ ClientCloses(fd)

Server ==
    \/ Select
    \/ \E fd \in Fds : SelectAndAccept(fd) \/ ReceiveSome(fd) \/ Disconnect(fd)
    \/ NothingToHandle
    \/ handleLogin
    \/ Ignored
    \/ handleSubscriptionRequest
    \/ handleMarketDataRequest
    \/ handleOrderCancel
    \/ handleNewOrder
    \/ EngineRuns
    \/ ReportOrder
    \/ ReportCrashes

\* Clients act while the server is in select.  What arrives while it is busy
\* is, to the server, what arrives at its next select: it reads a descriptor
\* once in a round, and only if it was readable when the round began.
GatewayNext == (AtSelect /\ Clients) \/ Server

GatewaySpec == GatewayInit /\ [][GatewayNext]_systemVars

\* The server's thread keeps running; clients need do nothing.
FairGatewaySpec == GatewaySpec /\ WF_systemVars(Server)
-----------------------------------------------------------------------------
(***************************************************************************)
(* Properties.                                                             *)
(***************************************************************************)
\* Every variable has its type; there is a session for every descriptor that
\* is polled and for no other, and an order is processed only for a session.
GatewayTypeOK ==
    /\ peer \in [Fds -> {"none", "open", "closed", "reset"}]
    /\ NoDuplicates(clients)
    /\ fds \subseteq Polled
    /\ DOMAIN sessions = Polled
    /\ serving \in Polled \cup {NoFd}
    /\ \A symbol \in Symbols : subscriptions[symbol] \subseteq Fds
    /\ processing => serving # NoFd /\ Packet.type = "NEW_ORDER"
    /\ ~Idle => processing

\* Only logged in clients are subscribed, although subscriptions are kept by
\* descriptor and a descriptor is used again by the next connection.
SubscribersAreLoggedIn ==
    \A symbol \in Symbols : \A fd \in subscriptions[symbol] :
        fd \in DOMAIN sessions /\ sessions[fd].logged_in

\* However the stream is cut into recvs, and across descriptors that are used
\* again, the messages of a connection are handled once each and in order:
\* what was not handled yet is what is in the buffer and on the wire.
StreamInOrder ==
    \A fd \in Fds :
        peer[fd] = "open" =>
            Stream(unhandled[fd]) = (IF fd \in Polled THEN sessions[fd].buffer ELSE << >>) \o wire[fd]

\* The last snapshot that a subscriber was sent is the book as it is, but
\* while an order is processed: no change of a book goes unannounced.
SubscribersSeeTheBook ==
    ~processing =>
        \A symbol \in Symbols : \A fd \in subscriptions[symbol] :
            shown[fd][symbol] \in
                {<< >>, << getL2Quote(order_books[symbol], mem, SnapshotDepth) >>}

\* The engine under the server is the engine that was specified: whatever the
\* clients do, every step of the server is a step of the engine's Next or
\* leaves the engine alone, so that all its properties hold here.
EngineAsSpecified == Spec

ReportsIn(packets, id) ==
    {i \in DOMAIN packets : /\ packets[i].type = "EXECUTION_REPORT"
                            /\ packets[i].client_order_id = id}

\* The last report of an order agrees with the book: what rests is reported
\* with the fill it has in the engine and not as filled, and a limit order
\* that traded and does not rest is reported as filled.
TakerReportsAgree ==
    [][ ReportOrder =>
          LET order == Packet.order
              slot  == getOrderbyId(order_books[order.symbol], order.id)
              last  == sent'[Max(ReportsIn(sent', order.id))]
          IN  IF slot # NoSlot
              THEN last.filled_quantity = mem[slot].quantity_filled /\ last.status # FILLED
              ELSE trades # << >> /\ order.type = "LIMIT" =>
                      last.filled_quantity = order.quantity /\ last.status = FILLED ]_systemVars

\* Whatever a client sends is handled, unless it is preceded by a length that
\* is out of range, its connection ends, or the server crashes.
MessagesAreHandled ==
    \A fd \in Fds :
        unhandled[fd] # << >> ~>
            \/ unhandled[fd] = << >>
            \/ \E i \in DOMAIN unhandled[fd] : unhandled[fd][i].type = "INVALID"
            \/ crashed

-----------------------------------------------------------------------------
(***************************************************************************)
(* What the comments and documents say and the code does not do.           *)
(***************************************************************************)
\* docs/DESIGN.md:76 "For unexpected errors, log at ERROR and continue to
\* serve other clients": the server goes on.  One client ends it for all when
\* it closes with answers or market data still to come (SIGPIPE), or when its
\* order trades and its symbol was padded with spaces (a null book).
KeepsServing == ~crashed
=============================================================================
