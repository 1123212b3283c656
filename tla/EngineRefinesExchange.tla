----------------------- MODULE EngineRefinesExchange -----------------------
(***************************************************************************)
(* The matching engine implements Exchange: forget the pool, the levels    *)
(* and the lookup, and keep the orders that the price lists reach.         *)
(***************************************************************************)
EXTENDS MatchingEngine

NoOrder == Blank

\* Whatever is submitted arrives unfilled, at some time.
SubmittedOrders ==
    { NewOrder(request, time) : request \in Requests, time \in 0 .. MaxOrders }

\* What Exchange asks of its constants.
ASSUME NoOrderAssumption == NoOrder \notin SubmittedOrders

RestingSlots ==
    { s \in Pool : \E symbol \in Symbols : Listed(order_books[symbol], s) }

RestingOrders == { mem[slot] : slot \in RestingSlots }

IncomingOrder == IF Idle THEN NoOrder ELSE mem[taker]

Ex == INSTANCE Exchange WITH
        Orders   <- SubmittedOrders,
        resting  <- RestingOrders,
        incoming <- IncomingOrder,
        tape     <- trade_history

\* Price-time priority, all-or-nothing FOK orders and cancels that disturb
\* nobody else: every step of the engine is a step of Exchange or changes
\* nothing that Exchange can see.
RefinesExchange == Ex!Spec
=============================================================================
