------------------------------ MODULE Exchange ------------------------------
(***************************************************************************)
(* What the engine promises its clients, with no pool, no price levels and *)
(* no lookup: a set of resting orders, at most one incoming order, and the *)
(* tape of trades.  A trade is always between the incoming order and the   *)
(* order that has priority among the resting orders of the other side:     *)
(* the best price, and among equal prices the one that arrived first       *)
(* (docs/DESIGN.md, "Price-time priority").                                *)
(***************************************************************************)
EXTENDS Integers, Sequences, FiniteSetsExt

CONSTANTS
    Orders,     \* the orders a client can submit, as they arrive
    NoOrder     \* no order is being matched; not one of Orders

VARIABLES resting, incoming, tape

exchangeVars == << resting, incoming, tape >>

Left(order) == order.quantity - order.quantity_filled

\* The incoming order takes the price of the resting one.
Takes(order, other) ==
    /\ other.symbol = order.symbol
    /\ other.side # order.side
    /\ \/ order.type = "MARKET"
       \/ order.side = "BUY" /\ other.price <= order.price
       \/ order.side = "SELL" /\ other.price >= order.price

Counterparties(order) == {other \in resting : Takes(order, other)}

HasPriority(a, b) ==
    \/ a.price = b.price /\ a.timestamp < b.timestamp
    \/ a.side = "BUY" /\ a.price > b.price
    \/ a.side = "SELL" /\ a.price < b.price

First(order) ==
    CHOOSE best \in Counterparties(order) :
        \A other \in Counterparties(order) : other = best \/ HasPriority(best, other)

Liquidity(order) ==
    SumFunction([other \in Counterparties(order) |-> Left(other)])

Init ==
    /\ resting = {}
    /\ incoming = NoOrder
    /\ tape = << >>

\* A Fill-or-Kill order comes in only if the book can fill it whole.
Accept ==
    /\ incoming = NoOrder
    /\ incoming' \in Orders
    /\ Left(incoming') > 0
    /\ incoming'.type = "FOK" => Liquidity(incoming') >= Left(incoming')
    /\ UNCHANGED << resting, tape >>

After(order, quantity) == [order EXCEPT !.quantity_filled = @ + quantity]

\* The trade's time is that of the incoming order; its price the maker's.
TapeEntry(order, maker, quantity) ==
    LET buyer  == IF order.side = "BUY" THEN order ELSE maker
        seller == IF order.side = "BUY" THEN maker ELSE order
    IN  [buy_order_id |-> buyer.id, buy_user_id |-> buyer.user_id,
         sell_order_id |-> seller.id, sell_user_id |-> seller.user_id,
         symbol |-> order.symbol, price |-> maker.price,
         quantity |-> quantity, timestamp |-> order.timestamp + 1]

Execute ==
    /\ incoming # NoOrder
    /\ Left(incoming) > 0
    /\ Counterparties(incoming) # {}
    /\ LET maker    == First(incoming)
           quantity == Min({Left(incoming), Left(maker)})
           rest     == After(maker, quantity)
       IN  /\ incoming' = After(incoming, quantity)
           /\ tape' = Append(tape, TapeEntry(incoming, maker, quantity))
           /\ resting' = (resting \ {maker}) \cup
                            (IF Left(rest) = 0 THEN {} ELSE {rest})

\* Only LIMIT and GFD orders rest; of the others the remainder is dropped.
Settle ==
    /\ incoming # NoOrder
    /\ Left(incoming) = 0 \/ Counterparties(incoming) = {}
    /\ incoming' = NoOrder
    /\ resting' = IF Left(incoming) > 0 /\ incoming.type \in {"LIMIT", "GFD"}
                  THEN resting \cup {incoming}
                  ELSE resting
    /\ UNCHANGED tape

\* A cancel removes the order it names; the others keep their places.
Withdraw(order) ==
    /\ incoming = NoOrder
    /\ resting' = resting \ {order}
    /\ UNCHANGED << incoming, tape >>

Next ==
    \/ Accept
    \/ Execute
    \/ Settle
    \/ \E order \in resting : Withdraw(order)

Spec == Init /\ [][Next]_exchangeVars
=============================================================================
