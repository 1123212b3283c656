------------------------------ MODULE MCGateway ------------------------------
(***************************************************************************)
(* Small instances of the server for TLC.                                  *)
(***************************************************************************)
EXTENDS ClientGateway

CONSTANTS f1, f2, i1, i2, i3, u1, u2

BothFds == {f1, f2}
OneFd == {f1}
Ids == {i1, i2, i3}

OrderOf(id, user, side, type, price, quantity) ==
    [id |-> id, symbol |-> "X", user_id |-> user, side |-> side, type |-> type,
     price |-> price, quantity |-> quantity]

Bid == OrderOf(i1, u1, BUY, "LIMIT", 1, 2)
Offer == OrderOf(i2, u2, SELL, "LIMIT", 1, 1)
MarketSell == OrderOf(i2, u2, SELL, "MARKET", 0, 3)
Nothing == OrderOf(i3, u2, SELL, "LIMIT", 1, 0)

Submit(order, exact) == [type |-> "NEW_ORDER", order |-> order, exact |-> exact]

Login == [type |-> "LOGIN_REQUEST"]
Subscribe == [type |-> "SUBSCRIPTION_REQUEST", symbol |-> "X", is_subscribe |-> TRUE]
Unsubscribe == [Subscribe EXCEPT !.is_subscribe = FALSE]
Query == [type |-> "MARKET_DATA_REQUEST", symbol |-> "X"]
CancelBid == [type |-> "ORDER_CANCEL", id |-> i1, symbol |-> "X", user_id |-> u1]
TooLong == [type |-> "INVALID"]
Unknown == [type |-> "UNKNOWN"]

Orders == {Bid, Offer, MarketSell, Nothing}

\* A request before the login and every message after it, an order that is
\* refused, a symbol that is padded, and a length out of range.
GatewayScripts ==
    {<< Login, Subscribe, Submit(Bid, TRUE) >>,
     << Login, Subscribe, Query, CancelBid, Unsubscribe >>,
     << Login, Submit(Offer, TRUE) >>,
     << Subscribe, Login, Unknown, Submit(Offer, FALSE), TooLong >>,
     << Login, Submit(MarketSell, TRUE), Submit(Nothing, TRUE) >>}

\* A client that may leave before its answers come.
LeavingScripts == {<< Login, Subscribe, Submit(Bid, TRUE) >>}
=============================================================================
