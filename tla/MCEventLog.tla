----------------------------- MODULE MCEventLog -----------------------------
(***************************************************************************)
(* Small instances of the server with crashes and restarts for TLC.        *)
(***************************************************************************)
EXTENDS EventLog

CONSTANTS f1, i1, i2, i3, i4, u1, u2

OneFd == {f1}
Ids == {i1, i2, i3, i4}

OrderOf(id, user, side, type, quantity) ==
    [id |-> id, symbol |-> "X", user_id |-> user, side |-> side, type |-> type,
     price |-> 2, quantity |-> quantity]

Bid == OrderOf(i1, u1, BUY, "LIMIT", 2)
Offer == OrderOf(i2, u2, SELL, "LIMIT", 1)
MarketSell == OrderOf(i3, u2, SELL, "MARKET", 2)
SmallBid == OrderOf(i4, u2, BUY, "LIMIT", 1)

\* gateway.py leaves seq_num at 0, s_client.py counts its packets from 1.
Submit(order, seq_num) ==
    [type |-> "NEW_ORDER", order |-> order, exact |-> TRUE, seq_num |-> seq_num]

Login == [type |-> "LOGIN_REQUEST"]
CancelBid == [type |-> "ORDER_CANCEL", id |-> i1, symbol |-> "X", user_id |-> u1, side |-> BUY,
              seq_num |-> 0]

\* The type byte is the low byte of seq_num; the price that the bytes up to the
\* id make is the least there is; and the user id is the high half of the
\* quantity.
OpeningOf ==
    [m \in Messages |->
        [type |-> IF "seq_num" \in DOMAIN m /\ m.seq_num # 0 THEN "LIMIT" ELSE "MARKET",
         price |-> 1, quantity |-> QuantityModulus \div 2]]

Orders == {Bid, Offer, MarketSell, SmallBid}

\* Orders that meet in the book or queue in it, in any order of the
\* connections; a cancel is followed by an order of either numbering, or by
\* two of them, or ends the file.
LogScripts ==
    {<< Login, Submit(Bid, 0), Submit(Offer, 0) >>,
     << Login, Submit(Bid, 0), CancelBid >>,
     << Login, Submit(Offer, 2) >>,
     << Login, Submit(MarketSell, 0) >>,
     << Login, Submit(SmallBid, 2) >>}

\* A bid that is cancelled.
CancelScripts == {<< Login, Submit(Bid, 0), CancelBid >>}
=============================================================================
