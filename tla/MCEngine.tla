------------------------------ MODULE MCEngine ------------------------------
(***************************************************************************)
(* Small instances of the matching engine for TLC.                         *)
(***************************************************************************)
EXTENDS EngineClaims

CONSTANTS i1, i2, i3, u1, u2

Ids2 == {i1, i2}
Ids3 == {i1, i2, i3}
IdSymmetry3 == Permutations(Ids3)

RequestsOf(ids, types, prices, quantities) ==
    [id : ids, symbol : {"X"}, user_id : {u1}, side : Sides,
     type : types, price : prices, quantity : quantities]

\* One order for each reason to refuse one, and one of the least valid price.
RefusedRequests ==
    {r \in RequestsOf({i1}, {"LIMIT"}, {0}, {1})
             \cup RequestsOf({i1}, {"GFD"}, {-1}, {1})
             \cup RequestsOf({i1}, {"LIMIT"}, {1}, {0})
             \cup {[q EXCEPT !.symbol = ""] :
                       q \in RequestsOf({i1}, {"LIMIT"}, {1}, {1})} : r.side = BUY}

\* Every type, with and without a price that the other side accepts.  Modulo 4
\* a FOK order of 2 finds too much at 3, wraps around, and finds 0 at 3 + 3.
TypesRequests ==
    RequestsOf(Ids2, {"LIMIT"}, {1, 2}, {1, 3})
        \cup RequestsOf(Ids2, {"FOK"}, {1, 2}, {2})
        \cup RequestsOf(Ids2, {"IOC"}, {1}, {2})
        \cup RequestsOf(Ids2, {"MARKET"}, {0}, {2})
        \cup RequestsOf({i1}, {"GFD"}, {0}, {1})
        \cup RefusedRequests

\* LIMIT orders of two users, to be told apart on the tape, two prices and
\* sizes; the sells are of size 2, so that a buy of size 1 fills one in part
\* and the next buy finds it again.  FOK and MARKET orders, and a bid with the
\* same ids in a second symbol.
BookRequests ==
    LET limits == {r \in RequestsOf(Ids3, {"LIMIT"}, {1, 2}, {1, 2}) :
                      r.side = SELL => r.quantity = 2}
        others == {r \in RequestsOf(Ids3, {"FOK"}, {2}, {1}) : r.side = BUY}
                    \cup {r \in RequestsOf(Ids3, {"MARKET"}, {0}, {2}) : r.side = SELL}
        second == {[r EXCEPT !.symbol = "Y"] :
                      r \in {q \in limits : q.side = BUY /\ q.price = 1 /\ q.quantity = 1}}
    IN  {[r EXCEPT !.user_id = IF r.side = BUY THEN u1 ELSE u2] :
            r \in limits \cup others \cup second}

\* Fill-or-Kill buys against sells of another size, and Fill-or-Kill sells
\* against bids of the same size at two prices.
FokRequests ==
    {r \in RequestsOf(Ids2, {"LIMIT"}, {1}, {2}) : r.side = SELL}
        \cup {r \in RequestsOf(Ids2, {"FOK"}, {1}, {1, 2}) : r.side = BUY}
        \cup {r \in RequestsOf(Ids3, {"LIMIT"}, {1, 2}, {1}) : r.side = BUY}
        \cup {r \in RequestsOf(Ids3, {"FOK"}, {2}, {1}) : r.side = SELL}
=============================================================================
