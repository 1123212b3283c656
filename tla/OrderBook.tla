------------------------------ MODULE OrderBook ------------------------------
(***************************************************************************)
(* One order book (src/order_book.cpp, include/order_book.h) as a record   *)
(*    orders : for each side a partial function from a price to the list   *)
(*             of slots queued at that price, oldest first                 *)
(*    lookup : a partial function from an order id to a slot               *)
(* and the operations on it.  A slot is an index into the object pool and  *)
(* stands for an Order*; the order itself is mem[slot], as it is behind    *)
(* the pointer in the code, so a book never holds a copy that could differ *)
(* from the pool's.  The std::list iterator kept beside the pointer in     *)
(* OrderInfo is the slot's node in its price list.                         *)
(***************************************************************************)
EXTENDS ObjectPool, Functions, FiniteSetsExt

CONSTANT
    QuantityModulus    \* 2^64 in the code: Quantity is an unsigned integer

ASSUME QuantityModulusAssumption == QuantityModulus \in Nat \ {0}

BUY == "BUY"
SELL == "SELL"
Sides == {BUY, SELL}

Opposite(side) == IF side = BUY THEN SELL ELSE BUY

OrderTypes == {"LIMIT", "MARKET", "FOK", "IOC", "GFD"}

Quantities == 0 .. QuantityModulus - 1

(***************************************************************************)
(* Order (include/types.h).  Sums and differences of two quantities wrap   *)
(* around as uint64_t does.                                                *)
(***************************************************************************)
Minus(a, b) == IF b <= a THEN a - b ELSE a - b + QuantityModulus

Plus(a, b) == IF a + b < QuantityModulus THEN a + b ELSE a + b - QuantityModulus

remaining_qty(order) == Minus(order.quantity, order.quantity_filled)

is_filled(order) == order.quantity_filled >= order.quantity

\* Variation: the fill is computed and not stored.
reduce_quantity_lost(order, qty) == order

reduce_quantity(order, qty) ==
    [order EXCEPT !.quantity_filled = Plus(@, qty)]

-----------------------------------------------------------------------------
(***************************************************************************)
(* Maps: f with key set to val, and f without key.                         *)
(***************************************************************************)
Put(f, key, val) ==
    [k \in DOMAIN f \cup {key} |-> IF k = key THEN val ELSE f[k]]

Without(f, key) == Restrict(f, DOMAIN f \ {key})

At(levels, price) == IF price \in DOMAIN levels THEN levels[price] ELSE << >>

NoLevels == [price \in {} |-> << >>]

EmptyBook == [orders |-> [side \in Sides |-> NoLevels],
              lookup |-> [id \in {} |-> NoSlot]]

-----------------------------------------------------------------------------
(***************************************************************************)
(* add_order: the order goes to the back of its price level, which is      *)
(* created if absent; the lookup entry of its id is overwritten.           *)
(***************************************************************************)
\* Variation: push_front for push_back.
add_order_in_front(book, mem, slot) ==
    LET order  == mem[slot]
        levels == book.orders[order.side]
    IN  [orders |-> [book.orders EXCEPT ![order.side] =
                        Put(levels, order.price,
                            << slot >> \o At(levels, order.price))],
         lookup |-> Put(book.lookup, order.id, slot)]

add_order(book, mem, slot) ==
    LET order  == mem[slot]
        levels == book.orders[order.side]
    IN  [orders |-> [book.orders EXCEPT ![order.side] =
                        Put(levels, order.price,
                            Append(At(levels, order.price), slot))],
         lookup |-> Put(book.lookup, order.id, slot)]

\* The node of a slot in its list: the iterator stored when it was pushed.
NodeOf(list, slot) ==
    CHOOSE i \in DOMAIN list :
        /\ list[i] = slot
        /\ \A j \in DOMAIN list : list[j] = slot => j <= i

\* The list without its i-th node; the nodes behind keep their order.
Erased(list, i) ==
    [k \in 1 .. Len(list) - 1 |-> IF k < i THEN list[k] ELSE list[k + 1]]

\* Variation: the empty level stays in the map.
EraseKeepingLevel(levels, price, slot) ==
    Put(levels, price, Erased(levels[price], NodeOf(levels[price], slot)))

\* A price level whose last order is erased goes with it.
EraseFromLevel(levels, price, slot) ==
    LET list == Erased(levels[price], NodeOf(levels[price], slot))
    IN  IF list = << >> THEN Without(levels, price) ELSE Put(levels, price, list)

(***************************************************************************)
(* cancel_order: the pointer it returns and the book it leaves.            *)
(***************************************************************************)
Cancellable(book, mem, id) ==
    /\ id \in DOMAIN book.lookup
    /\ LET order == mem[book.lookup[id]]
       IN  order.price \in DOMAIN book.orders[order.side]

cancelled(book, mem, id) ==
    IF Cancellable(book, mem, id) THEN book.lookup[id] ELSE NoSlot

\* Variation: the lookup entry is left behind.
cancel_order_keeping_lookup(book, mem, id) ==
    IF ~Cancellable(book, mem, id)
    THEN book
    ELSE LET slot  == book.lookup[id]
             order == mem[slot]
         IN  [book EXCEPT !.orders[order.side] =
                 EraseFromLevel(@, order.price, slot)]

cancel_order(book, mem, id) ==
    IF ~Cancellable(book, mem, id)
    THEN book
    ELSE LET slot  == book.lookup[id]
             order == mem[slot]
         IN  [orders |-> [book.orders EXCEPT ![order.side] =
                             EraseFromLevel(@, order.price, slot)],
              lookup |-> Without(book.lookup, id)]

getOrderbyId(book, id) ==
    IF id \in DOMAIN book.lookup THEN book.lookup[id] ELSE NoSlot

-----------------------------------------------------------------------------
(***************************************************************************)
(* Best prices.  getBestBid is the front of the highest bid level and      *)
(* getBestAsk the front of the lowest ask level; both are one operator.    *)
(***************************************************************************)
AtLeastAsGood(side, p, q) == IF side = BUY THEN p >= q ELSE p <= q

BestPrice(book, side) ==
    CHOOSE p \in DOMAIN book.orders[side] :
        \A q \in DOMAIN book.orders[side] : AtLeastAsGood(side, p, q)

getBest(book, side) ==
    IF DOMAIN book.orders[side] = {}
    THEN NoSlot
    ELSE Head(book.orders[side][BestPrice(book, side)])

getSpread(book, mem) ==
    LET best_bid == getBest(book, BUY)
        best_ask == getBest(book, SELL)
    IN  IF best_bid # NoSlot /\ best_ask # NoSlot
        THEN mem[best_ask].price - mem[best_bid].price
        ELSE 0

(***************************************************************************)
(* Market data.  getL1Quote shows the FRONT order of each best level, not  *)
(* the level's total; getL2Quote shows the totals of the depth best levels *)
(* of a side, best first.                                                  *)
(***************************************************************************)
getL1Quote(book, mem) ==
    [side \in Sides |->
        LET best == getBest(book, side)
        IN  IF best = NoSlot
            THEN << 0, 0 >>
            ELSE << mem[best].price, remaining_qty(mem[best]) >>]

\* A sum as uint64_t counts it.
TotalOf(quantities) == SumFunction(quantities) % QuantityModulus

\* Variation: the orders' quantities, filled or not.
LevelQuantity(list, mem) ==
    TotalOf([i \in DOMAIN list |-> mem[list[i]].quantity])

LevelTotal(list, mem) ==
    TotalOf([i \in DOMAIN list |-> remaining_qty(mem[list[i]])])

\* The prices as the map is walked: the i-th price is one that i of them, itself
\* included, are at least as good as.
BestFirst(prices, side) ==
    [i \in 1 .. Cardinality(prices) |->
        CHOOSE p \in prices :
            Cardinality({q \in prices : AtLeastAsGood(side, q, p)}) = i]

getL2Quote(book, mem, depth) ==
    [side \in Sides |->
        LET levels == book.orders[side]
            totals == [price \in DOMAIN levels |-> LevelTotal(levels[price], mem)]
            prices == BestFirst(DOMAIN levels, side)
        IN  [i \in 1 .. Min({depth, Len(prices)}) |-> << prices[i], totals[prices[i]] >>]]

\* getBuyOrders and getSellOrders, getTotalOrders.
getSideOrders(book, side) ==
    SumFunction([p \in DOMAIN book.orders[side] |-> Len(book.orders[side][p])])

getTotalOrders(book) == Cardinality(DOMAIN book.lookup)

(***************************************************************************)
(* can_fill_completely of the engine reads the book's maps directly.  Both *)
(* branches walk their map in ASCENDING price order and stop at the first  *)
(* price that is not acceptable; on the bid side that walk starts at the   *)
(* worst bid.  needed_qty is unsigned, so "needed_qty <= 0" is true only   *)
(* when the quantities taken off so far sum to exactly needed_qty, modulo  *)
(* QuantityModulus.                                                        *)
(***************************************************************************)
\* Variation: an equal price is not good enough.
StrictlyAcceptable(order, price) ==
    IF order.side = BUY THEN price < order.price ELSE price > order.price

Acceptable(order, price) ==
    IF order.side = BUY THEN price <= order.price ELSE price >= order.price

Walked(levels, order) ==
    {p \in DOMAIN levels :
        \A q \in DOMAIN levels : q <= p => Acceptable(order, q)}

\* The places of the orders on the walk: a price and a position at it.
WalkedNodes(levels, order) ==
    UNION { {p} \X DOMAIN levels[p] : p \in Walked(levels, order) }

\* The walk has come to node m when it is at node n.
UpTo(m, n) == m[1] < n[1] \/ (m[1] = n[1] /\ m[2] <= n[2])

\* What is still needed once the order at a node has been taken off.
needed_qty(levels, mem, order, node) ==
    LET nodes == WalkedNodes(levels, order)
        left  == [n \in nodes |-> remaining_qty(mem[levels[n[1]][n[2]]])]
        taken == SumFunctionOnSet(left, {n \in nodes : UpTo(n, node)})
    IN  Minus(order.quantity, taken % QuantityModulus)

\* Variation: one unit short is taken for enough.
can_fill_all_but_one(book, mem, order) ==
    LET levels == book.orders[Opposite(order.side)]
    IN  \E node \in WalkedNodes(levels, order) :
            needed_qty(levels, mem, order, node) <= 1

can_fill_completely(book, mem, order) ==
    LET levels == book.orders[Opposite(order.side)]
    IN  \E node \in WalkedNodes(levels, order) :
            needed_qty(levels, mem, order, node) = 0
=============================================================================
