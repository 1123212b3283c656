--------------------------- MODULE MatchingEngine ---------------------------
(***************************************************************************)
(* The matching engine (src/matching_engine.cpp): the object pool, one     *)
(* book per symbol and the trade history, driven by the single thread that *)
(* calls process_new_order and cancel_order.  A call of process_new_order  *)
(* that reaches the matching loop is a sequence of steps, one per loop     *)
(* iteration; while it runs, taker is the slot of the incoming order and   *)
(* nothing else can happen.  Every other call is one step.                 *)
(*                                                                         *)
(* The two mirrored loops match_against_buy_orders and                     *)
(* match_against_sell_orders are one action, generic in the side.  Prices  *)
(* are doubles in the code; only their order matters, so they are integers *)
(* here.  The log lines and the statistics counters are left out.          *)
(***************************************************************************)
EXTENDS OrderBook

CONSTANTS
    PoolSize,      \* number of orders in the pool (100000 in the code)
    Symbols,       \* the symbols clients use, the empty string included
    EmptySymbol,   \* the empty string
    OrderIds,      \* the order ids clients use
    Users,         \* the user ids clients use
    MaxPrice,      \* no price is above it
    Requests,      \* the orders clients submit
    MaxOrders      \* bound on the orders that are accepted in a behaviour

Prices == { p \in Int : p <= MaxPrice }

\* The fields of an Order that the client chooses.
OrderRequest ==
    [id : OrderIds, symbol : Symbols, user_id : Users, side : Sides,
     type : OrderTypes, price : Prices, quantity : Quantities]

ASSUME EngineAssumption ==
    /\ PoolSize \in Nat
    /\ MaxPrice \in Nat
    /\ MaxOrders \in Nat
    /\ Requests \subseteq OrderRequest

VARIABLES
    mem,            \* order_pool_.pool_: the orders, by slot
    free_indices,   \* order_pool_.free_indices_
    order_books,    \* order_books_, an unseen symbol having an empty book
    created,        \* the symbols that are keys of order_books_
    trade_history,  \* trade_history_
    trades,         \* the vector process_new_order is filling or returned last
    taker,          \* order_ptr while process_new_order matches, else NoSlot
    clock           \* the system clock, ticking once per accepted order

vars == << mem, free_indices, order_books, created, trade_history, trades,
           taker, clock >>

Pool == Slots(PoolSize)

\* What the pool constructor puts in a slot: an order with no field set.
Blank == [id |-> NoSlot]

Order ==
    [id : OrderIds, symbol : Symbols, user_id : Users, side : Sides,
     type : OrderTypes, price : Prices, quantity : Quantities,
     quantity_filled : Quantities, timestamp : Nat]

Trade ==
    [buy_order_id : OrderIds, buy_user_id : Users, sell_order_id : OrderIds,
     sell_user_id : Users, symbol : Symbols, price : Prices,
     quantity : Quantities, timestamp : Nat]

Init ==
    /\ mem = [slot \in Pool |-> Blank]
    /\ free_indices = NewPool(PoolSize)
    /\ order_books = [symbol \in Symbols |-> EmptyBook]
    /\ created = {}
    /\ trade_history = << >>
    /\ trades = << >>
    /\ taker = NoSlot
    /\ clock = 0

-----------------------------------------------------------------------------
\* The Order built from a request: nothing filled.  The engine copies the
\* timestamp its caller gave and never reads it; here it is the time of
\* arrival, for the properties that compare orders by it.
NewOrder(request, time) ==
    [id |-> request.id, symbol |-> request.symbol, user_id |-> request.user_id,
     side |-> request.side, type |-> request.type, price |-> request.price,
     quantity |-> request.quantity, quantity_filled |-> 0, timestamp |-> time]

validate_order(order) ==
    /\ order.quantity # 0
    /\ order.symbol # EmptySymbol
    /\ order.type = "LIMIT" => order.price > 0
    /\ order.price >= 0

Idle == taker = NoSlot

\* Allocation failed: nothing but an empty vector is returned.
RejectPoolExhausted(request) ==
    /\ Idle
    /\ allocated(free_indices) = NoSlot
    /\ trades' = << >>
    /\ UNCHANGED << mem, free_indices, order_books, created, trade_history,
                    taker, clock >>

\* The beginning shared by every call that gets a slot: the request is
\* copied into it before anything is checked.
Receive(request) ==
    /\ Idle
    /\ allocated(free_indices) # NoSlot
    /\ mem' = [mem EXCEPT ![allocated(free_indices)] = NewOrder(request, clock)]
    /\ trades' = << >>
    /\ UNCHANGED trade_history

RejectInvalid(request) ==
    /\ Receive(request)
    /\ ~validate_order(NewOrder(request, clock))
    /\ free_indices' = deallocate(allocate(free_indices), allocated(free_indices))
    /\ UNCHANGED << order_books, created, taker, clock >>

Valid(request) ==
    /\ Receive(request)
    /\ validate_order(NewOrder(request, clock))
    /\ clock < MaxOrders
    /\ clock' = clock + 1
    /\ free_indices' = allocate(free_indices)
    /\ created' = created \cup {request.symbol}
    /\ UNCHANGED order_books

Fillable(request) ==
    can_fill_completely(order_books[request.symbol], mem, NewOrder(request, clock))

\* The early return of a Fill-or-Kill order does not give the slot back.
KillFok(request) ==
    /\ Valid(request)
    /\ request.type = "FOK"
    /\ ~Fillable(request)
    /\ UNCHANGED taker

BeginMatching(request) ==
    /\ Valid(request)
    /\ request.type = "FOK" => Fillable(request)
    /\ taker' = allocated(free_indices)

ProcessNewOrder(request) ==
    \/ RejectPoolExhausted(request)
    \/ RejectInvalid(request)
    \/ KillFok(request)
    \/ BeginMatching(request)

-----------------------------------------------------------------------------
TakerBook == order_books[mem[taker].symbol]

\* The front of the best level of the other side.
Maker == getBest(TakerBook, Opposite(mem[taker].side))

\* A MARKET order takes any price.
Matchable(order, maker) ==
    order.type = "MARKET" \/ Acceptable(order, maker.price)

\* The condition of the loop and the break inside it.
Matching ==
    /\ remaining_qty(mem[taker]) > 0
    /\ Maker # NoSlot
    /\ Matchable(mem[taker], mem[Maker])

\* Variation: whatever the maker has left.
MakerQuantity == remaining_qty(mem[Maker])

TradeQuantity == Min({remaining_qty(mem[taker]), remaining_qty(mem[Maker])})

create_trade(buy_order, sell_order, quantity, price) ==
    [buy_order_id |-> buy_order.id, buy_user_id |-> buy_order.user_id,
     sell_order_id |-> sell_order.id, sell_user_id |-> sell_order.user_id,
     symbol |-> buy_order.symbol, price |-> price, quantity |-> quantity,
     timestamp |-> clock]

\* Variation: the sell loop copied from the buy loop without swapping sides.
TradeOfBuyer(order, maker, quantity) ==
    create_trade(order, maker, quantity, maker.price)

TradeOf(order, maker, quantity) ==
    IF order.side = BUY
    THEN create_trade(order, maker, quantity, maker.price)
    ELSE create_trade(maker, order, quantity, maker.price)

\* Variation: the slot is given back and its order stays in the book.
FreeIfFilled(maker) ==
    /\ free_indices' = IF is_filled(mem'[maker])
                       THEN deallocate(free_indices, maker)
                       ELSE free_indices
    /\ UNCHANGED order_books

\* Variation: the pointer is looked up after the cancel, and is null.
RemoveThenLookUp(maker) ==
    IF is_filled(mem'[maker])
    THEN /\ order_books' = [order_books EXCEPT ![mem[taker].symbol] =
                              cancel_order(@, mem', mem'[maker].id)]
         /\ free_indices' = deallocate(free_indices,
                getOrderbyId(order_books'[mem[taker].symbol], mem'[maker].id))
    ELSE UNCHANGED << order_books, free_indices >>

\* A filled maker is cancelled by its ID, then its own slot is given back.
RemoveIfFilled(maker) ==
    IF is_filled(mem'[maker])
    THEN /\ order_books' = [order_books EXCEPT ![mem[taker].symbol] =
                              cancel_order(@, mem', mem'[maker].id)]
         /\ free_indices' = deallocate(free_indices, maker)
    ELSE UNCHANGED << order_books, free_indices >>

\* Variation: "continue" past an order of the same user, which stays in front.
SkipOwnOrders ==
    /\ ~Idle
    /\ Matching
    /\ mem[taker].user_id = mem[Maker].user_id
    /\ UNCHANGED vars

\* One iteration of the matching loop.
MatchStep ==
    /\ ~Idle
    /\ Matching
    /\ LET trade == TradeOf(mem[taker], mem[Maker], TradeQuantity)
       IN  /\ trades' = Append(trades, trade)
           /\ trade_history' = Append(trade_history, trade)
    /\ mem' = [mem EXCEPT ![taker] = reduce_quantity(@, TradeQuantity),
                          ![Maker] = reduce_quantity(@, TradeQuantity)]
    /\ RemoveIfFilled(Maker)
    /\ UNCHANGED << created, taker, clock >>

-----------------------------------------------------------------------------
(***************************************************************************)
(* What process_new_order does with the order once the loop has ended.     *)
(***************************************************************************)
Return ==
    /\ ~Idle
    /\ ~Matching
    /\ taker' = NoSlot
    /\ UNCHANGED << mem, created, trade_history, trades, clock >>

ReturnFilled ==
    /\ Return
    /\ is_filled(mem[taker])
    /\ free_indices' = deallocate(free_indices, taker)
    /\ UNCHANGED order_books

\* Variation: the slot of what is left of an IOC order is not given back.
ReturnIOCLost ==
    /\ Return
    /\ ~is_filled(mem[taker])
    /\ mem[taker].type = "IOC"
    /\ UNCHANGED << order_books, free_indices >>

ReturnIOC ==
    /\ Return
    /\ ~is_filled(mem[taker])
    /\ mem[taker].type = "IOC"
    /\ free_indices' = deallocate(free_indices, taker)
    /\ UNCHANGED order_books

\* An unfilled MARKET order neither rests nor gives its slot back.
ReturnMarket ==
    /\ Return
    /\ ~is_filled(mem[taker])
    /\ mem[taker].type = "MARKET"
    /\ UNCHANGED << order_books, free_indices >>

\* Variation: only IOC orders are kept from resting.
RestingUnlessIOC ==
    /\ Return
    /\ ~is_filled(mem[taker])
    /\ mem[taker].type # "IOC"
    /\ order_books' = [order_books EXCEPT ![mem[taker].symbol] =
                          add_order(@, mem, taker)]
    /\ UNCHANGED free_indices

\* Variation: the order rests in whatever book was found first.
RestingInSomeBook ==
    /\ Return
    /\ ~is_filled(mem[taker])
    /\ mem[taker].type \notin {"IOC", "MARKET"}
    /\ order_books' = [order_books EXCEPT ![CHOOSE symbol \in created : TRUE] =
                          add_order(@, mem, taker)]
    /\ UNCHANGED free_indices

ReturnResting ==
    /\ Return
    /\ ~is_filled(mem[taker])
    /\ mem[taker].type \notin {"IOC", "MARKET"}
    /\ order_books' = [order_books EXCEPT ![mem[taker].symbol] =
                          add_order(@, mem, taker)]
    /\ UNCHANGED free_indices

FinishOrder ==
    \/ ReturnFilled
    \/ ReturnIOC
    \/ ReturnMarket
    \/ ReturnResting

-----------------------------------------------------------------------------
\* Variation: the order is found by its id in any book, erased from one.
CancelInAnyBook(id, symbol) ==
    LET slots == {cancelled(order_books[s], mem, id) : s \in Symbols} \ {NoSlot}
    IN  /\ Idle
        /\ slots # {}
        /\ created' = created \cup {symbol}
        /\ order_books' = [order_books EXCEPT ![symbol] = cancel_order(@, mem, id)]
        /\ free_indices' = deallocate(free_indices, Max(slots))
        /\ UNCHANGED << mem, trade_history, trades, taker, clock >>

\* cancel_order: the book is created if absent; the side is not looked at.
CancelOrder(id, symbol) ==
    LET slot == cancelled(order_books[symbol], mem, id)
    IN  /\ Idle
        /\ created' = created \cup {symbol}
        /\ order_books' = [order_books EXCEPT ![symbol] = cancel_order(@, mem, id)]
        /\ free_indices' = IF slot = NoSlot
                           THEN free_indices
                           ELSE deallocate(free_indices, slot)
        /\ UNCHANGED << mem, trade_history, trades, taker, clock >>

-----------------------------------------------------------------------------
(***************************************************************************)
(* Order ids are chosen by the clients and the engine never checks them.   *)
(* Next is the engine under clients that do not submit an id that is still *)
(* resting in the book of that symbol; NextAnyId is the engine as it       *)
(* stands.                                                                 *)
(***************************************************************************)
FreshId(request) == request.id \notin DOMAIN order_books[request.symbol].lookup

EngineStep == MatchStep \/ FinishOrder

Cancel == \E id \in OrderIds, symbol \in Symbols : CancelOrder(id, symbol)

Next ==
    \/ \E request \in Requests : FreshId(request) /\ ProcessNewOrder(request)
    \/ EngineStep
    \/ Cancel

NextAnyId ==
    \/ \E request \in Requests : ProcessNewOrder(request)
    \/ EngineStep
    \/ Cancel

Spec == Init /\ [][Next]_vars

SpecAnyId == Init /\ [][NextAnyId]_vars

\* The thread inside process_new_order keeps running.
FairSpec == Spec /\ WF_vars(EngineStep)

-----------------------------------------------------------------------------
(***************************************************************************)
(* Properties.                                                             *)
(***************************************************************************)
IsPartialFunction(f, S, T) == DOMAIN f \subseteq S /\ f \in [DOMAIN f -> T]

IsBook(book) ==
    /\ book = [orders |-> book.orders, lookup |-> book.lookup]
    /\ book.orders = [side \in Sides |-> book.orders[side]]
    /\ \A side \in Sides :
          IsPartialFunction(book.orders[side], Prices, Seq(Pool))
    /\ IsPartialFunction(book.lookup, OrderIds, Pool)

\* Every variable has its type; the order behind taker was filled in.
TypeOK ==
    /\ mem \in [Pool -> Order \cup {Blank}]
    /\ free_indices \in Seq(Pool)
    /\ order_books = [symbol \in Symbols |-> order_books[symbol]]
    /\ \A symbol \in Symbols : IsBook(order_books[symbol])
    /\ created \subseteq Symbols
    /\ trade_history \in Seq(Trade)
    /\ trades \in Seq(Trade)
    /\ taker \in Pool \cup {NoSlot}
    /\ taker # NoSlot => mem[taker] \in Order
    /\ clock \in Nat

\* The slot is in one of the lists of the book.
Listed(book, slot) ==
    \E side \in Sides : \E price \in DOMAIN book.orders[side] :
        \E i \in DOMAIN book.orders[side][price] :
            book.orders[side][price][i] = slot

InStack(stack, slot) == \E i \in DOMAIN stack : stack[i] = slot

NoDuplicates(list) == \A i, j \in DOMAIN list : list[i] = list[j] => i = j

IsFree(slot) == InStack(free_indices, slot)

\* An Order* is free, matching, or resting in a book: never two of them at
\* once, and never free twice.  The pool checks none of this (deallocate
\* only asserts the range); process_new_order and cancel_order must get it
\* right, or an order that is resting is overwritten by the next one.
PoolSafety ==
    /\ NoDuplicates(free_indices)
    /\ ~IsFree(taker)
    /\ \A symbol \in Symbols : \A slot \in Pool :
          Listed(order_books[symbol], slot) => slot # taker /\ ~IsFree(slot)

\* An entry of the lookup leads to the list that its order's own side and
\* price select, and that list holds it.
EntryIsListed(book, m, id) ==
    LET order == m[book.lookup[id]]
    IN  /\ order \in Order
        /\ order.id = id
        /\ order.price \in DOMAIN book.orders[order.side]
        /\ InStack(book.orders[order.side][order.price], book.lookup[id])

EntriesAreListed(book, m) ==
    \A id \in DOMAIN book.lookup : EntryIsListed(book, m, id)

\* A node of a list is an order of that symbol, side and price, and its id
\* finds it again.
NodeIsFound(book, order, slot, symbol, side, price) ==
    /\ order \in Order
    /\ order.symbol = symbol
    /\ order.side = side
    /\ order.price = price
    /\ order.id \in DOMAIN book.lookup
    /\ book.lookup[order.id] = slot

NodesAreFound(book, m, symbol) ==
    \A side \in Sides : \A price \in DOMAIN book.orders[side] :
        LET list == book.orders[side][price]
        IN  /\ NoDuplicates(list)
            /\ \A i \in DOMAIN list :
                  NodeIsFound(book, m[list[i]], list[i], symbol, side, price)

\* order_lookup_ and the price lists name the same orders, each once.
\* add_order and cancel_order update the two structures separately, and
\* cancel_order trusts the side and price of the order behind the pointer.
LookupAgreesWithLists ==
    \A symbol \in Symbols :
        /\ EntriesAreListed(order_books[symbol], mem)
        /\ NodesAreFound(order_books[symbol], mem, symbol)

HasNoEmptyLevel(book) ==
    \A side \in Sides : \A price \in DOMAIN book.orders[side] :
        book.orders[side][price] # << >>

\* No price level is empty: getBestBid and getBestAsk call front() on the
\* list of the best level without looking whether it holds anything.
LevelsNeverEmpty ==
    \A symbol \in Symbols : HasNoEmptyLevel(order_books[symbol])

Uncrossed(book) ==
    \A bid \in DOMAIN book.orders[BUY] : \A ask \in DOMAIN book.orders[SELL] :
        bid < ask

\* The book is never crossed: the loop that matched an order leaves nothing
\* it could still have traded with when the order comes to rest.
NotCrossed ==
    \A symbol \in Symbols : Uncrossed(order_books[symbol])

\* What rests is a live order: something of it is left, and it is of a type
\* that may rest, at a price that was checked.  (A FOK order never gets to
\* rest either: see FokAllOrNothing.)
RestingOrdersAreLive ==
    \A symbol \in Symbols : \A slot \in Pool :
        Listed(order_books[symbol], slot) =>
            /\ mem[slot].quantity_filled < mem[slot].quantity
            /\ mem[slot].type \notin {"MARKET", "IOC"}
            /\ validate_order(mem[slot])

\* While an order is matched it is a checked order, never filled beyond its
\* quantity (remaining_qty would wrap around to a huge number), and its book
\* knows no other order of its id.
TakerIsLive ==
    ~Idle =>
        /\ mem[taker].quantity_filled <= mem[taker].quantity
        /\ mem[taker].id \notin DOMAIN order_books[mem[taker].symbol].lookup
        /\ validate_order(mem[taker])

\* The quantity that the trade history reports for a live order since it
\* arrived is the quantity the order itself counts as filled.
TradedQuantity(order) ==
    LET own == {i \in DOMAIN trade_history :
                   /\ trade_history[i].timestamp > order.timestamp
                   /\ trade_history[i].symbol = order.symbol
                   /\ order.id = IF order.side = BUY
                                 THEN trade_history[i].buy_order_id
                                 ELSE trade_history[i].sell_order_id}
    IN  SumFunction([i \in own |-> trade_history[i].quantity])

FilledMatchesHistory ==
    \A slot \in Pool :
        (slot = taker \/ \E symbol \in Symbols : Listed(order_books[symbol], slot))
            => mem[slot].quantity_filled = TradedQuantity(mem[slot])

\* In use but reachable from nowhere: no later call can give it back.
Leaked(slot) ==
    /\ slot # taker
    /\ ~IsFree(slot)
    /\ \A symbol \in Symbols : ~Listed(order_books[symbol], slot)

\* The only slots that get lost are those of killed FOK orders and of MARKET
\* orders that the book could not fill; whatever else happened to an order,
\* its slot is back or still reachable.
OnlyFokAndMarketLeak ==
    \A slot \in Pool :
        Leaked(slot) =>
            \/ mem[slot].type = "FOK" /\ mem[slot].quantity_filled = 0
            \/ mem[slot].type = "MARKET" /\ ~is_filled(mem[slot])

\* The market data a client is shown adds up to the orders that can be
\* cancelled: each level of the L2 quote is what is left of the orders of that
\* price that the lookup finds (as uint64_t counts it), the levels are best
\* first, and none that should be among the first depth is missing.
LiveAt(symbol, side, price) ==
    LET lookup == order_books[symbol].lookup
    IN  {id \in DOMAIN lookup :
            mem[lookup[id]].side = side /\ mem[lookup[id]].price = price}

LiveTotal(symbol, side, price) ==
    SumFunction([id \in LiveAt(symbol, side, price) |->
                    remaining_qty(mem[order_books[symbol].lookup[id]])])

LivePrices(symbol, side) ==
    LET lookup == order_books[symbol].lookup
    IN  {mem[lookup[id]].price : id \in {i \in DOMAIN lookup : mem[lookup[i]].side = side}}

QuoteMatchesLiveOrders(symbol, side, depth) ==
    LET quote  == getL2Quote(order_books[symbol], mem, depth)[side]
        prices == LivePrices(symbol, side)
    IN  /\ Len(quote) = Min({depth, Cardinality(prices)})
        /\ \A i \in DOMAIN quote :
              LET price == quote[i][1]
                  total == LiveTotal(symbol, side, price)
              IN  /\ price \in prices
                  /\ total > 0
                  /\ quote[i][2] = total % QuantityModulus
                  /\ Cardinality({p \in prices :
                        p # price /\ AtLeastAsGood(side, p, price)}) = i - 1

\* The other queries say the same: the best price of the L1 quote heads the
\* L2 quote, with some of what is live there, the spread of a two-sided book is
\* positive, and the counts of the two sides add up to the count of the lookup.
QueriesAgree(symbol) ==
    LET book == order_books[symbol]
        l1   == getL1Quote(book, mem)
        l2   == getL2Quote(book, mem, 1)
    IN  /\ \A side \in Sides :
              IF l2[side] = << >>
              THEN l1[side] = << 0, 0 >>
              ELSE /\ l1[side][1] = l2[side][1][1]
                   /\ l1[side][2] \in 1 .. LiveTotal(symbol, side, l1[side][1])
        /\ (\A side \in Sides : getBest(book, side) # NoSlot) => getSpread(book, mem) > 0
        /\ getTotalOrders(book) = getSideOrders(book, BUY) + getSideOrders(book, SELL)

QuotesMatchLiveOrders ==
    \A symbol \in Symbols :
        /\ QueriesAgree(symbol)
        /\ \A side \in Sides, depth \in {1, 2} :
              QuoteMatchesLiveOrders(symbol, side, depth)

-----------------------------------------------------------------------------
\* A FOK order whose call returns was filled whole: after the check of the
\* liquidity the matching loop really finds it.
FokAllOrNothing ==
    [][ (~Idle /\ taker' = NoSlot /\ mem[taker].type = "FOK")
            => is_filled(mem[taker]) ]_vars

\* Every iteration of the matching loop brings it nearer to its end: less is
\* left of the incoming order than before.
LoopProgress ==
    [][ (~Idle /\ taker' = taker)
            => remaining_qty(mem'[taker]) < remaining_qty(mem[taker]) ]_vars

\* A call of process_new_order returns.
CallReturns == ~Idle ~> Idle
=============================================================================
