--------------------------- MODULE ExchangeProofs ---------------------------
(***************************************************************************)
(* The matching engine implements Exchange, for every pool, every set of   *)
(* ids, users, symbols, prices and requests: price-time priority, Fill-or- *)
(* Kill orders that are filled whole, and cancels that disturb nobody.     *)
(*                                                                         *)
(* To the invariant of MatchingEngineProofs come two parts.  ArrivalOrder  *)
(* says that a price level is a queue: the front that the loop takes is    *)
(* the oldest order of the level.  FokCovered says that what rests covers  *)
(* what is left of a Fill-or-Kill order for as long as it is matched: the  *)
(* check before the loop and the loop itself look at different parts of    *)
(* the book in different orders.                                           *)
(***************************************************************************)
EXTENDS EngineRefinesExchange, MatchingEngineProofs

-----------------------------------------------------------------------------
(***************************************************************************)
(* Queues: every price level holds its orders in the order of arrival.     *)
(***************************************************************************)
InArrivalOrder(list, m) ==
    \A i, j \in DOMAIN list : i < j => m[list[i]].timestamp < m[list[j]].timestamp

OldestFirst(book, m) ==
    \A side \in Sides : \A price \in DOMAIN book.orders[side] :
        InArrivalOrder(book.orders[side][price], m)

\* The levels stay queues when the orders keep the time of their arrival.
LEMMA SameTimesLemma ==
    ASSUME NEW book, IsBook(book), NEW m, OldestFirst(book, m), NEW n,
           \A s \in Pool : Listed(book, s) => n[s].timestamp = m[s].timestamp
    PROVE  OldestFirst(book, n)
<1> SUFFICES ASSUME NEW side \in Sides, NEW price \in DOMAIN book.orders[side],
                    NEW i \in DOMAIN book.orders[side][price],
                    NEW j \in DOMAIN book.orders[side][price], i < j
             PROVE  n[book.orders[side][price][i]].timestamp
                        < n[book.orders[side][price][j]].timestamp
  BY DEF OldestFirst, InArrivalOrder
<1> DEFINE list == book.orders[side][price]
<1>1. list \in Seq(Pool)
  BY DEF IsBook, IsPartialFunction
<1>2. \A k \in DOMAIN list : list[k] \in Pool /\ Listed(book, list[k])
  BY <1>1 DEF Listed
<1>3. m[list[i]].timestamp < m[list[j]].timestamp
  BY DEF OldestFirst, InArrivalOrder
<1> QED
  BY <1>2, <1>3

\* An order that is younger than every order of the book goes to the back.
LEMMA AddOrderQueues ==
    ASSUME NEW book, IsBook(book), NEW m, OldestFirst(book, m),
           NEW slot \in Pool, m[slot] \in Order,
           \A s \in Pool : Listed(book, s) => m[s].timestamp < m[slot].timestamp
    PROVE  OldestFirst(add_order(book, m, slot), m)
<1> DEFINE new    == add_order(book, m, slot)
           side0  == m[slot].side
           price0 == m[slot].price
           levels == book.orders[side0]
           list0  == At(levels, price0)
           back   == Append(list0, slot)
<1>1. side0 \in Sides /\ price0 \in Prices
  BY DEF Order
<1>2. /\ new = [orders |-> new.orders, lookup |-> new.lookup]
      /\ new.orders = [s \in Sides |-> new.orders[s]]
      /\ new.orders[side0] = Put(levels, price0, back)
      /\ \A s \in Sides : s # side0 => new.orders[s] = book.orders[s]
      /\ new.lookup = Put(book.lookup, m[slot].id, slot)
  BY AddOrderParts
<1>3. list0 \in Seq(Pool) /\ InArrivalOrder(list0, m)
      /\ \A i \in DOMAIN list0 : Listed(book, list0[i])
  <2>1. CASE price0 \in DOMAIN levels
    <3>1. list0 = levels[price0]
      BY <2>1 DEF At
    <3> QED
      BY <1>1, <2>1, <3>1 DEF IsBook, IsPartialFunction, OldestFirst, Listed
  <2>2. CASE price0 \notin DOMAIN levels
    <3>1. list0 = << >>
      BY <2>2 DEF At
    <3> QED
      BY <3>1 DEF InArrivalOrder
  <2> QED
    BY <2>1, <2>2
<1>4. \A i \in DOMAIN list0 : m[list0[i]].timestamp < m[slot].timestamp
  BY <1>3
<1> HIDE DEF list0
<1>5. /\ Len(list0) \in Nat /\ DOMAIN list0 = 1 .. Len(list0)
      /\ DOMAIN back = 1 .. Len(list0) + 1
      /\ back[Len(list0) + 1] = slot
      /\ \A i \in DOMAIN list0 : back[i] = list0[i]
  BY <1>3
<1> HIDE DEF back
<1>6. InArrivalOrder(back, m)
  <2> SUFFICES ASSUME NEW i \in DOMAIN back, NEW j \in DOMAIN back, i < j
               PROVE  m[back[i]].timestamp < m[back[j]].timestamp
    BY DEF InArrivalOrder
  <2>1. i \in DOMAIN list0
    BY <1>5
  <2>2. CASE j \in DOMAIN list0
    BY <1>3, <1>5, <2>1, <2>2 DEF InArrivalOrder
  <2>3. CASE j \notin DOMAIN list0
    BY <1>4, <1>5, <2>1, <2>3
  <2> QED
    BY <2>2, <2>3
<1> HIDE DEF new, side0, price0
<1>7. ASSUME NEW side \in Sides, NEW price \in DOMAIN new.orders[side]
      PROVE  InArrivalOrder(new.orders[side][price], m)
  <2>1. CASE side = side0 /\ price = price0
    BY <1>2, <1>6, <2>1 DEF Put
  <2>2. CASE side = side0 /\ price # price0
    BY <1>1, <1>2, <2>2 DEF Put, OldestFirst
  <2>3. CASE side # side0
    BY <1>2, <2>3 DEF OldestFirst
  <2> QED
    BY <2>1, <2>2, <2>3
<1> QED
  BY <1>7 DEF OldestFirst, new

\* The nodes that are left after one is erased keep their order.
LEMMA ErasedQueue ==
    ASSUME NEW list \in Seq(Pool), NEW m, InArrivalOrder(list, m), NEW node \in DOMAIN list
    PROVE  InArrivalOrder(Erased(list, node), m)
<1> DEFINE n      == Len(list)
           rest   == Erased(list, node)
           was(k) == IF k < node THEN k ELSE k + 1
<1>1. n \in Nat /\ DOMAIN list = 1 .. n /\ node \in 1 .. n
  OBVIOUS
<1>2. DOMAIN rest = 1 .. n - 1 /\ \A k \in 1 .. n - 1 : rest[k] = list[was(k)]
  BY <1>1 DEF Erased
<1>3. \A k \in 1 .. n - 1 : was(k) \in 1 .. n
  BY <1>1
<1>4. \A i, j \in 1 .. n - 1 : i < j => was(i) < was(j)
  BY <1>1
<1> HIDE DEF rest, was, n
<1>5. InArrivalOrder(rest, m)
  BY <1>1, <1>2, <1>3, <1>4 DEF InArrivalOrder
<1> QED
  BY <1>5 DEF rest

\* A cancel leaves every level a queue.
LEMMA CancelOrderQueues ==
    ASSUME NEW book, NEW m, NEW symbol, ConsistentBook(book, m, symbol),
           OldestFirst(book, m), NEW id \in DOMAIN book.lookup
    PROVE  OldestFirst(cancel_order(book, m, id), m)
<1> DEFINE new    == cancel_order(book, m, id)
           slot   == book.lookup[id]
           side0  == m[slot].side
           price0 == m[slot].price
           levels == book.orders[side0]
           list0  == levels[price0]
           node   == NodeOf(list0, slot)
           rest   == Erased(list0, node)
<1>1. IsBook(book) /\ EntryIsListed(book, m, id) /\ NodesAreFound(book, m, symbol)
  BY DEF ConsistentBook, EntriesAreListed
<1>2. /\ m[slot] \in Order /\ price0 \in DOMAIN levels /\ InStack(list0, slot)
      /\ side0 \in Sides /\ Cancellable(book, m, id)
  BY <1>1 DEF EntryIsListed, Order, Cancellable
<1>3. /\ new = [orders |-> new.orders, lookup |-> new.lookup]
      /\ new.orders = [s \in Sides |-> new.orders[s]]
      /\ new.orders[side0] = EraseFromLevel(levels, price0, slot)
      /\ \A s \in Sides : s # side0 => new.orders[s] = book.orders[s]
      /\ new.lookup = Without(book.lookup, id)
  <2>1. IsBook(book) /\ Cancellable(book, m, id) /\ side0 \in Sides
    BY <1>1, <1>2
  <2> QED
    BY <2>1, CancelOrderParts
<1>4. list0 \in Seq(Pool) /\ InArrivalOrder(list0, m) /\ NoDuplicates(list0)
  BY <1>1, <1>2 DEF IsBook, IsPartialFunction, OldestFirst, NodesAreFound
<1>5. node \in DOMAIN list0
  <2> HIDE DEF list0, slot
  <2>1. \E i \in DOMAIN list0 : list0[i] = slot
                                /\ \A j \in DOMAIN list0 : list0[j] = slot => j <= i
    BY <1>2, <1>4 DEF InStack, NoDuplicates
  <2> QED
    BY <2>1 DEF NodeOf, node
<1> HIDE DEF list0, node
<1>6. InArrivalOrder(rest, m)
  BY <1>4, <1>5, ErasedQueue
<1>7. new.orders[side0] = IF rest = << >> THEN Without(levels, price0)
                                          ELSE Put(levels, price0, rest)
  BY <1>3 DEF EraseFromLevel, list0, node
<1> HIDE DEF new, rest, side0, price0
<1>8. ASSUME NEW side \in Sides, NEW price \in DOMAIN new.orders[side]
      PROVE  InArrivalOrder(new.orders[side][price], m)
  <2>1. CASE side = side0 /\ rest = << >>
    <3>1. new.orders[side0] = Without(levels, price0)
      BY <1>7, <2>1
    <3>2. price \in DOMAIN levels /\ new.orders[side][price] = levels[price]
      BY <2>1, <3>1 DEF Without, Restrict
    <3> QED
      BY <1>2, <3>2 DEF OldestFirst
  <2>2. CASE side = side0 /\ rest # << >>
    <3>1. new.orders[side0] = Put(levels, price0, rest)
      BY <1>7, <2>2
    <3>2. CASE price = price0
      BY <1>6, <2>2, <3>1, <3>2 DEF Put
    <3>3. CASE price # price0
      <4>1. price \in DOMAIN levels /\ new.orders[side][price] = levels[price]
        BY <2>2, <3>1, <3>3 DEF Put
      <4> QED
        BY <1>2, <4>1 DEF OldestFirst
    <3> QED
      BY <3>2, <3>3
  <2>3. CASE side # side0
    BY <1>3, <2>3 DEF OldestFirst
  <2> QED
    BY <2>1, <2>2, <2>3
<1> QED
  BY <1>8 DEF OldestFirst, new

\* The best order of a side is the oldest of its price: an order of the same
\* side and price is that order or arrived later.
LEMMA OldestLemma ==
    ASSUME NEW book, NEW m, NEW symbol, ConsistentBook(book, m, symbol),
           OldestFirst(book, m), PricesBounded(book), NEW side \in Sides,
           getBest(book, side) # NoSlot, NEW s, Listed(book, s),
           m[s].side = side, m[s].price = m[getBest(book, side)].price
    PROVE  \/ s = getBest(book, side)
           \/ m[getBest(book, side)].timestamp < m[s].timestamp
<1> DEFINE price == BestPrice(book, side)
           list  == book.orders[side][price]
           best  == getBest(book, side)
<1>1. DOMAIN book.orders[side] # {} /\ best = Head(list)
  BY DEF getBest
<1>2. price \in DOMAIN book.orders[side]
  BY <1>1, BestPriceLemma
<1> HIDE DEF price
<1>3. list \in Seq(Pool) /\ list # << >> /\ InArrivalOrder(list, m)
  BY <1>2 DEF ConsistentBook, IsBook, IsPartialFunction, HasNoEmptyLevel, OldestFirst
<1>4. 1 \in DOMAIN list /\ best = list[1]
  BY <1>1, <1>3
<1>5. m[best].price = price
  BY <1>2, <1>4 DEF ConsistentBook, NodesAreFound, NodeIsFound
<1>6. EntryIsListed(book, m, m[s].id) /\ book.lookup[m[s].id] = s
  BY ListedLemma DEF ConsistentBook, EntriesAreListed
<1>7. PICK i \in DOMAIN list : list[i] = s
  BY <1>5, <1>6 DEF EntryIsListed, InStack
<1>8. i = 1 \/ 1 < i
  BY <1>3
<1> HIDE DEF list, best
<1>9. s = best \/ m[best].timestamp < m[s].timestamp
  BY <1>3, <1>4, <1>7, <1>8 DEF InArrivalOrder
<1> QED
  BY <1>9 DEF best

-----------------------------------------------------------------------------
(***************************************************************************)
(* The invariant.                                                          *)
(***************************************************************************)
\* What rests arrived before this.
Now == IF Idle THEN clock ELSE mem[taker].timestamp

ArrivalOrder ==
    /\ \A symbol \in Symbols : OldestFirst(order_books[symbol], mem)
    /\ \A slot \in RestingSlots : mem[slot].timestamp < Now
    /\ ~Idle => clock = mem[taker].timestamp + 1

FokCovered ==
    ~Idle /\ mem[taker].type = "FOK" => Ex!Liquidity(mem[taker]) >= Ex!Left(mem[taker])

EInv == IInv /\ ArrivalOrder /\ FokCovered

-----------------------------------------------------------------------------
(***************************************************************************)
(* What Exchange sees of a state.                                          *)
(***************************************************************************)
\* An order that is filled in has more fields than a blank one.
LEMMA BlankLemma == Blank \notin Order
  BY DEF Blank, Order

\* What is left of an order is what Exchange says, and it is a natural.
LEMMA LeftLemma ==
    ASSUME NEW order \in Order, order.quantity_filled <= order.quantity
    PROVE  /\ Ex!Left(order) = remaining_qty(order)
           /\ Ex!Left(order) \in Nat
           /\ Ex!Left(order) = 0 <=> is_filled(order)
           /\ Ex!Left(order) < QuantityModulus
<1>1. /\ order.quantity \in Nat /\ order.quantity_filled \in Nat
      /\ order.quantity < QuantityModulus
  BY QuantityModulusAssumption DEF Order, Quantities
<1>2. remaining_qty(order) = order.quantity - order.quantity_filled
  BY FillLemma
<1> QED
  BY <1>1, <1>2, QuantityModulusAssumption DEF Ex!Left, is_filled

\* An order that rests: where it is, and that something of it is left.
LEMMA RestingLemma ==
    ASSUME SafeInv, NEW s \in RestingSlots
    PROVE  /\ s \in Pool /\ mem[s] \in Order /\ s # taker
           /\ mem[s].symbol \in Symbols /\ mem[s].side \in Sides
           /\ Listed(order_books[mem[s].symbol], s)
           /\ mem[s].price \in DOMAIN order_books[mem[s].symbol].orders[mem[s].side]
           /\ mem[s].id \in DOMAIN order_books[mem[s].symbol].lookup
           /\ order_books[mem[s].symbol].lookup[mem[s].id] = s
           /\ mem[s].quantity_filled < mem[s].quantity
           /\ Ex!Left(mem[s]) = remaining_qty(mem[s])
           /\ Ex!Left(mem[s]) \in Nat
<1>1. BooksOK
  BY Regroup
<1>2. PICK symbol \in Symbols : Listed(order_books[symbol], s)
  BY DEF RestingSlots
<1>3. ConsistentBook(order_books[symbol], mem, symbol) /\ s \in Pool
  BY <1>1 DEF BooksOK, RestingSlots
<1>4. /\ mem[s] \in Order /\ mem[s].symbol = symbol /\ mem[s].side \in Sides
      /\ mem[s].price \in DOMAIN order_books[symbol].orders[mem[s].side]
      /\ mem[s].id \in DOMAIN order_books[symbol].lookup
      /\ order_books[symbol].lookup[mem[s].id] = s
  BY <1>2, <1>3, ListedLemma
<1>5. mem[s].quantity_filled < mem[s].quantity /\ s # taker
  BY <1>1, <1>2, <1>3 DEF BooksOK
<1>6. mem[s].quantity_filled <= mem[s].quantity
  BY <1>4, <1>5, QuantityModulusAssumption DEF Order, Quantities
<1>7. Ex!Left(mem[s]) = remaining_qty(mem[s]) /\ Ex!Left(mem[s]) \in Nat
  BY <1>4, <1>6, LeftLemma
<1> QED
  BY <1>2, <1>3, <1>4, <1>5, <1>7

\* Two orders that rest differ by their symbol or their id.
LEMMA DistinctLemma ==
    ASSUME SafeInv, NEW s \in RestingSlots, NEW t \in RestingSlots,
           mem[s].symbol = mem[t].symbol, mem[s].id = mem[t].id
    PROVE  s = t
  BY RestingLemma

\* The pool, and so what rests, is finite.
LEMMA RestingFinite == IsFiniteSet(RestingSlots)
<1>1. IsFiniteSet(Pool)
  BY FS_Interval, EngineAssumption DEF Pool, Slots
<1> QED
  BY <1>1, FS_Subset DEF RestingSlots

\* An order that is matched is one, and is not blank.
LEMMA TakerLemma ==
    ASSUME SafeInv, ~Idle
    PROVE  /\ taker \in Pool /\ mem[taker] \in Order /\ taker \notin RestingSlots
           /\ IncomingOrder = mem[taker] /\ IncomingOrder # NoOrder
           /\ mem[taker].quantity_filled <= mem[taker].quantity
           /\ Ex!Left(mem[taker]) = remaining_qty(mem[taker])
           /\ Ex!Left(mem[taker]) \in Nat
           /\ Ex!Left(mem[taker]) = 0 <=> is_filled(mem[taker])
<1>1. StateOK /\ TakerMayRest
  BY Regroup
<1>2. taker \in Pool /\ mem[taker] \in Order
  BY <1>1 DEF StateOK, Idle
<1>3. mem[taker].quantity_filled <= mem[taker].quantity
  BY <1>1 DEF TakerMayRest
<1>4. taker \notin RestingSlots
  BY RestingLemma
<1> QED
  BY <1>2, <1>3, <1>4, LeftLemma, BlankLemma DEF IncomingOrder, NoOrder

\* A step that leaves the books and the orders in them alone.
LEMMA KeptLemma ==
    ASSUME order_books' = order_books, \A s \in RestingSlots : mem'[s] = mem[s]
    PROVE  RestingSlots' = RestingSlots /\ RestingOrders' = RestingOrders
<1>1. RestingSlots' = RestingSlots
  BY DEF RestingSlots, Listed
<1> QED
  BY <1>1 DEF RestingOrders

\* Such a step keeps the order of arrival if time does not go back.
LEMMA KeptArrival ==
    ASSUME SafeInv, ArrivalOrder, order_books' = order_books,
           \A s \in RestingSlots : mem'[s] = mem[s],
           \A n \in Int : n < Now => n < Now',
           ~Idle' => clock' = mem'[taker'].timestamp + 1
    PROVE  ArrivalOrder'
<1>1. RestingSlots' = RestingSlots
  BY KeptLemma
<1>2. ASSUME NEW symbol \in Symbols
      PROVE  OldestFirst(order_books[symbol], mem')
  <2>1. \A s \in Pool : Listed(order_books[symbol], s) => mem'[s].timestamp = mem[s].timestamp
    BY DEF RestingSlots
  <2>2. IsBook(order_books[symbol]) /\ OldestFirst(order_books[symbol], mem)
    BY DEF SafeInv, TypeOK, ArrivalOrder
  <2> QED
    BY <2>1, <2>2, SameTimesLemma
<1>3. ASSUME NEW s \in RestingSlots
      PROVE  mem'[s].timestamp < Now'
  <2>1. mem[s].timestamp < Now /\ mem[s].timestamp \in Int
    BY RestingLemma DEF ArrivalOrder, Order
  <2> QED
    BY <2>1
<1>4. \A symbol \in Symbols : OldestFirst(order_books[symbol], mem)'
  BY <1>2 DEF OldestFirst, InArrivalOrder
<1> QED
  BY <1>1, <1>3, <1>4 DEF ArrivalOrder

-----------------------------------------------------------------------------
(***************************************************************************)
(* The liquidity that Exchange sees, as a sum over the slots of the pool.  *)
(***************************************************************************)
LEMMA SumFunctionLemma == \A f : Ex!SumFunction(f) = SumFunctionOnSet(f, DOMAIN f)
  BY DEF Ex!SumFunction, Ex!SumFunctionOnSet, Ex!FoldFunctionOnSet, Ex!MapThenFoldSet,
         SumFunctionOnSet, FoldFunctionOnSet, MapThenFoldSet

\* What is left of the orders in the slots of a set.
Lefts(m, slots) == [s \in slots |-> remaining_qty(m[s])]

\* Different slots hold different orders: to sum over either is the same.
LEMMA LiquidityOf ==
    ASSUME NEW m, NEW slots, IsFiniteSet(slots), NEW order,
           \A s, t \in slots : m[s] = m[t] => s = t,
           \A s \in slots : /\ Ex!Left(m[s]) = remaining_qty(m[s])
                            /\ Ex!Left(m[s]) \in Nat
    PROVE  LET others == {other \in {m[s] : s \in slots} : Ex!Takes(order, other)}
           IN  Ex!SumFunction([other \in others |-> Ex!Left(other)])
                 = SumFunctionOnSet(Lefts(m, slots), {s \in slots : Ex!Takes(order, m[s])})
<1> DEFINE others == {other \in {m[s] : s \in slots} : Ex!Takes(order, other)}
           taken  == {s \in slots : Ex!Takes(order, m[s])}
           f      == [other \in others |-> Ex!Left(other)]
           g      == Lefts(m, slots)
           h      == [s \in slots |-> m[s]]
<1>1. Ex!SumFunction(f) = SumFunctionOnSet(f, others)
  BY SumFunctionLemma
<1>2. others = {h[s] : s \in taken} /\ IsFiniteSet(taken)
  BY FS_Subset
<1>3. \A s, t \in taken : h[s] = h[t] => s = t
  OBVIOUS
<1>4. NatOn(f, others)
  BY DEF NatOn
<1>5. \A s \in taken : g[s] = f[h[s]]
  BY DEF Lefts
<1> HIDE DEF f, g, h, others, taken
<1>6. SumFunctionOnSet(f, others) = SumFunctionOnSet(g, taken)
  BY <1>2, <1>3, <1>4, <1>5, SumImage
<1> QED
  BY <1>1, <1>6 DEF f, g, others, taken

\* The liquidity for an order in a reachable state.
LEMMA LiquidityLemma ==
    ASSUME SafeInv, NEW order
    PROVE  Ex!Liquidity(order) =
              SumFunctionOnSet(Lefts(mem, RestingSlots),
                               {s \in RestingSlots : Ex!Takes(order, mem[s])})
<1>1. \A s, t \in RestingSlots : mem[s] = mem[t] => s = t
  BY DistinctLemma
<1>2. \A s \in RestingSlots : /\ Ex!Left(mem[s]) = remaining_qty(mem[s])
                              /\ Ex!Left(mem[s]) \in Nat
  BY RestingLemma
<1>3. IsFiniteSet(RestingSlots)
  BY RestingFinite
<1>4. Ex!Liquidity(order) =
         Ex!SumFunction([other \in {o \in {mem[s] : s \in RestingSlots} : Ex!Takes(order, o)}
                            |-> Ex!Left(other)])
  BY DEF Ex!Liquidity, Ex!Counterparties, RestingOrders
<1> QED
  BY <1>1, <1>2, <1>3, <1>4, LiquidityOf

\* The orders that the check of a Fill-or-Kill order walks over are orders it
\* can trade with, each once.
LEMMA WalkLemma ==
    ASSUME SafeInv, NEW order, order.symbol \in Symbols, order.side \in Sides
    PROVE  LET levels == order_books[order.symbol].orders[Opposite(order.side)]
               nodes  == WalkedNodes(levels, order)
               at     == [n \in nodes |-> levels[n[1]][n[2]]]
           IN  /\ IsFiniteSet(nodes)
               /\ \A n \in nodes : /\ at[n] \in RestingSlots
                                   /\ Ex!Takes(order, mem[at[n]])
               /\ \A n, k \in nodes : at[n] = at[k] => n = k
<1> DEFINE other  == Opposite(order.side)
           levels == order_books[order.symbol].orders[other]
           nodes  == WalkedNodes(levels, order)
           at     == [n \in nodes |-> levels[n[1]][n[2]]]
<1>1. other \in Sides /\ other # order.side
  BY DEF Opposite, Sides, BUY, SELL
<1>2. BooksOK /\ NodesAreFound(order_books[order.symbol], mem, order.symbol)
  BY Regroup DEF BooksOK, ConsistentBook
<1>3. ASSUME NEW n \in nodes
      PROVE  /\ n[1] \in DOMAIN levels /\ Acceptable(order, n[1])
             /\ n[2] \in DOMAIN levels[n[1]] /\ n = << n[1], n[2] >>
  <2>1. PICK p \in Walked(levels, order) : n \in {p} \X DOMAIN levels[p]
    BY DEF WalkedNodes
  <2>2. p \in DOMAIN levels /\ p \in Int
    BY <1>1, <1>2, <2>1 DEF Walked, BooksOK, ConsistentBook, IsBook, IsPartialFunction, Prices
  <2>3. Acceptable(order, p)
    BY <2>1, <2>2 DEF Walked
  <2> QED
    BY <2>1, <2>2, <2>3
<1> HIDE DEF nodes
<1>4. ASSUME NEW n \in nodes
      PROVE  /\ at[n] \in RestingSlots /\ Ex!Takes(order, mem[at[n]])
             /\ mem[at[n]].price = n[1]
             /\ NoDuplicates(levels[n[1]])
  <2>1. /\ NodeIsFound(order_books[order.symbol], mem[at[n]], at[n], order.symbol, other, n[1])
        /\ NoDuplicates(levels[n[1]])
    BY <1>1, <1>2, <1>3 DEF NodesAreFound
  <2>2. Listed(order_books[order.symbol], at[n])
    BY <1>1, <1>3 DEF Listed
  <2>3. at[n] \in RestingSlots
    BY <1>2, <2>2, ListedLemma DEF RestingSlots, BooksOK
  <2>4. Ex!Takes(order, mem[at[n]])
    BY <1>1, <1>3, <2>1 DEF NodeIsFound, Ex!Takes, Acceptable, Sides, BUY, SELL
  <2> QED
    BY <2>1, <2>3, <2>4 DEF NodeIsFound
<1>5. ASSUME NEW n \in nodes, NEW k \in nodes, at[n] = at[k]
      PROVE  n = k
  <2>1. n[1] = k[1]
    <3> HIDE DEF at
    <3> QED  BY <1>4, <1>5
  <2>2. levels[n[1]][n[2]] = levels[n[1]][k[2]]
    BY <1>5, <2>1
  <2>3. n[2] = k[2]
    <3> HIDE DEF levels
    <3> QED  BY <1>3, <1>4, <2>1, <2>2 DEF NoDuplicates
  <2> QED
    BY <1>3, <2>1, <2>3
<1>6. IsFiniteSet(nodes)
  <2>1. at \in Injection(nodes, RestingSlots)
    BY <1>4, <1>5 DEF Injection, IsInjective
  <2> QED
    BY <2>1, RestingFinite, FS_Injection
<1> QED
  BY <1>4, <1>5, <1>6 DEF nodes

\* A remainder is not more than the number.
LEMMA RemainderLemma ==
    \A a \in Nat, n \in Nat \ {0} : a % n \in Nat /\ a % n <= a /\ a % n < n
<1> SUFFICES ASSUME NEW a \in Nat, NEW n \in Nat \ {0}
             PROVE  a % n \in Nat /\ a % n <= a /\ a % n < n
  OBVIOUS
<1>1. a % n \in 0 .. n - 1
  OBVIOUS
<1>2. a = n * (a \div n) + (a % n)
  OBVIOUS
<1>3. a \div n \in Int
  OBVIOUS
<1>4. a \div n >= 0
  <2> SUFFICES ASSUME a \div n <= -1 PROVE FALSE
    BY <1>3
  <2>1. n * (a \div n) <= -n
    BY <1>3
  <2> QED
    BY <1>1, <1>2, <1>3, <2>1
<1>5. n * (a \div n) >= 0
  BY <1>3, <1>4
<1> QED
  BY <1>1, <1>2, <1>3, <1>5

\* A Fill-or-Kill order that passes the check is covered: the check asks that
\* the quantities on its walk come to the order's own, modulo the width of a
\* quantity, so they come to at least that.
LEMMA FillableLemma ==
    ASSUME SafeInv, NEW order, order.symbol \in Symbols, order.side \in Sides,
           order.quantity \in Quantities,
           can_fill_completely(order_books[order.symbol], mem, order)
    PROVE  Ex!Liquidity(order) >= order.quantity
<1> DEFINE levels == order_books[order.symbol].orders[Opposite(order.side)]
           nodes  == WalkedNodes(levels, order)
           at     == [n \in nodes |-> levels[n[1]][n[2]]]
           left   == [n \in nodes |-> remaining_qty(mem[levels[n[1]][n[2]]])]
           all    == {s \in RestingSlots : Ex!Takes(order, mem[s])}
           lefts  == Lefts(mem, RestingSlots)
<1>1. PICK node \in nodes : needed_qty(levels, mem, order, node) = 0
  BY DEF can_fill_completely
<1> DEFINE upto  == {n \in nodes : UpTo(n, node)}
           walked == {at[n] : n \in upto}
           taken == SumFunctionOnSet(left, upto)
<1>2. Minus(order.quantity, taken % QuantityModulus) = 0
  BY <1>1 DEF needed_qty
<1>3. /\ IsFiniteSet(nodes)
      /\ \A n \in nodes : at[n] \in all
      /\ \A n, k \in nodes : at[n] = at[k] => n = k
  BY WalkLemma
<1>4. IsFiniteSet(all) /\ NatOn(lefts, all) /\ SumFunctionOnSet(lefts, all) = Ex!Liquidity(order)
  BY RestingFinite, FS_Subset, RestingLemma, LiquidityLemma DEF NatOn, Lefts
<1>5. /\ IsFiniteSet(upto) /\ walked \in SUBSET all /\ NatOn(lefts, walked)
      /\ \A n, k \in upto : at[n] = at[k] => n = k
      /\ \A n \in upto : left[n] = lefts[at[n]]
  <2>1. \A n \in upto : left[n] = remaining_qty(mem[at[n]])
    OBVIOUS
  <2> HIDE DEF at, nodes, left
  <2>2. IsFiniteSet(upto)
    BY <1>3, FS_Subset
  <2>3. walked \in SUBSET all
    BY <1>3
  <2> QED
    BY <1>3, <1>4, <2>1, <2>2, <2>3 DEF NatOn, Lefts
<1> HIDE DEF at, upto, left, lefts, all, levels, nodes
<1>6. SumFunctionOnSet(lefts, walked) = taken
  <2> DEFINE V == walked
  <2>1. V = {at[n] : n \in upto} /\ NatOn(lefts, V)
    BY <1>5
  <2> HIDE DEF V
  <2>2. SumFunctionOnSet(lefts, V) = SumFunctionOnSet(left, upto)
    BY <1>5, <2>1, SumImage
  <2> QED
    BY <2>2 DEF V
<1>7. taken \in Nat /\ SumFunctionOnSet(lefts, all) \in Nat
      /\ taken <= SumFunctionOnSet(lefts, all)
  <2> HIDE DEF walked, taken
  <2>1. IsFiniteSet(walked)
    BY <1>4, <1>5, FS_Subset
  <2> QED
    BY <1>4, <1>5, <1>6, <2>1, SumMonotone, SumType
<1> HIDE DEF taken
<1>8. taken % QuantityModulus = order.quantity
  <2>1. taken % QuantityModulus \in 0 .. QuantityModulus - 1 /\ QuantityModulus \in Nat
    BY <1>7, RemainderLemma, QuantityModulusAssumption
  <2> QED
    BY <1>2, <2>1 DEF Minus, Quantities
<1>9. order.quantity <= taken
  BY <1>7, <1>8, RemainderLemma, QuantityModulusAssumption
<1> QED
  BY <1>4, <1>7, <1>9, QuantityModulusAssumption DEF Quantities

-----------------------------------------------------------------------------
(***************************************************************************)
(* Requests that are turned down: Exchange sees nothing.                   *)
(***************************************************************************)
\* An idle engine shows no incoming order, and owes no Fill-or-Kill order.
LEMMA IdleView == Idle => IncomingOrder = NoOrder /\ FokCovered
  BY DEF IncomingOrder, FokCovered

\* A step of an idle engine that ends idle and leaves the books, the orders in
\* them and the tape alone.
LEMMA UnseenLemma ==
    ASSUME SafeInv, ArrivalOrder, Idle, taker' = taker, order_books' = order_books,
           trade_history' = trade_history,
           \A s \in RestingSlots : mem'[s] = mem[s],
           clock' = clock \/ clock' = clock + 1
    PROVE  ArrivalOrder' /\ FokCovered' /\ UNCHANGED Ex!exchangeVars
<1>1. clock \in Nat
  BY DEF SafeInv, TypeOK
<1>2. Idle' /\ Now = clock /\ Now' = clock'
  BY DEF Idle, Now
<1>3. ArrivalOrder'
  BY <1>1, <1>2, KeptArrival
<1>4. FokCovered' /\ IncomingOrder' = IncomingOrder
  BY <1>2 DEF FokCovered, IncomingOrder
<1>5. RestingOrders' = RestingOrders
  BY KeptLemma
<1> QED
  BY <1>3, <1>4, <1>5 DEF Ex!exchangeVars

\* A request that finds the pool exhausted, is refused, or is a Fill-or-Kill
\* order that is killed.
LEMMA TurnedDownView ==
    ASSUME EInv, NEW request \in Requests,
           RejectPoolExhausted(request) \/ RejectInvalid(request) \/ KillFok(request)
    PROVE  ArrivalOrder' /\ FokCovered' /\ UNCHANGED Ex!exchangeVars
<1>1. SafeInv /\ ArrivalOrder
  BY IInvIsSafe DEF EInv
<1>2. CASE RejectPoolExhausted(request)
  <2>1. /\ Idle /\ taker' = taker /\ order_books' = order_books /\ mem' = mem
        /\ trade_history' = trade_history /\ clock' = clock
    BY <1>2 DEF RejectPoolExhausted
  <2> QED
    BY <1>1, <2>1, UnseenLemma
<1>3. CASE RejectInvalid(request) \/ KillFok(request)
  <2>1. /\ Receive(request) /\ Idle /\ taker' = taker /\ order_books' = order_books
        /\ trade_history' = trade_history /\ (clock' = clock \/ clock' = clock + 1)
    BY <1>3 DEF RejectInvalid, KillFok, Valid, Receive
  <2>2. \A s \in RestingSlots : mem'[s] = mem[s]
    BY <1>1, <2>1, ReceiveLemma, RequestsTyped DEF RestingSlots
  <2> QED
    BY <1>1, <2>1, <2>2, UnseenLemma
<1> QED
  BY <1>2, <1>3

-----------------------------------------------------------------------------
(***************************************************************************)
(* A request that is taken up: Accept.                                     *)
(***************************************************************************)
LEMMA BeginMatchingView ==
    ASSUME EInv, NEW request \in Requests, BeginMatching(request)
    PROVE  ArrivalOrder' /\ FokCovered' /\ Ex!Accept
<1> DEFINE slot  == allocated(free_indices)
           order == NewOrder(request, clock)
<1>1. SafeInv /\ ArrivalOrder
  BY IInvIsSafe DEF EInv
<1>2. /\ Valid(request) /\ Idle /\ taker' = slot /\ order_books' = order_books
      /\ trade_history' = trade_history /\ clock' = clock + 1 /\ clock < MaxOrders
      /\ validate_order(order)
      /\ request.type = "FOK" => can_fill_completely(order_books[request.symbol], mem, order)
  BY DEF BeginMatching, Valid, Receive, Fillable
<1>3. /\ slot \in Pool /\ mem'[slot] = order /\ mem'[slot] \in Order
      /\ \A symbol \in Symbols : \A s \in Pool :
            Listed(order_books[symbol], s) => mem'[s] = mem[s]
  BY <1>1, <1>2, ValidLemma, RequestsTyped
<1>4. \A s \in RestingSlots : mem'[s] = mem[s]
  BY <1>3 DEF RestingSlots
<1>5. RestingOrders' = RestingOrders
  BY <1>2, <1>4, KeptLemma
<1>6. ~Idle' /\ mem'[taker'] = order /\ IncomingOrder = NoOrder /\ IncomingOrder' = order
  BY <1>2, <1>3, NoSlotNotInPool DEF Idle, IncomingOrder
<1>7. clock \in Nat
  BY <1>1 DEF SafeInv, TypeOK
<1>8. /\ order.timestamp = clock /\ order.quantity_filled = 0 /\ order.type = request.type
      /\ order.quantity = request.quantity /\ order.symbol = request.symbol
      /\ order.side = request.side
  BY DEF NewOrder
<1>9. /\ request.quantity \in Quantities /\ request.symbol \in Symbols /\ request.side \in Sides
      /\ request.quantity # 0
  BY <1>2, <1>8, EngineAssumption DEF OrderRequest, validate_order
<1> HIDE DEF order, slot
<1>10. ArrivalOrder'
  <2>1. Now = clock /\ Now' = clock
    BY <1>2, <1>6, <1>8 DEF Now
  <2> QED
    BY <1>1, <1>2, <1>4, <1>6, <1>8, <2>1, KeptArrival
<1>11. Ex!Left(order) = request.quantity /\ Ex!Left(order) > 0
  BY <1>8, <1>9, QuantityModulusAssumption DEF Ex!Left, Quantities
<1>12. order.type = "FOK" => Ex!Liquidity(order) >= Ex!Left(order)
  BY <1>1, <1>2, <1>8, <1>9, <1>11, FillableLemma
<1>13. FokCovered'
  <2>1. (Ex!Liquidity(mem[taker]))' = Ex!Liquidity(order)
    BY <1>5, <1>6 DEF Ex!Liquidity, Ex!Counterparties
  <2>2. (Ex!Left(mem[taker]))' = Ex!Left(order)
    BY <1>6 DEF Ex!Left
  <2> QED
    BY <1>6, <1>12, <2>1, <2>2 DEF FokCovered
<1>14. order \in SubmittedOrders
  <2>1. clock \in 0 .. MaxOrders
    BY <1>2, <1>7, EngineAssumption
  <2> QED
    BY <2>1 DEF SubmittedOrders, order
<1>15. Ex!Accept
  BY <1>2, <1>5, <1>6, <1>11, <1>12, <1>14 DEF Ex!Accept
<1> QED
  BY <1>10, <1>13, <1>15

-----------------------------------------------------------------------------
(***************************************************************************)
(* One iteration of the matching loop: Execute.                            *)
(***************************************************************************)
\* The maker is the order that has priority over every other counterparty.
LEMMA PriorityLemma ==
    ASSUME EInv, ~Idle, Matching
    PROVE  /\ Maker \in RestingSlots
           /\ mem[Maker] \in Ex!Counterparties(mem[taker])
           /\ \A other \in Ex!Counterparties(mem[taker]) :
                 other = mem[Maker] \/ Ex!HasPriority(mem[Maker], other)
<1> DEFINE symbol == mem[taker].symbol
           side   == Opposite(mem[taker].side)
<1>1. SafeInv /\ ArrivalOrder /\ BooksOK
  BY IInvIsSafe, Regroup DEF EInv
<1>2. taker # NoSlot /\ Maker # NoSlot /\ Matchable(mem[taker], mem[Maker])
  BY DEF Idle, Matching
<1>3. /\ mem[taker].symbol \in Symbols /\ mem[taker].side \in Sides
      /\ side \in Sides /\ side # mem[taker].side
      /\ ConsistentBook(TakerBook, mem, symbol)
      /\ Maker \in Pool /\ Listed(TakerBook, Maker) /\ mem[Maker] \in Order
      /\ mem[Maker].symbol = symbol /\ mem[Maker].side = side
      /\ \A q \in DOMAIN TakerBook.orders[side] : AtLeastAsGood(side, mem[Maker].price, q)
  BY <1>1, <1>2, MakerLemma
<1>4. TakerBook = order_books[symbol]
  BY DEF TakerBook
<1>5. Maker \in RestingSlots
  BY <1>3, <1>4 DEF RestingSlots
<1>6. mem[Maker] \in Ex!Counterparties(mem[taker])
  <2>1. Ex!Takes(mem[taker], mem[Maker])
    BY <1>2, <1>3 DEF Matchable, Acceptable, Ex!Takes, Sides, BUY, SELL
  <2> QED
    BY <1>5, <2>1 DEF Ex!Counterparties, RestingOrders
<1>7. ASSUME NEW s \in RestingSlots, Ex!Takes(mem[taker], mem[s])
      PROVE  mem[s] = mem[Maker] \/ Ex!HasPriority(mem[Maker], mem[s])
  <2>1. /\ mem[s] \in Order /\ mem[s].symbol = symbol /\ mem[s].side = side
        /\ Listed(TakerBook, s) /\ mem[s].price \in DOMAIN TakerBook.orders[side]
    <3>1. mem[s].symbol = symbol /\ mem[s].side # mem[taker].side
      BY <1>7 DEF Ex!Takes
    <3>2. mem[s].side \in Sides
      BY <1>1, RestingLemma
    <3>3. mem[s].side = side
      BY <1>3, <3>1, <3>2 DEF Sides
    <3> QED
      BY <1>1, <1>4, <3>1, <3>3, RestingLemma
  <2>2. AtLeastAsGood(side, mem[Maker].price, mem[s].price)
    BY <1>3, <2>1
  <2>3. mem[Maker].price \in Int /\ mem[s].price \in Int
    BY <1>3, <2>1 DEF Order, Prices
  <2>4. CASE mem[s].price = mem[Maker].price
    <3>1. OldestFirst(TakerBook, mem) /\ PricesBounded(TakerBook)
      BY <1>1, <1>3, <1>4, BoundedLemma DEF ArrivalOrder
    <3>2. Maker = getBest(TakerBook, side)
      BY DEF Maker
    <3> HIDE DEF side, symbol
    <3>3. s = Maker \/ mem[Maker].timestamp < mem[s].timestamp
      BY <1>2, <1>3, <2>1, <2>4, <3>1, <3>2, OldestLemma
    <3> QED
      BY <2>4, <3>3 DEF Ex!HasPriority
  <2>5. CASE mem[s].price # mem[Maker].price
    <3>1. mem[Maker].side \in {BUY, SELL}
      BY <1>3 DEF Sides
    <3> QED
      BY <1>3, <2>2, <2>3, <2>5, <3>1 DEF AtLeastAsGood, Ex!HasPriority, BUY, SELL
  <2> QED
    BY <2>4, <2>5
<1>8. \A other \in Ex!Counterparties(mem[taker]) :
         \E s \in RestingSlots : other = mem[s] /\ Ex!Takes(mem[taker], mem[s])
  BY DEF Ex!Counterparties, RestingOrders
<1> QED
  BY <1>5, <1>6, <1>7, <1>8

\* Two orders of one side do not both have priority over the other.
LEMMA PriorityIsStrict ==
    ASSUME NEW a \in Order, NEW b \in Order, a.side = b.side,
           Ex!HasPriority(a, b), Ex!HasPriority(b, a)
    PROVE  FALSE
<1>1. /\ a.price \in Int /\ b.price \in Int /\ a.timestamp \in Nat /\ b.timestamp \in Nat
      /\ a.side \in {"BUY", "SELL"}
  BY DEF Order, Prices, Sides, BUY, SELL
<1> QED
  BY <1>1 DEF Ex!HasPriority

\* So the maker is the one order that Exchange calls the first.
LEMMA FirstLemma ==
    ASSUME EInv, ~Idle, Matching
    PROVE  Ex!First(mem[taker]) = mem[Maker]
<1> DEFINE others  == Ex!Counterparties(mem[taker])
           best(b) == \A other \in others : other = b \/ Ex!HasPriority(b, other)
<1>1. mem[Maker] \in others /\ best(mem[Maker])
  BY PriorityLemma
<1>2. \A a \in others : a \in Order /\ a.side \in Sides /\ a.side # mem[taker].side
  BY IInvIsSafe, RestingLemma DEF EInv, Ex!Counterparties, RestingOrders, Ex!Takes
<1>3. mem[taker].side \in Sides
  BY IInvIsSafe, TakerLemma DEF EInv, Order
<1>4. ASSUME NEW b \in others, best(b)
      PROVE  b = mem[Maker]
  <2>1. b.side = mem[Maker].side
    BY <1>1, <1>2, <1>3 DEF Sides
  <2>2. ASSUME b # mem[Maker] PROVE FALSE
    <3>1. Ex!HasPriority(b, mem[Maker]) /\ Ex!HasPriority(mem[Maker], b)
      BY <1>1, <1>4, <2>2
    <3> QED
      BY <1>1, <1>2, <2>1, <3>1, PriorityIsStrict
  <2> QED
    BY <2>2
<1>5. Ex!First(mem[taker]) = CHOOSE b \in others : best(b)
  BY DEF Ex!First
<1> HIDE DEF others, best
<1> QED
  BY <1>1, <1>4, <1>5

\* What the books reach after a match.
LEMMA MatchSlots ==
    ASSUME SafeInv, MatchStep
    PROVE  /\ Maker \in RestingSlots /\ Maker # taker
           /\ RestingSlots' = IF is_filled(mem'[Maker]) THEN RestingSlots \ {Maker}
                                                        ELSE RestingSlots
           /\ \A s \in RestingSlots : s # Maker => mem'[s] = mem[s]
<1> DEFINE maker  == Maker
           symbol == mem[taker].symbol
           book   == order_books[symbol]
           new    == cancel_order(book, mem', mem'[maker].id)
<1>1. /\ symbol \in Symbols /\ maker \in Pool /\ maker # taker /\ Listed(book, maker)
      /\ RemoveIfFilled(maker)
      /\ \A x \in Symbols : \A s \in Pool :
            Listed(order_books[x], s) => s # taker /\ (s = maker => x = symbol)
      /\ \A s : Listed(new, s) <=> Listed(book, s) /\ s # maker
  BY MatchedBooks
<1>2. \A s \in Pool : s # taker /\ s # maker => mem'[s] = mem[s]
  BY MatchLemma
<1>3. order_books = [x \in Symbols |-> order_books[x]]
  BY DEF SafeInv, TypeOK
<1> HIDE DEF maker, new
<1>4. maker \in RestingSlots /\ \A s \in RestingSlots : s # taker
  BY <1>1 DEF RestingSlots
<1>5. CASE ~is_filled(mem'[maker])
  <2>1. order_books' = order_books
    BY <1>1, <1>5 DEF RemoveIfFilled
  <2>2. RestingSlots' = RestingSlots
    BY <2>1 DEF RestingSlots, Listed
  <2> QED
    BY <1>1, <1>2, <1>4, <1>5, <2>2 DEF maker, RestingSlots
<1>6. CASE is_filled(mem'[maker])
  <2>1. order_books' = [order_books EXCEPT ![symbol] = new]
    BY <1>1, <1>6 DEF RemoveIfFilled, new
  <2> HIDE DEF symbol
  <2>2. \A x \in Symbols : order_books'[x] = IF x = symbol THEN new ELSE order_books[x]
    BY <1>1, <1>3, <2>1
  <2>3. \A s \in Pool, x \in Symbols :
           Listed(order_books'[x], s) <=> Listed(order_books[x], s) /\ s # maker
    BY <1>1, <2>2
  <2>4. RestingSlots' = {s \in Pool : \E x \in Symbols : Listed(order_books'[x], s)}
    BY DEF RestingSlots, Listed
  <2>5. RestingSlots' = RestingSlots \ {maker}
    BY <2>3, <2>4 DEF RestingSlots
  <2> QED
    BY <1>1, <1>2, <1>4, <1>6, <2>5 DEF maker, RestingSlots
<1> QED
  BY <1>5, <1>6

\* The orders of a match and those that rest stay what they were, but for what
\* is filled of the two.
LEMMA MatchedOrders ==
    ASSUME SafeInv, MatchStep
    PROVE  /\ mem[taker] \in Order /\ mem[Maker] \in Order
           /\ \A s \in RestingSlots \cup {taker} :
                 /\ mem'[s] \in Order
                 /\ mem'[s].id = mem[s].id /\ mem'[s].symbol = mem[s].symbol
                 /\ mem'[s].side = mem[s].side /\ mem'[s].price = mem[s].price
                 /\ mem'[s].type = mem[s].type /\ mem'[s].timestamp = mem[s].timestamp
                 /\ Ex!Left(mem'[s]) = remaining_qty(mem'[s]) /\ Ex!Left(mem'[s]) \in Nat
           /\ \A s \in {taker, Maker} :
                 /\ mem'[s] = Ex!After(mem[s], TradeQuantity)
                 /\ Ex!Left(mem'[s]) = Ex!Left(mem[s]) - TradeQuantity
                 /\ Ex!Left(mem[s]) = remaining_qty(mem[s]) /\ Ex!Left(mem[s]) \in Nat
                 /\ Ex!Left(mem'[s]) = 0 <=> is_filled(mem'[s])
<1> DEFINE maker == Maker
           q     == TradeQuantity
<1>1. ~Idle /\ taker # NoSlot
  BY DEF MatchStep, Idle
<1>2. /\ maker \in RestingSlots
      /\ \A s \in RestingSlots : s # maker => mem'[s] = mem[s]
  BY MatchSlots
<1>3. /\ \A s \in {taker, maker} :
            /\ mem'[s] \in Order
            /\ mem'[s] = [mem[s] EXCEPT !.quantity_filled = mem[s].quantity_filled + q]
            /\ mem'[s].quantity_filled <= mem'[s].quantity
            /\ remaining_qty(mem'[s]) = remaining_qty(mem[s]) - q
  BY MatchLemma
<1>4. /\ mem[taker] \in Order /\ mem[maker] \in Order
      /\ \A s \in {taker, maker} :
            Ex!Left(mem[s]) = remaining_qty(mem[s]) /\ Ex!Left(mem[s]) \in Nat
  BY <1>1, <1>2, TakerLemma, RestingLemma
<1> HIDE DEF maker, q
<1>5. ASSUME NEW s \in {taker, maker}
      PROVE  /\ mem'[s].id = mem[s].id /\ mem'[s].symbol = mem[s].symbol
             /\ mem'[s].side = mem[s].side /\ mem'[s].price = mem[s].price
             /\ mem'[s].type = mem[s].type /\ mem'[s].timestamp = mem[s].timestamp
             /\ mem'[s] = Ex!After(mem[s], q)
  BY <1>3, <1>4 DEF Order, Ex!After
<1>6. ASSUME NEW s \in {taker, maker}
      PROVE  /\ Ex!Left(mem'[s]) = remaining_qty(mem'[s]) /\ Ex!Left(mem'[s]) \in Nat
             /\ Ex!Left(mem'[s]) = 0 <=> is_filled(mem'[s])
  BY <1>3, LeftLemma
<1>7. ASSUME NEW s \in RestingSlots, s # maker
      PROVE  /\ mem'[s] = mem[s] /\ mem[s] \in Order
             /\ Ex!Left(mem'[s]) = remaining_qty(mem'[s]) /\ Ex!Left(mem'[s]) \in Nat
  BY <1>2, <1>7, RestingLemma
<1> QED
  BY <1>2, <1>3, <1>4, <1>5, <1>6, <1>7 DEF maker, q

\* A match takes from the liquidity for the incoming order what it trades.
LEMMA MatchedLiquidity ==
    ASSUME SafeInv, MatchStep, mem[Maker] \in Ex!Counterparties(mem[taker])
    PROVE  /\ (Ex!Liquidity(mem[taker]))' = Ex!Liquidity(mem[taker]) - TradeQuantity
           /\ Ex!Liquidity(mem[taker]) \in Nat
<1> DEFINE maker == Maker
           order == mem[taker]
           after == mem'[taker]
           all   == {s \in RestingSlots : Ex!Takes(order, mem[s])}
           all1  == {s \in RestingSlots' : Ex!Takes(after, mem'[s])}
           f     == Lefts(mem, RestingSlots)
           g     == Lefts(mem', RestingSlots')
           rest  == all \ {maker}
<1>0. taker' = taker
  BY DEF MatchStep
<1>1. /\ maker \in RestingSlots
      /\ RestingSlots' = IF is_filled(mem'[maker]) THEN RestingSlots \ {maker}
                                                  ELSE RestingSlots
      /\ \A s \in RestingSlots : s # maker => mem'[s] = mem[s]
  BY MatchSlots
<1>2. /\ \A s \in RestingSlots \cup {taker} :
            /\ mem'[s].id = mem[s].id /\ mem'[s].symbol = mem[s].symbol
            /\ mem'[s].side = mem[s].side /\ mem'[s].price = mem[s].price
            /\ mem'[s].type = mem[s].type
            /\ Ex!Left(mem'[s]) = remaining_qty(mem'[s]) /\ Ex!Left(mem'[s]) \in Nat
      /\ Ex!Left(mem'[maker]) = Ex!Left(mem[maker]) - TradeQuantity
      /\ Ex!Left(mem[maker]) = remaining_qty(mem[maker]) /\ Ex!Left(mem[maker]) \in Nat
      /\ Ex!Left(mem'[maker]) = 0 <=> is_filled(mem'[maker])
  BY MatchedOrders
<1>3. maker \in all
  BY <1>1 DEF Ex!Counterparties
<1> HIDE DEF maker
<1>4. IsFiniteSet(RestingSlots) /\ IsFiniteSet(RestingSlots') /\ IsFiniteSet(all)
      /\ IsFiniteSet(all1) /\ IsFiniteSet(rest)
  BY <1>1, RestingFinite, FS_Subset
<1>5. \A s \in RestingSlots : Ex!Takes(after, mem'[s]) <=> Ex!Takes(order, mem[s])
  BY <1>2 DEF Ex!Takes
<1>6. Ex!Liquidity(order) = SumFunctionOnSet(f, all)
  BY LiquidityLemma
<1>7. (Ex!Liquidity(mem[taker]))' = SumFunctionOnSet(g, all1)
  <2>1. \A s, t \in RestingSlots' : mem'[s] = mem'[t] => s = t
    BY <1>1, <1>2, DistinctLemma
  <2>2. \A s \in RestingSlots' : /\ Ex!Left(mem'[s]) = remaining_qty(mem'[s])
                                 /\ Ex!Left(mem'[s]) \in Nat
    BY <1>1, <1>2
  <2>3. (Ex!Liquidity(mem[taker]))' =
           Ex!SumFunction([other \in {o \in {mem'[s] : s \in RestingSlots'} : Ex!Takes(after, o)}
                              |-> Ex!Left(other)])
    BY <1>0 DEF Ex!Liquidity, Ex!Counterparties, RestingOrders
  <2> QED
    BY <1>4, <2>1, <2>2, <2>3, LiquidityOf
<1>8. NatOn(f, all) /\ NatOn(f, rest) /\ NatOn(g, all1) /\ all1 \subseteq RestingSlots'
  BY <1>1, <1>2, RestingLemma DEF NatOn, Lefts
<1>9. f[maker] = Ex!Left(mem[maker]) /\ \A s \in rest : f[s] = remaining_qty(mem[s])
  BY <1>1, <1>2 DEF Lefts
<1>10. rest \subseteq RestingSlots' /\ \A s \in rest : g[s] = f[s]
  BY <1>1 DEF Lefts
<1>11. all1 = IF is_filled(mem'[maker]) THEN rest ELSE all
  BY <1>1, <1>3, <1>5
<1>12. ~is_filled(mem'[maker]) => g[maker] = Ex!Left(mem'[maker])
  BY <1>1, <1>2 DEF Lefts
<1> HIDE DEF f, g, all, all1, order, after
<1>13. SumFunctionOnSet(f, all) = f[maker] + SumFunctionOnSet(f, rest)
  BY <1>3, <1>4, <1>8, SumAdd
<1>14. SumFunctionOnSet(g, rest) = SumFunctionOnSet(f, rest)
  <2> HIDE DEF rest
  <2> QED  BY <1>4, <1>8, <1>10, SumSame
<1>15. SumFunctionOnSet(f, rest) \in Nat
  <2> HIDE DEF rest
  <2> QED  BY <1>4, <1>8, SumType
<1>16. TradeQuantity \in Nat
  BY MatchLemma, QuantityModulusAssumption DEF Quantities
<1>17. (Ex!Liquidity(mem[taker]))' = SumFunctionOnSet(f, all) - TradeQuantity
  <2>1. CASE is_filled(mem'[maker])
    <3>1. f[maker] = TradeQuantity
      BY <1>2, <1>9, <1>16, <2>1
    <3> QED
      BY <1>7, <1>11, <1>13, <1>14, <1>15, <1>16, <2>1, <3>1
  <2>2. CASE ~is_filled(mem'[maker])
    <3>1. SumFunctionOnSet(g, all) = g[maker] + SumFunctionOnSet(g, rest)
      BY <1>3, <1>4, <1>8, <1>11, <2>2, SumAdd
    <3>2. g[maker] = f[maker] - TradeQuantity /\ f[maker] \in Nat
      BY <1>2, <1>9, <1>12, <2>2
    <3> QED
      BY <1>7, <1>11, <1>13, <1>14, <1>15, <1>16, <2>2, <3>1, <3>2
  <2> QED
    BY <2>1, <2>2
<1>18. SumFunctionOnSet(f, all) \in Nat
  BY <1>4, <1>8, SumType
<1> QED
  BY <1>6, <1>17, <1>18 DEF order

\* After a match every level is a queue still, and what rests is still older
\* than the incoming order.
LEMMA MatchedArrival ==
    ASSUME SafeInv, ArrivalOrder, MatchStep
    PROVE  ArrivalOrder'
<1> DEFINE maker  == Maker
           symbol == mem[taker].symbol
           book   == order_books[symbol]
           id     == mem'[maker].id
           new    == cancel_order(book, mem', id)
<1>1. ~Idle /\ taker' = taker /\ clock' = clock /\ RemoveIfFilled(maker)
  BY DEF MatchStep
<1>2. /\ symbol \in Symbols /\ maker \in Pool /\ Listed(book, maker)
      /\ \A x \in Symbols : ConsistentBook(order_books[x], mem', x)
  BY MatchedBooks
<1>3. /\ maker \in RestingSlots
      /\ \A s \in RestingSlots : s # maker => mem'[s] = mem[s]
      /\ RestingSlots' \subseteq RestingSlots
  BY MatchSlots
<1>4. \A s \in RestingSlots \cup {taker} : mem'[s].timestamp = mem[s].timestamp
                                          /\ mem'[s].id = mem[s].id
  BY MatchedOrders
<1>5. ASSUME NEW x \in Symbols
      PROVE  OldestFirst(order_books[x], mem')
  <2>1. IsBook(order_books[x]) /\ OldestFirst(order_books[x], mem)
    BY <1>2 DEF ConsistentBook, ArrivalOrder
  <2>2. \A s \in Pool : Listed(order_books[x], s) => mem'[s].timestamp = mem[s].timestamp
    BY <1>4 DEF RestingSlots
  <2> QED
    BY <2>1, <2>2, SameTimesLemma
<1>6. id \in DOMAIN book.lookup
  BY <1>2, ListedLemma
<1> HIDE DEF maker, id
<1>7. OldestFirst(new, mem')
  BY <1>2, <1>5, <1>6, CancelOrderQueues
<1>8. ASSUME NEW x \in Symbols
      PROVE  OldestFirst(order_books'[x], mem')
  <2>1. CASE ~is_filled(mem'[maker])
    BY <1>1, <1>5, <2>1 DEF RemoveIfFilled
  <2>2. CASE is_filled(mem'[maker])
    <3>1. order_books' = [order_books EXCEPT ![symbol] = new]
      BY <1>1, <2>2 DEF RemoveIfFilled, id
    <3>2. order_books = [y \in Symbols |-> order_books[y]]
      BY DEF SafeInv, TypeOK
    <3> HIDE DEF new, symbol
    <3>3. order_books'[x] = IF x = symbol THEN new ELSE order_books[x]
      BY <3>1, <3>2
    <3> QED
      BY <1>5, <1>7, <3>3
  <2> QED
    BY <2>1, <2>2
<1>9. \A x \in Symbols : OldestFirst(order_books[x], mem)'
  BY <1>8 DEF OldestFirst, InArrivalOrder
<1>10. Now' = Now
  BY <1>1, <1>4 DEF Now, Idle
<1>11. \A s \in RestingSlots' : mem'[s].timestamp < Now'
  BY <1>3, <1>4, <1>10 DEF ArrivalOrder
<1>12. ~Idle' => clock' = mem'[taker'].timestamp + 1
  BY <1>1, <1>4 DEF ArrivalOrder
<1> QED
  BY <1>9, <1>11, <1>12 DEF ArrivalOrder

\* Exchange takes the smaller of two naturals for the quantity, as the engine.
LEMMA ExMinLemma == \A S : Ex!Min(S) = Min(S)
  BY DEF Ex!Min, Min

LEMMA MatchStepView ==
    ASSUME EInv, MatchStep
    PROVE  ArrivalOrder' /\ FokCovered' /\ Ex!Execute
<1> DEFINE order == mem[taker]
           maker == mem[Maker]
           q     == TradeQuantity
           rest  == Ex!After(maker, q)
<1>1. SafeInv /\ ArrivalOrder /\ FokCovered /\ ~Idle /\ Matching /\ taker' = taker
  BY IInvIsSafe DEF EInv, MatchStep
<1>2. /\ Maker \in RestingSlots /\ maker \in Ex!Counterparties(order)
      /\ Ex!First(order) = maker
  BY <1>1, PriorityLemma, FirstLemma
<1>3. /\ mem[taker] \in Order /\ mem[Maker] \in Order
      /\ \A s \in RestingSlots \cup {taker} :
            mem'[s].type = mem[s].type /\ mem'[s].symbol = mem[s].symbol
      /\ \A s \in {taker, Maker} :
            /\ mem'[s] = Ex!After(mem[s], q)
            /\ Ex!Left(mem'[s]) = Ex!Left(mem[s]) - q
            /\ Ex!Left(mem[s]) = remaining_qty(mem[s]) /\ Ex!Left(mem[s]) \in Nat
            /\ Ex!Left(mem'[s]) = 0 <=> is_filled(mem'[s])
  BY <1>1, MatchedOrders
<1>4. IncomingOrder = order /\ IncomingOrder # NoOrder /\ IncomingOrder' = mem'[taker]
  BY <1>1, TakerLemma DEF IncomingOrder, Idle
<1>5. FokCovered'
  <2>1. (Ex!Liquidity(mem[taker]))' = Ex!Liquidity(order) - q /\ Ex!Liquidity(order) \in Nat
    BY <1>1, <1>2, MatchedLiquidity
  <2>2. (Ex!Left(mem[taker]))' = Ex!Left(mem'[taker])
    BY <1>1
  <2>3. q \in Nat
    BY <1>1, MatchLemma, QuantityModulusAssumption DEF Quantities
  <2>4. order.type = "FOK" => Ex!Liquidity(order) - q >= Ex!Left(order) - q
    BY <1>1, <1>3, <2>1, <2>3 DEF FokCovered
  <2> QED
    BY <1>1, <1>3, <2>1, <2>2, <2>4 DEF FokCovered
<1>6. Ex!Left(order) > 0 /\ q = Ex!Min({Ex!Left(order), Ex!Left(maker)})
  BY <1>1, <1>3, ExMinLemma DEF Matching, TradeQuantity
<1>7. trade_history' = Append(trade_history, Ex!TapeEntry(order, maker, q))
  <2>1. trade_history' = Append(trade_history, TradeOf(order, maker, q))
    BY DEF MatchStep
  <2>2. maker.symbol = order.symbol /\ clock = order.timestamp + 1
    BY <1>1, <1>2 DEF ArrivalOrder, Ex!Counterparties, Ex!Takes
  <2>3. TradeOf(order, maker, q) = Ex!TapeEntry(order, maker, q)
    BY <2>2 DEF TradeOf, create_trade, Ex!TapeEntry, BUY
  <2> QED
    BY <2>1, <2>3
<1>8. RestingOrders' = (RestingOrders \ {maker})
                          \cup (IF Ex!Left(rest) = 0 THEN {} ELSE {rest})
  <2>1. /\ RestingSlots' = IF is_filled(mem'[Maker]) THEN RestingSlots \ {Maker}
                                                     ELSE RestingSlots
        /\ \A s \in RestingSlots : s # Maker => mem'[s] = mem[s]
    BY <1>1, MatchSlots DEF EInv
  <2>2. mem'[Maker] = rest /\ (Ex!Left(rest) = 0 <=> is_filled(mem'[Maker]))
    BY <1>3
  <2>3. \A s \in RestingSlots : s # Maker => mem[s] # maker
    BY <1>1, <1>2, DistinctLemma
  <2>4. RestingOrders = {mem[s] : s \in RestingSlots}
        /\ RestingOrders' = {mem'[s] : s \in RestingSlots'}
    BY DEF RestingOrders
  <2>5. RestingOrders \ {maker} = {mem'[s] : s \in RestingSlots \ {Maker}}
    BY <2>1, <2>3, <2>4
  <2> HIDE DEF rest, maker
  <2>6. CASE is_filled(mem'[Maker])
    BY <2>1, <2>2, <2>4, <2>5, <2>6
  <2>7. CASE ~is_filled(mem'[Maker])
    <3>1. {mem'[s] : s \in RestingSlots}
             = {mem'[s] : s \in RestingSlots \ {Maker}} \cup {mem'[Maker]}
      BY <1>2
    <3> QED
      BY <2>1, <2>2, <2>4, <2>5, <2>7, <3>1
  <2> QED
    BY <2>6, <2>7
<1>9. ArrivalOrder'
  BY <1>1, MatchedArrival
<1>10. IncomingOrder' = Ex!After(IncomingOrder, q)
  BY <1>3, <1>4
<1> HIDE DEF order, maker, rest, q
<1>11. Ex!Counterparties(order) # {}
  BY <1>2
<1>12. Ex!Execute
  BY <1>2, <1>4, <1>6, <1>7, <1>8, <1>10, <1>11 DEF Ex!Execute, rest
<1> QED
  BY <1>5, <1>9, <1>12

-----------------------------------------------------------------------------
(***************************************************************************)
(* The end of a call: Settle.                                              *)
(***************************************************************************)
\* The loop ends when the order is filled or nothing that rests is for it; a
\* Fill-or-Kill order, being covered, is filled.
LEMMA SpentLemma ==
    ASSUME EInv, ~Idle, ~Matching
    PROVE  /\ Ex!Left(mem[taker]) = 0 \/ Ex!Counterparties(mem[taker]) = {}
           /\ mem[taker].type = "FOK" => is_filled(mem[taker])
<1> DEFINE order == mem[taker]
<1>1. SafeInv /\ FokCovered /\ taker # NoSlot
  BY IInvIsSafe DEF EInv, Idle
<1>2. /\ order \in Order /\ Ex!Left(order) \in Nat
      /\ Ex!Left(order) = remaining_qty(order)
      /\ Ex!Left(order) = 0 <=> is_filled(order)
  BY <1>1, TakerLemma
<1>3. ASSUME Ex!Left(order) # 0, NEW s \in RestingSlots, Ex!Takes(order, mem[s])
      PROVE  FALSE
  <2> DEFINE side == Opposite(order.side)
             book == order_books[order.symbol]
  <2>1. /\ mem[s].symbol = order.symbol /\ mem[s].side \in Sides
        /\ mem[s].side # order.side
        /\ mem[s].price \in DOMAIN book.orders[mem[s].side]
        /\ mem[s] \in Order
    BY <1>1, <1>3, RestingLemma DEF Ex!Takes
  <2>2. side = mem[s].side /\ order.side \in Sides
    BY <1>2, <2>1 DEF Opposite, Sides, Order
  <2>3. mem[s].price \in DOMAIN TakerBook.orders[side]
    BY <2>1, <2>2 DEF TakerBook
  <2>4. Maker # NoSlot
    BY <1>1, <2>3, MakerLemma
  <2>5. remaining_qty(order) > 0
    BY <1>2, <1>3
  <2>6. order.type # "MARKET"
    BY <2>4, <2>5 DEF Matching, Matchable
  <2>7. IF order.side = BUY THEN order.price < mem[s].price ELSE mem[s].price < order.price
    BY <1>1, <1>2, <1>3, <2>3, <2>6, UnmatchableLemma
  <2>8. order.price \in Int /\ mem[s].price \in Int
    BY <1>2, <2>1 DEF Order, Prices
  <2> QED
    BY <1>3, <2>2, <2>6, <2>7, <2>8 DEF Ex!Takes, Sides, BUY, SELL
<1>4. Ex!Left(order) # 0 => Ex!Counterparties(order) = {}
  BY <1>3 DEF Ex!Counterparties, RestingOrders
<1>5. ASSUME order.type = "FOK", Ex!Left(order) # 0
      PROVE  FALSE
  <2>1. {s \in RestingSlots : Ex!Takes(order, mem[s])} = {}
    BY <1>3, <1>5
  <2>2. Ex!Liquidity(order) = 0
    BY <1>1, <2>1, LiquidityLemma, SumEmpty
  <2> QED
    BY <1>1, <1>2, <1>5, <2>2 DEF FokCovered
<1> QED
  BY <1>2, <1>4, <1>5

\* What every way to end a call does.
LEMMA ReturnView ==
    ASSUME EInv, Return
    PROVE  /\ SafeInv /\ ArrivalOrder /\ ~Idle /\ Idle' /\ mem' = mem
           /\ IncomingOrder = mem[taker] /\ IncomingOrder # NoOrder
           /\ IncomingOrder' = NoOrder /\ trade_history' = trade_history
           /\ FokCovered'
           /\ Ex!Left(mem[taker]) = 0 \/ Ex!Counterparties(mem[taker]) = {}
           /\ mem[taker].type = "FOK" => is_filled(mem[taker])
           /\ Ex!Left(mem[taker]) \in Nat
           /\ Ex!Left(mem[taker]) = 0 <=> is_filled(mem[taker])
           /\ mem[taker] \in Order
           /\ Now' = Now + 1 /\ Now = mem[taker].timestamp /\ Now \in Nat
<1>1. /\ SafeInv /\ ArrivalOrder /\ ~Idle /\ ~Matching /\ Idle' /\ mem' = mem
      /\ trade_history' = trade_history /\ clock' = clock
  BY IInvIsSafe DEF EInv, Return, Idle
<1>2. /\ IncomingOrder = mem[taker] /\ IncomingOrder # NoOrder
      /\ mem[taker] \in Order /\ Ex!Left(mem[taker]) \in Nat
      /\ Ex!Left(mem[taker]) = 0 <=> is_filled(mem[taker])
  BY <1>1, TakerLemma
<1>3. FokCovered' /\ IncomingOrder' = NoOrder
  BY <1>1 DEF FokCovered, IncomingOrder
<1>4. Now' = Now + 1 /\ Now = mem[taker].timestamp /\ Now \in Nat
  BY <1>1, <1>2 DEF Now, ArrivalOrder, Order
<1> QED
  BY <1>1, <1>2, <1>3, <1>4, SpentLemma

\* A call that ends without its order coming to rest.
LEMMA DroppedView ==
    ASSUME EInv, Return, order_books' = order_books,
           is_filled(mem[taker]) \/ mem[taker].type \in {"IOC", "MARKET"}
    PROVE  ArrivalOrder' /\ Ex!Settle
<1>1. /\ SafeInv /\ ArrivalOrder /\ ~Idle /\ Idle' /\ mem' = mem
      /\ IncomingOrder = mem[taker] /\ IncomingOrder # NoOrder
      /\ IncomingOrder' = NoOrder /\ trade_history' = trade_history
      /\ Ex!Left(mem[taker]) = 0 \/ Ex!Counterparties(mem[taker]) = {}
      /\ Ex!Left(mem[taker]) = 0 <=> is_filled(mem[taker])
      /\ Now' = Now + 1 /\ Now \in Nat
  BY ReturnView
<1>2. ArrivalOrder'
  <2>1. \A n \in Int : n < Now => n < Now'
    BY <1>1
  <2> QED
    BY <1>1, <2>1, KeptArrival
<1>3. RestingOrders' = RestingOrders
  BY <1>1, KeptLemma
<1>4. ~(Ex!Left(mem[taker]) > 0 /\ mem[taker].type \in {"LIMIT", "GFD"})
  BY <1>1
<1> QED
  BY <1>1, <1>2, <1>3, <1>4 DEF Ex!Settle

\* An order that comes to rest is one more.
LEMMA AddedSlots ==
    ASSUME SafeInv, ReturnResting
    PROVE  RestingSlots' = RestingSlots \cup {taker}
<1> DEFINE symbol == mem[taker].symbol
           book   == order_books[symbol]
           new    == add_order(book, mem, taker)
<1>1. StateOK /\ BooksOK /\ TakerMayRest
  BY Regroup
<1>2. /\ ~Idle /\ order_books' = [order_books EXCEPT ![symbol] = new]
      /\ mem[taker].type # "MARKET"
  BY DEF ReturnResting, Return
<1>3. /\ taker \in Pool /\ mem[taker] \in Order /\ symbol \in Symbols
      /\ taker \notin RestingSlots
      /\ ConsistentBook(book, mem, symbol) /\ ~Listed(book, taker)
      /\ mem[taker].id \notin DOMAIN book.lookup
  <2>1. /\ taker \in Pool /\ mem[taker] \in Order /\ taker \notin RestingSlots
        /\ symbol \in Symbols
    BY <1>2, TakerLemma DEF Order
  <2> QED
    BY <1>1, <1>2, <2>1 DEF BooksOK, TakerMayRest, RestingSlots
<1> HIDE DEF symbol, book, new
<1>4. symbol = mem[taker].symbol /\ book = order_books[symbol]
      /\ new = add_order(book, mem, taker)
  BY DEF symbol, book, new
<1>5. \A s : Listed(new, s) <=> Listed(book, s) \/ s = taker
  BY <1>3, <1>4, AddOrderLemma
<1>6. \A x \in Symbols : order_books'[x] = IF x = symbol THEN new ELSE order_books[x]
  BY <1>1, <1>2, <1>3 DEF StateOK
<1>7. RestingSlots' = {s \in Pool : \E x \in Symbols : Listed(order_books'[x], s)}
  BY DEF RestingSlots, Listed
<1>8. \A x \in Symbols, s \in Pool :
         Listed(order_books'[x], s) <=> Listed(order_books[x], s) \/ (x = symbol /\ s = taker)
  BY <1>4, <1>5, <1>6
<1> QED
  BY <1>3, <1>7, <1>8 DEF RestingSlots

\* A call whose order comes to rest, at the back of its level.
LEMMA ReturnRestingView ==
    ASSUME EInv, ReturnResting
    PROVE  ArrivalOrder' /\ Ex!Settle
<1> DEFINE symbol == mem[taker].symbol
           book   == order_books[symbol]
           new    == add_order(book, mem, taker)
<1>1. /\ Return /\ ~is_filled(mem[taker]) /\ mem[taker].type \notin {"IOC", "MARKET"}
      /\ order_books' = [order_books EXCEPT ![symbol] = new]
  BY DEF ReturnResting
<1>2. /\ SafeInv /\ ArrivalOrder /\ ~Idle /\ Idle' /\ mem' = mem
      /\ IncomingOrder = mem[taker] /\ IncomingOrder # NoOrder
      /\ IncomingOrder' = NoOrder /\ trade_history' = trade_history
      /\ Ex!Left(mem[taker]) = 0 \/ Ex!Counterparties(mem[taker]) = {}
      /\ mem[taker].type = "FOK" => is_filled(mem[taker])
      /\ Ex!Left(mem[taker]) \in Nat
      /\ Ex!Left(mem[taker]) = 0 <=> is_filled(mem[taker])
      /\ mem[taker] \in Order
      /\ Now' = Now + 1 /\ Now = mem[taker].timestamp /\ Now \in Nat
  BY <1>1, ReturnView
<1>3. StateOK /\ BooksOK /\ TakerMayRest
  BY <1>2, Regroup
<1>4. /\ taker \in Pool /\ symbol \in Symbols /\ taker \notin RestingSlots
      /\ ConsistentBook(book, mem, symbol) /\ ~Listed(book, taker)
      /\ mem[taker].id \notin DOMAIN book.lookup
      /\ OldestFirst(book, mem)
  <2>1. taker \in Pool /\ taker \notin RestingSlots /\ symbol \in Symbols
    BY <1>2, TakerLemma DEF Order
  <2> QED
    BY <1>1, <1>2, <1>3, <2>1 DEF BooksOK, TakerMayRest, ArrivalOrder, RestingSlots
<1>5. mem[taker].type \in {"LIMIT", "GFD"} /\ Ex!Left(mem[taker]) > 0
  BY <1>1, <1>2 DEF Order, OrderTypes
<1> HIDE DEF symbol, book, new
<1>6. symbol = mem[taker].symbol /\ book = order_books[symbol]
      /\ new = add_order(book, mem, taker)
  BY DEF symbol, book, new
<1>7. \A s : Listed(new, s) <=> Listed(book, s) \/ s = taker
  BY <1>2, <1>4, <1>6, AddOrderLemma
<1>8. OldestFirst(new, mem)
  <2>1. \A s \in Pool : Listed(book, s) => mem[s].timestamp < mem[taker].timestamp
    BY <1>2, <1>4, <1>6 DEF ArrivalOrder, RestingSlots
  <2> QED
    BY <1>2, <1>4, <1>6, <2>1, AddOrderQueues DEF ConsistentBook
<1>9. \A x \in Symbols : order_books'[x] = IF x = symbol THEN new ELSE order_books[x]
  BY <1>1, <1>3, <1>4 DEF StateOK
<1>10. RestingSlots' = RestingSlots \cup {taker}
  BY <1>2, AddedSlots
<1>11. RestingOrders' = RestingOrders \cup {mem[taker]}
  BY <1>2, <1>10 DEF RestingOrders
<1>12. ArrivalOrder'
  <2>1. \A x \in Symbols : OldestFirst(order_books'[x], mem)
    BY <1>2, <1>8, <1>9 DEF ArrivalOrder
  <2>2. \A x \in Symbols : OldestFirst(order_books[x], mem)'
    BY <1>2, <2>1 DEF OldestFirst, InArrivalOrder
  <2>3. \A s \in RestingSlots : mem[s].timestamp < Now /\ mem[s].timestamp \in Nat
    BY <1>2, RestingLemma DEF ArrivalOrder, Order
  <2>4. \A s \in RestingSlots' : mem'[s].timestamp < Now'
    BY <1>2, <1>10, <2>3
  <2> QED
    BY <1>2, <2>2, <2>4 DEF ArrivalOrder
<1> QED
  BY <1>2, <1>5, <1>11, <1>12 DEF Ex!Settle

LEMMA FinishOrderView ==
    ASSUME EInv, FinishOrder
    PROVE  ArrivalOrder' /\ FokCovered' /\ Ex!Settle
<1>1. Return
  BY DEF FinishOrder, ReturnFilled, ReturnIOC, ReturnMarket, ReturnResting
<1>2. FokCovered'
  BY <1>1, ReturnView
<1>3. CASE ReturnFilled \/ ReturnIOC \/ ReturnMarket
  BY <1>1, <1>2, <1>3, DroppedView DEF ReturnFilled, ReturnIOC, ReturnMarket
<1>4. CASE ReturnResting
  BY <1>2, <1>4, ReturnRestingView
<1> QED
  BY <1>2, <1>3, <1>4 DEF FinishOrder

-----------------------------------------------------------------------------
(***************************************************************************)
(* A cancel: Withdraw, or nothing that Exchange sees.                      *)
(***************************************************************************)
\* A cancel takes the slot of the order that its id finds, if it finds one.
LEMMA WithdrawnSlots ==
    ASSUME SafeInv, NEW id \in OrderIds, NEW symbol \in Symbols, CancelOrder(id, symbol)
    PROVE  LET lookup == order_books[symbol].lookup
           IN  IF id \in DOMAIN lookup
               THEN /\ lookup[id] \in RestingSlots
                    /\ RestingSlots' = RestingSlots \ {lookup[id]}
               ELSE order_books' = order_books
<1> DEFINE book == order_books[symbol]
           new  == cancel_order(book, mem, id)
           gone == book.lookup[id]
<1>1. BooksOK /\ StateOK /\ order_books' = [order_books EXCEPT ![symbol] = new]
  BY Regroup DEF CancelOrder
<1>2. ConsistentBook(book, mem, symbol)
  BY <1>1 DEF BooksOK
<1>3. CASE id \notin DOMAIN book.lookup
  <2>1. new = book
    BY <1>3 DEF cancel_order, Cancellable
  <2>2. order_books' = order_books
    BY <1>1, <2>1 DEF StateOK
  <2> QED
    BY <1>3, <2>2
<1>4. CASE id \in DOMAIN book.lookup
  <2>1. /\ gone \in Pool /\ Listed(book, gone)
        /\ \A s : Listed(new, s) <=> Listed(book, s) /\ s # gone
    BY <1>2, <1>4, CancelOrderLemma
  <2>2. gone \in RestingSlots /\ mem[gone].symbol = symbol
    BY <1>2, <2>1, ListedLemma DEF RestingSlots
  <2> HIDE DEF gone, new, book
  <2>3. book = order_books[symbol]
    BY DEF book
  <2>4. \A x \in Symbols : order_books'[x] = IF x = symbol THEN new ELSE order_books[x]
    BY <1>1 DEF StateOK
  <2>5. \A x \in Symbols : Listed(order_books[x], gone) => x = symbol
    <3>1. \A x \in Symbols : ConsistentBook(order_books[x], mem, x)
      BY <1>1 DEF BooksOK
    <3> QED
      BY <2>2, <3>1, ListedLemma
  <2>6. RestingSlots' = {s \in Pool : \E x \in Symbols : Listed(order_books'[x], s)}
    BY DEF RestingSlots, Listed
  <2>7. \A x \in Symbols, s \in Pool :
           Listed(order_books'[x], s) <=> Listed(order_books[x], s) /\ s # gone
    BY <2>1, <2>3, <2>4, <2>5
  <2>8. RestingSlots' = RestingSlots \ {gone}
    BY <2>6, <2>7 DEF RestingSlots
  <2> QED
    BY <1>4, <2>2, <2>8 DEF gone, book
<1> QED
  BY <1>3, <1>4

\* The rest of it is as it was.
LEMMA CancelOrderView ==
    ASSUME EInv, NEW id \in OrderIds, NEW symbol \in Symbols, CancelOrder(id, symbol)
    PROVE  /\ ArrivalOrder' /\ FokCovered'
           /\ \/ \E order \in RestingOrders : Ex!Withdraw(order)
              \/ UNCHANGED Ex!exchangeVars
<1> DEFINE book == order_books[symbol]
           new  == cancel_order(book, mem, id)
           gone == book.lookup[id]
<1>1. /\ SafeInv /\ ArrivalOrder /\ Idle /\ taker' = taker /\ mem' = mem
      /\ trade_history' = trade_history /\ clock' = clock
      /\ order_books' = [order_books EXCEPT ![symbol] = new]
  BY IInvIsSafe DEF EInv, CancelOrder
<1>2. BooksOK /\ StateOK /\ clock \in Nat
  BY <1>1, Regroup DEF StateOK
<1>3. ConsistentBook(book, mem, symbol) /\ OldestFirst(book, mem)
  BY <1>1, <1>2 DEF BooksOK, ArrivalOrder
<1>4. CASE id \notin DOMAIN book.lookup
  <2>2. order_books' = order_books
    BY <1>1, <1>4, WithdrawnSlots
  <2> QED
    BY <1>1, <2>2, UnseenLemma
<1>5. CASE id \in DOMAIN book.lookup
  <2>1. /\ gone \in Pool /\ Listed(book, gone)
        /\ \A s : Listed(new, s) <=> Listed(book, s) /\ s # gone
    BY <1>3, <1>5, CancelOrderLemma
  <2>2. OldestFirst(new, mem)
    BY <1>3, <1>5, CancelOrderQueues
  <2>3. gone \in RestingSlots /\ mem[gone].symbol = symbol
    BY <1>3, <2>1, ListedLemma DEF RestingSlots
  <2> HIDE DEF gone, new, book
  <2>4. book = order_books[symbol]
    BY DEF book
  <2>5. \A x \in Symbols : order_books'[x] = IF x = symbol THEN new ELSE order_books[x]
    BY <1>1, <1>2 DEF StateOK
  <2>7. RestingSlots' = RestingSlots \ {gone}
    BY <1>1, <1>5, WithdrawnSlots DEF gone, book
  <2>8. \A s \in RestingSlots : mem[s] = mem[gone] => s = gone
    BY <1>1, <2>3, DistinctLemma
  <2>9. mem[gone] \in RestingOrders /\ RestingOrders' = RestingOrders \ {mem[gone]}
    BY <1>1, <2>3, <2>7, <2>8 DEF RestingOrders
  <2>10. Idle' /\ IncomingOrder' = IncomingOrder /\ IncomingOrder = NoOrder /\ FokCovered'
         /\ Now' = Now
    BY <1>1 DEF Idle, IncomingOrder, FokCovered, Now
  <2>11. Ex!Withdraw(mem[gone])
    BY <1>1, <2>9, <2>10 DEF Ex!Withdraw
  <2>12. ArrivalOrder'
    <3>1. \A x \in Symbols : OldestFirst(order_books'[x], mem)
      BY <1>1, <2>2, <2>5 DEF ArrivalOrder
    <3>2. \A x \in Symbols : OldestFirst(order_books[x], mem)'
      BY <1>1, <3>1 DEF OldestFirst, InArrivalOrder
    <3>3. \A s \in RestingSlots' : mem'[s].timestamp < Now'
      BY <1>1, <2>7, <2>10 DEF ArrivalOrder
    <3> QED
      BY <2>10, <3>2, <3>3 DEF ArrivalOrder
  <2> QED
    BY <2>9, <2>10, <2>11, <2>12
<1> QED
  BY <1>4, <1>5

-----------------------------------------------------------------------------
(***************************************************************************)
(* The refinement.                                                         *)
(***************************************************************************)
\* The empty engine is the empty exchange.
LEMMA InitEInv == Init => EInv /\ Ex!Init
<1> SUFFICES ASSUME Init PROVE EInv /\ Ex!Init
  OBVIOUS
<1>1. IInv /\ Idle
  BY InitIInv DEF Init, Idle
<1>2. \A symbol \in Symbols : order_books[symbol] = EmptyBook
  BY DEF Init
<1>3. \A side \in Sides : DOMAIN EmptyBook.orders[side] = {}
  BY DEF EmptyBook, NoLevels
<1>4. RestingSlots = {}
  BY <1>2, <1>3 DEF RestingSlots, Listed
<1>5. ArrivalOrder
  BY <1>1, <1>2, <1>3, <1>4 DEF ArrivalOrder, OldestFirst
<1>6. RestingOrders = {} /\ IncomingOrder = NoOrder /\ trade_history = << >>
  BY <1>1, <1>4 DEF RestingOrders, IncomingOrder, Init
<1> QED
  BY <1>1, <1>5, <1>6, IdleView DEF EInv, Ex!Init

\* Every step of the engine keeps the invariant and is a step of Exchange or
\* one that Exchange does not see.
LEMMA NextEInv == EInv /\ [Next]_vars => EInv' /\ [Ex!Next]_(Ex!exchangeVars)
<1> SUFFICES ASSUME EInv, [Next]_vars
             PROVE  ArrivalOrder' /\ FokCovered' /\ [Ex!Next]_(Ex!exchangeVars)
  BY NextIInv DEF EInv
<1>1. CASE \E request \in Requests : FreshId(request) /\ ProcessNewOrder(request)
  <2>1. PICK request \in Requests : ProcessNewOrder(request)
    BY <1>1
  <2>2. CASE RejectPoolExhausted(request) \/ RejectInvalid(request) \/ KillFok(request)
    BY <2>2, TurnedDownView
  <2>3. CASE BeginMatching(request)
    BY <2>3, BeginMatchingView DEF Ex!Next
  <2> QED
    BY <2>1, <2>2, <2>3 DEF ProcessNewOrder
<1>2. CASE MatchStep
  BY <1>2, MatchStepView DEF Ex!Next
<1>3. CASE FinishOrder
  BY <1>3, FinishOrderView DEF Ex!Next
<1>4. CASE Cancel
  BY <1>4, CancelOrderView DEF Cancel, Ex!Next
<1>5. CASE UNCHANGED vars
  <2>1. ArrivalOrder'
    BY <1>5 DEF EInv, vars, ArrivalOrder, OldestFirst, InArrivalOrder, RestingSlots,
                Listed, Now, Idle
  <2>2. FokCovered' /\ UNCHANGED Ex!exchangeVars
    <3>1. RestingOrders' = RestingOrders /\ IncomingOrder' = IncomingOrder
          /\ trade_history' = trade_history
      BY <1>5 DEF vars, RestingOrders, RestingSlots, Listed, IncomingOrder, Idle
    <3>2. FokCovered'
      BY <1>5, <3>1 DEF EInv, vars, FokCovered, Idle, Ex!Liquidity, Ex!Counterparties, Ex!Left
    <3> QED
      BY <3>1, <3>2 DEF Ex!exchangeVars
  <2> QED
    BY <2>1, <2>2
<1> QED
  BY <1>1, <1>2, <1>3, <1>4, <1>5 DEF Next, EngineStep

\* The invariant of the refinement holds in every reachable state.
THEOREM ArrivalInvariance == Spec => []EInv
<1>1. EInv /\ [Next]_vars => EInv'
  BY NextEInv
<1> QED
  BY <1>1, InitEInv, PTL DEF Spec

\* The matching engine implements the exchange: every trade is with the order
\* that has priority, a Fill-or-Kill order comes in only if it can be filled
\* and never rests, and a cancel withdraws the order it names and no other.
THEOREM EngineImplementsExchange == Spec => RefinesExchange
<1>1. EInv /\ [Next]_vars => EInv' /\ [Ex!Next]_(Ex!exchangeVars)
  BY NextEInv
<1> QED
  BY <1>1, InitEInv, PTL DEF Spec, RefinesExchange, Ex!Spec

\* A Fill-or-Kill order whose call returns was filled whole.
THEOREM FokIsAllOrNothing == Spec => FokAllOrNothing
<1>1. EInv /\ [Next]_vars =>
         [ (~Idle /\ taker' = NoSlot /\ mem[taker].type = "FOK")
             => is_filled(mem[taker]) ]_vars
  <2> SUFFICES ASSUME EInv, Next, ~Idle, taker' = NoSlot, mem[taker].type = "FOK"
               PROVE  is_filled(mem[taker])
    OBVIOUS
  <2>1. Return
    BY DEF Next, ProcessNewOrder, RejectPoolExhausted, RejectInvalid, KillFok,
           BeginMatching, Valid, Receive, EngineStep, MatchStep, FinishOrder,
           ReturnFilled, ReturnIOC, ReturnMarket, ReturnResting, Cancel, CancelOrder, Idle
  <2> QED
    BY <2>1, ReturnView
<1> QED
  BY <1>1, ArrivalInvariance, PTL DEF Spec, FokAllOrNothing
-----------------------------------------------------------------------------
(***************************************************************************)
(* What an order counts as filled is what the trade history says of it.    *)
(*                                                                         *)
(* The fill of an order and the trade that reports it are written by       *)
(* different statements, and a trade names its two orders by id only.      *)
(* That the sum over the history is right needs that nothing in it is      *)
(* newer than the clock (NothingNewer: an order that arrives has no trade  *)
(* yet, even under an id that was used before), that ids are unique among  *)
(* the orders that are live (LookupAgreesWithLists, TakerIsLive), and      *)
(* that a live order is older than the trades of now (ArrivalOrder).       *)
(***************************************************************************)
\* The orders that rest and the one that is matched.
LiveSlots == {s \in Pool : s = taker \/ s \in RestingSlots}

NothingNewer == \A i \in DOMAIN trade_history : trade_history[i].timestamp <= clock

HInv == EInv /\ NothingNewer /\ FilledMatchesHistory

\* A trade is about an order of that symbol, side, id and time of arrival.
About(trade, order) ==
    /\ trade.timestamp > order.timestamp
    /\ trade.symbol = order.symbol
    /\ order.id = IF order.side = BUY THEN trade.buy_order_id ELSE trade.sell_order_id

Own(tape, order) == {i \in DOMAIN tape : About(tape[i], order)}

Reported(tape) == [i \in DOMAIN tape |-> tape[i].quantity]

-----------------------------------------------------------------------------
(***************************************************************************)
(* The orders that are live, step by step.                                 *)
(***************************************************************************)
\* A request that is turned down leaves them alone.
LEMMA TurnedDownLive ==
    ASSUME SafeInv, NEW request \in OrderRequest,
           RejectPoolExhausted(request) \/ RejectInvalid(request) \/ KillFok(request)
    PROVE  LiveSlots' = LiveSlots /\ \A s \in LiveSlots : mem'[s] = mem[s]
<1>1. Idle /\ taker' = taker /\ order_books' = order_books
  BY DEF RejectPoolExhausted, RejectInvalid, KillFok, Valid, Receive
<1>2. \A s \in RestingSlots : mem'[s] = mem[s]
  <2>1. CASE RejectPoolExhausted(request)
    BY <2>1 DEF RejectPoolExhausted
  <2>2. CASE RejectInvalid(request) \/ KillFok(request)
    <3>1. Receive(request)
      BY <2>2 DEF RejectInvalid, KillFok, Valid
    <3> QED
      BY <1>1, <3>1, ReceiveLemma DEF RestingSlots
  <2> QED
    BY <2>1, <2>2
<1>3. RestingSlots' = RestingSlots
  BY <1>1, <1>2, KeptLemma
<1>4. LiveSlots = RestingSlots /\ LiveSlots' = RestingSlots
  BY <1>1, <1>3, NoSlotNotInPool DEF LiveSlots, Idle, RestingSlots
<1> QED
  BY <1>2, <1>4

\* One that is taken up adds its order.
LEMMA BeginMatchingLive ==
    ASSUME SafeInv, NEW request \in OrderRequest, BeginMatching(request)
    PROVE  /\ LiveSlots' = LiveSlots \cup {taker'}
           /\ mem'[taker'] = NewOrder(request, clock)
           /\ \A s \in LiveSlots : mem'[s] = mem[s]
<1>1. /\ Valid(request) /\ Idle /\ taker' = allocated(free_indices)
      /\ order_books' = order_books
  BY DEF BeginMatching, Valid, Receive
<1>2. /\ taker' \in Pool /\ mem'[taker'] = NewOrder(request, clock)
      /\ \A symbol \in Symbols : \A s \in Pool :
            Listed(order_books[symbol], s) => mem'[s] = mem[s]
  BY <1>1, ValidLemma
<1>3. \A s \in RestingSlots : mem'[s] = mem[s]
  BY <1>2 DEF RestingSlots
<1>4. RestingSlots' = RestingSlots
  BY <1>1, <1>3, KeptLemma
<1>5. LiveSlots = RestingSlots /\ LiveSlots' = RestingSlots \cup {taker'}
  BY <1>1, <1>2, <1>4, NoSlotNotInPool DEF LiveSlots, Idle, RestingSlots
<1> QED
  BY <1>2, <1>3, <1>5

\* A match may end the life of the maker.
LEMMA MatchStepLive ==
    ASSUME SafeInv, MatchStep
    PROVE  LiveSlots' \subseteq LiveSlots
  BY MatchSlots DEF LiveSlots, MatchStep

\* The order of a call that ends rests, or is live no more.
LEMMA FinishOrderLive ==
    ASSUME SafeInv, FinishOrder
    PROVE  LiveSlots' \subseteq LiveSlots /\ mem' = mem
<1>1. mem' = mem /\ taker' = NoSlot
  BY DEF FinishOrder, ReturnFilled, ReturnIOC, ReturnMarket, ReturnResting, Return
<1>2. RestingSlots' \subseteq RestingSlots \cup {taker}
  <2>1. CASE ReturnResting
    BY <2>1, AddedSlots
  <2>2. CASE ReturnFilled \/ ReturnIOC \/ ReturnMarket
    <3>1. order_books' = order_books
      BY <2>2 DEF ReturnFilled, ReturnIOC, ReturnMarket
    <3> QED
      BY <1>1, <3>1, KeptLemma
  <2> QED
    BY <2>1, <2>2 DEF FinishOrder
<1> QED
  BY <1>1, <1>2, NoSlotNotInPool DEF LiveSlots

\* A cancel may end the life of an order.
LEMMA CancelOrderLive ==
    ASSUME SafeInv, NEW id \in OrderIds, NEW symbol \in Symbols, CancelOrder(id, symbol)
    PROVE  LiveSlots' \subseteq LiveSlots /\ mem' = mem
<1>1. mem' = mem /\ taker' = taker
  BY DEF CancelOrder
<1>2. RestingSlots' \subseteq RestingSlots
  <2>1. CASE id \in DOMAIN order_books[symbol].lookup
    BY <2>1, WithdrawnSlots
  <2>2. CASE id \notin DOMAIN order_books[symbol].lookup
    <3>1. order_books' = order_books
      BY <2>2, WithdrawnSlots
    <3> QED
      BY <1>1, <3>1, KeptLemma
  <2> QED
    BY <2>1, <2>2
<1> QED
  BY <1>1, <1>2 DEF LiveSlots

-----------------------------------------------------------------------------
(***************************************************************************)
(* What a live order is, it stays until it is live no more: only its fill  *)
(* changes.                                                                *)
(***************************************************************************)
SameOrder(order, before) ==
    order = [before EXCEPT !.quantity_filled = order.quantity_filled]

\* Of a step that is not an arrival.
LEMMA KeptOrders ==
    ASSUME SafeInv, EngineStep \/ Cancel \/ UNCHANGED vars
    PROVE  /\ LiveSlots' \subseteq LiveSlots
           /\ \A s \in LiveSlots : mem[s] \in Order /\ SameOrder(mem'[s], mem[s])
<1>1. \A s \in LiveSlots : mem[s] \in Order
  BY TakerLemma, RestingLemma, NoSlotNotInPool DEF LiveSlots, Idle
<1>2. ASSUME mem' = mem
      PROVE  \A s \in LiveSlots : SameOrder(mem'[s], mem[s])
  BY <1>1, <1>2 DEF SameOrder, Order
<1>3. CASE MatchStep
  <2>1. LiveSlots' \subseteq LiveSlots
    BY <1>3, MatchStepLive
  <2>2. \A s \in {taker, Maker} :
           mem'[s] = [mem[s] EXCEPT !.quantity_filled = mem[s].quantity_filled + TradeQuantity]
    BY <1>3, MatchLemma
  <2>3. \A s \in Pool : s \notin {taker, Maker} => mem'[s] = mem[s]
    BY <1>3, MatchLemma
  <2>4. ASSUME NEW s \in LiveSlots
        PROVE  SameOrder(mem'[s], mem[s])
    <3>1. PICK q : mem'[s] = [mem[s] EXCEPT !.quantity_filled = q]
      <4>1. CASE s \in {taker, Maker}
        BY <2>2, <4>1
      <4>2. CASE s \notin {taker, Maker}
        <5>1. mem'[s] = mem[s]
          BY <2>3, <4>2 DEF LiveSlots
        <5>2. mem[s] = [mem[s] EXCEPT !.quantity_filled = mem[s].quantity_filled]
          BY <1>1 DEF Order
        <5> QED
          BY <5>1, <5>2
      <4> QED
        BY <4>1, <4>2
    <3>2. mem'[s].quantity_filled = q
      BY <1>1, <3>1 DEF Order
    <3> QED
      BY <3>1, <3>2 DEF SameOrder
  <2> QED
    BY <1>1, <2>1, <2>4
<1>4. CASE FinishOrder
  BY <1>1, <1>2, <1>4, FinishOrderLive
<1>5. CASE Cancel
  BY <1>1, <1>2, <1>5, CancelOrderLive DEF Cancel
<1>6. CASE UNCHANGED vars
  <2>1. mem' = mem /\ LiveSlots' = LiveSlots
    BY <1>6 DEF vars, LiveSlots, RestingSlots, Listed
  <2> QED
    BY <1>1, <1>2, <2>1
<1> QED
  BY <1>3, <1>4, <1>5, <1>6 DEF EngineStep

\* Of an arrival: the order that comes is the only one that was not there.
LEMMA ArrivedOrders ==
    ASSUME SafeInv, NEW request \in OrderRequest, ProcessNewOrder(request)
    PROVE  \A s \in LiveSlots' : \/ s \in LiveSlots /\ mem'[s] = mem[s]
                                 \/ mem'[s] = NewOrder(request, clock)
<1>1. CASE RejectPoolExhausted(request) \/ RejectInvalid(request) \/ KillFok(request)
  BY <1>1, TurnedDownLive
<1>2. CASE BeginMatching(request)
  BY <1>2, BeginMatchingLive
<1> QED
  BY <1>1, <1>2 DEF ProcessNewOrder

-----------------------------------------------------------------------------
(***************************************************************************)
(* The sum of what a history reports of an order.                          *)
(***************************************************************************)
\* What a sequence of trades reports are naturals, of finitely many trades.
LEMMA ReportedLemma ==
    ASSUME NEW tape \in Seq(Trade), NEW S \in SUBSET DOMAIN tape
    PROVE  /\ IsFiniteSet(DOMAIN tape) /\ IsFiniteSet(S)
           /\ NatOn(Reported(tape), DOMAIN tape) /\ NatOn(Reported(tape), S)
<1>1. DOMAIN tape = 1 .. Len(tape) /\ Len(tape) \in Nat
  OBVIOUS
<1>2. IsFiniteSet(DOMAIN tape)
  BY <1>1, FS_Interval
<1>3. \A i \in DOMAIN tape : tape[i] \in Trade
  OBVIOUS
<1>4. \A i \in DOMAIN tape : tape[i].quantity \in Nat
  BY <1>3, QuantityModulusAssumption DEF Trade, Quantities
<1> QED
  BY <1>2, <1>4, FS_Subset DEF NatOn, Reported

\* To sum over the trades about an order is to sum part of the history.
LEMMA OwnSum ==
    ASSUME NEW tape \in Seq(Trade), NEW order
    PROVE  SumFunction([i \in Own(tape, order) |-> tape[i].quantity])
             = SumFunctionOnSet(Reported(tape), Own(tape, order))
<1> DEFINE own == Own(tape, order)
           f   == [i \in own |-> tape[i].quantity]
           g   == Reported(tape)
<1>1. SumFunction(f) = SumFunctionOnSet(f, own)
  BY DEF SumFunction
<1>2. own \in SUBSET DOMAIN tape
  BY DEF Own
<1>3. \A i \in own : f[i] = g[i]
  BY <1>2 DEF Reported
<1>4. IsFiniteSet(own) /\ NatOn(g, own)
  BY <1>2, ReportedLemma
<1> HIDE DEF own, g
<1>5. NatOn(f, own)
  BY <1>3, <1>4 DEF NatOn
<1> HIDE DEF f
<1>6. SumFunction(f) = SumFunctionOnSet(g, own)
  BY <1>1, <1>3, <1>4, <1>5, SumSame
<1> QED
  BY <1>6 DEF f, g, own

\* An order keeps its sum when a trade is appended that is not about it, and
\* one that is adds its quantity.
LEMMA AppendedLemma ==
    ASSUME NEW tape \in Seq(Trade), NEW trade \in Trade, NEW order
    PROVE  LET sum(t) == SumFunctionOnSet(Reported(t), Own(t, order))
           IN  /\ sum(tape) \in Nat
               /\ sum(Append(tape, trade)) = IF About(trade, order)
                                             THEN sum(tape) + trade.quantity
                                             ELSE sum(tape)
<1> DEFINE n     == Len(tape)
           tape1 == Append(tape, trade)
           own   == Own(tape, order)
           own1  == Own(tape1, order)
           f     == Reported(tape)
           g     == Reported(tape1)
<1>1. /\ n \in Nat /\ DOMAIN tape = 1 .. n
      /\ tape1 \in Seq(Trade) /\ DOMAIN tape1 = 1 .. n + 1
      /\ tape1[n + 1] = trade /\ \A i \in 1 .. n : tape1[i] = tape[i]
  OBVIOUS
<1> HIDE DEF n, tape1
<1>2. n + 1 \notin own /\ own \in SUBSET DOMAIN tape /\ own1 \in SUBSET DOMAIN tape1
  BY <1>1 DEF Own
<1>3. own1 = IF About(trade, order) THEN own \cup {n + 1} ELSE own
  BY <1>1 DEF Own
<1>4. \A i \in own : f[i] = g[i]
  BY <1>1, <1>2 DEF Reported
<1>5. g[n + 1] = trade.quantity
  BY <1>1 DEF Reported
<1>6. IsFiniteSet(own) /\ IsFiniteSet(own1) /\ NatOn(f, own) /\ NatOn(g, own1)
  BY <1>1, <1>2, ReportedLemma
<1> HIDE DEF own, own1, f, g
<1>7. SumFunctionOnSet(f, own) = SumFunctionOnSet(g, own)
  BY <1>4, <1>6, SumSame
<1>8. SumFunctionOnSet(f, own) \in Nat
  BY <1>6, SumType
<1>9. SumFunctionOnSet(g, own1) = IF About(trade, order)
                                  THEN SumFunctionOnSet(f, own) + trade.quantity
                                  ELSE SumFunctionOnSet(f, own)
  <2>1. CASE About(trade, order)
    <3>1. own1 \ {n + 1} = own /\ n + 1 \in own1
      BY <1>2, <1>3, <2>1
    <3>2. SumFunctionOnSet(g, own1) = g[n + 1] + SumFunctionOnSet(g, own1 \ {n + 1})
      BY <1>6, <3>1, SumAdd
    <3>3. trade.quantity \in Nat
      BY QuantityModulusAssumption DEF Trade, Quantities
    <3>4. SumFunctionOnSet(g, own1) = trade.quantity + SumFunctionOnSet(f, own)
      BY <1>5, <1>7, <3>1, <3>2
    <3>5. SumFunctionOnSet(g, own1) = SumFunctionOnSet(f, own) + trade.quantity
      BY <1>8, <3>3, <3>4
    <3> QED
      BY <2>1, <3>5
  <2>2. CASE ~About(trade, order)
    BY <1>3, <1>7, <2>2
  <2> QED
    BY <2>1, <2>2
<1> QED
  BY <1>8, <1>9 DEF own, own1, f, g, tape1

-----------------------------------------------------------------------------
(***************************************************************************)
(* The steps.                                                              *)
(***************************************************************************)
\* The property, for the live slots.
LEMMA HistoryLemma ==
    ASSUME trade_history \in Seq(Trade)
    PROVE  FilledMatchesHistory <=>
              \A s \in LiveSlots :
                 mem[s].quantity_filled =
                    SumFunctionOnSet(Reported(trade_history), Own(trade_history, mem[s]))
<1>1. \A order : TradedQuantity(order) =
                    SumFunctionOnSet(Reported(trade_history), Own(trade_history, order))
  BY OwnSum DEF TradedQuantity, Own, About
<1> QED
  BY <1>1 DEF FilledMatchesHistory, LiveSlots, RestingSlots

\* The same of the state after a step.
LEMMA HistoryPrime ==
    ASSUME trade_history' \in Seq(Trade),
           \A s \in LiveSlots' :
              mem'[s].quantity_filled =
                 SumFunctionOnSet(Reported(trade_history'), Own(trade_history', mem'[s]))
    PROVE  FilledMatchesHistory'
<1>1. \A s : TradedQuantity(mem[s])' =
                SumFunctionOnSet(Reported(trade_history'), Own(trade_history', mem'[s]))
  BY OwnSum DEF TradedQuantity, Own, About
<1> QED
  BY <1>1 DEF FilledMatchesHistory, LiveSlots, RestingSlots

\* A step that writes no history, after which no order is live that was not.
LEMMA SilentStep ==
    ASSUME HInv, trade_history' = trade_history, LiveSlots' \subseteq LiveSlots,
           \A s \in LiveSlots' : mem'[s] = mem[s],
           clock' = clock \/ clock' = clock + 1
    PROVE  NothingNewer' /\ FilledMatchesHistory'
<1>1. trade_history \in Seq(Trade) /\ clock \in Nat
  BY IInvIsSafe DEF HInv, EInv, IInv, TypeOK
<1>2. \A i \in DOMAIN trade_history : trade_history[i].timestamp \in Nat
  <2>1. \A i \in DOMAIN trade_history : trade_history[i] \in Trade
    BY <1>1
  <2> QED
    BY <2>1 DEF Trade
<1>3. NothingNewer'
  BY <1>1, <1>2 DEF HInv, NothingNewer
<1>4. \A s \in LiveSlots :
         mem[s].quantity_filled =
            SumFunctionOnSet(Reported(trade_history), Own(trade_history, mem[s]))
  BY <1>1, HistoryLemma DEF HInv
<1>5. trade_history' \in Seq(Trade)
  BY <1>1
<1>6. \A s \in LiveSlots' :
         mem'[s].quantity_filled =
            SumFunctionOnSet(Reported(trade_history'), Own(trade_history', mem'[s]))
  BY <1>4
<1>7. FilledMatchesHistory'
  BY <1>5, <1>6, HistoryPrime
<1> QED
  BY <1>3, <1>7

\* A request that is turned down.
LEMMA TurnedDownHistory ==
    ASSUME HInv, NEW request \in Requests,
           RejectPoolExhausted(request) \/ RejectInvalid(request) \/ KillFok(request)
    PROVE  NothingNewer' /\ FilledMatchesHistory'
<1>1. SafeInv /\ trade_history' = trade_history /\ (clock' = clock \/ clock' = clock + 1)
  BY IInvIsSafe DEF HInv, EInv, RejectPoolExhausted, RejectInvalid, KillFok, Valid, Receive
<1>2. LiveSlots' = LiveSlots /\ \A s \in LiveSlots : mem'[s] = mem[s]
  BY <1>1, TurnedDownLive, RequestsTyped
<1> QED
  BY <1>1, <1>2, SilentStep

\* A request that is taken up: the history says nothing yet of its order.
LEMMA BeginMatchingHistory ==
    ASSUME HInv, NEW request \in Requests, BeginMatching(request)
    PROVE  NothingNewer' /\ FilledMatchesHistory'
<1> DEFINE order == NewOrder(request, clock)
<1>1. SafeInv /\ clock \in Nat /\ trade_history \in Seq(Trade)
  BY IInvIsSafe DEF HInv, EInv, IInv, TypeOK
<1>2. trade_history' = trade_history /\ clock' = clock + 1
  BY DEF BeginMatching, Valid, Receive
<1>3. /\ LiveSlots' = LiveSlots \cup {taker'} /\ mem'[taker'] = order
      /\ \A s \in LiveSlots : mem'[s] = mem[s]
  BY <1>1, BeginMatchingLive, RequestsTyped
<1>4. order.timestamp = clock /\ order.quantity_filled = 0
  BY DEF NewOrder
<1> HIDE DEF order
<1>5. \A i \in DOMAIN trade_history :
         trade_history[i].timestamp \in Nat /\ trade_history[i].timestamp <= clock
  <2>1. \A i \in DOMAIN trade_history : trade_history[i] \in Trade
    BY <1>1
  <2> QED
    BY <2>1 DEF HInv, NothingNewer, Trade
<1>6. NothingNewer'
  BY <1>1, <1>2, <1>5 DEF NothingNewer
<1>7. Own(trade_history, order) = {}
  BY <1>1, <1>4, <1>5 DEF Own, About
<1>8. \A s \in LiveSlots :
         mem[s].quantity_filled =
            SumFunctionOnSet(Reported(trade_history), Own(trade_history, mem[s]))
  BY <1>1, HistoryLemma DEF HInv
<1>9. \A s \in LiveSlots' :
         mem'[s].quantity_filled =
            SumFunctionOnSet(Reported(trade_history), Own(trade_history, mem'[s]))
  BY <1>3, <1>4, <1>7, <1>8, SumEmpty
<1>10. FilledMatchesHistory'
  BY <1>1, <1>2, <1>9, HistoryPrime
<1> QED
  BY <1>6, <1>10

\* The trade of a match is about the two orders it fills and no other that is
\* live.
LEMMA TradeIsAbout ==
    ASSUME HInv, MatchStep, NEW s \in LiveSlots
    PROVE  About(TradeOf(mem[taker], mem[Maker], TradeQuantity), mem[s])
              <=> s \in {taker, Maker}
<1> DEFINE trade == TradeOf(mem[taker], mem[Maker], TradeQuantity)
           order == mem[taker]
           maker == mem[Maker]
<1>1. SafeInv /\ ArrivalOrder /\ ~Idle /\ taker # NoSlot
  BY IInvIsSafe DEF HInv, EInv, MatchStep, Idle
<1>2. /\ taker \in Pool /\ order \in Order /\ taker \notin RestingSlots
      /\ Maker \in RestingSlots /\ Maker # NoSlot
  BY <1>1, TakerLemma, MatchSlots DEF MatchStep, Matching
<1>3. /\ order.side \in Sides /\ maker \in Order
      /\ maker.symbol = order.symbol /\ maker.side = Opposite(order.side)
      /\ order.timestamp \in Nat
  BY <1>1, <1>2, MakerLemma DEF Order
<1>4. /\ trade.symbol = order.symbol /\ trade.timestamp = clock
      /\ trade.buy_order_id = IF order.side = BUY THEN order.id ELSE maker.id
      /\ trade.sell_order_id = IF order.side = BUY THEN maker.id ELSE order.id
  BY <1>3 DEF TradeOf, create_trade
<1>5. clock = order.timestamp + 1
  BY <1>1 DEF ArrivalOrder
<1>6. \A t \in RestingSlots : mem[t].timestamp \in Nat /\ mem[t].timestamp < order.timestamp
  <2>1. \A t \in RestingSlots : mem[t] \in Order
    BY <1>1, RestingLemma
  <2> QED
    BY <1>1, <2>1 DEF ArrivalOrder, Now, Order
<1>7. clock > mem[s].timestamp
  BY <1>3, <1>5, <1>6 DEF LiveSlots
<1> SUFFICES About(trade, mem[s]) <=> s \in {taker, Maker}
  OBVIOUS
<1> HIDE DEF trade
<1>8. CASE s = taker
  BY <1>3, <1>4, <1>7, <1>8 DEF About, Sides
<1>9. CASE s = Maker
  BY <1>3, <1>4, <1>7, <1>9 DEF About, Sides, Opposite, BUY, SELL
<1>10. CASE s \in RestingSlots /\ s # Maker
  <2> SUFFICES ASSUME About(trade, mem[s])
               PROVE  FALSE
    BY <1>2, <1>10
  <2>1. mem[s].symbol = order.symbol
    BY <1>4 DEF About
  <2>2. mem[s].side \in Sides /\ mem[s].id \in DOMAIN order_books[order.symbol].lookup
    BY <1>1, <1>10, <2>1, RestingLemma
  <2>3. mem[s].id # order.id
    BY <1>1, <2>2 DEF HInv, EInv, IInv, TakerIsLive
  <2>4. mem[s].id # maker.id
    BY <1>1, <1>2, <1>3, <1>10, <2>1, DistinctLemma
  <2> QED
    BY <1>3, <1>4, <2>2, <2>3, <2>4 DEF About, Sides
<1> QED
  BY <1>8, <1>9, <1>10 DEF LiveSlots

\* One iteration of the matching loop.
LEMMA MatchStepHistory ==
    ASSUME HInv, MatchStep
    PROVE  NothingNewer' /\ FilledMatchesHistory'
<1> DEFINE trade == TradeOf(mem[taker], mem[Maker], TradeQuantity)
<1>1. SafeInv /\ ~Idle /\ trade_history \in Seq(Trade) /\ clock \in Nat
  BY IInvIsSafe DEF HInv, EInv, IInv, TypeOK, MatchStep
<1>2. /\ trade_history' = Append(trade_history, trade)
      /\ taker' = taker /\ clock' = clock
  BY DEF MatchStep
<1>3. trade \in Trade /\ trade.timestamp = clock /\ trade.quantity = TradeQuantity
  <2>1. /\ mem[taker] \in Order /\ mem[Maker] \in Order
        /\ TradeQuantity \in Quantities
    BY <1>1, MatchedOrders, MatchLemma
  <2> QED
    BY <1>1, <2>1 DEF TradeOf, create_trade, Trade, Order
<1> HIDE DEF trade
<1>4. trade_history' \in Seq(Trade)
  BY <1>1, <1>2, <1>3
<1>5. NothingNewer'
  <2> SUFFICES ASSUME NEW i \in DOMAIN trade_history'
               PROVE  trade_history'[i].timestamp <= clock
    BY <1>2 DEF NothingNewer
  <2>1. \/ trade_history'[i] = trade
        \/ i \in DOMAIN trade_history /\ trade_history'[i] = trade_history[i]
    BY <1>1, <1>2, <1>3
  <2> QED
    BY <1>1, <1>3, <2>1 DEF HInv, NothingNewer
<1>6. LiveSlots' \subseteq LiveSlots
  BY <1>1, MatchStepLive
<1>7. \A s \in LiveSlots : mem[s] \in Order
  BY <1>1, TakerLemma, RestingLemma DEF LiveSlots
<1>8. /\ TradeQuantity \in Nat
      /\ \A s \in LiveSlots :
            s \in {taker, Maker} =>
               /\ mem'[s].id = mem[s].id /\ mem'[s].symbol = mem[s].symbol
               /\ mem'[s].side = mem[s].side /\ mem'[s].timestamp = mem[s].timestamp
               /\ mem'[s].quantity_filled = mem[s].quantity_filled + TradeQuantity
  <2>1. TradeQuantity \in Nat
    BY <1>1, MatchLemma, QuantityModulusAssumption DEF Quantities
  <2>2. \A s \in {taker, Maker} :
           mem'[s] = [mem[s] EXCEPT !.quantity_filled = mem[s].quantity_filled + TradeQuantity]
    BY <1>1, MatchLemma
  <2> QED
    BY <1>7, <2>1, <2>2 DEF Order
<1>9. \A s \in LiveSlots : s \notin {taker, Maker} => mem'[s] = mem[s]
  BY <1>1, MatchLemma DEF LiveSlots, RestingSlots
<1>10. ASSUME NEW s \in LiveSlots
       PROVE  mem'[s].quantity_filled =
                 SumFunctionOnSet(Reported(trade_history'), Own(trade_history', mem'[s]))
  <2> DEFINE sum(t) == SumFunctionOnSet(Reported(t), Own(t, mem[s]))
  <2>1. mem[s].quantity_filled = sum(trade_history)
    BY <1>1, HistoryLemma DEF HInv
  <2>2. /\ sum(trade_history) \in Nat
        /\ sum(Append(trade_history, trade)) = IF About(trade, mem[s])
                                               THEN sum(trade_history) + trade.quantity
                                               ELSE sum(trade_history)
    BY <1>1, <1>3, AppendedLemma
  <2>3. About(trade, mem[s]) <=> s \in {taker, Maker}
    BY TradeIsAbout DEF trade
  <2>4. Own(trade_history', mem'[s]) = Own(trade_history', mem[s])
    BY <1>8, <1>9 DEF Own, About
  <2>5. SumFunctionOnSet(Reported(trade_history'), Own(trade_history', mem'[s]))
           = sum(Append(trade_history, trade))
    BY <1>2, <2>4
  <2> HIDE DEF sum
  <2> QED
    BY <1>3, <1>8, <1>9, <2>1, <2>2, <2>3, <2>5
<1>11. FilledMatchesHistory'
  BY <1>4, <1>6, <1>10, HistoryPrime
<1> QED
  BY <1>5, <1>11

\* The call that ends.
LEMMA FinishOrderHistory ==
    ASSUME HInv, FinishOrder
    PROVE  NothingNewer' /\ FilledMatchesHistory'
<1>1. SafeInv /\ trade_history' = trade_history /\ clock' = clock
  BY IInvIsSafe DEF HInv, EInv, FinishOrder, ReturnFilled, ReturnIOC, ReturnMarket, ReturnResting, Return
<1>2. LiveSlots' \subseteq LiveSlots /\ mem' = mem
  BY <1>1, FinishOrderLive
<1> QED
  BY <1>1, <1>2, SilentStep

\* A cancel.
LEMMA CancelOrderHistory ==
    ASSUME HInv, NEW id \in OrderIds, NEW symbol \in Symbols, CancelOrder(id, symbol)
    PROVE  NothingNewer' /\ FilledMatchesHistory'
<1>1. SafeInv /\ trade_history' = trade_history /\ clock' = clock
  BY IInvIsSafe DEF HInv, EInv, CancelOrder
<1>2. LiveSlots' \subseteq LiveSlots /\ mem' = mem
  BY <1>1, CancelOrderLive
<1> QED
  BY <1>1, <1>2, SilentStep

-----------------------------------------------------------------------------
\* The empty history reports nothing, and no order is live.
LEMMA InitHInv == Init => HInv
<1> SUFFICES ASSUME Init PROVE HInv
  OBVIOUS
<1>1. EInv
  BY InitEInv
<1>2. NothingNewer
  BY DEF Init, NothingNewer
<1>3. \A symbol \in Symbols : order_books[symbol] = EmptyBook
  BY DEF Init
<1>4. \A side \in Sides : DOMAIN EmptyBook.orders[side] = {}
  BY DEF EmptyBook, NoLevels
<1>5. FilledMatchesHistory
  BY <1>3, <1>4, NoSlotNotInPool DEF FilledMatchesHistory, Listed, Init
<1> QED
  BY <1>1, <1>2, <1>5 DEF HInv

LEMMA NextHInv == HInv /\ [Next]_vars => HInv'
<1> SUFFICES ASSUME HInv, [Next]_vars
             PROVE  NothingNewer' /\ FilledMatchesHistory'
  BY NextEInv DEF HInv
<1>1. CASE \E request \in Requests : FreshId(request) /\ ProcessNewOrder(request)
  <2>1. PICK request \in Requests : ProcessNewOrder(request)
    BY <1>1
  <2>2. CASE RejectPoolExhausted(request) \/ RejectInvalid(request) \/ KillFok(request)
    BY <2>2, TurnedDownHistory
  <2>3. CASE BeginMatching(request)
    BY <2>3, BeginMatchingHistory
  <2> QED
    BY <2>1, <2>2, <2>3 DEF ProcessNewOrder
<1>2. CASE MatchStep
  BY <1>2, MatchStepHistory
<1>3. CASE FinishOrder
  BY <1>3, FinishOrderHistory
<1>4. CASE Cancel
  BY <1>4, CancelOrderHistory DEF Cancel
<1>5. CASE UNCHANGED vars
  BY <1>5 DEF HInv, vars, NothingNewer, FilledMatchesHistory, Listed, TradedQuantity
<1> QED
  BY <1>1, <1>2, <1>3, <1>4, <1>5 DEF Next, EngineStep

\* What a live order counts as filled is the total of the trades that the
\* history reports of it since it arrived.
THEOREM FillsAreReported == Spec => []FilledMatchesHistory
<1>1. HInv => FilledMatchesHistory
  BY DEF HInv
<1> QED
  BY <1>1, InitHInv, NextHInv, PTL DEF Spec
=============================================================================
