------------------------ MODULE MatchingEngineProofs ------------------------
(***************************************************************************)
(* The safety of the matching engine, for every pool, every set of ids,    *)
(* users, symbols, prices and requests.                                    *)
(*                                                                         *)
(* None of the invariants is inductive alone: that the next order does not *)
(* overwrite a resting one (PoolSafety) needs that a filled maker leaves   *)
(* its list when its slot is freed, which needs that its id finds it       *)
(* (LookupAgreesWithLists), which needs that the id of an order that comes *)
(* to rest is not in the lookup (TakerIsLive); and that the best order of  *)
(* a side exists needs levels that are not empty (LevelsNeverEmpty) and    *)
(* prices that are bounded below (RestingOrdersAreLive).                   *)
(***************************************************************************)
EXTENDS BookLemmas

IInv ==
    /\ TypeOK
    /\ PoolSafety
    /\ LookupAgreesWithLists
    /\ LevelsNeverEmpty
    /\ NotCrossed
    /\ RestingOrdersAreLive
    /\ TakerIsLive

\* What it says of the taker, but for a MARKET order, which never rests, and
\* whose id may be the id of an order that does.
TakerMayRest ==
    ~Idle =>
        /\ mem[taker].quantity_filled <= mem[taker].quantity
        /\ mem[taker].type # "MARKET" =>
              mem[taker].id \notin DOMAIN order_books[mem[taker].symbol].lookup
        /\ validate_order(mem[taker])

\* The invariant without the other half: what the engine keeps as long as no
\* order that may rest comes with the id of one that rests.
SafeInv ==
    /\ TypeOK
    /\ PoolSafety
    /\ LookupAgreesWithLists
    /\ LevelsNeverEmpty
    /\ NotCrossed
    /\ RestingOrdersAreLive
    /\ TakerMayRest

TakerIsNew == ~Idle => mem[taker].id \notin DOMAIN order_books[mem[taker].symbol].lookup

MayRest(request) == request.type # "MARKET" => FreshId(request)

\* The part of the invariant that is about the books.
BooksOK ==
    \A symbol \in Symbols :
        /\ ConsistentBook(order_books[symbol], mem, symbol)
        /\ Uncrossed(order_books[symbol])
        /\ \A slot \in Pool :
              Listed(order_books[symbol], slot) =>
                 /\ mem[slot].quantity_filled < mem[slot].quantity
                 /\ mem[slot].type \notin {"MARKET", "IOC"}
                 /\ validate_order(mem[slot])
                 /\ slot # taker
                 /\ ~IsFree(slot)

\* The part that is about the variables taken one by one.
StateOK ==
    /\ mem \in [Pool -> Order \cup {Blank}]
    /\ free_indices \in Seq(Pool)
    /\ NoDuplicates(free_indices)
    /\ ~IsFree(taker)
    /\ order_books = [symbol \in Symbols |-> order_books[symbol]]
    /\ created \subseteq Symbols
    /\ trade_history \in Seq(Trade)
    /\ trades \in Seq(Trade)
    /\ taker \in Pool \cup {NoSlot}
    /\ taker # NoSlot => mem[taker] \in Order
    /\ clock \in Nat

\* The invariant, regrouped.
LEMMA Regroup == SafeInv <=> StateOK /\ BooksOK /\ TakerMayRest
  BY DEF SafeInv, TypeOK, PoolSafety, LookupAgreesWithLists, LevelsNeverEmpty,
         NotCrossed, RestingOrdersAreLive, BooksOK, StateOK, ConsistentBook

\* The same of the state after a step.
LEMMA RegroupPrime == StateOK' /\ BooksOK' /\ TakerMayRest' => SafeInv'
  BY DEF SafeInv, TypeOK, PoolSafety, LookupAgreesWithLists, LevelsNeverEmpty,
         NotCrossed, RestingOrdersAreLive, BooksOK, StateOK, ConsistentBook

\* The null pointer is no slot of the pool.
LEMMA NoSlotNotInPool == NoSlot \notin Pool
  BY EngineAssumption DEF NoSlot, Pool, Slots

\* Every level of a book has a price that was checked.
LEMMA BoundedLemma ==
    ASSUME BooksOK, NEW symbol \in Symbols
    PROVE  PricesBounded(order_books[symbol])
<1> SUFFICES ASSUME NEW side \in Sides,
                    NEW price \in DOMAIN order_books[symbol].orders[side]
             PROVE  price \in Int /\ 0 <= price /\ price <= MaxPrice
  BY DEF PricesBounded
<1> DEFINE book == order_books[symbol]
           list == book.orders[side][price]
<1>1. ConsistentBook(book, mem, symbol)
  BY DEF BooksOK
<1>2. list \in Seq(Pool) /\ list # << >> /\ price \in Prices
  BY <1>1 DEF ConsistentBook, IsBook, IsPartialFunction, HasNoEmptyLevel
<1>3. 1 \in DOMAIN list /\ list[1] \in Pool
  BY <1>2
<1>4. NodeIsFound(book, mem[list[1]], list[1], symbol, side, price)
  BY <1>1, <1>3 DEF ConsistentBook, NodesAreFound
<1>5. Listed(book, list[1])
  BY <1>3 DEF Listed
<1>6. validate_order(mem[list[1]])
  BY <1>3, <1>5 DEF BooksOK
<1> QED
  BY <1>2, <1>4, <1>6 DEF NodeIsFound, validate_order, Prices

-----------------------------------------------------------------------------
\* The engine starts with a full pool and no books.
LEMMA InitSafe == Init => SafeInv
<1> SUFFICES ASSUME Init PROVE SafeInv
  OBVIOUS
<1>1. PoolSize \in Nat /\ Pool = 0 .. PoolSize - 1
  BY EngineAssumption DEF Pool, Slots
<1>2. free_indices = [i \in 1 .. PoolSize |-> i - 1]
  BY DEF Init, NewPool
<1>3. free_indices \in Seq(Pool) /\ NoDuplicates(free_indices) /\ ~IsFree(NoSlot)
  <2>1. \A i \in 1 .. PoolSize : i - 1 \in Pool
    BY <1>1
  <2>2. free_indices \in Seq(Pool)
    BY <1>1, <1>2, <2>1
  <2>3. DOMAIN free_indices = 1 .. PoolSize
        /\ \A i \in 1 .. PoolSize : free_indices[i] = i - 1
    BY <1>2
  <2> QED
    BY <1>1, <2>2, <2>3 DEF NoDuplicates, IsFree, InStack, NoSlot
<1>4. StateOK
  <2>1. << >> \in Seq(Trade)
    OBVIOUS
  <2> QED
    BY <1>3, <2>1 DEF Init, StateOK
<1>5. BooksOK
  <2>1. /\ EmptyBook = [orders |-> EmptyBook.orders, lookup |-> EmptyBook.lookup]
        /\ EmptyBook.orders = [side \in Sides |-> NoLevels]
        /\ DOMAIN NoLevels = {} /\ DOMAIN EmptyBook.lookup = {}
    BY DEF EmptyBook, NoLevels
  <2>2. IsPartialFunction(NoLevels, Prices, Seq(Pool))
        /\ IsPartialFunction(EmptyBook.lookup, OrderIds, Pool)
    BY DEF EmptyBook, NoLevels, IsPartialFunction
  <2>3. IsBook(EmptyBook)
    BY <2>1, <2>2 DEF IsBook
  <2>4. \A s : ~Listed(EmptyBook, s)
    BY <2>1 DEF Listed
  <2>5. \A symbol : ConsistentBook(EmptyBook, mem, symbol)
    BY <2>1, <2>3 DEF ConsistentBook, EntriesAreListed, NodesAreFound, HasNoEmptyLevel
  <2>6. Uncrossed(EmptyBook)
    BY <2>1 DEF Uncrossed, Sides, BUY, SELL
  <2>7. \A symbol \in Symbols : order_books[symbol] = EmptyBook
    BY DEF Init
  <2> QED
    BY <2>4, <2>5, <2>6, <2>7 DEF BooksOK
<1>6. TakerMayRest
  BY DEF Init, TakerMayRest, Idle
<1> QED
  BY <1>4, <1>5, <1>6, Regroup

-----------------------------------------------------------------------------
(***************************************************************************)
(* Receiving a request writes a slot that no book reaches.                 *)
(***************************************************************************)
LEMMA ReceiveLemma ==
    ASSUME SafeInv, NEW request \in OrderRequest, Receive(request), order_books' = order_books
    PROVE  LET slot == allocated(free_indices)
           IN  /\ slot \in Pool
               /\ slot # NoSlot
               /\ IsFree(slot)
               /\ mem'[slot] = NewOrder(request, clock)
               /\ mem'[slot] \in Order
               /\ mem' \in [Pool -> Order \cup {Blank}]
               /\ trades' = << >> /\ trades' \in Seq(Trade)
               /\ \A symbol \in Symbols :
                     /\ ConsistentBook(order_books[symbol], mem', symbol)
                     /\ \A s \in Pool : Listed(order_books[symbol], s)
                                          => mem'[s] = mem[s] /\ s # slot
<1> DEFINE slot == allocated(free_indices)
<1>1. StateOK /\ BooksOK
  BY Regroup
<1>2. free_indices # << >>
  BY DEF Receive, allocated
<1>3. slot \in Pool /\ IsFree(slot)
  BY <1>1, <1>2, AllocateLemma DEF StateOK, IsFree
<1>4. NewOrder(request, clock) \in Order
  <2>1. request \in OrderRequest /\ 0 \in Quantities /\ clock \in Nat
    BY <1>1, EngineAssumption, QuantityModulusAssumption DEF Quantities, StateOK
  <2> QED
    BY <2>1 DEF NewOrder, OrderRequest, Order
<1>5. mem' = [mem EXCEPT ![slot] = NewOrder(request, clock)]
  BY DEF Receive
<1>6. mem \in [Pool -> Order \cup {Blank}]
  BY <1>1 DEF StateOK
<1> HIDE DEF slot
<1>7. /\ mem'[slot] = NewOrder(request, clock)
      /\ mem' \in [Pool -> Order \cup {Blank}]
      /\ \A s \in Pool : s # slot => mem'[s] = mem[s]
  BY <1>3, <1>4, <1>5, <1>6
<1>8. ASSUME NEW symbol \in Symbols
      PROVE  /\ ConsistentBook(order_books[symbol], mem', symbol)
             /\ \A s \in Pool : Listed(order_books[symbol], s)
                                  => mem'[s] = mem[s] /\ s # slot
  <2>1. ConsistentBook(order_books[symbol], mem, symbol)
    BY <1>1 DEF BooksOK
  <2>2. \A s \in Pool : Listed(order_books[symbol], s)
                         => mem'[s] = mem[s] /\ s # slot
    BY <1>1, <1>3, <1>7 DEF BooksOK
  <2>3. \A s \in Pool : Listed(order_books[symbol], s) => mem[s] \in Order
    BY <2>1, ListedLemma
  <2>4. ConsistentBook(order_books[symbol], mem', symbol)
    BY <2>1, <2>2, <2>3, SameOrdersLemma
  <2> QED
    BY <2>2, <2>4
<1>9. trades' = << >> /\ << >> \in Seq(Trade)
  BY DEF Receive
<1> QED
  BY <1>3, <1>4, <1>7, <1>8, <1>9, NoSlotNotInPool DEF slot

\* Whoever the taker is, the books are as they were as long as it is not
\* listed and no listed slot becomes free.
LEMMA BooksKeptLemma ==
    ASSUME BooksOK, order_books' = order_books,
           \A symbol \in Symbols :
              /\ ConsistentBook(order_books[symbol], mem', symbol)
              /\ \A s \in Pool : Listed(order_books[symbol], s)
                                  => mem'[s] = mem[s] /\ s # taker' /\ ~IsFree(s)'
    PROVE  BooksOK'
  BY DEF BooksOK, Listed, Uncrossed

\* A request that finds the pool exhausted changes nothing but the result.
LEMMA RejectPoolExhaustedStep ==
    ASSUME SafeInv, NEW request \in OrderRequest, RejectPoolExhausted(request)
    PROVE  SafeInv'
<1>1. StateOK /\ BooksOK /\ TakerMayRest
  BY Regroup
<1>2. << >> \in Seq(Trade)
  OBVIOUS
<1>3. StateOK'
  BY <1>1, <1>2 DEF RejectPoolExhausted, StateOK, IsFree
<1>4. BooksOK'
  BY <1>1 DEF RejectPoolExhausted, BooksOK, IsFree
<1>5. TakerMayRest'
  BY <1>1 DEF RejectPoolExhausted, TakerMayRest, Idle
<1> QED
  BY <1>3, <1>4, <1>5, RegroupPrime

\* A request that is refused gives its slot back at once.
LEMMA RejectInvalidStep ==
    ASSUME SafeInv, NEW request \in OrderRequest, RejectInvalid(request)
    PROVE  SafeInv'
<1> DEFINE slot == allocated(free_indices)
<1>1. StateOK /\ BooksOK
  BY Regroup
<1>2. Receive(request) /\ Idle
  BY DEF RejectInvalid, Receive
<1>3. /\ order_books' = order_books /\ created' = created /\ taker' = taker
      /\ clock' = clock /\ trade_history' = trade_history
      /\ free_indices' = deallocate(allocate(free_indices), slot)
  BY <1>2 DEF RejectInvalid, Receive
<1>4. /\ slot \in Pool /\ slot # NoSlot
      /\ mem' \in [Pool -> Order \cup {Blank}] /\ trades' \in Seq(Trade)
      /\ \A symbol \in Symbols :
            /\ ConsistentBook(order_books[symbol], mem', symbol)
            /\ \A s \in Pool : Listed(order_books[symbol], s) => mem'[s] = mem[s]
  BY <1>2, <1>3, ReceiveLemma
<1>5. free_indices # << >>
  BY <1>2 DEF Receive, allocated
<1>6. /\ allocate(free_indices) \in Seq(Pool) /\ NoDuplicates(allocate(free_indices))
      /\ \A s : InStack(allocate(free_indices), s)
                   <=> InStack(free_indices, s) /\ s # slot
      /\ InStack(free_indices, slot)
  BY <1>1, <1>5, AllocateLemma DEF StateOK
<1>7. /\ free_indices' \in Seq(Pool) /\ NoDuplicates(free_indices')
      /\ \A s : InStack(free_indices', s) <=> InStack(free_indices, s)
  BY <1>3, <1>4, <1>6, DeallocateLemma
<1>8. \A s : IsFree(s)' <=> IsFree(s)
  BY <1>7 DEF IsFree
<1>9. StateOK'
  BY <1>1, <1>2, <1>3, <1>4, <1>7, <1>8 DEF StateOK, Idle
<1>10. BooksOK'
  <2>1. \A symbol \in Symbols : \A s \in Pool :
           Listed(order_books[symbol], s) => s # taker' /\ ~IsFree(s)'
    BY <1>1, <1>3, <1>8 DEF BooksOK
  <2> QED
    BY <1>1, <1>3, <1>4, <2>1, BooksKeptLemma
<1>11. TakerMayRest'
  BY <1>2, <1>3 DEF TakerMayRest, Idle
<1> QED
  BY <1>9, <1>10, <1>11, RegroupPrime

-----------------------------------------------------------------------------
(***************************************************************************)
(* A valid request: its slot leaves the free stack.                        *)
(***************************************************************************)
LEMMA ValidLemma ==
    ASSUME SafeInv, NEW request \in OrderRequest, Valid(request)
    PROVE  LET slot == allocated(free_indices)
           IN  /\ slot \in Pool
               /\ mem'[slot] = NewOrder(request, clock)
               /\ mem'[slot] \in Order
               /\ free_indices' \in Seq(Pool)
               /\ NoDuplicates(free_indices')
               /\ \A s : IsFree(s)' <=> IsFree(s) /\ s # slot
               /\ mem' \in [Pool -> Order \cup {Blank}]
               /\ trades' \in Seq(Trade)
               /\ created' \subseteq Symbols
               /\ clock' \in Nat
               /\ order_books' = order_books
               /\ trade_history' = trade_history
               /\ \A symbol \in Symbols :
                     /\ ConsistentBook(order_books[symbol], mem', symbol)
                     /\ \A s \in Pool : Listed(order_books[symbol], s)
                                          => mem'[s] = mem[s] /\ s # slot /\ ~IsFree(s)'
<1> DEFINE slot == allocated(free_indices)
<1>1. StateOK /\ BooksOK
  BY Regroup
<1>2. /\ Receive(request) /\ order_books' = order_books
      /\ trade_history' = trade_history
      /\ free_indices' = allocate(free_indices) /\ clock' = clock + 1
      /\ created' = created \cup {request.symbol}
  BY DEF Valid, Receive
<1>3. /\ slot \in Pool
      /\ mem'[slot] = NewOrder(request, clock) /\ mem'[slot] \in Order
      /\ mem' \in [Pool -> Order \cup {Blank}] /\ trades' \in Seq(Trade)
      /\ \A symbol \in Symbols :
            /\ ConsistentBook(order_books[symbol], mem', symbol)
            /\ \A s \in Pool : Listed(order_books[symbol], s)
                                => mem'[s] = mem[s] /\ s # slot
  BY <1>2, ReceiveLemma
<1>4. free_indices # << >>
  BY <1>2 DEF Receive, allocated
<1>5. /\ free_indices' \in Seq(Pool) /\ NoDuplicates(free_indices')
      /\ \A s : InStack(free_indices', s) <=> InStack(free_indices, s) /\ s # slot
  BY <1>1, <1>2, <1>4, AllocateLemma DEF StateOK
<1>6. \A s : IsFree(s)' <=> IsFree(s) /\ s # slot
  BY <1>5 DEF IsFree
<1>7. created' \subseteq Symbols /\ clock' \in Nat
  BY <1>1, <1>2, EngineAssumption DEF StateOK, OrderRequest
<1>8. \A symbol \in Symbols : \A s \in Pool :
         Listed(order_books[symbol], s) => ~IsFree(s)'
  BY <1>1, <1>6 DEF BooksOK
<1> QED
  BY <1>2, <1>3, <1>5, <1>6, <1>7, <1>8

\* A killed FOK order is in use and nowhere: harmless, though it is lost.
LEMMA KillFokStep ==
    ASSUME SafeInv, NEW request \in OrderRequest, KillFok(request)
    PROVE  SafeInv'
<1>1. StateOK /\ BooksOK
  BY Regroup
<1>2. Valid(request) /\ taker' = taker /\ taker = NoSlot
  BY DEF KillFok, Valid, Receive, Idle
<1>3. /\ free_indices' \in Seq(Pool) /\ NoDuplicates(free_indices')
      /\ \A s : IsFree(s)' => IsFree(s)
      /\ mem' \in [Pool -> Order \cup {Blank}] /\ trades' \in Seq(Trade)
      /\ created' \subseteq Symbols /\ clock' \in Nat
      /\ order_books' = order_books /\ trade_history' = trade_history
      /\ \A symbol \in Symbols :
            /\ ConsistentBook(order_books[symbol], mem', symbol)
            /\ \A s \in Pool : Listed(order_books[symbol], s)
                                => mem'[s] = mem[s] /\ ~IsFree(s)'
  BY <1>2, ValidLemma
<1>4. StateOK'
  BY <1>1, <1>2, <1>3 DEF StateOK
<1>5. BooksOK'
  BY <1>1, <1>2, <1>3, NoSlotNotInPool, BooksKeptLemma
<1>6. TakerMayRest'
  BY <1>2 DEF TakerMayRest, Idle
<1> QED
  BY <1>4, <1>5, <1>6, RegroupPrime

\* A valid request of a fresh id becomes the taker.
LEMMA BeginMatchingStep ==
    ASSUME SafeInv, NEW request \in OrderRequest, MayRest(request), BeginMatching(request)
    PROVE  SafeInv'
<1> DEFINE slot == allocated(free_indices)
<1>1. StateOK /\ BooksOK
  BY Regroup
<1>2. Valid(request) /\ taker' = slot
  BY DEF BeginMatching
<1>3. /\ slot \in Pool
      /\ mem'[slot] = NewOrder(request, clock) /\ mem'[slot] \in Order
      /\ free_indices' \in Seq(Pool) /\ NoDuplicates(free_indices')
      /\ \A s : IsFree(s)' => IsFree(s) /\ s # slot
      /\ mem' \in [Pool -> Order \cup {Blank}] /\ trades' \in Seq(Trade)
      /\ created' \subseteq Symbols /\ clock' \in Nat
      /\ order_books' = order_books /\ trade_history' = trade_history
      /\ \A symbol \in Symbols :
            /\ ConsistentBook(order_books[symbol], mem', symbol)
            /\ \A s \in Pool : Listed(order_books[symbol], s)
                                => mem'[s] = mem[s] /\ s # slot /\ ~IsFree(s)'
  BY <1>2, ValidLemma
<1> HIDE DEF slot
<1>4. StateOK'
  BY <1>1, <1>2, <1>3 DEF StateOK
<1>5. BooksOK'
  BY <1>1, <1>2, <1>3, BooksKeptLemma
<1>6. TakerMayRest'
  <2>1. validate_order(NewOrder(request, clock))
    BY <1>2 DEF Valid
  <2>2. /\ NewOrder(request, clock).quantity_filled = 0
        /\ NewOrder(request, clock).quantity = request.quantity
        /\ NewOrder(request, clock).id = request.id
        /\ NewOrder(request, clock).symbol = request.symbol
        /\ NewOrder(request, clock).type = request.type
    BY DEF NewOrder
  <2>3. request.quantity \in Nat
    BY QuantityModulusAssumption DEF OrderRequest, Quantities
  <2> QED
    BY <1>2, <1>3, <2>1, <2>2, <2>3 DEF TakerMayRest, MayRest, FreshId
<1> QED
  BY <1>4, <1>5, <1>6, RegroupPrime

-----------------------------------------------------------------------------
(***************************************************************************)
(* One iteration of the matching loop.                                     *)
(***************************************************************************)
LEMMA MinLemma ==
    ASSUME NEW a \in Int, NEW b \in Int
    PROVE  Min({a, b}) = IF a <= b THEN a ELSE b
<1>1. \E x \in {a, b} : \A y \in {a, b} : x <= y
  OBVIOUS
<1>2. Min({a, b}) \in {a, b} /\ \A y \in {a, b} : Min({a, b}) <= y
  BY <1>1 DEF Min
<1> QED
  BY <1>2

\* What is left of an order that is not overfilled, and what a fill of no more
\* than that does to it: nothing wraps around.
LEMMA FillLemma ==
    ASSUME NEW order \in Order, order.quantity_filled <= order.quantity
    PROVE  /\ order.quantity \in Nat /\ order.quantity_filled \in Nat
           /\ remaining_qty(order) = order.quantity - order.quantity_filled
           /\ \A q \in Nat : q <= remaining_qty(order) =>
                LET after == reduce_quantity(order, q)
                IN  /\ after \in Order
                    /\ after = [order EXCEPT !.quantity_filled = order.quantity_filled + q]
                    /\ after.quantity_filled <= after.quantity
<1>1. /\ order.quantity \in 0 .. QuantityModulus - 1
      /\ order.quantity_filled \in 0 .. QuantityModulus - 1
      /\ QuantityModulus \in Nat
  BY QuantityModulusAssumption DEF Order, Quantities
<1>2. remaining_qty(order) = order.quantity - order.quantity_filled
  BY <1>1 DEF remaining_qty, Minus
<1>3. ASSUME NEW q \in Nat, q <= remaining_qty(order)
      PROVE  LET after == reduce_quantity(order, q)
             IN  /\ after \in Order
                 /\ after = [order EXCEPT !.quantity_filled = order.quantity_filled + q]
                 /\ after.quantity_filled <= after.quantity
  <2>1. order.quantity_filled + q <= order.quantity
    BY <1>1, <1>2, <1>3
  <2>2. Plus(order.quantity_filled, q) = order.quantity_filled + q
    BY <1>1, <2>1 DEF Plus
  <2>3. reduce_quantity(order, q) = [order EXCEPT !.quantity_filled = order.quantity_filled + q]
    BY <2>2 DEF reduce_quantity
  <2>4. order.quantity_filled + q \in Quantities
    BY <1>1, <2>1 DEF Quantities
  <2> QED
    BY <2>1, <2>3, <2>4 DEF Order
<1> QED
  BY <1>1, <1>2, <1>3

\* The maker of a match is an order of the taker's book and of the other side.
LEMMA MakerLemma ==
    ASSUME SafeInv, taker # NoSlot
    PROVE  /\ taker \in Pool /\ mem[taker] \in Order /\ mem[taker].symbol \in Symbols
           /\ mem[taker].side \in Sides /\ mem[taker].price \in Prices
           /\ Opposite(mem[taker].side) \in Sides
           /\ Opposite(mem[taker].side) # mem[taker].side
           /\ ConsistentBook(TakerBook, mem, mem[taker].symbol)
           /\ Maker = NoSlot <=> DOMAIN TakerBook.orders[Opposite(mem[taker].side)] = {}
           /\ Maker # NoSlot =>
                /\ Maker \in Pool /\ Maker # taker
                /\ Listed(TakerBook, Maker)
                /\ mem[Maker] \in Order
                /\ mem[Maker].symbol = mem[taker].symbol
                /\ mem[Maker].side = Opposite(mem[taker].side)
                /\ mem[Maker].quantity_filled < mem[Maker].quantity
                /\ \A q \in DOMAIN TakerBook.orders[Opposite(mem[taker].side)] :
                      AtLeastAsGood(Opposite(mem[taker].side), mem[Maker].price, q)
<1> DEFINE symbol == mem[taker].symbol
           other  == Opposite(mem[taker].side)
<1>1. StateOK /\ BooksOK
  BY Regroup
<1>2. taker \in Pool /\ mem[taker] \in Order
  BY <1>1 DEF StateOK
<1>3. /\ symbol \in Symbols /\ mem[taker].side \in Sides /\ mem[taker].price \in Prices
      /\ other \in Sides /\ other # mem[taker].side
  BY <1>2 DEF Order, Opposite, Sides, BUY, SELL
<1>4. ConsistentBook(TakerBook, mem, symbol)
  BY <1>1, <1>3 DEF BooksOK, TakerBook
<1>5. PricesBounded(TakerBook)
  BY <1>1, <1>3, BoundedLemma DEF TakerBook
<1> HIDE DEF symbol, other
<1>6. /\ getBest(TakerBook, other) = NoSlot <=> DOMAIN TakerBook.orders[other] = {}
      /\ getBest(TakerBook, other) # NoSlot =>
           /\ Listed(TakerBook, getBest(TakerBook, other))
           /\ mem[getBest(TakerBook, other)].side = other
           /\ \A q \in DOMAIN TakerBook.orders[other] :
                 AtLeastAsGood(other, mem[getBest(TakerBook, other)].price, q)
  BY <1>3, <1>4, <1>5, BestLemma
<1>7. Maker = getBest(TakerBook, other)
  BY DEF Maker, other
<1>8. ASSUME Maker # NoSlot
      PROVE  /\ Maker \in Pool /\ Maker # taker
             /\ mem[Maker] \in Order
             /\ mem[Maker].symbol = symbol
             /\ mem[Maker].quantity_filled < mem[Maker].quantity
  <2>1. Listed(TakerBook, Maker)
    BY <1>6, <1>7, <1>8
  <2>2. Maker \in Pool /\ mem[Maker] \in Order /\ mem[Maker].symbol = symbol
    BY <1>4, <2>1, ListedLemma
  <2>3. Maker # taker /\ mem[Maker].quantity_filled < mem[Maker].quantity
    BY <1>1, <1>3, <2>1, <2>2 DEF BooksOK, TakerBook, symbol
  <2> QED
    BY <2>2, <2>3
<1> QED
  BY <1>2, <1>3, <1>4, <1>6, <1>7, <1>8 DEF symbol, other

\* The two orders of a match after it: both filled by the same positive
\* quantity, neither beyond its own; every other order is untouched.
LEMMA MatchLemma ==
    ASSUME SafeInv, MatchStep
    PROVE  /\ TradeQuantity \in Quantities /\ TradeQuantity > 0
           /\ mem' \in [Pool -> Order \cup {Blank}]
           /\ \A s \in Pool : s # taker /\ s # Maker => mem'[s] = mem[s]
           /\ \A s \in {taker, Maker} :
                 /\ mem'[s] \in Order
                 /\ mem'[s] = [mem[s] EXCEPT !.quantity_filled =
                                 mem[s].quantity_filled + TradeQuantity]
                 /\ mem'[s].quantity_filled <= mem'[s].quantity
                 /\ remaining_qty(mem'[s]) = remaining_qty(mem[s]) - TradeQuantity
                 /\ remaining_qty(mem[s]) \in Nat
<1> DEFINE q == TradeQuantity
           maker == Maker
<1>1. StateOK /\ TakerMayRest
  BY Regroup
<1>2. taker # NoSlot /\ Maker # NoSlot /\ remaining_qty(mem[taker]) > 0
  BY DEF MatchStep, Idle, Matching
<1>3. /\ taker \in Pool /\ mem[taker] \in Order
      /\ maker \in Pool /\ mem[maker] \in Order /\ maker # taker
      /\ mem[maker].quantity_filled < mem[maker].quantity
  BY <1>2, MakerLemma
<1>4. mem[taker].quantity_filled <= mem[taker].quantity
  BY <1>1, <1>2 DEF TakerMayRest, Idle
<1>5. mem' = [mem EXCEPT ![taker] = reduce_quantity(@, q),
                         ![maker] = reduce_quantity(@, q)]
  BY DEF MatchStep
<1>6. mem \in [Pool -> Order \cup {Blank}]
  BY <1>1 DEF StateOK
<1> HIDE DEF maker
<1>7. /\ mem[maker].quantity \in Nat /\ mem[maker].quantity_filled \in Nat
      /\ mem[taker].quantity \in Nat /\ mem[taker].quantity_filled \in Nat
      /\ mem[taker].quantity < QuantityModulus
  BY <1>3, QuantityModulusAssumption DEF Order, Quantities
<1>8. /\ remaining_qty(mem[taker]) = mem[taker].quantity - mem[taker].quantity_filled
      /\ remaining_qty(mem[maker]) = mem[maker].quantity - mem[maker].quantity_filled
  BY <1>3, <1>4, <1>7, FillLemma
<1>9. /\ q \in Nat /\ q > 0
      /\ q <= remaining_qty(mem[taker]) /\ q <= remaining_qty(mem[maker])
  BY <1>2, <1>3, <1>7, <1>8, MinLemma DEF TradeQuantity, maker
<1>10. q \in Quantities
  BY <1>7, <1>8, <1>9, QuantityModulusAssumption DEF Quantities
<1> HIDE DEF q
<1>11. /\ mem'[taker] = reduce_quantity(mem[taker], q)
       /\ mem'[maker] = reduce_quantity(mem[maker], q)
       /\ \A s \in Pool : s # taker /\ s # maker => mem'[s] = mem[s]
       /\ mem' = [s \in Pool |-> mem'[s]]
  BY <1>3, <1>5, <1>6
<1>12. ASSUME NEW s \in {taker, maker}
       PROVE  /\ mem'[s] \in Order
              /\ mem'[s] = [mem[s] EXCEPT !.quantity_filled = mem[s].quantity_filled + q]
              /\ mem'[s].quantity_filled <= mem'[s].quantity
              /\ remaining_qty(mem'[s]) = remaining_qty(mem[s]) - q
              /\ remaining_qty(mem[s]) \in Nat
  <2> DEFINE order == mem[s]
  <2>1. /\ order \in Order /\ order.quantity_filled <= order.quantity
        /\ order.quantity \in Nat /\ order.quantity_filled \in Nat
        /\ mem'[s] = reduce_quantity(order, q)
    BY <1>3, <1>4, <1>7, <1>11
  <2>2. q \in Nat /\ q <= remaining_qty(order)
    BY <1>9
  <2> HIDE DEF order
  <2>3. /\ mem'[s] \in Order
        /\ mem'[s] = [order EXCEPT !.quantity_filled = order.quantity_filled + q]
        /\ mem'[s].quantity_filled <= mem'[s].quantity
    BY <2>1, <2>2, FillLemma
  <2>4. /\ remaining_qty(order) = order.quantity - order.quantity_filled
        /\ remaining_qty(mem'[s]) = mem'[s].quantity - mem'[s].quantity_filled
    BY <2>1, <2>3, FillLemma
  <2>5. mem'[s].quantity = order.quantity
        /\ mem'[s].quantity_filled = order.quantity_filled + q
    BY <2>1, <2>3 DEF Order
  <2> QED
    BY <2>1, <2>2, <2>3, <2>4, <2>5 DEF order
<1>13. mem' \in [Pool -> Order \cup {Blank}]
  <2>1. \A s \in Pool : mem'[s] \in Order \cup {Blank}
    BY <1>6, <1>11, <1>12
  <2> QED
    BY <2>1, <1>11
<1> QED
  BY <1>9, <1>10, <1>11, <1>12, <1>13 DEF q, maker

\* A fill changes nothing else of an order.
LEMMA FillKeeps ==
    ASSUME NEW order \in Order, NEW n, NEW after,
           after = [order EXCEPT !.quantity_filled = n]
    PROVE  /\ after.id = order.id /\ after.symbol = order.symbol
           /\ after.side = order.side /\ after.price = order.price
           /\ after.type = order.type /\ after.quantity = order.quantity
           /\ after.user_id = order.user_id
           /\ validate_order(after) <=> validate_order(order)
           /\ after.quantity_filled = n
<1>1. /\ after.id = order.id /\ after.symbol = order.symbol
      /\ after.side = order.side /\ after.price = order.price
      /\ after.type = order.type /\ after.quantity = order.quantity
      /\ after.user_id = order.user_id /\ after.quantity_filled = n
  BY DEF Order
<1> QED
  BY <1>1 DEF validate_order

\* A match records a trade of the right type.
LEMMA TradeLemma ==
    ASSUME SafeInv, MatchStep
    PROVE  trades' \in Seq(Trade) /\ trade_history' \in Seq(Trade)
<1> DEFINE trade == TradeOf(mem[taker], mem[Maker], TradeQuantity)
<1>1. StateOK
  BY Regroup
<1>2. /\ mem[taker] \in Order /\ mem[Maker] \in Order
      /\ TradeQuantity \in Quantities /\ clock \in Nat
  <2>1. taker # NoSlot /\ Maker # NoSlot
    BY DEF MatchStep, Idle, Matching
  <2> QED
    BY <1>1, <2>1, MakerLemma, MatchLemma DEF StateOK
<1>3. trade \in Trade
  BY <1>2 DEF TradeOf, create_trade, Trade, Order
<1>4. trades' = Append(trades, trade) /\ trade_history' = Append(trade_history, trade)
  BY DEF MatchStep
<1> HIDE DEF trade
<1> QED
  BY <1>1, <1>3, <1>4 DEF StateOK

\* What a match leaves of the books: over the new contents of the pool they
\* are consistent with the filled maker still in its list, and without it.
LEMMA MatchedBooks ==
    ASSUME SafeInv, MatchStep
    PROVE  LET maker  == Maker
               symbol == mem[taker].symbol
               book   == order_books[symbol]
               new    == cancel_order(book, mem', mem'[maker].id)
           IN  /\ taker # NoSlot /\ taker \in Pool /\ symbol \in Symbols
               /\ maker \in Pool /\ maker # taker /\ Listed(book, maker)
               /\ RemoveIfFilled(maker)
               /\ \A x \in Symbols :
                     /\ ConsistentBook(order_books[x], mem', x)
                     /\ \A s \in Pool : Listed(order_books[x], s) =>
                           /\ s # taker /\ ~IsFree(s)
                           /\ mem'[s].type \notin {"MARKET", "IOC"}
                           /\ validate_order(mem'[s])
                           /\ s # maker => mem'[s].quantity_filled < mem'[s].quantity
                           /\ s = maker => x = symbol
               /\ ConsistentBook(new, mem', symbol)
               /\ \A s : Listed(new, s) <=> Listed(book, s) /\ s # maker
               /\ \A side \in Sides :
                     DOMAIN new.orders[side] \subseteq DOMAIN book.orders[side]
               /\ DOMAIN new.lookup \subseteq DOMAIN book.lookup
               /\ mem'[taker].id = mem[taker].id
               /\ mem'[taker].symbol = symbol
               /\ mem'[taker].type = mem[taker].type
               /\ validate_order(mem'[taker]) <=> validate_order(mem[taker])
<1> DEFINE maker  == Maker
           symbol == mem[taker].symbol
           book   == order_books[symbol]
<1>1. StateOK /\ BooksOK /\ TakerMayRest
  BY Regroup
<1>2. taker # NoSlot /\ maker # NoSlot /\ taker' = taker /\ created' = created
      /\ clock' = clock
  BY DEF MatchStep, Idle, Matching
<1>3. /\ taker \in Pool /\ mem[taker] \in Order /\ symbol \in Symbols
      /\ maker \in Pool /\ maker # taker /\ Listed(book, maker)
      /\ mem[maker] \in Order /\ mem[maker].symbol = symbol
      /\ ConsistentBook(book, mem, symbol)
  BY <1>2, MakerLemma DEF TakerBook
<1>4. /\ mem' \in [Pool -> Order \cup {Blank}]
      /\ \A s \in Pool : s # taker /\ s # maker => mem'[s] = mem[s]
      /\ \A s \in {taker, maker} :
            /\ mem'[s] \in Order
            /\ mem'[s] = [mem[s] EXCEPT !.quantity_filled =
                            mem[s].quantity_filled + TradeQuantity]
            /\ mem'[s].quantity_filled <= mem'[s].quantity
  BY MatchLemma
<1>5. RemoveIfFilled(maker)
  BY DEF MatchStep
<1> HIDE DEF maker
<1>7. \A s \in {taker, maker} :
         /\ mem'[s].id = mem[s].id /\ mem'[s].symbol = mem[s].symbol
         /\ mem'[s].side = mem[s].side /\ mem'[s].price = mem[s].price
         /\ mem'[s].type = mem[s].type
         /\ validate_order(mem'[s]) <=> validate_order(mem[s])
  <2> SUFFICES ASSUME NEW s \in {taker, maker}
               PROVE  /\ mem'[s].id = mem[s].id /\ mem'[s].symbol = mem[s].symbol
                      /\ mem'[s].side = mem[s].side /\ mem'[s].price = mem[s].price
                      /\ mem'[s].type = mem[s].type
                      /\ validate_order(mem'[s]) <=> validate_order(mem[s])
    OBVIOUS
  <2> DEFINE order == mem[s]
             after == mem'[s]
             n     == mem[s].quantity_filled + TradeQuantity
  <2>1. order \in Order /\ after = [order EXCEPT !.quantity_filled = n]
    BY <1>3, <1>4
  <2> HIDE DEF order, after, n
  <2>2. /\ after.id = order.id /\ after.symbol = order.symbol
        /\ after.side = order.side /\ after.price = order.price
        /\ after.type = order.type
        /\ validate_order(after) <=> validate_order(order)
    BY <2>1, FillKeeps
  <2> QED
    BY <2>2 DEF order, after
\* The lists as they were, over the new contents of the pool.
<1>8. ASSUME NEW x \in Symbols
      PROVE  /\ ConsistentBook(order_books[x], mem', x)
             /\ \A s \in Pool : Listed(order_books[x], s) =>
                   /\ s # taker /\ ~IsFree(s)
                   /\ mem'[s].type \notin {"MARKET", "IOC"}
                   /\ validate_order(mem'[s])
                   /\ s # maker => mem'[s].quantity_filled < mem'[s].quantity
                   /\ s = maker => x = symbol
  <2>1. ConsistentBook(order_books[x], mem, x)
    BY <1>1 DEF BooksOK
  <2>2. ASSUME NEW s \in Pool, Listed(order_books[x], s)
        PROVE  /\ s # taker /\ ~IsFree(s)
               /\ mem[s].type \notin {"MARKET", "IOC"} /\ validate_order(mem[s])
               /\ mem[s].quantity_filled < mem[s].quantity
               /\ mem[s] \in Order /\ mem[s].symbol = x
    BY <1>1, <2>1, <2>2, ListedLemma DEF BooksOK
  <2>3. ASSUME NEW s \in Pool, Listed(order_books[x], s)
        PROVE  /\ s # taker /\ ~IsFree(s)
               /\ mem'[s].type \notin {"MARKET", "IOC"} /\ validate_order(mem'[s])
               /\ s # maker => mem'[s].quantity_filled < mem'[s].quantity
               /\ s = maker => x = symbol
               /\ mem'[s] \in Order /\ mem'[s].id = mem[s].id
               /\ mem'[s].symbol = mem[s].symbol
               /\ mem'[s].side = mem[s].side /\ mem'[s].price = mem[s].price
    <3>1. CASE s = maker
      BY <3>1, <2>2, <2>3, <1>3, <1>4, <1>7
    <3>2. CASE s # maker
      <4>1. mem'[s] = mem[s]
        BY <3>2, <2>2, <2>3, <1>4
      <4> QED
        BY <3>2, <4>1, <2>2, <2>3
    <3> QED
      BY <3>1, <3>2
  <2>4. ConsistentBook(order_books[x], mem', x)
    BY <2>1, <2>3, SameOrdersLemma
  <2> QED
    BY <2>3, <2>4
<1>9. mem'[maker].id \in DOMAIN book.lookup /\ book.lookup[mem'[maker].id] = maker
  BY <1>3, <1>7, ListedLemma
<1> DEFINE new == cancel_order(book, mem', mem'[maker].id)
<1>10. /\ ConsistentBook(new, mem', symbol)
       /\ \A s : Listed(new, s) <=> Listed(book, s) /\ s # maker
       /\ \A side \in Sides : DOMAIN new.orders[side] \subseteq DOMAIN book.orders[side]
       /\ DOMAIN new.lookup = DOMAIN book.lookup \ {mem'[maker].id}
  BY <1>3, <1>8, <1>9, CancelOrderLemma
<1>11. maker = Maker
  BY DEF maker
<1> HIDE DEF new
<1>12. new = cancel_order(book, mem', mem'[Maker].id)
  BY <1>11 DEF new
<1> QED
  BY <1>2, <1>3, <1>5, <1>7, <1>8, <1>10, <1>11, <1>12

\* One iteration of the matching loop keeps the invariant.
LEMMA MatchStepStep ==
    ASSUME SafeInv, MatchStep
    PROVE  SafeInv'
<1> DEFINE maker  == Maker
           symbol == mem[taker].symbol
           book   == order_books[symbol]
           new    == cancel_order(book, mem', mem'[maker].id)
<1>1. StateOK /\ BooksOK /\ TakerMayRest
  BY Regroup
<1>2. taker # NoSlot /\ taker' = taker /\ created' = created /\ clock' = clock
  BY DEF MatchStep, Idle, Matching
<1>3. /\ taker \in Pool /\ symbol \in Symbols
      /\ maker \in Pool /\ maker # taker /\ Listed(book, maker) /\ RemoveIfFilled(maker)
      /\ mem'[taker].id = mem[taker].id /\ mem'[taker].symbol = symbol
      /\ mem'[taker].type = mem[taker].type
      /\ validate_order(mem'[taker]) <=> validate_order(mem[taker])
  BY MatchedBooks
<1>4. /\ mem' \in [Pool -> Order \cup {Blank}]
      /\ \A s \in {taker, maker} :
            mem'[s] \in Order /\ mem'[s].quantity_filled <= mem'[s].quantity
  BY MatchLemma
<1>6. trades' \in Seq(Trade) /\ trade_history' \in Seq(Trade)
  BY TradeLemma
<1>7. /\ ConsistentBook(new, mem', symbol)
      /\ \A s : Listed(new, s) <=> Listed(book, s) /\ s # maker
      /\ \A side \in Sides : DOMAIN new.orders[side] \subseteq DOMAIN book.orders[side]
      /\ DOMAIN new.lookup \subseteq DOMAIN book.lookup
  BY MatchedBooks
<1>8. ASSUME NEW x \in Symbols
      PROVE  /\ ConsistentBook(order_books[x], mem', x)
             /\ \A s \in Pool : Listed(order_books[x], s) =>
                   /\ s # taker /\ ~IsFree(s)
                   /\ mem'[s].type \notin {"MARKET", "IOC"}
                   /\ validate_order(mem'[s])
                   /\ s # maker => mem'[s].quantity_filled < mem'[s].quantity
                   /\ s = maker => x = symbol
  BY MatchedBooks
<1> HIDE DEF maker, new
\* The taker stays what it was in every respect that is left to say.
<1>10. ASSUME \A x \in Symbols : DOMAIN order_books'[x].lookup \subseteq DOMAIN order_books[x].lookup
       PROVE  TakerMayRest'
  BY <1>1, <1>2, <1>3, <1>4, <1>10 DEF TakerMayRest, Idle
<1>11. CASE ~is_filled(mem'[maker])
  <2>1. order_books' = order_books /\ free_indices' = free_indices
    BY <1>3, <1>11 DEF RemoveIfFilled
  <2>2. mem'[maker].quantity_filled < mem'[maker].quantity
    BY <1>4, <1>11, QuantityModulusAssumption DEF is_filled, Order, Quantities
  <2>3. StateOK'
    BY <1>1, <1>2, <1>4, <1>6, <2>1 DEF StateOK, IsFree
  <2>4. BooksOK'
    BY <1>1, <1>2, <1>8, <2>1, <2>2 DEF BooksOK, Uncrossed, Listed, IsFree
  <2>5. TakerMayRest'
    BY <2>1, <1>10
  <2> QED
    BY <2>3, <2>4, <2>5, RegroupPrime
<1>12. CASE is_filled(mem'[maker])
  <2>1. /\ order_books' = [order_books EXCEPT ![symbol] = new]
        /\ free_indices' = deallocate(free_indices, maker)
    BY <1>3, <1>12 DEF RemoveIfFilled, new
  <2>2. /\ ConsistentBook(new, mem', symbol)
        /\ \A s : Listed(new, s) <=> Listed(book, s) /\ s # maker
        /\ \A side \in Sides : DOMAIN new.orders[side] \subseteq DOMAIN book.orders[side]
        /\ DOMAIN new.lookup \subseteq DOMAIN book.lookup
    BY <1>7
  <2> HIDE DEF book, symbol
  <2>3. order_books = [x \in Symbols |-> order_books[x]]
    BY <1>1 DEF StateOK
  <2>4. /\ order_books' = [x \in Symbols |-> order_books'[x]]
        /\ order_books'[symbol] = new
        /\ \A x \in Symbols : x # symbol => order_books'[x] = order_books[x]
    BY <1>3, <2>1, <2>3
  <2>5. ~IsFree(maker)
    BY <1>3, <1>8 DEF book
  <2>6. /\ free_indices' \in Seq(Pool) /\ NoDuplicates(free_indices')
        /\ \A s : IsFree(s)' <=> IsFree(s) \/ s = maker
    BY <1>1, <1>3, <2>1, <2>5, DeallocateLemma DEF StateOK, IsFree
  <2>7. StateOK'
    BY <1>1, <1>2, <1>3, <1>4, <1>6, <2>4, <2>6 DEF StateOK
  <2>8. BooksOK'
    <3> SUFFICES ASSUME NEW x \in Symbols
                 PROVE  /\ ConsistentBook(order_books'[x], mem', x)
                        /\ Uncrossed(order_books'[x])
                        /\ \A slot \in Pool :
                              Listed(order_books'[x], slot) =>
                                 /\ mem'[slot].quantity_filled < mem'[slot].quantity
                                 /\ mem'[slot].type \notin {"MARKET", "IOC"}
                                 /\ validate_order(mem'[slot])
                                 /\ slot # taker'
                                 /\ ~IsFree(slot)'
      BY DEF BooksOK, Listed, Uncrossed
    <3>1. \A slot : Listed(order_books'[x], slot) =>
             \/ Listed(order_books[x], slot) /\ slot # maker
             \/ x # symbol /\ Listed(order_books[x], slot)
      BY <2>2, <2>4 DEF book
    <3>2. Uncrossed(order_books'[x])
      BY <1>1, <1>3, <2>2, <2>4 DEF BooksOK, Uncrossed, book, Sides
    <3>3. ConsistentBook(order_books'[x], mem', x)
      BY <1>8, <2>2, <2>4
    <3>4. \A slot \in Pool : Listed(order_books'[x], slot) => Listed(order_books[x], slot) /\ slot # maker
      BY <3>1, <1>8
    <3> QED
      BY <3>2, <3>3, <3>4, <1>2, <1>8, <2>6
  <2>9. TakerMayRest'
    BY <2>2, <2>4, <1>10 DEF book
  <2> QED
    BY <2>7, <2>8, <2>9, RegroupPrime
<1> QED
  BY <1>11, <1>12

-----------------------------------------------------------------------------
(***************************************************************************)
(* The end of a call.  An order that came to nothing, or to everything,    *)
(* goes back to the pool; it was in no book.                               *)
(***************************************************************************)
\* A call that leaves the books alone and gives the taker's slot back, or
\* loses it, keeps the invariant.
LEMMA ReturnLemma ==
    ASSUME SafeInv, Return, order_books' = order_books,
           \/ free_indices' = deallocate(free_indices, taker)
           \/ free_indices' = free_indices
    PROVE  SafeInv'
<1>1. StateOK /\ BooksOK
  BY Regroup
<1>2. /\ taker # NoSlot /\ taker' = NoSlot /\ mem' = mem /\ created' = created
      /\ trade_history' = trade_history /\ trades' = trades /\ clock' = clock
  BY DEF Return, Idle
<1>3. taker \in Pool /\ ~IsFree(taker)
  BY <1>1, <1>2 DEF StateOK
<1>4. /\ free_indices' \in Seq(Pool) /\ NoDuplicates(free_indices')
      /\ \A s : IsFree(s)' => IsFree(s) \/ s = taker
  BY <1>1, <1>3, DeallocateLemma DEF StateOK, IsFree
<1>5. ~IsFree(NoSlot)'
  <2>1. ~IsFree(NoSlot)
    BY <1>1, NoSlotNotInPool DEF StateOK, IsFree, InStack
  <2> QED
    BY <1>2, <1>4, <2>1
<1>6. StateOK'
  BY <1>1, <1>2, <1>4, <1>5 DEF StateOK
<1>7. BooksOK'
  <2>1. \A symbol \in Symbols : \A s \in Pool :
           Listed(order_books[symbol], s) => s # taker' /\ ~IsFree(s)'
    BY <1>1, <1>2, <1>4, NoSlotNotInPool DEF BooksOK
  <2>2. \A symbol \in Symbols : ConsistentBook(order_books[symbol], mem', symbol)
    BY <1>1, <1>2 DEF BooksOK
  <2> QED
    BY <1>1, <1>2, <2>1, <2>2, BooksKeptLemma
<1>8. TakerMayRest'
  BY <1>2 DEF TakerMayRest, Idle
<1> QED
  BY <1>6, <1>7, <1>8, RegroupPrime

\* The price of an order that the loop gave up on lies strictly on its own
\* side of every price of the other side.
LEMMA UnmatchableLemma ==
    ASSUME SafeInv, taker # NoSlot, ~Matching, ~is_filled(mem[taker]),
           mem[taker].type # "MARKET"
    PROVE  \A q \in DOMAIN TakerBook.orders[Opposite(mem[taker].side)] :
              IF mem[taker].side = BUY THEN mem[taker].price < q
                                       ELSE q < mem[taker].price
<1> DEFINE other == Opposite(mem[taker].side)
<1> SUFFICES ASSUME NEW q \in DOMAIN TakerBook.orders[other]
             PROVE  IF mem[taker].side = BUY THEN mem[taker].price < q
                                             ELSE q < mem[taker].price
  OBVIOUS
<1>1. /\ mem[taker] \in Order /\ mem[taker].side \in Sides /\ mem[taker].price \in Prices
      /\ ConsistentBook(TakerBook, mem, mem[taker].symbol) /\ other \in Sides
      /\ Maker # NoSlot
      /\ mem[Maker] \in Order
      /\ AtLeastAsGood(other, mem[Maker].price, q)
  BY MakerLemma
<1>2. q \in Int
  BY <1>1 DEF ConsistentBook, IsBook, IsPartialFunction, Prices
<1>3. mem[Maker].price \in Int /\ mem[taker].price \in Int
  BY <1>1 DEF Order, Prices
<1>4. remaining_qty(mem[taker]) > 0
  <2>1. /\ mem[taker].quantity \in Nat /\ mem[taker].quantity_filled \in Nat
        /\ mem[taker].quantity_filled < mem[taker].quantity
    BY <1>1, QuantityModulusAssumption DEF Order, Quantities, is_filled
  <2> QED
    BY <2>1 DEF remaining_qty, Minus
<1>5. ~Acceptable(mem[taker], mem[Maker].price)
  BY <1>1, <1>4 DEF Matching, Matchable
<1>6. CASE mem[taker].side = BUY
  <2>1. other = SELL /\ SELL # BUY
    BY <1>6 DEF Opposite, BUY, SELL
  <2> QED
    BY <1>1, <1>2, <1>3, <1>5, <1>6, <2>1 DEF Acceptable, AtLeastAsGood
<1>7. CASE mem[taker].side # BUY
  <2>1. other = BUY
    BY <1>7 DEF Opposite
  <2> QED
    BY <1>1, <1>2, <1>3, <1>5, <1>7, <2>1 DEF Acceptable, AtLeastAsGood
<1> QED
  BY <1>6, <1>7

\* An order that comes to rest keeps the invariant.
LEMMA ReturnRestingStep ==
    ASSUME SafeInv, ReturnResting
    PROVE  SafeInv'
<1> DEFINE symbol == mem[taker].symbol
           book   == order_books[symbol]
           new    == add_order(book, mem, taker)
<1>1. StateOK /\ BooksOK /\ TakerMayRest
  BY Regroup
<1>2. /\ taker # NoSlot /\ taker' = NoSlot /\ mem' = mem /\ created' = created
      /\ trade_history' = trade_history /\ trades' = trades /\ clock' = clock
      /\ free_indices' = free_indices /\ ~Matching /\ ~is_filled(mem[taker])
      /\ mem[taker].type \notin {"IOC", "MARKET"}
      /\ order_books' = [order_books EXCEPT ![symbol] = new]
  BY DEF ReturnResting, Return, Idle
<1>3. /\ taker \in Pool /\ mem[taker] \in Order /\ symbol \in Symbols
      /\ mem[taker].side \in Sides
      /\ ConsistentBook(book, mem, symbol) /\ Uncrossed(book)
      /\ ~IsFree(taker) /\ ~Listed(book, taker)
      /\ mem[taker].id \notin DOMAIN book.lookup /\ validate_order(mem[taker])
  <2>1. taker \in Pool /\ mem[taker] \in Order /\ ~IsFree(taker)
    BY <1>1, <1>2 DEF StateOK
  <2>2. symbol \in Symbols /\ mem[taker].side \in Sides
    BY <2>1 DEF Order
  <2>3. /\ mem[taker].id \notin DOMAIN book.lookup /\ validate_order(mem[taker])
    BY <1>1, <1>2 DEF TakerMayRest, Idle
  <2>4. ConsistentBook(book, mem, symbol) /\ Uncrossed(book) /\ ~Listed(book, taker)
    BY <1>1, <2>1, <2>2 DEF BooksOK
  <2> QED
    BY <2>1, <2>2, <2>3, <2>4
<1>4. mem[taker].quantity_filled < mem[taker].quantity
  BY <1>2, <1>3, QuantityModulusAssumption DEF Order, Quantities, is_filled
<1>5. \A q \in DOMAIN book.orders[Opposite(mem[taker].side)] :
         IF mem[taker].side = BUY THEN mem[taker].price < q ELSE q < mem[taker].price
  BY <1>2, UnmatchableLemma DEF TakerBook
<1> HIDE DEF symbol, book, new
<1>6. symbol = mem[taker].symbol /\ new = add_order(book, mem, taker)
  BY DEF symbol, new
<1>7. /\ ConsistentBook(new, mem, symbol)
      /\ \A s : Listed(new, s) <=> Listed(book, s) \/ s = taker
      /\ \A side \in Sides : \A p :
            p \in DOMAIN new.orders[side] <=>
               \/ p \in DOMAIN book.orders[side]
               \/ side = mem[taker].side /\ p = mem[taker].price
  BY <1>3, <1>6, AddOrderLemma
<1>8. Uncrossed(new)
  <2> SUFFICES ASSUME NEW bid \in DOMAIN new.orders[BUY], NEW ask \in DOMAIN new.orders[SELL]
               PROVE  bid < ask
    BY DEF Uncrossed
  <2>1. BUY \in Sides /\ SELL \in Sides /\ BUY # SELL
    BY DEF Sides, BUY, SELL
  <2>2. CASE mem[taker].side = BUY
    <3>1. ask \in DOMAIN book.orders[SELL]
      BY <1>7, <2>1, <2>2
    <3>2. Opposite(mem[taker].side) = SELL
      BY <2>2 DEF Opposite
    <3> QED
      BY <1>3, <1>5, <1>7, <2>1, <2>2, <3>1, <3>2 DEF Uncrossed
  <2>3. CASE mem[taker].side = SELL
    <3>1. bid \in DOMAIN book.orders[BUY]
      BY <1>7, <2>1, <2>3
    <3>2. Opposite(mem[taker].side) = BUY
      BY <2>1, <2>3 DEF Opposite
    <3> QED
      BY <1>3, <1>5, <1>7, <2>1, <2>3, <3>1, <3>2 DEF Uncrossed
  <2> QED
    BY <1>3, <2>2, <2>3 DEF Sides
<1>9. /\ order_books' = [x \in Symbols |-> order_books'[x]]
      /\ order_books'[symbol] = new
      /\ \A x \in Symbols : x # symbol => order_books'[x] = order_books[x]
  BY <1>1, <1>2, <1>3 DEF StateOK
<1>10. ~IsFree(NoSlot)
  BY <1>1, NoSlotNotInPool DEF StateOK, IsFree, InStack
<1>11. StateOK'
  BY <1>1, <1>2, <1>9, <1>10 DEF StateOK, IsFree
<1>12. BooksOK'
  <2> SUFFICES ASSUME NEW x \in Symbols
               PROVE  /\ ConsistentBook(order_books'[x], mem', x)
                      /\ Uncrossed(order_books'[x])
                      /\ \A slot \in Pool :
                            Listed(order_books'[x], slot) =>
                               /\ mem'[slot].quantity_filled < mem'[slot].quantity
                               /\ mem'[slot].type \notin {"MARKET", "IOC"}
                               /\ validate_order(mem'[slot])
                               /\ slot # taker'
                               /\ ~IsFree(slot)'
    BY DEF BooksOK, Listed, Uncrossed
  <2>1. \A slot \in Pool : slot # taker' /\ (IsFree(slot)' <=> IsFree(slot))
    BY <1>2, NoSlotNotInPool DEF IsFree
  <2>2. ConsistentBook(order_books'[x], mem', x) /\ Uncrossed(order_books'[x])
    BY <1>1, <1>2, <1>7, <1>8, <1>9 DEF BooksOK
  <2>3. \A slot \in Pool : Listed(order_books'[x], slot)
                             => Listed(order_books[x], slot) \/ slot = taker
    BY <1>7, <1>9 DEF book
  <2> QED
    BY <1>1, <1>2, <1>3, <1>4, <2>1, <2>2, <2>3 DEF BooksOK
<1>13. TakerMayRest'
  BY <1>2 DEF TakerMayRest, Idle
<1> QED
  BY <1>11, <1>12, <1>13, RegroupPrime

\* The four ways a call ends.
LEMMA FinishOrderStep ==
    ASSUME SafeInv, FinishOrder
    PROVE  SafeInv'
<1>1. CASE ReturnFilled
  BY <1>1, ReturnLemma DEF ReturnFilled
<1>2. CASE ReturnIOC
  BY <1>2, ReturnLemma DEF ReturnIOC
<1>3. CASE ReturnMarket
  BY <1>3, ReturnLemma DEF ReturnMarket
<1>4. CASE ReturnResting
  BY <1>4, ReturnRestingStep
<1> QED
  BY <1>1, <1>2, <1>3, <1>4 DEF FinishOrder

-----------------------------------------------------------------------------
\* A cancel, of an id that rests in that book or of any other.
LEMMA CancelOrderStep ==
    ASSUME SafeInv, NEW id \in OrderIds, NEW symbol \in Symbols, CancelOrder(id, symbol)
    PROVE  SafeInv'
<1> DEFINE book == order_books[symbol]
           new  == cancel_order(book, mem, id)
           slot == cancelled(book, mem, id)
<1>1. StateOK /\ BooksOK
  BY Regroup
<1>2. /\ taker = NoSlot /\ taker' = NoSlot /\ mem' = mem
      /\ created' = created \cup {symbol}
      /\ trade_history' = trade_history /\ trades' = trades /\ clock' = clock
      /\ order_books' = [order_books EXCEPT ![symbol] = new]
      /\ free_indices' = IF slot = NoSlot THEN free_indices
                                          ELSE deallocate(free_indices, slot)
  BY DEF CancelOrder, Idle
<1>3. ConsistentBook(book, mem, symbol) /\ Uncrossed(book)
  BY <1>1 DEF BooksOK
<1>4. ~IsFree(NoSlot)
  BY <1>1, NoSlotNotInPool DEF StateOK, IsFree, InStack
<1>5. TakerMayRest'
  BY <1>2 DEF TakerMayRest, Idle
<1>6. CASE id \notin DOMAIN book.lookup
  <2>1. new = book /\ slot = NoSlot
    BY <1>6 DEF cancel_order, cancelled, Cancellable
  <2>2. order_books' = order_books /\ free_indices' = free_indices
    BY <1>1, <1>2, <2>1 DEF StateOK
  <2>3. StateOK'
    BY <1>1, <1>2, <1>4, <2>2 DEF StateOK, IsFree
  <2>4. BooksOK'
    BY <1>1, <1>2, <2>2 DEF BooksOK, Listed, Uncrossed, IsFree
  <2> QED
    BY <1>5, <2>3, <2>4, RegroupPrime
<1>7. CASE id \in DOMAIN book.lookup
  <2> DEFINE gone == book.lookup[id]
  <2>1. /\ slot = gone /\ gone \in Pool /\ Listed(book, gone)
        /\ ConsistentBook(new, mem, symbol)
        /\ \A s : Listed(new, s) <=> Listed(book, s) /\ s # gone
        /\ \A side \in Sides : DOMAIN new.orders[side] \subseteq DOMAIN book.orders[side]
    BY <1>3, <1>7, CancelOrderLemma
  <2> HIDE DEF gone, new, slot, book
  <2>2. /\ order_books' = [x \in Symbols |-> order_books'[x]]
        /\ order_books'[symbol] = new
        /\ \A x \in Symbols : x # symbol => order_books'[x] = order_books[x]
    BY <1>1, <1>2 DEF StateOK
  <2>3. ~IsFree(gone) /\ gone # NoSlot
    BY <1>1, <2>1, NoSlotNotInPool DEF BooksOK, book
  <2>4. /\ free_indices' \in Seq(Pool) /\ NoDuplicates(free_indices')
        /\ \A s : IsFree(s)' <=> IsFree(s) \/ s = gone
    BY <1>1, <1>2, <2>1, <2>3, DeallocateLemma DEF StateOK, IsFree
  <2>5. StateOK'
    BY <1>1, <1>2, <1>4, <2>2, <2>3, <2>4 DEF StateOK
  \* The symbol of the order tells its book from the others.
  <2>6. \A x \in Symbols : Listed(order_books[x], gone) => x = symbol
    <3>1. mem[gone].symbol = symbol
      BY <1>3, <2>1, ListedLemma
    <3>2. ASSUME NEW x \in Symbols, Listed(order_books[x], gone)
          PROVE  mem[gone].symbol = x
      <4>1. ConsistentBook(order_books[x], mem, x)
        BY <1>1 DEF BooksOK
      <4> QED
        BY <3>2, <4>1, ListedLemma
    <3> QED
      BY <3>1, <3>2
  <2>7. BooksOK'
    <3> SUFFICES ASSUME NEW x \in Symbols
                 PROVE  /\ ConsistentBook(order_books'[x], mem', x)
                        /\ Uncrossed(order_books'[x])
                        /\ \A s \in Pool :
                              Listed(order_books'[x], s) =>
                                 /\ mem'[s].quantity_filled < mem'[s].quantity
                                 /\ mem'[s].type \notin {"MARKET", "IOC"}
                                 /\ validate_order(mem'[s])
                                 /\ s # taker'
                                 /\ ~IsFree(s)'
      BY DEF BooksOK, Listed, Uncrossed
    <3>1. ConsistentBook(order_books'[x], mem', x)
      BY <1>1, <1>2, <2>1, <2>2 DEF BooksOK
    <3>2. Uncrossed(order_books'[x])
      BY <1>1, <1>3, <2>1, <2>2 DEF BooksOK, Uncrossed, Sides
    <3>3. \A s \in Pool : Listed(order_books'[x], s) => Listed(order_books[x], s) /\ s # gone
      BY <2>1, <2>2, <2>6 DEF book
    <3> QED
      BY <1>1, <1>2, <2>4, <3>1, <3>2, <3>3, NoSlotNotInPool DEF BooksOK
  <2> QED
    BY <1>5, <2>5, <2>7, RegroupPrime
<1> QED
  BY <1>6, <1>7


-----------------------------------------------------------------------------
\* Every step of the engine that is not the arrival of an order, and the
\* arrival of any that does not bring the id of another to a book, keeps what
\* the engine is safe by.
LEMMA NextSafe ==
    ASSUME SafeInv,
           \/ \E request \in OrderRequest : MayRest(request) /\ ProcessNewOrder(request)
           \/ EngineStep
           \/ Cancel
           \/ UNCHANGED vars
    PROVE  SafeInv'
<1>1. CASE \E request \in OrderRequest : MayRest(request) /\ ProcessNewOrder(request)
  <2>1. PICK request \in OrderRequest : MayRest(request) /\ ProcessNewOrder(request)
    BY <1>1
  <2>2. CASE RejectPoolExhausted(request)
    BY <2>2, RejectPoolExhaustedStep
  <2>3. CASE RejectInvalid(request)
    BY <2>3, RejectInvalidStep
  <2>4. CASE KillFok(request)
    BY <2>4, KillFokStep
  <2>5. CASE BeginMatching(request)
    BY <2>1, <2>5, BeginMatchingStep
  <2> QED
    BY <2>1, <2>2, <2>3, <2>4, <2>5 DEF ProcessNewOrder
<1>2. CASE EngineStep
  BY <1>2, MatchStepStep, FinishOrderStep DEF EngineStep
<1>3. CASE Cancel
  BY <1>3, CancelOrderStep DEF Cancel
<1>4. CASE UNCHANGED vars
  <2>1. StateOK /\ BooksOK /\ TakerMayRest
    BY Regroup
  <2>2. StateOK'
    BY <1>4, <2>1 DEF vars, StateOK, IsFree
  <2>3. BooksOK'
    BY <1>4, <2>1 DEF vars, BooksOK, Listed, Uncrossed, IsFree
  <2>4. TakerMayRest'
    BY <1>4, <2>1 DEF vars, TakerMayRest, Idle
  <2> QED
    BY <2>2, <2>3, <2>4, RegroupPrime
<1> QED
  BY <1>1, <1>2, <1>3, <1>4

-----------------------------------------------------------------------------
(***************************************************************************)
(* The whole invariant: the taker's id is new to its book, whatever its    *)
(* type.                                                                   *)
(***************************************************************************)
LEMMA Halves ==
    /\ IInv <=> SafeInv /\ TakerIsNew
    /\ IInv' <=> SafeInv' /\ TakerIsNew'
  BY DEF IInv, SafeInv, TakerIsNew, TakerIsLive, TakerMayRest

\* What is shown of the one half holds under the whole.
LEMMA IInvIsSafe == IInv => SafeInv
  BY Halves

LEMMA InitIInv == Init => IInv
  BY InitSafe, Halves DEF Init, TakerIsNew, Idle

\* Requests have every field.
LEMMA RequestsTyped == \A request \in Requests : request \in OrderRequest
  BY EngineAssumption

\* The taker's id stays new to its book: only filled makers leave the lookup.
LEMMA MatchStepNew ==
    ASSUME IInv, MatchStep
    PROVE  TakerIsNew'
<1> DEFINE maker  == Maker
           symbol == mem[taker].symbol
           book   == order_books[symbol]
           new    == cancel_order(book, mem', mem'[maker].id)
<1>1. SafeInv /\ TakerIsNew /\ taker' = taker /\ ~Idle
  BY Halves DEF MatchStep
<1>2. /\ symbol \in Symbols /\ RemoveIfFilled(maker)
      /\ mem'[taker].id = mem[taker].id /\ mem'[taker].symbol = symbol
      /\ DOMAIN new.lookup \subseteq DOMAIN book.lookup
  BY <1>1, MatchedBooks
<1>3. order_books = [x \in Symbols |-> order_books[x]]
  BY <1>1, Regroup DEF StateOK
<1> HIDE DEF maker, new
<1>4. DOMAIN order_books'[symbol].lookup \subseteq DOMAIN order_books[symbol].lookup
  <2>1. CASE ~is_filled(mem'[maker])
    BY <1>2, <2>1 DEF RemoveIfFilled
  <2>2. CASE is_filled(mem'[maker])
    <3>1. order_books' = [order_books EXCEPT ![symbol] = new]
      BY <1>2, <2>2 DEF RemoveIfFilled, new
    <3> QED
      BY <1>2, <1>3, <3>1
  <2> QED
    BY <2>1, <2>2
<1> QED
  BY <1>1, <1>2, <1>4 DEF TakerIsNew, Idle

\* Every step of the engine, and every stuttering step, keeps the invariant.
LEMMA NextIInv == IInv /\ [Next]_vars => IInv'
<1> SUFFICES ASSUME IInv, [Next]_vars PROVE IInv'
  OBVIOUS
<1>1. SafeInv /\ TakerIsNew
  BY Halves
<1>2. SafeInv'
  BY <1>1, NextSafe, RequestsTyped DEF Next, MayRest
<1>3. TakerIsNew'
  <2>1. CASE \E request \in Requests : FreshId(request) /\ ProcessNewOrder(request)
    <3>1. PICK request \in Requests : FreshId(request) /\ ProcessNewOrder(request)
      BY <2>1
    <3>2. CASE BeginMatching(request)
      <4>1. /\ Valid(request) /\ taker' = allocated(free_indices)
            /\ order_books' = order_books
        BY <3>2 DEF BeginMatching, Valid
      <4>2. mem'[taker'] = NewOrder(request, clock)
        BY <1>1, <4>1, ValidLemma, RequestsTyped
      <4> QED
        BY <3>1, <4>1, <4>2 DEF TakerIsNew, FreshId, NewOrder
    <3>3. CASE ~BeginMatching(request)
      BY <3>1, <3>3 DEF ProcessNewOrder, RejectPoolExhausted, RejectInvalid, KillFok,
                        Valid, Receive, TakerIsNew, Idle
    <3> QED
      BY <3>2, <3>3
  <2>2. CASE MatchStep
    BY <2>2, MatchStepNew
  <2>3. CASE FinishOrder \/ Cancel
    BY <2>3 DEF FinishOrder, ReturnFilled, ReturnIOC, ReturnMarket, ReturnResting,
                Return, Cancel, CancelOrder, TakerIsNew, Idle
  <2>4. CASE UNCHANGED vars
    BY <1>1, <2>4 DEF vars, TakerIsNew, Idle
  <2> QED
    BY <2>1, <2>2, <2>3, <2>4 DEF Next, EngineStep
<1> QED
  BY <1>2, <1>3, Halves

\* The inductive invariant holds in every reachable state of the engine.
THEOREM Invariance == Spec => []IInv
  BY InitIInv, NextIInv, PTL DEF Spec

-----------------------------------------------------------------------------
(***************************************************************************)
(* What the invariant says, part by part.                                  *)
(***************************************************************************)
\* Every variable of the engine keeps its type: in particular no index that
\* is not in the pool ever enters the free stack or a price list.
THEOREM TypeCorrectness == Spec => []TypeOK
<1>1. IInv => TypeOK
  BY DEF IInv
<1> QED
  BY <1>1, Invariance, PTL

\* A pool slot is never free twice and never free while an order that rests
\* or matches uses it: allocate hands out no order that is in use.
THEOREM PoolIsSafe == Spec => []PoolSafety
<1>1. IInv => PoolSafety
  BY DEF IInv
<1> QED
  BY <1>1, Invariance, PTL

\* order_lookup_ and the price lists always name the same orders, once each,
\* at the side and price the order itself carries.
THEOREM LookupIsConsistent == Spec => []LookupAgreesWithLists
<1>1. IInv => LookupAgreesWithLists
  BY DEF IInv
<1> QED
  BY <1>1, Invariance, PTL

\* getBestBid and getBestAsk never take the front of an empty list.
THEOREM FrontIsDefined == Spec => []LevelsNeverEmpty
<1>1. IInv => LevelsNeverEmpty
  BY DEF IInv
<1> QED
  BY <1>1, Invariance, PTL

\* No bid that rests is as high as an ask that rests in the same book.
THEOREM NeverCrossed == Spec => []NotCrossed
<1>1. IInv => NotCrossed
  BY DEF IInv
<1> QED
  BY <1>1, Invariance, PTL

\* No filled, MARKET, IOC or unchecked order ever rests.
THEOREM OnlyLiveOrdersRest == Spec => []RestingOrdersAreLive
<1>1. IInv => RestingOrdersAreLive
  BY DEF IInv
<1> QED
  BY <1>1, Invariance, PTL

\* The order being matched is never filled beyond its quantity, so the
\* unsigned subtraction of remaining_qty never wraps around.
THEOREM NeverOverfilled == Spec => []TakerIsLive
<1>1. IInv => TakerIsLive
  BY DEF IInv
<1> QED
  BY <1>1, Invariance, PTL

\* Every iteration of the matching loop takes something off the incoming
\* order, whatever the book holds: the loop cannot spin.
THEOREM LoopAlwaysProgresses == Spec => LoopProgress
<1>1. IInv /\ [Next]_vars =>
         [ (~Idle /\ taker' = taker)
             => remaining_qty(mem'[taker]) < remaining_qty(mem[taker]) ]_vars
  <2> SUFFICES ASSUME IInv, [Next]_vars, ~Idle, taker' = taker, ~(UNCHANGED vars)
               PROVE  remaining_qty(mem'[taker]) < remaining_qty(mem[taker])
    OBVIOUS
  <2>1. MatchStep
    BY DEF Next, ProcessNewOrder, RejectPoolExhausted, RejectInvalid, KillFok,
           BeginMatching, Valid, Receive, EngineStep, FinishOrder, ReturnFilled,
           ReturnIOC, ReturnMarket, ReturnResting, Return, Cancel, CancelOrder, Idle
  <2>2. /\ TradeQuantity \in Nat /\ TradeQuantity > 0
        /\ remaining_qty(mem'[taker]) = remaining_qty(mem[taker]) - TradeQuantity
        /\ remaining_qty(mem[taker]) \in Nat
    BY <2>1, IInvIsSafe, MatchLemma, QuantityModulusAssumption DEF Quantities
  <2> QED
    BY <2>2
<1> QED
  BY <1>1, Invariance, PTL DEF Spec, LoopProgress

-----------------------------------------------------------------------------
(***************************************************************************)
(* Which slots get lost.                                                   *)
(***************************************************************************)
\* Only a slot that was lost already can be lost after a step that neither
\* starts nor ends a call.
LEMMA LeakFrame ==
    ASSUME IInv, OnlyFokAndMarketLeak,
           \A s \in Pool : Leaked(s)' => Leaked(s) /\ mem'[s] = mem[s]
    PROVE  OnlyFokAndMarketLeak'
  BY DEF OnlyFokAndMarketLeak

\* A request that is turned down, killed or taken up loses only the slot of
\* a killed FOK order.
LEMMA ProcessNewOrderLeak ==
    ASSUME IInv, OnlyFokAndMarketLeak, NEW request \in Requests,
           ProcessNewOrder(request)
    PROVE  OnlyFokAndMarketLeak'
<1> DEFINE slot == allocated(free_indices)
<1>1. StateOK /\ BooksOK
  BY IInvIsSafe, Regroup
<1>2. taker = NoSlot
  BY DEF ProcessNewOrder, RejectPoolExhausted, RejectInvalid, KillFok,
         BeginMatching, Valid, Receive, Idle
<1>3. CASE RejectPoolExhausted(request)
  <2>1. \A s \in Pool : Leaked(s)' => Leaked(s) /\ mem'[s] = mem[s]
    BY <1>3 DEF RejectPoolExhausted, Leaked, IsFree, Listed
  <2> QED
    BY <2>1, LeakFrame
<1>4. CASE RejectInvalid(request)
  <2>1. /\ order_books' = order_books /\ taker' = taker
        /\ free_indices' = deallocate(allocate(free_indices), slot)
        /\ mem' = [mem EXCEPT ![slot] = NewOrder(request, clock)]
        /\ free_indices # << >>
    BY <1>4 DEF RejectInvalid, Receive, allocated
  <2>2. /\ allocate(free_indices) \in Seq(Pool) /\ NoDuplicates(allocate(free_indices))
        /\ \A s : InStack(allocate(free_indices), s)
                     <=> InStack(free_indices, s) /\ s # slot
        /\ slot \in Pool /\ InStack(free_indices, slot)
    BY <1>1, <2>1, AllocateLemma DEF StateOK
  <2>3. \A s : IsFree(s)' <=> IsFree(s)
    <3>1. \A s : InStack(free_indices', s) <=> InStack(free_indices, s)
      BY <2>1, <2>2, DeallocateLemma
    <3> QED
      BY <3>1 DEF IsFree
  <2>4. IsFree(slot)
    BY <2>2 DEF IsFree
  <2> HIDE DEF slot
  <2>5. \A s \in Pool : s # slot => mem'[s] = mem[s]
    BY <1>1, <2>1, <2>2 DEF StateOK
  <2>6. \A s \in Pool : Leaked(s)' => Leaked(s) /\ mem'[s] = mem[s]
    BY <2>1, <2>3, <2>4, <2>5 DEF Leaked, Listed
  <2> QED
    BY <2>6, LeakFrame
<1>5. CASE Valid(request)
  <2>1. /\ slot \in Pool /\ mem'[slot] = NewOrder(request, clock)
        /\ \A s : IsFree(s)' <=> IsFree(s) /\ s # slot
        /\ order_books' = order_books
    BY <1>5, IInvIsSafe, RequestsTyped, ValidLemma
  <2>2. mem' = [mem EXCEPT ![slot] = NewOrder(request, clock)]
    BY <1>5 DEF Valid, Receive
  <2> HIDE DEF slot
  <2>3. \A s \in Pool : s # slot => mem'[s] = mem[s]
    BY <1>1, <2>1, <2>2 DEF StateOK
  <2>4. \A s \in Pool : s # slot /\ Leaked(s)' => Leaked(s) /\ mem'[s] = mem[s]
    BY <1>2, <2>1, <2>3, NoSlotNotInPool DEF Leaked, Listed
  <2>5. CASE KillFok(request)
    <3>1. mem'[slot].type = "FOK" /\ mem'[slot].quantity_filled = 0
      BY <2>1, <2>5 DEF KillFok, NewOrder
    <3> QED
      BY <2>4, <3>1 DEF OnlyFokAndMarketLeak
  <2>6. CASE BeginMatching(request)
    <3>1. \A s : s = slot => ~Leaked(s)'
      BY <2>6 DEF BeginMatching, Leaked, slot
    <3>2. \A s \in Pool : Leaked(s)' => Leaked(s) /\ mem'[s] = mem[s]
      BY <2>4, <3>1
    <3> QED
      BY <3>2, LeakFrame
  <2>7. KillFok(request) \/ BeginMatching(request)
    <3>1. ~RejectPoolExhausted(request) /\ ~RejectInvalid(request)
      BY <1>5 DEF Valid, Receive, RejectPoolExhausted, RejectInvalid
    <3> QED
      BY <3>1 DEF ProcessNewOrder
  <2> QED
    BY <2>5, <2>6, <2>7
<1> QED
  BY <1>3, <1>4, <1>5 DEF ProcessNewOrder, KillFok, BeginMatching

\* A match loses no slot: a filled maker leaves its list and is given back.
LEMMA MatchStepLeak ==
    ASSUME IInv, OnlyFokAndMarketLeak, MatchStep
    PROVE  OnlyFokAndMarketLeak'
<1> DEFINE maker  == Maker
           symbol == mem[taker].symbol
           book   == order_books[symbol]
           new    == cancel_order(book, mem', mem'[maker].id)
<1>1. StateOK /\ BooksOK
  BY IInvIsSafe, Regroup
<1>2. /\ symbol \in Symbols /\ maker \in Pool /\ Listed(book, maker)
      /\ taker' = taker /\ RemoveIfFilled(maker)
      /\ \A s : Listed(new, s) <=> Listed(book, s) /\ s # maker
  BY IInvIsSafe, MatchedBooks DEF MatchStep
<1>3. \A s \in Pool : s # taker /\ s # maker => mem'[s] = mem[s]
  BY IInvIsSafe, MatchLemma
<1> HIDE DEF maker, new, book, symbol
<1>4. ASSUME NEW s \in Pool, Leaked(s)' PROVE s # taker /\ s # maker /\ Leaked(s)
  <2>1. s # taker
    BY <1>2, <1>4 DEF Leaked
  <2>2. CASE ~is_filled(mem'[maker])
    <3>1. order_books' = order_books /\ free_indices' = free_indices
      BY <1>2, <2>2 DEF RemoveIfFilled
    <3> QED
      BY <1>2, <1>4, <2>1, <3>1 DEF Leaked, IsFree, Listed, book
  <2>3. CASE is_filled(mem'[maker])
    <3>1. /\ order_books' = [order_books EXCEPT ![symbol] = new]
          /\ free_indices' = deallocate(free_indices, maker)
      BY <1>2, <2>3 DEF RemoveIfFilled, new, book, symbol
    <3>2. ~IsFree(maker)
      BY <1>1, <1>2 DEF BooksOK, book
    <3>3. \A x : IsFree(x)' <=> IsFree(x) \/ x = maker
      <4>1. \A x : InStack(free_indices', x) <=> InStack(free_indices, x) \/ x = maker
        BY <1>1, <1>2, <3>1, <3>2, DeallocateLemma DEF StateOK, IsFree
      <4> QED
        BY <4>1 DEF IsFree
    <3>5. \A x \in Symbols : order_books'[x] = IF x = symbol THEN new ELSE order_books[x]
      BY <1>1, <1>2, <3>1 DEF StateOK
    <3>6. s # maker /\ ~IsFree(s)
      BY <1>4, <3>3 DEF Leaked
    <3>7. \A x \in Symbols : ~Listed(order_books'[x], s)
      BY <1>4 DEF Leaked, Listed
    <3>8. \A x \in Symbols : ~Listed(order_books[x], s)
      BY <1>2, <3>5, <3>6, <3>7 DEF book
    <3> QED
      BY <2>1, <3>6, <3>8 DEF Leaked
  <2> QED
    BY <2>2, <2>3
<1> QED
  BY <1>3, <1>4, LeakFrame

\* The end of a call loses only the slot of an unfilled MARKET order.
LEMMA FinishOrderLeak ==
    ASSUME IInv, OnlyFokAndMarketLeak, FinishOrder
    PROVE  OnlyFokAndMarketLeak'
<1>1. StateOK /\ BooksOK
  BY IInvIsSafe, Regroup
<1>2. /\ taker # NoSlot /\ taker' = NoSlot /\ mem' = mem
      /\ taker \in Pool /\ mem[taker] \in Order
  BY <1>1 DEF FinishOrder, ReturnFilled, ReturnIOC, ReturnMarket, ReturnResting,
              Return, Idle, StateOK
<1>3. CASE ReturnFilled \/ ReturnIOC
  <2>1. order_books' = order_books /\ free_indices' = deallocate(free_indices, taker)
    BY <1>3 DEF ReturnFilled, ReturnIOC
  <2>2. \A s : IsFree(s)' <=> IsFree(s) \/ s = taker
    <3>1. \A s : InStack(free_indices', s) <=> InStack(free_indices, s) \/ s = taker
      BY <1>1, <1>2, <2>1, DeallocateLemma DEF StateOK, IsFree
    <3> QED
      BY <3>1 DEF IsFree
  <2>3. \A s \in Pool : Leaked(s)' => Leaked(s) /\ mem'[s] = mem[s]
    BY <1>2, <2>1, <2>2 DEF Leaked, Listed
  <2> QED
    BY <2>3, LeakFrame
<1>4. CASE ReturnMarket
  <2>1. /\ order_books' = order_books /\ free_indices' = free_indices
        /\ mem[taker].type = "MARKET" /\ ~is_filled(mem[taker])
    BY <1>4 DEF ReturnMarket
  <2>2. \A s \in Pool : s # taker /\ Leaked(s)' => Leaked(s)
    BY <1>2, <2>1 DEF Leaked, Listed, IsFree
  <2> QED
    BY <1>2, <2>1, <2>2 DEF OnlyFokAndMarketLeak
<1>5. CASE ReturnResting
  <2> DEFINE symbol == mem[taker].symbol
             book   == order_books[symbol]
             new    == add_order(book, mem, taker)
  <2>1. /\ order_books' = [order_books EXCEPT ![symbol] = new]
        /\ free_indices' = free_indices /\ mem[taker].type # "MARKET"
    BY <1>5 DEF ReturnResting
  <2>2. symbol \in Symbols
    BY <1>2 DEF Order
  <2>3. /\ ConsistentBook(book, mem, symbol) /\ ~Listed(book, taker)
        /\ mem[taker].id \notin DOMAIN book.lookup
    BY <1>1, <1>2, <2>1, <2>2, IInvIsSafe, Regroup DEF BooksOK, TakerMayRest, Idle
  <2> HIDE DEF symbol, book, new
  <2>4. symbol = mem[taker].symbol /\ new = add_order(book, mem, taker)
    BY DEF symbol, new
  <2>5. \A s : Listed(new, s) <=> Listed(book, s) \/ s = taker
    BY <1>2, <2>3, <2>4, AddOrderLemma
  <2>6. \A x \in Symbols : order_books'[x] = IF x = symbol THEN new ELSE order_books[x]
    BY <1>1, <2>1, <2>2 DEF StateOK
  <2>7. \A s \in Pool : Leaked(s)' => Leaked(s) /\ mem'[s] = mem[s]
    <3>1. \A s : (IsFree(s)' <=> IsFree(s)) /\ taker' = NoSlot /\ mem' = mem
      BY <1>2, <2>1 DEF IsFree
    <3>2. \A s, x : Listed(order_books[x], s)' <=> Listed(order_books'[x], s)
      BY DEF Listed
    <3>3. \A s \in Pool : s = taker => ~Leaked(s)'
      BY <2>2, <2>5, <2>6, <3>2 DEF Leaked
    <3>4. \A s \in Pool : \A x \in Symbols :
             s # taker => (Listed(order_books'[x], s) <=> Listed(order_books[x], s))
      BY <2>5, <2>6 DEF book
    <3> QED
      BY <3>1, <3>2, <3>3, <3>4 DEF Leaked
  <2> QED
    BY <2>7, LeakFrame
<1> QED
  BY <1>3, <1>4, <1>5 DEF FinishOrder

\* A cancel loses no slot: the order it takes out of its list is given back.
LEMMA CancelOrderLeak ==
    ASSUME IInv, OnlyFokAndMarketLeak, NEW id \in OrderIds, NEW symbol \in Symbols,
           CancelOrder(id, symbol)
    PROVE  OnlyFokAndMarketLeak'
<1> DEFINE book == order_books[symbol]
           new  == cancel_order(book, mem, id)
           slot == cancelled(book, mem, id)
<1>1. StateOK /\ BooksOK
  BY IInvIsSafe, Regroup
<1>2. /\ taker' = taker /\ mem' = mem
      /\ order_books' = [order_books EXCEPT ![symbol] = new]
      /\ free_indices' = IF slot = NoSlot THEN free_indices
                                          ELSE deallocate(free_indices, slot)
  BY DEF CancelOrder
<1>3. ConsistentBook(book, mem, symbol)
  BY <1>1 DEF BooksOK
<1>4. CASE id \notin DOMAIN book.lookup
  <2>1. new = book /\ slot = NoSlot
    BY <1>4 DEF cancel_order, cancelled, Cancellable
  <2>2. order_books' = order_books /\ free_indices' = free_indices
    BY <1>1, <1>2, <2>1 DEF StateOK
  <2>3. \A s \in Pool : Leaked(s)' => Leaked(s) /\ mem'[s] = mem[s]
    BY <1>2, <2>2 DEF Leaked, Listed, IsFree
  <2> QED
    BY <2>3, LeakFrame
<1>5. CASE id \in DOMAIN book.lookup
  <2> DEFINE gone == book.lookup[id]
  <2>1. /\ slot = gone /\ gone \in Pool /\ Listed(book, gone)
        /\ \A s : Listed(new, s) <=> Listed(book, s) /\ s # gone
    BY <1>3, <1>5, CancelOrderLemma
  <2> HIDE DEF gone, new, slot, book
  <2>2. ~IsFree(gone) /\ gone # NoSlot
    BY <1>1, <2>1, NoSlotNotInPool DEF BooksOK, book
  <2>3. \A s : IsFree(s)' <=> IsFree(s) \/ s = gone
    <3>1. \A s : InStack(free_indices', s) <=> InStack(free_indices, s) \/ s = gone
      BY <1>1, <1>2, <2>1, <2>2, DeallocateLemma DEF StateOK, IsFree
    <3> QED
      BY <3>1 DEF IsFree
  <2>4. \A x \in Symbols : order_books'[x] = IF x = symbol THEN new ELSE order_books[x]
    BY <1>1, <1>2 DEF StateOK
  <2>5. \A s \in Pool : Leaked(s)' => Leaked(s) /\ mem'[s] = mem[s]
    BY <1>2, <2>1, <2>3, <2>4 DEF Leaked, Listed, book
  <2> QED
    BY <2>5, LeakFrame
<1> QED
  BY <1>4, <1>5

\* In every reachable state the slots that no later call can give back are
\* those of killed FOK and of unfilled MARKET orders, and no others.
THEOREM LeaksAreKnown == Spec => []OnlyFokAndMarketLeak
<1>1. Init => OnlyFokAndMarketLeak
  <2> SUFFICES ASSUME Init, NEW slot \in Pool PROVE IsFree(slot)
    BY DEF OnlyFokAndMarketLeak, Leaked
  <2>1. PoolSize \in Nat /\ slot \in 0 .. PoolSize - 1
        /\ free_indices = [i \in 1 .. PoolSize |-> i - 1]
    BY EngineAssumption DEF Init, NewPool, Pool, Slots
  <2>2. slot + 1 \in DOMAIN free_indices /\ free_indices[slot + 1] = slot
    BY <2>1
  <2> QED
    BY <2>2 DEF IsFree, InStack
<1>2. IInv /\ OnlyFokAndMarketLeak /\ [Next]_vars => OnlyFokAndMarketLeak'
  <2> SUFFICES ASSUME IInv, OnlyFokAndMarketLeak, [Next]_vars
               PROVE  OnlyFokAndMarketLeak'
    OBVIOUS
  <2>1. CASE UNCHANGED vars
    <3>1. \A s \in Pool : Leaked(s)' => Leaked(s) /\ mem'[s] = mem[s]
      BY <2>1 DEF vars, Leaked, Listed, IsFree
    <3> QED
      BY <3>1, LeakFrame
  <2>2. CASE \E request \in Requests : FreshId(request) /\ ProcessNewOrder(request)
    BY <2>2, ProcessNewOrderLeak
  <2>3. CASE EngineStep
    BY <2>3, MatchStepLeak, FinishOrderLeak DEF EngineStep
  <2>4. CASE Cancel
    BY <2>4, CancelOrderLeak DEF Cancel
  <2> QED
    BY <2>1, <2>2, <2>3, <2>4 DEF Next
<1> QED
  BY <1>1, <1>2, Invariance, PTL DEF Spec

-----------------------------------------------------------------------------
(***************************************************************************)
(* What the queries of a book say.                                         *)
(***************************************************************************)
AsGood(prices, side, p) == {q \in prices : AtLeastAsGood(side, q, p)}

\* The levels in the order of the map: each price once, behind the better ones.
LEMMA BestFirstLemma ==
    ASSUME NEW prices \in SUBSET Int, IsFiniteSet(prices), NEW side \in Sides
    PROVE  /\ Cardinality(prices) \in Nat
           /\ BestFirst(prices, side) \in [1 .. Cardinality(prices) -> prices]
           /\ \A i \in 1 .. Cardinality(prices) :
                 Cardinality({p \in prices : /\ p # BestFirst(prices, side)[i]
                                             /\ AtLeastAsGood(side, p, BestFirst(prices, side)[i])})
                    = i - 1
<1> DEFINE n == Cardinality(prices)
           R == [p \in prices |-> Cardinality(AsGood(prices, side, p))]
<1>1. n \in Nat
  BY FS_CardinalityType
<1>2. ASSUME NEW p \in prices
      PROVE  IsFiniteSet(AsGood(prices, side, p)) /\ R[p] \in 1 .. n
  <2>1. AsGood(prices, side, p) \in SUBSET prices /\ p \in AsGood(prices, side, p)
    BY DEF AsGood, AtLeastAsGood
  <2>2. IsFiniteSet(AsGood(prices, side, p)) /\ Cardinality(AsGood(prices, side, p)) <= n
    BY <2>1, FS_Subset
  <2>3. /\ Cardinality(AsGood(prices, side, p)) \in Nat
        /\ Cardinality(AsGood(prices, side, p)) # 0
    BY <2>1, <2>2, FS_CardinalityType, FS_EmptySet
  <2> QED
    BY <1>1, <2>2, <2>3
<1>3. ASSUME NEW p \in prices, NEW r \in prices, p # r, AtLeastAsGood(side, p, r)
      PROVE  R[p] < R[r]
  <2>1. /\ AsGood(prices, side, p) \in SUBSET AsGood(prices, side, r)
        /\ r \in AsGood(prices, side, r)
        /\ r \notin AsGood(prices, side, p)
    <3>1. p \in Int /\ r \in Int
      OBVIOUS
    <3>2. ASSUME NEW q \in prices, AtLeastAsGood(side, q, p)
          PROVE  AtLeastAsGood(side, q, r)
      <4>1. q \in Int
        OBVIOUS
      <4> QED
        BY <1>3, <3>1, <3>2, <4>1 DEF AtLeastAsGood
    <3>3. AtLeastAsGood(side, r, r) /\ ~AtLeastAsGood(side, r, p)
      BY <1>3, <3>1 DEF AtLeastAsGood
    <3> QED
      BY <3>2, <3>3 DEF AsGood
  <2>2. /\ IsFiniteSet(AsGood(prices, side, r))
        /\ R[p] = Cardinality(AsGood(prices, side, p))
        /\ R[r] = Cardinality(AsGood(prices, side, r))
        /\ R[p] \in 1 .. n /\ R[r] \in 1 .. n
    BY <1>2
  <2>3. R[p] <= R[r] /\ R[p] # R[r]
    BY <2>1, <2>2, FS_Subset
  <2> QED
    BY <1>1, <2>2, <2>3
<1>4. \A p, r \in prices : AtLeastAsGood(side, p, r) \/ AtLeastAsGood(side, r, p)
  BY DEF AtLeastAsGood
<1>5. \A p, r \in prices : R[p] = R[r] => p = r
  BY <1>1, <1>2, <1>3, <1>4
<1>6. R \in [prices -> 1 .. n]
  BY <1>2
<1>7. \A p \in prices : R[p] = Cardinality(AsGood(prices, side, p))
  OBVIOUS
<1> HIDE DEF R
<1>8. R \in Injection(prices, 1 .. n)
  BY <1>5, <1>6 DEF Injection, IsInjective
<1>9. IsFiniteSet(1 .. n) /\ Cardinality(1 .. n) = n
  BY <1>1, FS_Interval
<1>10. R \in Surjection(prices, 1 .. n)
  BY <1>8, <1>9, FS_Injection
<1> DEFINE b == BestFirst(prices, side)
<1>11. ASSUME NEW i \in 1 .. n
       PROVE  b[i] \in prices /\ Cardinality(AsGood(prices, side, b[i])) = i
  <2>1. \E p \in prices : Cardinality(AsGood(prices, side, p)) = i
    BY <1>7, <1>10 DEF Surjection
  <2>2. b[i] = CHOOSE p \in prices : Cardinality(AsGood(prices, side, p)) = i
    BY DEF BestFirst, AsGood
  <2> HIDE DEF b
  <2> QED
    BY <2>1, <2>2
<1>12. b = [i \in 1 .. n |-> b[i]]
  BY DEF BestFirst
<1> HIDE DEF b
<1>13. ASSUME NEW i \in 1 .. n
       PROVE  Cardinality({p \in prices : p # b[i] /\ AtLeastAsGood(side, p, b[i])}) = i - 1
  <2> DEFINE c == b[i]
             S == AsGood(prices, side, c)
  <2>1. c \in prices /\ Cardinality(S) = i
    BY <1>11
  <2> HIDE DEF c
  <2>2. IsFiniteSet(S) /\ c \in Int
    BY <1>2, <2>1
  <2>3. c \in S
    BY <2>1, <2>2 DEF AsGood, AtLeastAsGood
  <2>4. {p \in prices : p # c /\ AtLeastAsGood(side, p, c)} = S \ {c}
    BY DEF AsGood
  <2> HIDE DEF S
  <2>5. Cardinality({p \in prices : p # c /\ AtLeastAsGood(side, p, c)}) = i - 1
    BY <2>1, <2>2, <2>3, <2>4, FS_RemoveElement
  <2> QED
    BY <2>5 DEF c
<1> QED
  BY <1>1, <1>11, <1>12, <1>13 DEF b

\* The orders of a level are those that the lookup finds at its price.
LEMMA LevelLemma ==
    ASSUME BooksOK, NEW symbol \in Symbols, NEW side \in Sides,
           NEW price \in DOMAIN order_books[symbol].orders[side]
    PROVE  LET list == order_books[symbol].orders[side][price]
               live == LiveAt(symbol, side, price)
               total == LiveTotal(symbol, side, price)
           IN  /\ IsFiniteSet(live) /\ Cardinality(live) = Len(list)
               /\ total \in Nat /\ total > 0
               /\ LevelTotal(list, mem) = total % QuantityModulus
               /\ \A i \in DOMAIN list : remaining_qty(mem[list[i]]) \in 1 .. total
<1> DEFINE book == order_books[symbol]
           list == book.orders[side][price]
           live == LiveAt(symbol, side, price)
           S == DOMAIN list
           h == [i \in S |-> mem[list[i]].id]
           f == [id \in live |-> remaining_qty(mem[book.lookup[id]])]
           g == [i \in S |-> remaining_qty(mem[list[i]])]
<1>1. ConsistentBook(book, mem, symbol)
  BY DEF BooksOK
<1>2. list \in Seq(Pool) /\ list # << >>
  BY <1>1 DEF ConsistentBook, IsBook, IsPartialFunction, HasNoEmptyLevel
<1>3. /\ NoDuplicates(list)
      /\ \A i \in S : NodeIsFound(book, mem[list[i]], list[i], symbol, side, price)
  BY <1>1 DEF ConsistentBook, NodesAreFound
<1>4. \A i \in S : list[i] \in Pool /\ Listed(book, list[i])
  BY <1>2 DEF Listed
<1>5. ASSUME NEW i \in S
      PROVE  remaining_qty(mem[list[i]]) \in Nat /\ remaining_qty(mem[list[i]]) > 0
  <2> DEFINE order == mem[list[i]]
  <2>1. order.quantity_filled < order.quantity /\ order \in Order
    BY <1>3, <1>4, <1>5 DEF BooksOK, NodeIsFound
  <2> HIDE DEF order
  <2>2. order.quantity_filled \in Nat /\ order.quantity \in Nat
    BY <2>1, QuantityModulusAssumption DEF Order, Quantities
  <2>3. remaining_qty(order) = order.quantity - order.quantity_filled
    BY <2>1, <2>2 DEF remaining_qty, Minus
  <2>4. remaining_qty(order) \in Nat /\ remaining_qty(order) > 0
    BY <2>1, <2>2, <2>3
  <2> QED
    BY <2>4 DEF order
<1>6. \A i \in S : h[i] \in live /\ book.lookup[h[i]] = list[i] /\ h[i] = mem[list[i]].id
  BY <1>3 DEF NodeIsFound, LiveAt
<1>7. ASSUME NEW i \in S, NEW j \in S, h[i] = h[j]
      PROVE  i = j
  <2>1. list[i] = list[j]
    BY <1>6, <1>7
  <2> QED
    BY <1>3, <2>1 DEF NoDuplicates
<1>8. ASSUME NEW id \in live
      PROVE  \E i \in S : h[i] = id
  <2>1. /\ id \in DOMAIN book.lookup
        /\ mem[book.lookup[id]].side = side /\ mem[book.lookup[id]].price = price
    BY <1>8 DEF LiveAt
  <2>2. EntryIsListed(book, mem, id)
    BY <1>1, <2>1 DEF ConsistentBook, EntriesAreListed
  <2>3. mem[book.lookup[id]].id = id /\ \E i \in S : list[i] = book.lookup[id]
    BY <2>1, <2>2 DEF EntryIsListed, InStack
  <2> QED
    BY <1>6, <2>3
<1>9. /\ DOMAIN h = S /\ DOMAIN f = live /\ DOMAIN g = S
      /\ \A i \in S : f[h[i]] = remaining_qty(mem[list[i]]) /\ g[i] = f[h[i]]
  BY <1>6
<1>10. SumFunction(g) = SumFunctionOnSet(g, S) /\ LiveTotal(symbol, side, price) = SumFunctionOnSet(f, live)
       /\ LevelTotal(list, mem) = SumFunctionOnSet(g, S) % QuantityModulus
  BY <1>9 DEF SumFunction, LiveTotal, LevelTotal, TotalOf
<1>11. h \in [S -> live]
  BY <1>6
<1>12. S = 1 .. Len(list) /\ Len(list) \in Nat /\ IsFiniteSet(S) /\ Cardinality(S) = Len(list)
       /\ 1 \in S
  <2>1. S = 1 .. Len(list) /\ Len(list) \in Nat /\ Len(list) # 0
    BY <1>2
  <2>2. IsFiniteSet(1 .. Len(list)) /\ Cardinality(1 .. Len(list)) = Len(list)
    BY <2>1, FS_Interval
  <2> QED
    BY <2>1, <2>2
<1>13. live = {h[i] : i \in S}
  BY <1>6, <1>8
<1> HIDE DEF h, f, g, live, S, list, book
<1>14. NatOn(f, live)
  BY <1>5, <1>8, <1>9 DEF NatOn
<1>15. IsFiniteSet(live) /\ SumFunctionOnSet(f, live) = SumFunctionOnSet(g, S)
  <2>1. \A x, y \in S : h[x] = h[y] => x = y
    BY <1>7
  <2>2. \A x \in S : g[x] = f[h[x]]
    BY <1>9
  <2>3. live = {h[x] : x \in S} /\ IsFiniteSet(S) /\ NatOn(f, live)
    BY <1>12, <1>13, <1>14
  <2> QED
    BY <2>1, <2>2, <2>3, SumImage
<1>16. ExistsBijection(S, live)
  <2>1. h \in Bijection(S, live)
    BY <1>7, <1>8, <1>11 DEF Bijection, Injection, Surjection, IsInjective
  <2> QED
    BY <2>1 DEF ExistsBijection
<1>17. Cardinality(live) = Len(list)
  BY <1>12, <1>16, FS_Bijection
<1>18. SumFunctionOnSet(f, live) \in Nat
  BY <1>14, <1>15, SumType
<1>19. ASSUME NEW i \in S
       PROVE  remaining_qty(mem[list[i]]) \in 1 .. SumFunctionOnSet(f, live)
  <2>1. f[h[i]] <= SumFunctionOnSet(f, live)
    BY <1>6, <1>14, <1>15, SumAtLeast
  <2> QED
    BY <1>5, <1>9, <1>18, <2>1
<1>20. SumFunctionOnSet(f, live) > 0
  BY <1>12, <1>18, <1>19
<1> QED
  BY <1>10, <1>15, <1>17, <1>18, <1>19, <1>20 DEF live, list, S, book

\* There is a level at every price at which the lookup finds an order.
LEMMA LivePricesLemma ==
    ASSUME BooksOK, NEW symbol \in Symbols, NEW side \in Sides
    PROVE  /\ LivePrices(symbol, side) = DOMAIN order_books[symbol].orders[side]
           /\ IsFiniteSet(DOMAIN order_books[symbol].orders[side])
           /\ DOMAIN order_books[symbol].orders[side] \in SUBSET Int
<1> DEFINE book == order_books[symbol]
           levels == book.orders[side]
<1>1. ConsistentBook(book, mem, symbol)
  BY DEF BooksOK
<1>2. ASSUME NEW price \in DOMAIN levels
      PROVE  price \in LivePrices(symbol, side)
  <2> DEFINE list == levels[price]
  <2>1. list \in Seq(Pool) /\ list # << >>
    BY <1>1 DEF ConsistentBook, IsBook, IsPartialFunction, HasNoEmptyLevel
  <2>2. NodeIsFound(book, mem[list[1]], list[1], symbol, side, price)
    BY <1>1, <2>1 DEF ConsistentBook, NodesAreFound
  <2> HIDE DEF list
  <2> QED
    BY <2>2 DEF NodeIsFound, LivePrices
<1>3. ASSUME NEW price \in LivePrices(symbol, side)
      PROVE  price \in DOMAIN levels
  <2>1. PICK id \in DOMAIN book.lookup :
           mem[book.lookup[id]].side = side /\ price = mem[book.lookup[id]].price
    BY <1>3 DEF LivePrices
  <2>2. EntryIsListed(book, mem, id)
    BY <1>1 DEF ConsistentBook, EntriesAreListed
  <2> QED
    BY <2>1, <2>2 DEF EntryIsListed
<1>4. \A price \in DOMAIN levels : price \in Int /\ 0 <= price /\ price <= MaxPrice
  BY BoundedLemma DEF PricesBounded
<1>5. DOMAIN levels \in SUBSET (0 .. MaxPrice) /\ IsFiniteSet(0 .. MaxPrice)
  BY <1>4, EngineAssumption, FS_Interval
<1>6. IsFiniteSet(DOMAIN levels)
  BY <1>5, FS_Subset
<1> QED
  BY <1>2, <1>3, <1>4, <1>6

\* The L2 quote.
LEMMA QuoteMatches ==
    ASSUME BooksOK, NEW symbol \in Symbols, NEW side \in Sides, NEW depth \in Nat
    PROVE  QuoteMatchesLiveOrders(symbol, side, depth)
<1> DEFINE book   == order_books[symbol]
           levels == book.orders[side]
           prices == DOMAIN levels
           n      == Cardinality(prices)
           b      == BestFirst(prices, side)
           quote  == getL2Quote(book, mem, depth)[side]
           least  == Min({depth, n})
<1>1. LivePrices(symbol, side) = prices /\ IsFiniteSet(prices) /\ prices \in SUBSET Int
  BY LivePricesLemma
<1>2. \A price \in prices :
         /\ LiveTotal(symbol, side, price) \in Nat /\ LiveTotal(symbol, side, price) > 0
         /\ LevelTotal(levels[price], mem) = LiveTotal(symbol, side, price) % QuantityModulus
  BY LevelLemma
<1> HIDE DEF prices
<1>3. /\ n \in Nat /\ b \in [1 .. n -> prices]
      /\ \A i \in 1 .. n :
            Cardinality({p \in prices : p # b[i] /\ AtLeastAsGood(side, p, b[i])}) = i - 1
  BY <1>1, BestFirstLemma
<1>4. Len(b) = n
  BY <1>3
<1> HIDE DEF b, n
<1>5. least \in Nat /\ least <= n
  BY <1>3, MinLemma
<1>6. quote = [i \in 1 .. least |-> << b[i], [price \in prices |-> LevelTotal(levels[price], mem)][b[i]] >>]
  BY <1>4 DEF getL2Quote, b, prices
<1> HIDE DEF least, quote
<1>7. ASSUME NEW i \in 1 .. least
      PROVE  b[i] \in prices /\ quote[i] = << b[i], LevelTotal(levels[b[i]], mem) >> /\ i \in 1 .. n
  <2>1. i \in 1 .. n
    BY <1>3, <1>5
  <2>2. b[i] \in prices
    BY <1>3, <2>1
  <2> QED
    BY <1>6, <2>1, <2>2
<1>8. Len(quote) = least /\ DOMAIN quote = 1 .. least
  BY <1>5, <1>6
<1>9. ASSUME NEW i \in 1 .. least
      PROVE  /\ quote[i][1] \in prices
             /\ LiveTotal(symbol, side, quote[i][1]) > 0
             /\ quote[i][2] = LiveTotal(symbol, side, quote[i][1]) % QuantityModulus
             /\ Cardinality({p \in prices :
                    p # quote[i][1] /\ AtLeastAsGood(side, p, quote[i][1])}) = i - 1
  <2>1. quote[i][1] = b[i] /\ quote[i][2] = LevelTotal(levels[b[i]], mem)
    BY <1>7
  <2> QED
    BY <1>2, <1>3, <1>7, <2>1
<1> QED
  BY <1>1, <1>8, <1>9 DEF QuoteMatchesLiveOrders, quote, least, n

\* The L1 quote.
LEMMA BestIsQuoted ==
    ASSUME BooksOK, NEW symbol \in Symbols, NEW side \in Sides
    PROVE  LET book  == order_books[symbol]
               l1    == getL1Quote(book, mem)[side]
               quote == getL2Quote(book, mem, 1)[side]
           IN  /\ quote = << >> => l1 = << 0, 0 >>
               /\ quote # << >> =>
                     /\ l1[1] = quote[1][1]
                     /\ l1[2] \in 1 .. LiveTotal(symbol, side, l1[1])
<1> DEFINE book   == order_books[symbol]
           levels == book.orders[side]
           prices == DOMAIN levels
           best   == getBest(book, side)
           l1     == getL1Quote(book, mem)[side]
           quote  == getL2Quote(book, mem, 1)[side]
<1>1. ConsistentBook(book, mem, symbol) /\ PricesBounded(book)
  BY BoundedLemma DEF BooksOK
<1>2. /\ best = NoSlot <=> prices = {}
      /\ best # NoSlot =>
            /\ Listed(book, best)
            /\ mem[best].side = side
            /\ \A q \in prices : AtLeastAsGood(side, mem[best].price, q)
  BY <1>1, BestLemma
<1>3. l1 = IF best = NoSlot THEN << 0, 0 >> ELSE << mem[best].price, remaining_qty(mem[best]) >>
  BY DEF getL1Quote
<1>4. /\ LivePrices(symbol, side) = prices
      /\ IsFiniteSet(prices)
      /\ prices \in SUBSET Int
  BY LivePricesLemma
<1>5. QuoteMatchesLiveOrders(symbol, side, 1)
  BY QuoteMatches
<1>6. /\ Len(quote) = Min({1, Cardinality(prices)})
      /\ \A i \in DOMAIN quote :
            /\ quote[i][1] \in prices
            /\ Cardinality({p \in prices :
                  p # quote[i][1] /\ AtLeastAsGood(side, p, quote[i][1])}) = i - 1
  BY <1>4, <1>5 DEF QuoteMatchesLiveOrders
<1>7. /\ quote = [i \in 1 .. Min({1, Len(BestFirst(prices, side))}) |-> quote[i]]
      /\ Len(BestFirst(prices, side)) = Cardinality(prices)
      /\ Cardinality(prices) \in Nat
  <2>1. /\ Cardinality(prices) \in Nat
        /\ BestFirst(prices, side) \in [1 .. Cardinality(prices) -> prices]
    BY <1>4, BestFirstLemma
  <2> QED
    BY <2>1 DEF getL2Quote
<1> DEFINE n == Cardinality(prices)
           least == Min({1, n})
<1>8. n \in Nat /\ least = IF 1 <= n THEN 1 ELSE n
  BY <1>7, MinLemma
<1>9. n = 0 <=> prices = {}
  BY <1>4, FS_EmptySet
<1>10. quote = [i \in 1 .. least |-> quote[i]] /\ Len(quote) = least
  BY <1>6, <1>7
<1> HIDE DEF quote, l1, best, n, least, prices
<1>11. ASSUME quote # << >>
      PROVE  l1[1] = quote[1][1] /\ l1[2] \in 1 .. LiveTotal(symbol, side, l1[1])
  <2>1. 1 \in DOMAIN quote /\ prices # {}
    <3>1. least # 0
      BY <1>11, <1>8, <1>10
    <3>2. least = 1 /\ n # 0
      BY <1>8, <3>1
    <3> QED
      BY <1>9, <1>10, <3>2
  <2> DEFINE first == quote[1][1]
             price == mem[best].price
  <2>2. first \in prices /\ Cardinality({p \in prices : p # first /\ AtLeastAsGood(side, p, first)}) = 0
    <3>1. /\ first \in prices
          /\ Cardinality({p \in prices : p # first /\ AtLeastAsGood(side, p, first)}) = 1 - 1
      BY <1>6, <2>1
    <3> QED
      BY <3>1
  <2> HIDE DEF first
  <2>3. {p \in prices : p # first /\ AtLeastAsGood(side, p, first)} = {}
    <3>1. {p \in prices : p # first /\ AtLeastAsGood(side, p, first)} \in SUBSET prices
      OBVIOUS
    <3> QED
      BY <1>4, <2>2, <3>1, FS_Subset, FS_EmptySet
  <2>4. best # NoSlot /\ Listed(book, best)
    BY <1>2, <2>1
  <2>5. best \in Pool /\ price \in prices
    <3>1. best \in Pool /\ mem[best].price \in DOMAIN book.orders[mem[best].side]
      BY <1>1, <2>4, ListedLemma
    <3> QED
      BY <1>2, <2>4, <3>1 DEF prices
  <2>6. AtLeastAsGood(side, price, first)
    BY <1>2, <2>2, <2>4
  <2>7. price = first
    BY <2>3, <2>5, <2>6
  <2>8. PICK i \in DOMAIN levels[price] : levels[price][i] = best
    <3>1. PICK s \in Sides : \E p \in DOMAIN book.orders[s] :
             \E i \in DOMAIN book.orders[s][p] : book.orders[s][p][i] = best
      BY <2>4 DEF Listed
    <3>2. PICK p \in DOMAIN book.orders[s] :
             \E i \in DOMAIN book.orders[s][p] : book.orders[s][p][i] = best
      BY <3>1
    <3>3. NodeIsFound(book, mem[best], best, symbol, s, p)
      BY <1>1, <3>2 DEF ConsistentBook, NodesAreFound
    <3>4. s = side /\ p = price
      BY <1>2, <2>4, <3>3 DEF NodeIsFound
    <3> QED
      BY <3>2, <3>4
  <2> HIDE DEF price
  <2>9. remaining_qty(mem[best]) \in 1 .. LiveTotal(symbol, side, price)
    <3>1. price \in DOMAIN order_books[symbol].orders[side]
      BY <2>5 DEF prices
    <3>2. \A j \in DOMAIN order_books[symbol].orders[side][price] :
             remaining_qty(mem[order_books[symbol].orders[side][price][j]])
                \in 1 .. LiveTotal(symbol, side, price)
      BY <3>1, LevelLemma
    <3> QED
      BY <2>8, <3>2
  <2>10. l1 = << price, remaining_qty(mem[best]) >>
    BY <1>3, <2>4 DEF price
  <2> QED
    BY <2>7, <2>9, <2>10 DEF first
<1>12. ASSUME quote = << >>
      PROVE  l1 = << 0, 0 >>
  <2>1. prices = {}
    <3>1. least = 0
      BY <1>12, <1>10
    <3> QED
      BY <1>8, <1>9, <3>1
  <2> QED
    BY <1>2, <1>3, <2>1
<1> QED
  BY <1>11, <1>12 DEF quote, l1

LEMMA SpreadIsPositive ==
    ASSUME BooksOK, NEW symbol \in Symbols,
           \A side \in Sides : getBest(order_books[symbol], side) # NoSlot
    PROVE  getSpread(order_books[symbol], mem) > 0
<1> DEFINE book == order_books[symbol]
           bid  == getBest(book, BUY)
           ask  == getBest(book, SELL)
<1>1. ConsistentBook(book, mem, symbol) /\ PricesBounded(book) /\ Uncrossed(book)
  BY BoundedLemma DEF BooksOK
<1>2. BUY \in Sides /\ SELL \in Sides
  BY DEF Sides
<1>3. bid # NoSlot /\ Listed(book, bid) /\ mem[bid].side = BUY
  BY <1>1, <1>2, BestLemma
<1>4. ask # NoSlot /\ Listed(book, ask) /\ mem[ask].side = SELL
  BY <1>1, <1>2, BestLemma
<1>5. mem[bid].price \in DOMAIN book.orders[BUY]
  BY <1>1, <1>3, ListedLemma
<1>6. mem[ask].price \in DOMAIN book.orders[SELL]
  BY <1>1, <1>4, ListedLemma
<1>7. mem[bid].price \in Int /\ mem[ask].price \in Int
  BY <1>1, <1>2, <1>5, <1>6 DEF PricesBounded
<1>8. mem[bid].price < mem[ask].price
  BY <1>1, <1>5, <1>6 DEF Uncrossed
<1>9. getSpread(book, mem) = mem[ask].price - mem[bid].price
  BY <1>3, <1>4 DEF getSpread
<1> QED
  BY <1>7, <1>8, <1>9

-----------------------------------------------------------------------------
(***************************************************************************)
(* How many orders there are.                                              *)
(***************************************************************************)
\* The orders of one side that the lookup finds at one of some prices.
IdsAt(symbol, side, T) == UNION {LiveAt(symbol, side, price) : price \in T}

LEMMA SideCount ==
    ASSUME BooksOK, NEW symbol \in Symbols, NEW side \in Sides
    PROVE  LET ids == {id \in DOMAIN order_books[symbol].lookup :
                          mem[order_books[symbol].lookup[id]].side = side}
           IN  IsFiniteSet(ids) /\ Cardinality(ids) = getSideOrders(order_books[symbol], side)
<1> DEFINE book   == order_books[symbol]
           levels == book.orders[side]
           prices == DOMAIN levels
           len    == [price \in prices |-> Len(levels[price])]
           Ids(T) == IdsAt(symbol, side, T)
           Q      == {T \in SUBSET prices :
                         /\ IsFiniteSet(Ids(T))
                         /\ Cardinality(Ids(T)) = SumFunctionOnSet(len, T)}
           ids    == {id \in DOMAIN book.lookup : mem[book.lookup[id]].side = side}
<1>1. LivePrices(symbol, side) = prices /\ IsFiniteSet(prices)
  BY LivePricesLemma
<1>2. \A price \in prices :
         /\ IsFiniteSet(LiveAt(symbol, side, price))
         /\ Cardinality(LiveAt(symbol, side, price)) = len[price]
  BY LevelLemma
<1>3. NatOn(len, prices)
  BY <1>2, FS_CardinalityType DEF NatOn
<1>4. getSideOrders(book, side) = SumFunctionOnSet(len, prices)
  BY DEF getSideOrders, SumFunction
<1>5. \A p, q : p # q => LiveAt(symbol, side, p) \cap LiveAt(symbol, side, q) = {}
  BY DEF LiveAt
<1>6. Ids(prices) = ids
  <2>1. \A id \in ids : mem[book.lookup[id]].price \in prices
    BY <1>1 DEF LivePrices
  <2>2. ASSUME NEW id \in ids PROVE id \in Ids(prices)
    BY <2>1 DEF IdsAt, LiveAt
  <2>3. ASSUME NEW id \in Ids(prices) PROVE id \in ids
    BY DEF IdsAt, LiveAt
  <2> QED
    BY <2>2, <2>3
<1> HIDE DEF len, prices, ids
<1>7. {} \in Q
  <2>1. Ids({}) = {}
    BY DEF IdsAt
  <2> QED
    BY <2>1, SumEmpty, FS_EmptySet
<1>8. ASSUME NEW T \in SUBSET prices, NEW x \in prices \ T, T \in Q
      PROVE  T \cup {x} \in Q
  <2> DEFINE A == Ids(T)
             B == LiveAt(symbol, side, x)
  <2>1. Ids(T \cup {x}) = A \cup B
    BY DEF IdsAt
  <2>2. A \cap B = {}
    BY <1>5 DEF IdsAt
  <2>3. IsFiniteSet(A) /\ Cardinality(A) = SumFunctionOnSet(len, T)
    BY <1>8
  <2>4. IsFiniteSet(B) /\ Cardinality(B) = len[x]
    BY <1>2
  <2>5. Cardinality(A) \in Nat /\ Cardinality(B) \in Nat
    BY <2>3, <2>4, FS_CardinalityType
  <2> HIDE DEF A, B
  <2>6. IsFiniteSet(A \cup B) /\ Cardinality(A \cup B) = Cardinality(A) + Cardinality(B)
    <3>1. /\ IsFiniteSet(A \cup B)
          /\ Cardinality(A \cup B) = Cardinality(A) + Cardinality(B) - Cardinality(A \cap B)
      BY <2>3, <2>4, FS_Union
    <3>2. Cardinality(A \cap B) = 0
      BY <2>2, FS_EmptySet
    <3> QED
      BY <2>5, <3>1, <3>2
  <2> DEFINE U == T \cup {x}
  <2>7. IsFiniteSet(U) /\ x \in U /\ U \ {x} = T /\ NatOn(len, U)
    <3>1. U \in SUBSET prices
      OBVIOUS
    <3> QED
      BY <1>1, <1>3, <1>8, <3>1, FS_Subset DEF NatOn
  <2> HIDE DEF U
  <2>8. SumFunctionOnSet(len, U) = len[x] + SumFunctionOnSet(len, T)
    BY <2>7, SumAdd
  <2>9. len[x] \in Nat /\ SumFunctionOnSet(len, T) \in Nat
    BY <2>3, <2>4, <2>5
  <2>10. IsFiniteSet(Ids(U)) /\ Cardinality(Ids(U)) = SumFunctionOnSet(len, U)
    <3>1. Ids(U) = A \cup B
      BY <2>1 DEF U
    <3>2. IsFiniteSet(A \cup B) /\ Cardinality(A \cup B) = Cardinality(A) + Cardinality(B)
      BY <2>6
    <3>3. Cardinality(A \cup B) = SumFunctionOnSet(len, U)
      BY <2>3, <2>4, <2>8, <2>9, <3>2
    <3> QED
      BY <3>1, <3>2, <3>3
  <2>11. U \in SUBSET prices
    BY <1>8 DEF U
  <2> HIDE DEF Ids
  <2> QED
    BY <2>10, <2>11 DEF U
<1>9. prices \in Q
  <2> HIDE DEF Q
  <2> QED
    BY <1>1, <1>7, <1>8, AddingInduction
<1>10. IsFiniteSet(Ids(prices)) /\ Cardinality(Ids(prices)) = SumFunctionOnSet(len, prices)
  BY <1>9
<1> HIDE DEF Ids
<1> QED
  BY <1>4, <1>6, <1>10 DEF ids, book

LEMMA CountsAgree ==
    ASSUME BooksOK, NEW symbol \in Symbols
    PROVE  getTotalOrders(order_books[symbol]) =
              getSideOrders(order_books[symbol], BUY) + getSideOrders(order_books[symbol], SELL)
<1> DEFINE book == order_books[symbol]
           Ids(side) == {id \in DOMAIN book.lookup : mem[book.lookup[id]].side = side}
           A == Ids(BUY)
           B == Ids(SELL)
<1>1. BUY \in Sides /\ SELL \in Sides /\ BUY # SELL
  BY DEF Sides, BUY, SELL
<1>2. IsFiniteSet(A) /\ Cardinality(A) = getSideOrders(book, BUY)
  BY <1>1, SideCount
<1>3. IsFiniteSet(B) /\ Cardinality(B) = getSideOrders(book, SELL)
  BY <1>1, SideCount
<1>4. A \cap B = {}
  BY <1>1
<1>5. A \cup B = DOMAIN book.lookup
  <2>1. ASSUME NEW id \in DOMAIN book.lookup
        PROVE  mem[book.lookup[id]].side \in Sides
    <3>1. EntryIsListed(book, mem, id)
      BY DEF BooksOK, ConsistentBook, EntriesAreListed
    <3> QED
      BY <3>1 DEF EntryIsListed, Order
  <2> QED
    BY <2>1 DEF Sides
<1>6. Cardinality(A) \in Nat /\ Cardinality(B) \in Nat
  BY <1>2, <1>3, FS_CardinalityType
<1> HIDE DEF A, B
<1>7. Cardinality(A \cup B) = Cardinality(A) + Cardinality(B)
  <2>1. Cardinality(A \cup B) = Cardinality(A) + Cardinality(B) - Cardinality(A \cap B)
    BY <1>2, <1>3, FS_Union
  <2>2. Cardinality(A \cap B) = 0
    BY <1>4, FS_EmptySet
  <2> QED
    BY <1>6, <2>1, <2>2
<1> QED
  BY <1>2, <1>3, <1>5, <1>7 DEF getTotalOrders

LEMMA QuotesLemma == BooksOK => QuotesMatchLiveOrders
<1> SUFFICES ASSUME BooksOK, NEW symbol \in Symbols
             PROVE  /\ QueriesAgree(symbol)
                    /\ \A side \in Sides, depth \in {1, 2} :
                          QuoteMatchesLiveOrders(symbol, side, depth)
  BY DEF QuotesMatchLiveOrders
<1>1. ASSUME NEW side \in Sides
      PROVE  IF getL2Quote(order_books[symbol], mem, 1)[side] = << >>
             THEN getL1Quote(order_books[symbol], mem)[side] = << 0, 0 >>
             ELSE /\ getL1Quote(order_books[symbol], mem)[side][1]
                        = getL2Quote(order_books[symbol], mem, 1)[side][1][1]
                  /\ getL1Quote(order_books[symbol], mem)[side][2]
                        \in 1 .. LiveTotal(symbol, side, getL1Quote(order_books[symbol], mem)[side][1])
  BY BestIsQuoted
<1>2. QueriesAgree(symbol)
  BY <1>1, SpreadIsPositive, CountsAgree DEF QueriesAgree
<1>3. \A side \in Sides, depth \in {1, 2} : QuoteMatchesLiveOrders(symbol, side, depth)
  BY QuoteMatches
<1> QED
  BY <1>2, <1>3

\* Whatever the book went through, the L2 and L1 quotes, the spread and the
\* counts, which are computed from the lists of the levels, say what the orders
\* say that the lookup can cancel.
THEOREM QuotesAreRight == Spec => []QuotesMatchLiveOrders
<1>1. IInv => QuotesMatchLiveOrders
  BY Regroup, QuotesLemma, IInvIsSafe
<1> QED
  BY <1>1, Invariance, PTL
=============================================================================
