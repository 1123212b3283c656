-------------------------- MODULE MarketDataProofs --------------------------
(***************************************************************************)
(* What the clients are sent: the last snapshot of a symbol is its book,   *)
(* and the last report of an order is what the engine made of it.          *)
(*                                                                         *)
(* A book changes while an order for its symbol is processed, or by a      *)
(* cancel; the quote of every other symbol stays what it is, because an    *)
(* order is in the book of its own symbol and no other.  Then every        *)
(* subscriber is sent a snapshot, the audience being all of them since     *)
(* only logged in clients are subscribed.  A symbol that has no book was   *)
(* shown to nobody.                                                        *)
(*                                                                         *)
(* The handler reports from its own copy of the order, which it reduces by *)
(* the trades that the engine returns; the engine fills the order itself.  *)
(* That both agree when the call has returned is CallOf.                   *)
(***************************************************************************)
EXTENDS GatewayProofs

-----------------------------------------------------------------------------
(***************************************************************************)
(* Sequences of packets.                                                   *)
(***************************************************************************)
\* g flattens the first n of seqs, step by step.
Flattens(seqs, n, g) ==
    g = [i \in 1 .. n |-> IF i = 1 THEN seqs[i] ELSE g[i - 1] \o seqs[i]]

LEMMA FlattenIsChosen ==
    ASSUME NEW seqs, Len(seqs) # 0
    PROVE  FlattenSeq(seqs) = (CHOOSE g : Flattens(seqs, Len(seqs), g))[Len(seqs)]
  BY DEF FlattenSeq, Flattens

LEMMA FlattenExists ==
    ASSUME NEW seqs, NEW n \in Nat
    PROVE  \E g : Flattens(seqs, n, g)
<1> DEFINE Bad == {k \in Nat : ~\E g : Flattens(seqs, k, g)}
<1>1. SUFFICES ASSUME Bad # {} PROVE FALSE
  OBVIOUS
<1>2. PICK k \in Bad : \A j \in Bad : k <= j
  BY <1>1, LeastNatural
<1>3. k \in Nat /\ ~\E g : Flattens(seqs, k, g)
  BY <1>2
<1>4. k # 0
  <2>1. Flattens(seqs, 0, [i \in 1 .. 0 |-> 0])
    BY DEF Flattens
  <2> QED
    BY <1>3, <2>1
<1>5. k - 1 \in Nat /\ k - 1 \notin Bad
  BY <1>2, <1>3, <1>4
<1>6. PICK g : Flattens(seqs, k - 1, g)
  BY <1>5
<1> DEFINE h == [i \in 1 .. k |-> IF i = 1 THEN seqs[i] ELSE g[i - 1] \o seqs[i]]
<1>7. \A i \in 1 .. k - 1 : g[i] = h[i]
  <2>1. \A i \in 1 .. k - 1 : g[i] = IF i = 1 THEN seqs[i] ELSE g[i - 1] \o seqs[i]
    BY <1>6 DEF Flattens
  <2>2. \A i \in 1 .. k : h[i] = IF i = 1 THEN seqs[i] ELSE g[i - 1] \o seqs[i]
    OBVIOUS
  <2>3. \A i \in 1 .. k - 1 : i \in 1 .. k
    BY <1>3
  <2> HIDE DEF h
  <2> QED
    BY <2>1, <2>2, <2>3
<1>8. \A i \in 1 .. k : h[i] = IF i = 1 THEN seqs[i] ELSE h[i - 1] \o seqs[i]
  <2> SUFFICES ASSUME NEW i \in 1 .. k
               PROVE  h[i] = IF i = 1 THEN seqs[i] ELSE h[i - 1] \o seqs[i]
    OBVIOUS
  <2>1. h[i] = IF i = 1 THEN seqs[i] ELSE g[i - 1] \o seqs[i]
    OBVIOUS
  <2>2. i # 1 => i - 1 \in 1 .. k - 1
    BY <1>3
  <2> HIDE DEF h
  <2> QED
    BY <1>7, <2>1, <2>2
<1>9. h = [i \in 1 .. k |-> h[i]]
  OBVIOUS
<1> HIDE DEF h
<1>10. h = [i \in 1 .. k |-> IF i = 1 THEN seqs[i] ELSE h[i - 1] \o seqs[i]]
  BY <1>8, <1>9, Zenon
<1> QED
  BY <1>3, <1>10 DEF Flattens

\* What is put together of sequences over R is one.
LEMMA FlattensType ==
    ASSUME NEW R, NEW seqs, NEW n \in Nat, NEW g, Flattens(seqs, n, g),
           \A i \in 1 .. n : seqs[i] \in Seq(R)
    PROVE  \A k \in 1 .. n : g[k] \in Seq(R)
<1> DEFINE Bad == {k \in Nat : k \in 1 .. n /\ g[k] \notin Seq(R)}
<1>1. SUFFICES ASSUME Bad # {} PROVE FALSE
  OBVIOUS
<1>2. PICK k \in Bad : \A j \in Bad : k <= j
  BY <1>1, LeastNatural
<1>3. k \in 1 .. n /\ g[k] \notin Seq(R)
      /\ g[k] = IF k = 1 THEN seqs[k] ELSE g[k - 1] \o seqs[k]
  BY <1>2 DEF Flattens
<1>4. CASE k = 1
  BY <1>3, <1>4
<1>5. CASE k # 1
  <2>1. k - 1 \in 1 .. n /\ k - 1 \notin Bad
    BY <1>2, <1>3, <1>5
  <2>2. g[k - 1] \in Seq(R) /\ seqs[k] \in Seq(R)
    BY <1>3, <2>1
  <2> DEFINE a == g[k - 1]
             b == seqs[k]
  <2>3. a \in Seq(R) /\ b \in Seq(R)
    BY <2>2
  <2> HIDE DEF a, b
  <2>4. a \o b \in Seq(R)
    BY <2>3
  <2> QED
    BY <1>3, <1>5, <2>4 DEF a, b
<1> QED
  BY <1>4, <1>5

LEMMA FlattenType ==
    ASSUME NEW R, NEW seqs, Len(seqs) \in Nat, Len(seqs) # 0,
           \A i \in 1 .. Len(seqs) : seqs[i] \in Seq(R)
    PROVE  FlattenSeq(seqs) \in Seq(R)
<1> DEFINE n == Len(seqs)
<1>1. PICK g : Flattens(seqs, n, g) /\ FlattenSeq(seqs) = g[n]
  BY FlattenIsChosen, FlattenExists
<1>2. n \in 1 .. n
  OBVIOUS
<1>3. \A k \in 1 .. n : g[k] \in Seq(R)
  BY <1>1, FlattensType
<1> QED
  BY <1>1, <1>2, <1>3

\* A finite set as a sequence: every element, each at one place.
LEMMA SetToSeqLemma ==
    ASSUME NEW S, IsFiniteSet(S)
    PROVE  /\ Cardinality(S) \in Nat
           /\ SetToSeq(S) \in [1 .. Cardinality(S) -> S]
           /\ \A x \in S : \E i \in 1 .. Cardinality(S) :
                 /\ SetToSeq(S)[i] = x
                 /\ \A j \in 1 .. Cardinality(S) : SetToSeq(S)[j] = x => j = i
<1> DEFINE n == Cardinality(S)
           f == SetToSeq(S)
<1>1. n \in Nat /\ ExistsBijection(1 .. n, S)
  BY FS_CardinalityType
<1>2. PICK g : g \in Bijection(1 .. n, S)
  BY <1>1 DEF ExistsBijection
<1>3. g \in [1 .. n -> S] /\ IsInjective(g)
  BY <1>2 DEF Bijection, Injection
<1>4. f \in [1 .. n -> S] /\ IsInjective(f)
  BY <1>3 DEF SetToSeq
<1> HIDE DEF f
<1>5. f \in Injection(1 .. n, S)
  BY <1>4 DEF Injection
<1>6. IsFiniteSet(1 .. n) /\ Cardinality(1 .. n) = n
  BY <1>1, FS_Interval
<1>7. f \in Surjection(1 .. n, S)
  BY <1>5, <1>6, FS_Injection
<1>8. \A x \in S : \E i \in 1 .. n : f[i] = x
  BY <1>7 DEF Surjection
<1>9. \A i, j \in 1 .. n : f[i] = f[j] => i = j
  BY <1>4 DEF IsInjective
<1> QED
  BY <1>1, <1>4, <1>8, <1>9 DEF f

-----------------------------------------------------------------------------
(***************************************************************************)
(* Quotes.                                                                 *)
(***************************************************************************)
Quote(symbol) == getL2Quote(order_books[symbol], mem, SnapshotDepth)

\* A quote is made of the orders that are listed.
LEMMA QuoteLemma ==
    ASSUME NEW book, NEW m, NEW n, NEW depth,
           \A side \in Sides : \A price \in DOMAIN book.orders[side] :
              \A i \in DOMAIN book.orders[side][price] :
                 m[book.orders[side][price][i]] = n[book.orders[side][price][i]]
    PROVE  getL2Quote(book, m, depth) = getL2Quote(book, n, depth)
<1>1. ASSUME NEW side \in Sides
      PROVE  [price \in DOMAIN book.orders[side] |-> LevelTotal(book.orders[side][price], m)]
               = [price \in DOMAIN book.orders[side] |-> LevelTotal(book.orders[side][price], n)]
  <2>1. ASSUME NEW price \in DOMAIN book.orders[side]
        PROVE  LevelTotal(book.orders[side][price], m) = LevelTotal(book.orders[side][price], n)
    <3> DEFINE list == book.orders[side][price]
    <3>1. \A i \in DOMAIN list : m[list[i]] = n[list[i]]
      BY <1>1, <2>1
    <3> HIDE DEF list
    <3>2. [i \in DOMAIN list |-> remaining_qty(m[list[i]])]
            = [i \in DOMAIN list |-> remaining_qty(n[list[i]])]
      BY <3>1
    <3>3. LevelTotal(list, m) = LevelTotal(list, n)
      BY <3>2 DEF LevelTotal
    <3> QED
      BY <3>3 DEF list
  <2> QED
    BY <2>1
<1> DEFINE T(side, memory) ==
              [price \in DOMAIN book.orders[side] |-> LevelTotal(book.orders[side][price], memory)]
           P(side) == BestFirst(DOMAIN book.orders[side], side)
           L(side, totals) ==
              [i \in 1 .. Min({depth, Len(P(side))}) |-> << P(side)[i], totals[P(side)[i]] >>]
<1>2. \A side \in Sides : T(side, m) = T(side, n)
  BY <1>1
<1>3. /\ getL2Quote(book, m, depth) = [side \in Sides |-> L(side, T(side, m))]
      /\ getL2Quote(book, n, depth) = [side \in Sides |-> L(side, T(side, n))]
  BY DEF getL2Quote
<1> HIDE DEF T, L
<1> QED
  BY <1>2, <1>3

\* No slot of the book of a symbol is touched.
BookIsLeft(symbol) ==
    /\ order_books'[symbol] = order_books[symbol]
    /\ \A slot \in Pool : Listed(order_books[symbol], slot) => mem'[slot] = mem[slot]

LEMMA QuoteKept ==
    ASSUME SafeInv, NEW symbol \in Symbols, BookIsLeft(symbol)
    PROVE  Quote(symbol)' = Quote(symbol)
<1> DEFINE book == order_books[symbol]
<1>1. IsBook(book)
  BY DEF SafeInv, TypeOK
<1>2. ASSUME NEW side \in Sides, NEW price \in DOMAIN book.orders[side],
             NEW i \in DOMAIN book.orders[side][price]
      PROVE  mem'[book.orders[side][price][i]] = mem[book.orders[side][price][i]]
  <2>1. book.orders[side][price] \in Seq(Pool)
    BY <1>1, <1>2 DEF IsBook, IsPartialFunction
  <2>2. book.orders[side][price][i] \in Pool
    BY <1>2, <2>1
  <2>3. Listed(book, book.orders[side][price][i])
    BY <1>2 DEF Listed
  <2> QED
    BY <2>2, <2>3 DEF BookIsLeft
<1> DEFINE next == mem'
           last == mem
<1>3. \A side \in Sides : \A price \in DOMAIN book.orders[side] :
         \A i \in DOMAIN book.orders[side][price] :
            next[book.orders[side][price][i]] = last[book.orders[side][price][i]]
  BY <1>2
<1> HIDE DEF book, next, last
<1>4. getL2Quote(book, next, SnapshotDepth) = getL2Quote(book, last, SnapshotDepth)
  BY <1>3, QuoteLemma
<1>5. order_books'[symbol] = book
  BY DEF BookIsLeft, book
<1> QED
  BY <1>4, <1>5 DEF Quote, book, next, last, SnapshotDepth

\* An order that arrives is in no book yet.
LEMMA ArrivalLeaves ==
    ASSUME SafeInv, NEW request \in OrderRequest, ProcessNewOrder(request)
    PROVE  /\ \A symbol \in Symbols : BookIsLeft(symbol)
           /\ created \subseteq created'
           /\ ~Idle' => mem'[taker'].symbol = request.symbol
<1>1. order_books' = order_books /\ created \subseteq created'
  BY DEF ProcessNewOrder, RejectPoolExhausted, RejectInvalid, KillFok, BeginMatching,
         Valid, Receive
<1> DEFINE slot == allocated(free_indices)
<1>2. mem' = mem \/ (mem' = [mem EXCEPT ![slot] = NewOrder(request, clock)] /\ slot # NoSlot)
  BY DEF ProcessNewOrder, RejectPoolExhausted, RejectInvalid, KillFok, BeginMatching,
         Valid, Receive
<1>3. ASSUME slot # NoSlot
      PROVE  slot \in Pool /\ IsFree(slot)
  <2>1. free_indices # << >>
    BY <1>3 DEF allocated
  <2>2. free_indices \in Seq(Pool) /\ NoDuplicates(free_indices)
    BY DEF SafeInv, TypeOK, PoolSafety
  <2> QED
    BY <2>1, <2>2, AllocateLemma DEF IsFree
<1>4. \A s \in Pool : \A symbol \in Symbols :
         Listed(order_books[symbol], s) => ~IsFree(s)
  BY DEF SafeInv, PoolSafety
<1>5. mem \in [Pool -> Order \cup {Blank}]
  BY DEF SafeInv, TypeOK
<1> HIDE DEF slot
<1>6. \A symbol \in Symbols : BookIsLeft(symbol)
  BY <1>1, <1>2, <1>3, <1>4, <1>5 DEF BookIsLeft
<1>7. ASSUME ~Idle'
      PROVE  mem'[taker'].symbol = request.symbol
  <2>1. taker' = slot /\ slot # NoSlot /\ mem' = [mem EXCEPT ![slot] = NewOrder(request, clock)]
    BY <1>7 DEF Idle, ProcessNewOrder, RejectPoolExhausted, RejectInvalid, KillFok,
                BeginMatching, Valid, Receive, slot
  <2>2. mem'[slot] = NewOrder(request, clock)
    BY <1>3, <1>5, <2>1 DEF slot
  <2> QED
    BY <2>1, <2>2 DEF NewOrder
<1> QED
  BY <1>1, <1>6, <1>7

\* A match and its end are the business of one book.
LEMMA EngineLeaves ==
    ASSUME SafeInv, EngineStep
    PROVE  /\ \A symbol \in Symbols : symbol # mem[taker].symbol => BookIsLeft(symbol)
           /\ created' = created
           /\ ~Idle /\ (~Idle' => mem'[taker'].symbol = mem[taker].symbol)
<1>1. StateOK /\ BooksOK
  BY Regroup
<1>2. DOMAIN order_books = Symbols
  BY DEF SafeInv, TypeOK
<1>3. CASE MatchStep
  <2>1. /\ taker' = taker /\ created' = created /\ ~Idle /\ Maker # NoSlot
        /\ \/ order_books' = order_books
           \/ order_books' = [order_books EXCEPT ![mem[taker].symbol] =
                                 cancel_order(@, mem', mem'[Maker].id)]
    BY <1>3 DEF MatchStep, RemoveIfFilled, Matching
  <2>2. /\ \A s \in Pool : s # taker /\ s # Maker => mem'[s] = mem[s]
        /\ mem'[taker] = [mem[taker] EXCEPT !.quantity_filled =
                             mem[taker].quantity_filled + TradeQuantity]
    BY <1>3, MatchLemma
  <2>3. mem[taker] \in Order /\ mem[Maker].symbol = mem[taker].symbol
    BY <2>1, MakerLemma DEF Idle
  <2>4. mem'[taker].symbol = mem[taker].symbol
    BY <2>2, <2>3 DEF Order
  <2>5. ASSUME NEW symbol \in Symbols, symbol # mem[taker].symbol
        PROVE  BookIsLeft(symbol)
    <3>1. order_books'[symbol] = order_books[symbol]
      BY <1>2, <2>1, <2>5
    <3>2. ASSUME NEW slot \in Pool, Listed(order_books[symbol], slot)
          PROVE  slot # taker /\ slot # Maker
      <4>1. slot # taker /\ ConsistentBook(order_books[symbol], mem, symbol)
        BY <1>1, <3>2 DEF BooksOK
      <4>2. mem[slot].symbol = symbol
        BY <3>2, <4>1, ListedLemma
      <4> QED
        BY <2>3, <2>5, <4>1, <4>2
    <3> QED
      BY <2>2, <3>1, <3>2 DEF BookIsLeft
  <2> QED
    BY <2>1, <2>4, <2>5
<1>4. CASE FinishOrder
  <2>1. /\ taker' = NoSlot /\ created' = created /\ ~Idle /\ mem' = mem
        /\ \/ order_books' = order_books
           \/ order_books' = [order_books EXCEPT ![mem[taker].symbol] =
                                 add_order(@, mem, taker)]
    BY <1>4 DEF FinishOrder, ReturnFilled, ReturnIOC, ReturnMarket, ReturnResting, Return
  <2>2. \A symbol \in Symbols : symbol # mem[taker].symbol => BookIsLeft(symbol)
    BY <1>2, <2>1 DEF BookIsLeft
  <2> QED
    BY <2>1, <2>2 DEF Idle
<1> QED
  BY <1>3, <1>4 DEF EngineStep

LEMMA CancelLeaves ==
    ASSUME SafeInv, NEW id, NEW s, CancelOrder(id, s)
    PROVE  /\ \A symbol \in Symbols : symbol # s => BookIsLeft(symbol)
           /\ created' = created \cup {s}
<1>1. DOMAIN order_books = Symbols
  BY DEF SafeInv, TypeOK
<1>2. /\ mem' = mem /\ created' = created \cup {s}
      /\ order_books' = [order_books EXCEPT ![s] = cancel_order(@, mem, id)]
  BY DEF CancelOrder
<1> QED
  BY <1>1, <1>2 DEF BookIsLeft

-----------------------------------------------------------------------------
(***************************************************************************)
(* What is sent, and what is known from it.                                *)
(***************************************************************************)
NoSnapshots(packets) ==
    \A i \in DOMAIN packets : packets[i].type # "MARKET_DATA_SNAPSHOT"

LEMMA ShownLemma ==
    ASSUME NEW packets, SendPackets(packets), NEW fd \in Fds, NEW symbol \in Symbols
    PROVE  /\ DOMAIN shown' = Fds
           /\ fd \notin subscriptions'[symbol] => shown'[fd][symbol] = << >>
           /\ SnapshotsIn(packets, fd, symbol) = {} =>
                 shown'[fd][symbol] = IF fd \in subscriptions'[symbol]
                                      THEN shown[fd][symbol] ELSE << >>
           /\ \A k \in Nat :
                 SnapshotsIn(packets, fd, symbol) = {k} =>
                    shown'[fd][symbol] = IF fd \in subscriptions'[symbol]
                                         THEN << packets[k].quote >> ELSE << >>
<1>1. shown' = ShownAfter(packets)
  BY DEF SendPackets
<1>2. shown'[fd][symbol] =
         IF fd \notin subscriptions'[symbol] THEN << >>
         ELSE IF SnapshotsIn(packets, fd, symbol) = {} THEN shown[fd][symbol]
         ELSE << packets[Max(SnapshotsIn(packets, fd, symbol))].quote >>
  BY <1>1 DEF ShownAfter
<1>3. \A k \in Nat : Max({k}) = k
  BY DEF Max
<1> QED
  BY <1>1, <1>2, <1>3 DEF ShownAfter

\* The audience of a broadcast is the subscribers, and it is finite.
LEMMA AudienceLemma ==
    ASSUME ServerInv, NEW symbol
    PROVE  /\ IsFiniteSet(Audience(symbol))
           /\ symbol \in Symbols => Audience(symbol) = subscriptions[symbol]
<1>1. /\ clients \in Seq(Fds) /\ DOMAIN sessions = Polled /\ SubscribersAreLoggedIn
  BY DEF ServerInv, ServerTypes
<1> DEFINE n == Len(clients)
<1>2. n \in Nat /\ DOMAIN clients = 1 .. n
  BY <1>1
<1>3. clients \in Surjection(1 .. n, Polled)
  <2>1. clients = [i \in 1 .. n |-> clients[i]] /\ \A i \in 1 .. n : clients[i] \in Polled
    BY <1>1, <1>2 DEF Polled
  <2>2. clients \in [1 .. n -> Polled]
    BY <2>1
  <2>3. \A fd \in Polled : \E i \in 1 .. n : clients[i] = fd
    BY <1>2 DEF Polled
  <2> QED
    BY <2>2, <2>3 DEF Surjection
<1>4. IsFiniteSet(1 .. n)
  BY <1>2, FS_Interval
<1>5. IsFiniteSet(Polled)
  BY <1>3, <1>4, FS_Surjection
<1>6. Audience(symbol) \in SUBSET Polled
  BY <1>1 DEF Audience
<1>7. IsFiniteSet(Audience(symbol))
  BY <1>5, <1>6, FS_Subset
<1>8. symbol \in Symbols => Audience(symbol) = subscriptions[symbol]
  BY <1>1 DEF Audience, SubscribersAreLoggedIn
<1> QED
  BY <1>7, <1>8

\* A broadcast is a snapshot for each of them.
LEMMA BroadcastLemma ==
    ASSUME ServerInv, NEW symbol, symbol \in created'
    PROVE  \E n \in Nat : \E a \in [1 .. n -> Audience(symbol)] :
              /\ broadcastMarketData(symbol) =
                    [i \in 1 .. n |-> Snapshot(a[i], symbol, order_books', mem')]
              /\ \A fd \in Audience(symbol) : \E i \in 1 .. n :
                    a[i] = fd /\ \A j \in 1 .. n : a[j] = fd => j = i
<1> DEFINE S == Audience(symbol)
           n == Cardinality(S)
           a == SetToSeq(S)
<1>1. IsFiniteSet(S)
  BY AudienceLemma
<1> HIDE DEF S
<1>2. /\ n \in Nat /\ a \in [1 .. n -> S]
      /\ \A fd \in S : \E i \in 1 .. n : a[i] = fd /\ \A j \in 1 .. n : a[j] = fd => j = i
  BY <1>1, SetToSeqLemma
<1>3. broadcastMarketData(symbol) =
         [i \in DOMAIN a |-> Snapshot(a[i], symbol, order_books', mem')]
  BY DEF broadcastMarketData, S
<1> HIDE DEF n, a
<1>4. broadcastMarketData(symbol) =
         [i \in 1 .. n |-> Snapshot(a[i], symbol, order_books', mem')]
  BY <1>2, <1>3
<1> QED
  BY <1>2, <1>4 DEF S

\* Where the snapshots are when other packets come before.
LEMMA AfterReports ==
    ASSUME NEW R, NEW reports \in Seq(R), NoSnapshots(reports),
           NEW T, NEW packets \in Seq(T), NEW fd, NEW symbol
    PROVE  /\ SnapshotsIn(packets, fd, symbol) = {} =>
                 SnapshotsIn(reports \o packets, fd, symbol) = {}
           /\ \A i \in DOMAIN packets :
                 /\ (reports \o packets)[Len(reports) + i] = packets[i]
                 /\ SnapshotsIn(packets, fd, symbol) = {i} =>
                       SnapshotsIn(reports \o packets, fd, symbol) = {Len(reports) + i}
<1> DEFINE all == reports \o packets
           m   == Len(reports)
           n   == Len(packets)
<1>1. m \in Nat /\ n \in Nat /\ DOMAIN reports = 1 .. m /\ DOMAIN packets = 1 .. n
  OBVIOUS
<1>2. /\ DOMAIN all = 1 .. m + n
      /\ \A i \in 1 .. m : all[i] = reports[i]
      /\ \A i \in 1 .. n : all[m + i] = packets[i]
  BY <1>1
<1> HIDE DEF all, m, n
<1>3. \A k \in DOMAIN all : k \in 1 .. m \/ (k - m \in 1 .. n /\ k = m + (k - m))
  BY <1>1, <1>2
<1>4. \A i \in 1 .. n : m + i \in DOMAIN all
  BY <1>1, <1>2
<1>5. \A k \in DOMAIN all :
         k \in SnapshotsIn(all, fd, symbol)
            <=> k - m \in SnapshotsIn(packets, fd, symbol) /\ k = m + (k - m)
  <2> SUFFICES ASSUME NEW k \in DOMAIN all
               PROVE  k \in SnapshotsIn(all, fd, symbol)
                         <=> k - m \in SnapshotsIn(packets, fd, symbol) /\ k = m + (k - m)
    OBVIOUS
  <2>1. CASE k \in 1 .. m
    <3>1. k \notin SnapshotsIn(all, fd, symbol)
      BY <1>1, <1>2, <2>1 DEF SnapshotsIn, NoSnapshots
    <3>2. k - m \notin 1 .. n
      BY <1>1, <2>1
    <3> QED
      BY <1>1, <3>1, <3>2 DEF SnapshotsIn
  <2>2. CASE k \notin 1 .. m
    <3>1. k - m \in 1 .. n /\ k = m + (k - m)
      BY <1>3, <2>2
    <3>2. all[k] = packets[k - m]
      BY <1>2, <3>1
    <3> QED
      BY <1>1, <3>1, <3>2 DEF SnapshotsIn
  <2> QED
    BY <2>1, <2>2
<1>6. SnapshotsIn(all, fd, symbol) \subseteq DOMAIN all
  BY DEF SnapshotsIn
<1>7. ASSUME NEW i \in 1 .. n, SnapshotsIn(packets, fd, symbol) = {i}
      PROVE  SnapshotsIn(all, fd, symbol) = {m + i}
  <2>1. m + i \in DOMAIN all
    BY <1>4
  <2>2. ASSUME NEW k \in DOMAIN all
        PROVE  k \in SnapshotsIn(all, fd, symbol) <=> k = m + i
    <3>1. k \in SnapshotsIn(all, fd, symbol) <=> k - m = i /\ k = m + (k - m)
      BY <1>5, <1>7
    <3>2. k \in Int /\ m \in Int /\ i \in Int
      BY <1>1, <1>2
    <3> QED
      BY <3>1, <3>2
  <2> QED
    BY <1>6, <2>1, <2>2
<1> QED
  BY <1>1, <1>2, <1>5, <1>6, <1>7 DEF all, m

-----------------------------------------------------------------------------
(***************************************************************************)
(* The invariant.                                                          *)
(***************************************************************************)
BeingMatched(symbol) == processing /\ symbol = Packet.order.symbol

\* The order in the engine's hands is the one of the packet.
InHand == ~Idle => processing /\ mem[taker].symbol = Packet.order.symbol

\* A client that was shown a book is subscribed to it, and it is the book as
\* it is, but while an order for it is processed.
UpToDate(fd, symbol) ==
    /\ shown[fd][symbol] # << >> => fd \in subscriptions[symbol] /\ symbol \in created
    /\ ~BeingMatched(symbol) => shown[fd][symbol] \in {<< >>, << Quote(symbol) >>}

MarketInv ==
    /\ DOMAIN shown = Fds
    /\ InHand
    /\ \A fd \in Fds : \A symbol \in Symbols : UpToDate(fd, symbol)

\* What a step does to one client and one symbol: the client is shown nothing,
\* or the new book, or the book stays as it is.
Follows(fd, symbol) ==
    \/ shown'[fd][symbol] = << >>
    \/ /\ fd \in subscriptions'[symbol] /\ symbol \in created'
       /\ shown'[fd][symbol] = << Quote(symbol)' >>
    \/ /\ shown'[fd][symbol] = shown[fd][symbol]
       /\ fd \in subscriptions[symbol] => fd \in subscriptions'[symbol]
       /\ \/ BeingMatched(symbol)'
          \/ ~BeingMatched(symbol) /\ Quote(symbol)' = Quote(symbol)

LEMMA FollowsLemma ==
    ASSUME MarketInv, DOMAIN shown' = Fds, InHand', created \subseteq created',
           \A fd \in Fds : \A symbol \in Symbols : Follows(fd, symbol)
    PROVE  MarketInv'
<1> SUFFICES ASSUME NEW fd \in Fds, NEW symbol \in Symbols
             PROVE  UpToDate(fd, symbol)'
  BY DEF MarketInv
<1>1. UpToDate(fd, symbol) /\ Follows(fd, symbol)
  BY DEF MarketInv
<1> QED
  BY <1>1 DEF UpToDate, Follows

\* What MarketInv was set up for.
LEMMA MarketInvShows == MarketInv /\ ServerInv => SubscribersSeeTheBook
<1> SUFFICES ASSUME MarketInv, ServerInv, ~processing,
                    NEW symbol \in Symbols, NEW fd \in subscriptions[symbol]
             PROVE  shown[fd][symbol] \in {<< >>, << Quote(symbol) >>}
  BY DEF SubscribersSeeTheBook, Quote
<1>1. fd \in Fds
  BY DEF ServerInv, ServerTypes
<1>2. ~BeingMatched(symbol)
  BY DEF BeingMatched
<1> QED
  BY <1>1, <1>2 DEF MarketInv, UpToDate

-----------------------------------------------------------------------------
(***************************************************************************)
(* The handlers.                                                           *)
(***************************************************************************)
\* Reports, and then the snapshots of the one book that may have changed.
LEMMA BroadcastFollows ==
    ASSUME ServerInv, MarketInv, NEW symbol \in Symbols,
           NEW R, NEW reports \in Seq(R), NoSnapshots(reports),
           SendPackets(reports \o broadcastMarketData(symbol)),
           subscriptions' = subscriptions, created \subseteq created', Idle',
           \A s \in Symbols : s # symbol => ~BeingMatched(s) /\ Quote(s)' = Quote(s)
    PROVE  MarketInv'
<1> DEFINE data    == broadcastMarketData(symbol)
           packets == reports \o data
<1>1. SendPackets(packets)
  OBVIOUS
<1>2. subscriptions \in [Symbols -> SUBSET Fds] /\ Audience(symbol) = subscriptions[symbol]
  BY AudienceLemma DEF ServerInv, ServerTypes
<1>3. \E T : data \in Seq(T) /\ \A fd, s : s # symbol => SnapshotsIn(data, fd, s) = {}
  <2>1. CASE symbol \in created'
    <3>1. PICK n \in Nat : \E a \in [1 .. n -> Audience(symbol)] :
             /\ data = [i \in 1 .. n |-> Snapshot(a[i], symbol, order_books', mem')]
             /\ \A fd \in Audience(symbol) : \E i \in 1 .. n :
                   a[i] = fd /\ \A j \in 1 .. n : a[j] = fd => j = i
      BY <2>1, BroadcastLemma
    <3>2. PICK a \in [1 .. n -> Audience(symbol)] :
             data = [i \in 1 .. n |-> Snapshot(a[i], symbol, order_books', mem')]
      BY <3>1
    <3> HIDE DEF data
    <3>3. data \in Seq({data[i] : i \in 1 .. n})
      BY <3>2
    <3>4. \A fd, s : s # symbol => SnapshotsIn(data, fd, s) = {}
      BY <3>2 DEF SnapshotsIn, Snapshot
    <3> QED
      BY <3>3, <3>4
  <2>2. CASE symbol \notin created'
    <3>1. data = << >>
      BY <2>2 DEF broadcastMarketData
    <3> HIDE DEF data
    <3> QED
      BY <3>1 DEF SnapshotsIn
  <2> QED
    BY <2>1, <2>2
<1>4. PICK T : data \in Seq(T) /\ \A fd, s : s # symbol => SnapshotsIn(data, fd, s) = {}
  BY <1>3
<1>5. ASSUME NEW fd \in Fds, NEW s \in Symbols, s # symbol
      PROVE  Follows(fd, s)
  <2>1. SnapshotsIn(data, fd, s) = {}
    BY <1>4, <1>5
  <2> HIDE DEF data
  <2>2. SnapshotsIn(packets, fd, s) = {}
    BY <1>4, <2>1, AfterReports
  <2> HIDE DEF packets
  <2>3. shown'[fd][s] = IF fd \in subscriptions'[s] THEN shown[fd][s] ELSE << >>
    BY <1>1, <2>2, ShownLemma
  <2> QED
    BY <1>5, <2>3 DEF Follows
<1>6. ASSUME NEW fd \in Fds, symbol \in created'
      PROVE  Follows(fd, symbol)
  <2>1. CASE fd \notin subscriptions'[symbol]
    <3> HIDE DEF packets
    <3>1. shown'[fd][symbol] = << >>
      BY <1>1, <2>1, ShownLemma
    <3> QED
      BY <3>1 DEF Follows
  <2>2. CASE fd \in subscriptions'[symbol]
    <3>1. fd \in Audience(symbol)
      BY <1>2, <2>2
    <3>2. PICK n \in Nat : \E a \in [1 .. n -> Audience(symbol)] :
             /\ data = [i \in 1 .. n |-> Snapshot(a[i], symbol, order_books', mem')]
             /\ \A gd \in Audience(symbol) : \E i \in 1 .. n :
                   a[i] = gd /\ \A j \in 1 .. n : a[j] = gd => j = i
      BY <1>6, BroadcastLemma
    <3>3. PICK a \in [1 .. n -> Audience(symbol)] :
             /\ data = [i \in 1 .. n |-> Snapshot(a[i], symbol, order_books', mem')]
             /\ \A gd \in Audience(symbol) : \E i \in 1 .. n :
                   a[i] = gd /\ \A j \in 1 .. n : a[j] = gd => j = i
      BY <3>2
    <3>4. PICK k \in 1 .. n : a[k] = fd /\ \A j \in 1 .. n : a[j] = fd => j = k
      BY <3>1, <3>3
    <3> HIDE DEF data
    <3>5. DOMAIN data = 1 .. n /\ \A i \in 1 .. n :
             /\ data[i].type = "MARKET_DATA_SNAPSHOT" /\ data[i].fd = a[i]
             /\ data[i].symbol = symbol
             /\ data[i].quote = getL2Quote(order_books'[symbol], mem', SnapshotDepth)
      BY <3>3 DEF Snapshot
    <3>6. SnapshotsIn(data, fd, symbol) = {k}
      BY <3>4, <3>5 DEF SnapshotsIn
    <3>7. /\ packets[Len(reports) + k] = data[k]
          /\ SnapshotsIn(packets, fd, symbol) = {Len(reports) + k}
      <4>1. data \in Seq(T) /\ k \in DOMAIN data
        BY <1>4, <3>5
      <4>2. \A i \in DOMAIN data :
               /\ (reports \o data)[Len(reports) + i] = data[i]
               /\ SnapshotsIn(data, fd, symbol) = {i} =>
                     SnapshotsIn(reports \o data, fd, symbol) = {Len(reports) + i}
        BY <4>1, AfterReports
      <4> QED
        BY <3>6, <4>1, <4>2
    <3>8. Len(reports) + k \in Nat
      OBVIOUS
    <3> HIDE DEF packets
    <3>9. shown'[fd][symbol] = << packets[Len(reports) + k].quote >>
      BY <1>1, <2>2, <3>7, <3>8, ShownLemma
    <3>10. data[k].quote = Quote(symbol)'
      BY <3>5 DEF Quote, SnapshotDepth
    <3> QED
      BY <1>6, <2>2, <3>7, <3>9, <3>10 DEF Follows
  <2> QED
    BY <2>1, <2>2
<1>7. ASSUME NEW fd \in Fds, symbol \notin created'
      PROVE  Follows(fd, symbol)
  <2>1. shown[fd][symbol] = << >>
    BY <1>7 DEF MarketInv, UpToDate
  <2>2. data = << >>
    BY <1>7 DEF broadcastMarketData
  <2>3. SnapshotsIn(data, fd, symbol) = {}
    BY <2>2 DEF SnapshotsIn
  <2> HIDE DEF data
  <2>4. SnapshotsIn(packets, fd, symbol) = {}
    BY <1>4, <2>3, AfterReports
  <2> HIDE DEF packets
  <2>5. shown'[fd][symbol] = << >>
    BY <1>1, <2>1, <2>4, ShownLemma
  <2> QED
    BY <2>5 DEF Follows
<1>8. DOMAIN shown' = Fds
  BY <1>1 DEF SendPackets, ShownAfter
<1>9. InHand'
  BY DEF InHand, Idle
<1> HIDE DEF data, packets
<1> QED
  BY <1>5, <1>6, <1>7, <1>8, <1>9, FollowsLemma

\* The reports of an order that traded are no snapshots.
LEMMA ReportsOfLemma ==
    ASSUME ServerInv, NEW k
    PROVE  \E T : ReportsOf(k) \in Seq(T) /\ NoSnapshots(ReportsOf(k))
<1> DEFINE S       == Audience(trades[k].symbol)
           a       == SetToSeq(S)
           n       == Cardinality(S)
           updates == broadcastTradeUpdate(trades[k])
           both    == << TakerReport(k), MakerReport(k) >>
<1>1. IsFiniteSet(S)
  BY AudienceLemma
<1> HIDE DEF S
<1>2. n \in Nat /\ a \in [1 .. n -> S]
  BY <1>1, SetToSeqLemma
<1>3. updates = [i \in DOMAIN a |->
                    [fd |-> a[i], type |-> "TRADE_UPDATE", symbol |-> trades[k].symbol,
                     price |-> trades[k].price, quantity |-> trades[k].quantity]]
  BY DEF broadcastTradeUpdate, S
<1>4. both[1].type = "EXECUTION_REPORT" /\ both[2].type = "EXECUTION_REPORT"
      /\ both \in Seq({both[1], both[2]}) /\ Len(both) = 2
  BY DEF TakerReport, MakerReport, ExecutionReport
<1>5. ReportsOf(k) = both \o updates
  BY DEF ReportsOf
<1> HIDE DEF a, n, updates, both
<1>6. DOMAIN updates = 1 .. n /\ \A i \in 1 .. n : updates[i].type = "TRADE_UPDATE"
  BY <1>2, <1>3
<1> DEFINE U == {updates[i] : i \in 1 .. n}
           T == {both[1], both[2]} \cup U
<1>7. updates \in Seq(T)
  <2>1. updates = [i \in 1 .. n |-> updates[i]]
    BY <1>2, <1>3, <1>6
  <2>2. \A i \in 1 .. n : updates[i] \in T
    OBVIOUS
  <2> HIDE DEF T
  <2> QED
    BY <1>2, <2>1, <2>2
<1>8. both \in Seq(T)
  BY <1>4
<1>9. \A p \in T : p.type # "MARKET_DATA_SNAPSHOT"
  BY <1>4, <1>6
<1> HIDE DEF T
<1>10. both \o updates \in Seq(T)
  BY <1>7, <1>8
<1>11. NoSnapshots(both \o updates)
  BY <1>9, <1>10 DEF NoSnapshots
<1> QED
  BY <1>5, <1>10, <1>11

\* Those of every trade are sequences of the same packets.
LEMMA ReportsTogether ==
    ASSUME ServerInv
    PROVE  \E R : /\ \A k \in DOMAIN trades : ReportsOf(k) \in Seq(R)
                  /\ \A p \in R : p.type # "MARKET_DATA_SNAPSHOT"
<1> DEFINE E(k) == {ReportsOf(k)[i] : i \in DOMAIN ReportsOf(k)}
           R    == UNION {E(k) : k \in DOMAIN trades}
<1>1. ASSUME NEW k \in DOMAIN trades
      PROVE  ReportsOf(k) \in Seq(R) /\ \A p \in E(k) : p.type # "MARKET_DATA_SNAPSHOT"
  <2> DEFINE r == ReportsOf(k)
  <2>1. PICK T : r \in Seq(T) /\ NoSnapshots(r)
    BY ReportsOfLemma
  <2>2. \A i \in DOMAIN r : r[i] \in E(k)
    OBVIOUS
  <2>3. E(k) \subseteq R
    OBVIOUS
  <2>4. \A p \in E(k) : p.type # "MARKET_DATA_SNAPSHOT"
    BY <2>1 DEF NoSnapshots
  <2> HIDE DEF r, E, R
  <2>5. \A i \in DOMAIN r : r[i] \in R
    BY <2>2, <2>3
  <2>6. r \in Seq(R)
    BY <2>1, <2>5
  <2> QED
    BY <2>4, <2>6 DEF r
<1>2. \A p \in R : p.type # "MARKET_DATA_SNAPSHOT"
  BY <1>1
<1> HIDE DEF R
<1> QED
  BY <1>1, <1>2

LEMMA ReportsLemma ==
    ASSUME ServerInv, trades \in Seq(Trade), trades # << >>
    PROVE  \E R : LET reports == FlattenSeq([k \in DOMAIN trades |-> ReportsOf(k)])
                  IN  reports \in Seq(R) /\ NoSnapshots(reports)
<1> DEFINE seqs    == [k \in DOMAIN trades |-> ReportsOf(k)]
           reports == FlattenSeq(seqs)
<1>1. PICK R : /\ \A k \in DOMAIN trades : ReportsOf(k) \in Seq(R)
               /\ \A p \in R : p.type # "MARKET_DATA_SNAPSHOT"
  BY ReportsTogether
<1>2. Len(seqs) \in Nat /\ Len(seqs) # 0 /\ DOMAIN seqs = 1 .. Len(seqs)
  BY DEF Trade
<1>3. \A i \in 1 .. Len(seqs) : seqs[i] \in Seq(R)
  BY <1>1, <1>2
<1> HIDE DEF seqs
<1>4. reports \in Seq(R)
  BY <1>2, <1>3, FlattenType
<1> HIDE DEF reports
<1>5. NoSnapshots(reports)
  <2>1. \A i \in DOMAIN reports : reports[i] \in R
    BY <1>4
  <2> QED
    BY <1>1, <2>1 DEF NoSnapshots
<1> QED
  BY <1>4, <1>5 DEF reports, seqs

\* The books stay as they are and no order is processed.
LEMMA BooksStay ==
    ASSUME UNCHANGED vars
    PROVE  created' = created /\ \A symbol \in Symbols : Quote(symbol)' = Quote(symbol)
  BY DEF vars, Quote, SnapshotDepth

LEMMA QuietShown ==
    ASSUME MarketInv, UNCHANGED vars, ~processing, ~processing', DOMAIN shown' = Fds,
           \A fd \in Fds : \A symbol \in Symbols :
              \/ shown'[fd][symbol] = << >>
              \/ /\ shown'[fd][symbol] = shown[fd][symbol]
                 /\ fd \in subscriptions[symbol] => fd \in subscriptions'[symbol]
              \/ /\ shown'[fd][symbol] = << Quote(symbol) >>
                 /\ fd \in subscriptions'[symbol] /\ symbol \in created
    PROVE  MarketInv'
<1>1. created' = created /\ \A symbol \in Symbols : Quote(symbol)' = Quote(symbol)
  BY BooksStay
<1>2. \A symbol : ~BeingMatched(symbol)
  BY DEF BeingMatched
<1>3. InHand'
  BY DEF MarketInv, InHand, vars, Idle
<1>4. \A fd \in Fds : \A symbol \in Symbols : Follows(fd, symbol)
  BY <1>1, <1>2 DEF Follows
<1> QED
  BY <1>1, <1>3, <1>4, FollowsLemma

\* Handlers that send no snapshot.
LEMMA NoSnapshotStep ==
    ASSUME ServerInv, MarketInv, handleLogin \/ Ignored \/ handleSubscriptionRequest
    PROVE  MarketInv'
<1>1. UNCHANGED vars /\ ~processing /\ ~processing'
  BY DEF handleLogin, Ignored, handleSubscriptionRequest, Request, Complete, Parsing, Handled
<1>2. PICK packets : SendPackets(packets)
                     /\ packets \in {<< >>, << [fd |-> serving, type |-> "LOGIN_RESPONSE"] >>}
  BY DEF handleLogin, Ignored, handleSubscriptionRequest, Handled
<1>3. \A fd, symbol : SnapshotsIn(packets, fd, symbol) = {}
  BY <1>2 DEF SnapshotsIn
<1>4. \A fd \in Fds : \A symbol \in Symbols :
         shown'[fd][symbol] = IF fd \in subscriptions'[symbol]
                              THEN shown[fd][symbol] ELSE << >>
  BY <1>2, <1>3, ShownLemma
<1>5. DOMAIN shown' = Fds
  BY <1>2 DEF SendPackets, ShownAfter
<1> QED
  BY <1>1, <1>4, <1>5, QuietShown

LEMMA MarketDataStep ==
    ASSUME ServerInv, MarketInv, handleMarketDataRequest
    PROVE  MarketInv'
<1> DEFINE snapshot == Snapshot(serving, Packet.symbol, order_books, mem)
           packets  == IF Packet.symbol \in created THEN << snapshot >> ELSE << >>
<1>1. /\ UNCHANGED vars /\ ~processing /\ ~processing' /\ subscriptions' = subscriptions
      /\ SendPackets(packets)
  BY DEF handleMarketDataRequest, Request, Complete, Parsing, Handled
<1>2. \A fd, symbol :
         \/ SnapshotsIn(packets, fd, symbol) = {}
         \/ /\ SnapshotsIn(packets, fd, symbol) = {1}
            /\ symbol = Packet.symbol /\ symbol \in created
            /\ packets[1].quote = Quote(symbol)
  BY DEF SnapshotsIn, Snapshot, Quote
<1> HIDE DEF packets
<1>3. ASSUME NEW fd \in Fds, NEW symbol \in Symbols
      PROVE  \/ shown'[fd][symbol] = << >>
             \/ shown'[fd][symbol] = shown[fd][symbol]
             \/ /\ shown'[fd][symbol] = << Quote(symbol) >>
                /\ fd \in subscriptions'[symbol] /\ symbol \in created
  <2>1. CASE SnapshotsIn(packets, fd, symbol) = {}
    <3>1. shown'[fd][symbol] = IF fd \in subscriptions'[symbol]
                               THEN shown[fd][symbol] ELSE << >>
      BY <1>1, <2>1, ShownLemma
    <3> QED
      BY <3>1
  <2>2. CASE /\ SnapshotsIn(packets, fd, symbol) = {1} /\ symbol \in created
             /\ packets[1].quote = Quote(symbol)
    <3>1. 1 \in Nat
      OBVIOUS
    <3>2. shown'[fd][symbol] = IF fd \in subscriptions'[symbol]
                               THEN << packets[1].quote >> ELSE << >>
      BY <1>1, <2>2, <3>1, ShownLemma
    <3> QED
      BY <2>2, <3>2
  <2> QED
    BY <1>2, <2>1, <2>2
<1>4. DOMAIN shown' = Fds
  BY <1>1 DEF SendPackets, ShownAfter
<1> QED
  BY <1>1, <1>3, <1>4, QuietShown

LEMMA CancelShown ==
    ASSUME SafeInv, ServerInv, MarketInv, handleOrderCancel
    PROVE  MarketInv'
<1> DEFINE symbol  == Packet.symbol
           slot    == cancelled(order_books[symbol], mem, Packet.id)
           report  == IF slot = NoSlot
                      THEN ExecutionReport(Packet.id, Packet.user_id, 0, 0, REJECTED)
                      ELSE ExecutionReport(Packet.id, Packet.user_id, mem[slot].quantity,
                                           mem[slot].quantity_filled, CANCELED)
           reports == << report >>
<1>1. /\ Complete /\ Packet.type = "ORDER_CANCEL" /\ ~processing
      /\ CancelOrder(Packet.id, symbol) /\ subscriptions' = subscriptions
      /\ SendPackets(reports \o broadcastMarketData(symbol))
  BY DEF handleOrderCancel, Request, Complete, Parsing, Handled
<1>2. symbol \in Symbols
  BY <1>1, CompleteLemma DEF HasFields
<1>3. Idle'
  BY <1>1 DEF CancelOrder, Idle
<1>4. /\ \A s \in Symbols : s # symbol => BookIsLeft(s)
      /\ created' = created \cup {symbol}
  BY <1>1, CancelLeaves
<1>5. \A s \in Symbols : s # symbol => ~BeingMatched(s) /\ Quote(s)' = Quote(s)
  BY <1>1, <1>4, QuoteKept DEF BeingMatched
<1>6. reports \in Seq({report}) /\ NoSnapshots(reports)
  BY DEF NoSnapshots, ExecutionReport
<1> HIDE DEF symbol, reports, report
<1> QED
  BY <1>1, <1>2, <1>3, <1>4, <1>5, <1>6, BroadcastFollows

LEMMA NewOrderShown ==
    ASSUME SafeInv, ServerInv, MarketInv, handleNewOrder
    PROVE  MarketInv'
<1> DEFINE request == Packet.order
<1>1. /\ ~processing /\ processing' = TRUE /\ ProcessNewOrder(request)
      /\ shown' = shown /\ subscriptions' = subscriptions
      /\ sessions' = sessions /\ serving' = serving
  BY DEF handleNewOrder, Request, Complete, Parsing
<1>2. request \in OrderRequest
  BY HandleNewOrderStep, RequestsTyped
<1>3. Packet' = Packet
  BY <1>1 DEF Packet, Buffer
<1>4. /\ \A symbol \in Symbols : BookIsLeft(symbol)
      /\ created \subseteq created'
      /\ ~Idle' => mem'[taker'].symbol = request.symbol
  BY <1>1, <1>2, ArrivalLeaves
<1>5. \A symbol \in Symbols : ~BeingMatched(symbol) /\ Quote(symbol)' = Quote(symbol)
  BY <1>1, <1>4, QuoteKept DEF BeingMatched
<1>6. InHand'
  BY <1>1, <1>3, <1>4 DEF InHand, Idle
<1>7. \A fd \in Fds : \A symbol \in Symbols : Follows(fd, symbol)
  BY <1>1, <1>5 DEF Follows
<1>8. DOMAIN shown' = Fds
  BY <1>1 DEF MarketInv
<1> QED
  BY <1>4, <1>6, <1>7, <1>8, FollowsLemma

LEMMA EngineShown ==
    ASSUME SafeInv, MarketInv, EngineRuns
    PROVE  MarketInv'
<1>1. /\ processing /\ processing' = processing /\ EngineStep
      /\ shown' = shown /\ subscriptions' = subscriptions
      /\ sessions' = sessions /\ serving' = serving
  BY DEF EngineRuns, gatewayVars
<1>2. Packet' = Packet
  BY <1>1 DEF Packet, Buffer
<1>3. /\ \A symbol \in Symbols : symbol # mem[taker].symbol => BookIsLeft(symbol)
      /\ created' = created
      /\ ~Idle /\ (~Idle' => mem'[taker'].symbol = mem[taker].symbol)
  BY <1>1, EngineLeaves
<1>4. mem[taker].symbol = Packet.order.symbol
  BY <1>3 DEF MarketInv, InHand
<1>5. InHand'
  BY <1>1, <1>2, <1>3, <1>4 DEF InHand, Idle
<1>6. ASSUME NEW fd \in Fds, NEW symbol \in Symbols
      PROVE  Follows(fd, symbol)
  <2>1. CASE symbol = Packet.order.symbol
    <3>1. BeingMatched(symbol)'
      BY <1>1, <1>2, <2>1 DEF BeingMatched
    <3> QED
      BY <1>1, <3>1 DEF Follows
  <2>2. CASE symbol # Packet.order.symbol
    <3>1. ~BeingMatched(symbol)
      BY <2>2 DEF BeingMatched
    <3>2. Quote(symbol)' = Quote(symbol)
      BY <1>3, <1>4, <2>2, QuoteKept
    <3> QED
      BY <1>1, <3>1, <3>2 DEF Follows
  <2> QED
    BY <2>1, <2>2
<1>7. DOMAIN shown' = Fds
  BY <1>1 DEF MarketInv
<1> QED
  BY <1>3, <1>5, <1>6, <1>7, FollowsLemma

LEMMA ReportShown ==
    ASSUME SafeInv, ServerInv, MarketInv, ReportOrder
    PROVE  MarketInv'
<1> DEFINE symbol  == Packet.order.symbol
           all     == FlattenSeq([k \in DOMAIN trades |-> ReportsOf(k)])
           reports == IF trades = << >>
                      THEN << ExecutionReport(Packet.order.id, Packet.order.user_id,
                                              Packet.order.quantity, 0, NEW_REPORT) >>
                      ELSE all
<1>1. /\ processing /\ Idle /\ ~processing' /\ UNCHANGED vars
      /\ subscriptions' = subscriptions
      /\ SendPackets(reports \o broadcastMarketData(symbol))
  BY DEF ReportOrder
<1>2. symbol \in Symbols
  <2>1. ServerTypes /\ (\A fd \in Fds : StreamKept(fd))
        /\ serving # NoFd /\ Len(Buffer) >= 2 /\ Packet.type = "NEW_ORDER"
    BY <1>1 DEF ServerInv, ServerTypes
  <2>2. Packet.order \in OrderRequest
    BY <2>1, PacketLemma, RequestsTyped DEF HasFields
  <2> QED
    BY <2>2 DEF OrderRequest
<1>3. Idle' /\ created \subseteq created'
  BY <1>1 DEF vars, Idle
<1>4. \A s \in Symbols : s # symbol => ~BeingMatched(s) /\ Quote(s)' = Quote(s)
  BY <1>1, BooksStay DEF BeingMatched
<1>5. trades \in Seq(Trade)
  BY DEF SafeInv, TypeOK
<1>6. \E R : reports \in Seq(R) /\ NoSnapshots(reports)
  <2>1. CASE trades = << >>
    <3>1. /\ reports \in Seq({reports[1]}) /\ NoSnapshots(reports)
      BY <2>1 DEF NoSnapshots, ExecutionReport
    <3> HIDE DEF reports
    <3> QED
      BY <3>1
  <2>2. CASE trades # << >>
    <3>1. PICK R : all \in Seq(R) /\ NoSnapshots(all)
      BY <1>5, <2>2, ReportsLemma
    <3>2. reports = all
      BY <2>2
    <3> HIDE DEF reports, all
    <3> QED
      BY <3>1, <3>2
  <2> QED
    BY <2>1, <2>2
<1>7. PICK R : reports \in Seq(R) /\ NoSnapshots(reports)
  BY <1>6
<1> HIDE DEF symbol, reports
<1> QED
  BY <1>1, <1>2, <1>3, <1>4, <1>7, BroadcastFollows

LEMMA DisconnectShown ==
    ASSUME ServerInv, MarketInv, NEW fd \in Fds, Disconnect(fd)
    PROVE  MarketInv'
<1>1. ~processing
  BY RestsLemma DEF ServerInv, Disconnect, AtClient
<1>2. /\ UNCHANGED vars /\ processing' = processing
      /\ shown' = [shown EXCEPT ![fd] = NothingShown]
      /\ subscriptions' = [symbol \in Symbols |-> subscriptions[symbol] \ {fd}]
  BY DEF Disconnect, onDisconnection
<1>3. DOMAIN shown = Fds
  BY DEF MarketInv
<1>4. \A gd \in Fds : \A symbol \in Symbols :
         \/ shown'[gd][symbol] = << >>
         \/ /\ shown'[gd][symbol] = shown[gd][symbol]
            /\ gd \in subscriptions[symbol] => gd \in subscriptions'[symbol]
  BY <1>2, <1>3 DEF NothingShown
<1>5. DOMAIN shown' = Fds
  BY <1>2, <1>3
<1> QED
  BY <1>1, <1>2, <1>4, <1>5, QuietShown

\* Steps that do not touch the engine, the subscriptions or what was shown.
LEMMA AsideShown ==
    ASSUME ServerInv, MarketInv,
           \/ AtSelect /\ Clients
           \/ Select \/ NothingToHandle \/ ReportCrashes \/ UNCHANGED systemVars
           \/ \E fd \in Fds : SelectAndAccept(fd) \/ ReceiveSome(fd)
    PROVE  MarketInv'
<1>1. UNCHANGED << vars, shown, subscriptions, processing >>
  BY DEF Clients, ClientConnects, ClientCloses, Select, SelectAndAccept, ReceiveSome,
         NothingToHandle, ReportCrashes, systemVars, gatewayVars
<1>2. CASE ~processing
  <2>1. DOMAIN shown' = Fds
    BY <1>1 DEF MarketInv
  <2> QED
    BY <1>1, <1>2, <2>1, QuietShown
<1>3. CASE processing
  <2>1. serving # NoFd
    BY <1>3 DEF ServerInv, ServerTypes
  <2>2. ReportCrashes \/ UNCHANGED systemVars
    BY <1>3, <2>1 DEF AtSelect, AtClient, Select, SelectAndAccept, ReceiveSome,
                      NothingToHandle, Parsing
  <2>3. sessions' = sessions /\ serving' = serving
    BY <2>2 DEF ReportCrashes, systemVars, gatewayVars
  <2>4. Packet' = Packet
    BY <2>3 DEF Packet, Buffer
  <2>5. created' = created /\ \A symbol \in Symbols : Quote(symbol)' = Quote(symbol)
    BY <1>1, BooksStay
  <2>6. InHand'
    BY <1>1, <2>4 DEF MarketInv, InHand, vars, Idle
  <2>7. \A symbol : BeingMatched(symbol)' <=> BeingMatched(symbol)
    BY <1>1, <2>4 DEF BeingMatched
  <2>8. \A fd \in Fds : \A symbol \in Symbols : Follows(fd, symbol)
    BY <1>1, <2>5, <2>7 DEF Follows
  <2>9. DOMAIN shown' = Fds
    BY <1>1 DEF MarketInv
  <2> QED
    BY <2>5, <2>6, <2>8, <2>9, FollowsLemma
<1> QED
  BY <1>2, <1>3

-----------------------------------------------------------------------------
(***************************************************************************)
(* The invariant is inductive, together with the one of the server.        *)
(***************************************************************************)
LEMMA InitMarketInv == GatewayInit => MarketInv
<1> SUFFICES ASSUME GatewayInit PROVE MarketInv
  OBVIOUS
<1>1. Idle
  BY DEF GatewayInit, Init, Idle
<1>2. \A fd \in Fds : \A symbol \in Symbols : shown[fd][symbol] = << >>
  BY DEF GatewayInit, NothingShown
<1>3. DOMAIN shown = Fds
  BY DEF GatewayInit
<1> QED
  BY <1>1, <1>2, <1>3 DEF MarketInv, InHand, UpToDate

LEMMA NextMarketInv == GInv /\ MarketInv /\ [GatewayNext]_systemVars => MarketInv'
<1> SUFFICES ASSUME GInv, MarketInv, [GatewayNext]_systemVars
             PROVE  MarketInv'
  OBVIOUS
<1>1. SafeInv /\ ServerInv
  BY IInvIsSafe DEF GInv
<1>2. CASE \/ AtSelect /\ Clients
           \/ Select \/ NothingToHandle \/ ReportCrashes \/ UNCHANGED systemVars
           \/ \E fd \in Fds : SelectAndAccept(fd) \/ ReceiveSome(fd)
  BY <1>1, <1>2, AsideShown
<1>3. CASE \E fd \in Fds : Disconnect(fd)
  BY <1>1, <1>3, DisconnectShown
<1>4. CASE handleLogin \/ Ignored \/ handleSubscriptionRequest
  BY <1>1, <1>4, NoSnapshotStep
<1>5. CASE handleMarketDataRequest
  BY <1>1, <1>5, MarketDataStep
<1>6. CASE handleOrderCancel
  BY <1>1, <1>6, CancelShown
<1>7. CASE handleNewOrder
  BY <1>1, <1>7, NewOrderShown
<1>8. CASE EngineRuns
  BY <1>1, <1>8, EngineShown
<1>9. CASE ReportOrder
  BY <1>1, <1>9, ReportShown
<1> QED
  BY <1>2, <1>3, <1>4, <1>5, <1>6, <1>7, <1>8, <1>9 DEF GatewayNext, Server

-----------------------------------------------------------------------------
(***************************************************************************)
(* The theorem.                                                            *)
(***************************************************************************)
\* No change of a book goes unannounced: whenever no order is processed, the
\* last snapshot that a subscriber was sent is the book as it is, whatever
\* the clients send, in whatever pieces, and whoever comes and goes.
THEOREM BooksAreAnnounced == GatewaySpec => []SubscribersSeeTheBook
<1>1. GInv /\ MarketInv => SubscribersSeeTheBook
  BY MarketInvShows DEF GInv
<1> QED
  BY <1>1, InitMarketInv, NextMarketInv, GatewayInvariance, PTL DEF GatewaySpec

-----------------------------------------------------------------------------
(***************************************************************************)
(* The order that is processed, and the trades that it has made so far.    *)
(***************************************************************************)
\* The quantity of all trades on a tape.
FilledBy(tape) == SumFunctionOnSet(Reported(tape), DOMAIN tape)

\* The order on the other side of a trade of order.
OtherId(order, trade) ==
    IF order.side = BUY THEN trade.sell_order_id ELSE trade.buy_order_id

Resting(order) == getOrderbyId(order_books[order.symbol], order.id)

\* While order is matched, it has filled what its trades say, and traded with
\* others only; when the call has returned, what rests of it has that fill, and
\* a limit order that traded and does not rest is filled.
CallOf(order) ==
    /\ \A n \in DOMAIN trades : OtherId(order, trades[n]) # order.id
    /\ ~Idle =>
          /\ mem[taker].id = order.id /\ mem[taker].symbol = order.symbol
          /\ mem[taker].side = order.side /\ mem[taker].type = order.type
          /\ mem[taker].quantity = order.quantity
          /\ mem[taker].quantity_filled = FilledBy(trades)
    /\ Idle =>
          /\ Resting(order) # NoSlot =>
                /\ mem[Resting(order)].quantity_filled = FilledBy(trades)
                /\ FilledBy(trades) < order.quantity
          /\ Resting(order) = NoSlot /\ trades # << >> /\ order.type = "LIMIT" =>
                FilledBy(trades) = order.quantity

LEMMA NothingFilled == FilledBy(<< >>) = 0
<1>1. DOMAIN << >> = {}
  OBVIOUS
<1> QED
  BY <1>1, SumEmpty DEF FilledBy

LEMMA FilledType == \A tape \in Seq(Trade) : FilledBy(tape) \in Nat
<1> SUFFICES ASSUME NEW tape \in Seq(Trade) PROVE FilledBy(tape) \in Nat
  OBVIOUS
<1>1. IsFiniteSet(DOMAIN tape) /\ NatOn(Reported(tape), DOMAIN tape)
  BY ReportedLemma
<1> QED
  BY <1>1, SumType DEF FilledBy

LEMMA FilledMore ==
    ASSUME NEW tape \in Seq(Trade), NEW trade \in Trade
    PROVE  /\ FilledBy(tape) \in Nat
           /\ FilledBy(Append(tape, trade)) = FilledBy(tape) + trade.quantity
<1> DEFINE n    == Len(tape)
           more == Append(tape, trade)
           f    == Reported(tape)
           g    == Reported(more)
           S    == DOMAIN tape
           T    == DOMAIN more
<1>1. n \in Nat /\ S = 1 .. n /\ T = 1 .. n + 1 /\ more \in Seq(Trade)
      /\ more[n + 1] = trade /\ \A i \in 1 .. n : more[i] = tape[i]
  OBVIOUS
<1>2. IsFiniteSet(S) /\ NatOn(f, S) /\ IsFiniteSet(T) /\ NatOn(g, T)
  <2>1. S \in SUBSET S /\ T \in SUBSET T
    OBVIOUS
  <2> HIDE DEF f, g
  <2> QED
    BY <1>1, <2>1, ReportedLemma DEF f, g
<1>3. (\A i \in S : f[i] = g[i]) /\ g[n + 1] = trade.quantity
  BY <1>1 DEF Reported
<1>4. trade.quantity \in Nat
  BY QuantityModulusAssumption DEF Trade, Quantities
<1>5. T \ {n + 1} = S /\ n + 1 \in T
  BY <1>1
<1>6. FilledBy(tape) = SumFunctionOnSet(f, S) /\ FilledBy(more) = SumFunctionOnSet(g, T)
  BY DEF FilledBy
<1> HIDE DEF n, more, f, g, S, T
<1>7. SumFunctionOnSet(f, S) = SumFunctionOnSet(g, S)
  BY <1>2, <1>3, SumSame
<1>8. SumFunctionOnSet(g, T) = g[n + 1] + SumFunctionOnSet(g, T \ {n + 1})
  BY <1>2, <1>5, SumAdd
<1>9. SumFunctionOnSet(f, S) \in Nat
  BY <1>2, SumType
<1>10. FilledBy(more) = FilledBy(tape) + trade.quantity
  <2>1. SumFunctionOnSet(g, T) = trade.quantity + SumFunctionOnSet(f, S)
    BY <1>3, <1>5, <1>7, <1>8
  <2>2. SumFunctionOnSet(g, T) = SumFunctionOnSet(f, S) + trade.quantity
    BY <1>4, <1>9, <2>1
  <2> QED
    BY <1>6, <2>2
<1> QED
  BY <1>6, <1>9, <1>10 DEF more

\* An order arrives, with an id that does not rest.
LEMMA ArrivedCall ==
    ASSUME IInv, NEW request \in Requests, FreshId(request), ProcessNewOrder(request)
    PROVE  CallOf(request)'
<1>1. trades' = << >> /\ order_books' = order_books
  BY DEF ProcessNewOrder, RejectPoolExhausted, RejectInvalid, KillFok, BeginMatching,
         Valid, Receive
<1>2. FilledBy(trades)' = 0 /\ DOMAIN trades' = {}
  BY <1>1, NothingFilled
<1>3. Resting(request)' = NoSlot
  BY <1>1 DEF Resting, getOrderbyId, FreshId
<1>4. ASSUME ~Idle'
      PROVE  mem'[taker'] = NewOrder(request, clock)
  <2>1. BeginMatching(request)
    BY <1>4 DEF ProcessNewOrder, RejectPoolExhausted, RejectInvalid, KillFok, Valid,
                Receive, Idle
  <2>2. Valid(request) /\ taker' = allocated(free_indices)
    BY <2>1 DEF BeginMatching
  <2> QED
    BY <2>2, ValidLemma, RequestsTyped, IInvIsSafe
<1>5. ~Idle' => /\ mem'[taker'].id = request.id /\ mem'[taker'].symbol = request.symbol
                /\ mem'[taker'].side = request.side /\ mem'[taker'].type = request.type
                /\ mem'[taker'].quantity = request.quantity
                /\ mem'[taker'].quantity_filled = 0
  BY <1>4 DEF NewOrder
<1> QED
  BY <1>1, <1>2, <1>3, <1>5 DEF CallOf

LEMMA MatchedCall ==
    ASSUME IInv, NEW order, CallOf(order), MatchStep
    PROVE  CallOf(order)'
<1> DEFINE trade == TradeOf(mem[taker], mem[Maker], TradeQuantity)
           book  == order_books[mem[taker].symbol]
<1>1. SafeInv /\ TakerIsNew /\ ~Idle /\ taker' = taker /\ trades' = Append(trades, trade)
      /\ taker # NoSlot /\ Maker # NoSlot
  BY Halves DEF MatchStep, Matching, Idle
<1>2. trades' \in Seq(Trade) /\ trades \in Seq(Trade)
  BY <1>1, TradeLemma DEF SafeInv, TypeOK
<1>3. trade \in Trade
  <2>1. trades'[Len(trades) + 1] = trade /\ Len(trades) + 1 \in DOMAIN trades'
    BY <1>1, <1>2
  <2> HIDE DEF trade
  <2> QED
    BY <1>2, <2>1
<1>4. trade.quantity = TradeQuantity
      /\ OtherId(order, trade) = mem[Maker].id
  <2>1. mem[taker].side = order.side
    BY <1>1 DEF CallOf
  <2> QED
    BY <2>1 DEF TradeOf, create_trade, OtherId
<1>5. mem[Maker].id # mem[taker].id
  <2>1. /\ ConsistentBook(TakerBook, mem, mem[taker].symbol)
        /\ Listed(TakerBook, Maker)
    BY <1>1, MakerLemma
  <2>2. mem[Maker].id \in DOMAIN book.lookup
    BY <2>1 DEF ConsistentBook, NodesAreFound, NodeIsFound, Listed, TakerBook
  <2> QED
    BY <1>1, <2>2 DEF TakerIsNew
<1>6. FilledBy(trades)' = FilledBy(trades) + TradeQuantity
  <2> HIDE DEF trade
  <2> QED
    BY <1>1, <1>2, <1>3, <1>4, FilledMore
<1>7. mem[taker] \in Order
      /\ mem'[taker] = [mem[taker] EXCEPT !.quantity_filled =
                           mem[taker].quantity_filled + TradeQuantity]
  BY <1>1, MatchLemma, MakerLemma
<1>8. /\ mem'[taker].id = mem[taker].id /\ mem'[taker].symbol = mem[taker].symbol
      /\ mem'[taker].side = mem[taker].side /\ mem'[taker].type = mem[taker].type
      /\ mem'[taker].quantity = mem[taker].quantity
      /\ mem'[taker].quantity_filled = mem[taker].quantity_filled + TradeQuantity
  BY <1>7, FillKeeps
<1>9. ~Idle' /\ mem[taker].id = order.id
  BY <1>1 DEF CallOf, Idle
<1>10. \A n \in DOMAIN trades' : OtherId(order, trades'[n]) # order.id
  <2> HIDE DEF trade
  <2>1. \A n \in DOMAIN trades' : \/ n \in DOMAIN trades /\ trades'[n] = trades[n]
                                 \/ trades'[n] = trade
    BY <1>1, <1>2
  <2> QED
    BY <1>4, <1>5, <1>9, <2>1 DEF CallOf
<1> QED
  BY <1>1, <1>6, <1>8, <1>9, <1>10 DEF CallOf

LEMMA FinishedCall ==
    ASSUME IInv, NEW order, CallOf(order), FinishOrder
    PROVE  CallOf(order)'
<1> DEFINE book == order_books[order.symbol]
<1>1. SafeInv /\ TakerIsNew /\ ~Idle /\ taker' = NoSlot /\ mem' = mem /\ trades' = trades
      /\ taker # NoSlot
  BY Halves DEF FinishOrder, ReturnFilled, ReturnIOC, ReturnMarket, ReturnResting, Return, Idle
<1>2. /\ mem[taker].id = order.id /\ mem[taker].symbol = order.symbol
      /\ mem[taker].type = order.type /\ mem[taker].quantity = order.quantity
      /\ mem[taker].quantity_filled = FilledBy(trades)
      /\ FilledBy(trades)' = FilledBy(trades)
  BY <1>1 DEF CallOf, FilledBy
<1>3. /\ taker \in Pool /\ order.symbol \in Symbols
      /\ mem[taker].quantity \in Nat /\ mem[taker].quantity_filled \in Nat
      /\ mem[taker].quantity_filled <= mem[taker].quantity
      /\ order.id \notin DOMAIN book.lookup
      /\ IsBook(book)
      /\ order_books = [symbol \in Symbols |-> order_books[symbol]]
  <2>1. taker \in Pool /\ mem[taker] \in Order
    BY <1>1, MakerLemma
  <2>2. order.symbol \in Symbols /\ mem[taker].quantity \in Nat
        /\ mem[taker].quantity_filled \in Nat
    BY <1>2, <2>1, QuantityModulusAssumption DEF Order, Quantities
  <2> QED
    BY <1>1, <1>2, <2>1, <2>2 DEF SafeInv, TypeOK, TakerMayRest, TakerIsNew
<1>4. Idle' /\ \A n \in DOMAIN trades' : OtherId(order, trades'[n]) # order.id
  BY <1>1 DEF CallOf, Idle
<1>5. CASE ReturnFilled \/ ReturnIOC \/ ReturnMarket
  <2>1. order_books' = order_books
    BY <1>5 DEF ReturnFilled, ReturnIOC, ReturnMarket
  <2>2. Resting(order)' = NoSlot
    BY <1>3, <2>1 DEF Resting, getOrderbyId
  <2>3. order.type = "LIMIT" => FilledBy(trades) = order.quantity
    BY <1>2, <1>3, <1>5 DEF ReturnFilled, ReturnIOC, ReturnMarket, is_filled
  <2> QED
    BY <1>2, <1>4, <2>2, <2>3 DEF CallOf
<1>6. CASE ReturnResting
  <2>1. order_books' = [order_books EXCEPT ![order.symbol] = add_order(@, mem, taker)]
        /\ ~is_filled(mem[taker])
    BY <1>2, <1>6 DEF ReturnResting
  <2>2. order_books'[order.symbol] = add_order(book, mem, taker)
    BY <1>3, <2>1
  <2>3. add_order(book, mem, taker).lookup = Put(book.lookup, order.id, taker)
    BY <1>2 DEF add_order
  <2>4. Resting(order)' = taker
    BY <2>2, <2>3 DEF Resting, getOrderbyId, Put
  <2>5. FilledBy(trades) < order.quantity
    BY <1>2, <1>3, <2>1 DEF is_filled
  <2> QED
    BY <1>1, <1>2, <1>4, <2>4, <2>5 DEF CallOf
<1> QED
  BY <1>5, <1>6 DEF FinishOrder

LEMMA KeptCall ==
    ASSUME NEW order, CallOf(order), UNCHANGED vars
    PROVE  CallOf(order)'
  BY DEF CallOf, vars, Idle, Resting, FilledBy

-----------------------------------------------------------------------------
(***************************************************************************)
(* What is sent of it.                                                     *)
(***************************************************************************)
\* What has been put together ends with the last of the sequences.
LEMMA FlattenEnds ==
    ASSUME NEW R, NEW seqs, Len(seqs) \in Nat, Len(seqs) # 0,
           \A i \in 1 .. Len(seqs) : seqs[i] \in Seq(R)
    PROVE  \E a \in Seq(R) : FlattenSeq(seqs) = a \o seqs[Len(seqs)]
<1> DEFINE n == Len(seqs)
           last == seqs[n]
<1>1. PICK g : Flattens(seqs, n, g) /\ FlattenSeq(seqs) = g[n]
  BY FlattenIsChosen, FlattenExists
<1>2. g[n] = IF n = 1 THEN last ELSE g[n - 1] \o last
  <2>1. n \in 1 .. n
    OBVIOUS
  <2> QED
    BY <1>1, <2>1 DEF Flattens
<1>3. \A k \in 1 .. n : g[k] \in Seq(R)
  BY <1>1, FlattensType
<1>4. last \in Seq(R)
  OBVIOUS
<1>5. n \in Nat /\ n # 0
  OBVIOUS
<1> HIDE DEF n, last
<1>6. CASE n = 1
  <2>1. << >> \in Seq(R) /\ << >> \o last = last
    BY <1>4
  <2> QED
    BY <1>1, <1>2, <1>6, <2>1 DEF last, n
<1>7. CASE n # 1
  <2>1. g[n - 1] \in Seq(R)
    BY <1>3, <1>5, <1>7
  <2> QED
    BY <1>1, <1>2, <1>7, <2>1 DEF last, n
<1> QED
  BY <1>6, <1>7

\* The last report of an id, with nothing about it behind.
LEMMA LastReport ==
    ASSUME NEW packets, NEW m \in Nat, DOMAIN packets = 1 .. m, NEW id, NEW n \in 1 .. m,
           packets[n].type = "EXECUTION_REPORT", packets[n].client_order_id = id,
           \A i \in n + 1 .. m : ~(/\ packets[i].type = "EXECUTION_REPORT"
                                   /\ packets[i].client_order_id = id)
    PROVE  packets[Max(ReportsIn(packets, id))] = packets[n]
<1> DEFINE S == ReportsIn(packets, id)
<1>1. n \in S /\ \A i \in S : i \in Nat /\ i <= n
  <2>1. n \in S
    BY DEF ReportsIn
  <2>2. ASSUME NEW i \in S
        PROVE  i \in Nat /\ i <= n
    <3>1. i \in 1 .. m /\ i \notin n + 1 .. m
      BY <2>2 DEF ReportsIn
    <3> QED
      BY <3>1
  <2> QED
    BY <2>1, <2>2
<1> HIDE DEF S
<1>2. Max(S) = n
  <2>1. n \in S /\ \A i \in S : n >= i
    BY <1>1
  <2>2. Max(S) \in S /\ \A i \in S : Max(S) >= i
    BY <2>1 DEF Max
  <2> QED
    BY <1>1, <2>1, <2>2
<1> QED
  BY <1>2 DEF S

\* Market data holds no reports.
NoReports(packets) == \A i \in DOMAIN packets : packets[i].type # "EXECUTION_REPORT"

LEMMA UpdatesLemma ==
    ASSUME ServerInv, NEW trade
    PROVE  \E T : broadcastTradeUpdate(trade) \in Seq(T) /\ NoReports(broadcastTradeUpdate(trade))
<1> DEFINE S       == Audience(trade.symbol)
           a       == SetToSeq(S)
           n       == Cardinality(S)
           updates == broadcastTradeUpdate(trade)
<1>1. IsFiniteSet(S)
  BY AudienceLemma
<1> HIDE DEF S
<1>2. n \in Nat /\ a \in [1 .. n -> S]
  BY <1>1, SetToSeqLemma
<1>3. updates = [i \in DOMAIN a |->
                    [fd |-> a[i], type |-> "TRADE_UPDATE", symbol |-> trade.symbol,
                     price |-> trade.price, quantity |-> trade.quantity]]
  BY DEF broadcastTradeUpdate, S
<1> HIDE DEF a, n, updates
<1>4. DOMAIN updates = 1 .. n /\ \A i \in 1 .. n : updates[i].type = "TRADE_UPDATE"
  BY <1>2, <1>3
<1> DEFINE T == {updates[i] : i \in 1 .. n}
<1>5. updates \in Seq(T)
  <2>1. updates = [i \in 1 .. n |-> updates[i]]
    BY <1>2, <1>3, <1>4
  <2>2. \A i \in 1 .. n : updates[i] \in T
    OBVIOUS
  <2> HIDE DEF T
  <2> QED
    BY <1>2, <2>1, <2>2
<1>6. NoReports(updates)
  BY <1>4 DEF NoReports
<1> QED
  BY <1>5, <1>6 DEF updates

LEMMA MarketPackets ==
    ASSUME ServerInv, NEW symbol
    PROVE  \E T : broadcastMarketData(symbol) \in Seq(T) /\ NoReports(broadcastMarketData(symbol))
<1> DEFINE data == broadcastMarketData(symbol)
<1>1. CASE symbol \in created'
  <2>1. PICK n \in Nat : \E a \in [1 .. n -> Audience(symbol)] :
           /\ data = [i \in 1 .. n |-> Snapshot(a[i], symbol, order_books', mem')]
           /\ \A fd \in Audience(symbol) : \E i \in 1 .. n :
                 a[i] = fd /\ \A j \in 1 .. n : a[j] = fd => j = i
    BY <1>1, BroadcastLemma
  <2>2. PICK a \in [1 .. n -> Audience(symbol)] :
           data = [i \in 1 .. n |-> Snapshot(a[i], symbol, order_books', mem')]
    BY <2>1
  <2> HIDE DEF data
  <2>3. data \in Seq({data[i] : i \in 1 .. n})
    BY <2>2
  <2>4. NoReports(data)
    BY <2>2 DEF NoReports, Snapshot
  <2> QED
    BY <2>3, <2>4 DEF data
<1>2. CASE symbol \notin created'
  <2>1. data = << >>
    BY <1>2 DEF broadcastMarketData
  <2>2. << >> \in Seq({}) /\ NoReports(<< >>)
    BY DEF NoReports
  <2> QED
    BY <2>1, <2>2
<1> QED
  BY <1>1, <1>2

LEMMA SeqWider ==
    ASSUME NEW R, NEW V, R \subseteq V, NEW a \in Seq(R)
    PROVE  a \in Seq(V)
<1>1. a = [i \in 1 .. Len(a) |-> a[i]] /\ Len(a) \in Nat /\ \A i \in 1 .. Len(a) : a[i] \in V
  OBVIOUS
<1> QED
  BY <1>1

LEMMA JoinedLemma ==
    ASSUME NEW V, NEW a \in Seq(V), NEW b \in Seq(V), NEW c, c = a \o b
    PROVE  /\ Len(a) \in Nat /\ DOMAIN a = 1 .. Len(a)
           /\ Len(b) \in Nat /\ DOMAIN b = 1 .. Len(b)
           /\ c \in Seq(V) /\ Len(c) = Len(a) + Len(b)
           /\ \A i \in 1 .. Len(a) : c[i] = a[i]
           /\ \A i \in 1 .. Len(b) : c[Len(a) + i] = b[i]
<1>1. c \in Seq(V) /\ Len(c) = Len(a) + Len(b)
  OBVIOUS
<1>2. Len(a) \in Nat /\ Len(b) \in Nat /\ DOMAIN a = 1 .. Len(a) /\ DOMAIN b = 1 .. Len(b)
  OBVIOUS
<1>3. \A i \in 1 .. Len(a) : c[i] = a[i]
  OBVIOUS
<1>4. \A i \in 1 .. Len(b) : c[Len(a) + i] = b[i]
  OBVIOUS
<1> QED
  BY <1>1, <1>2, <1>3, <1>4

\* What is sent when an order has traded: a for all trades but the last, and
\* for that one p to the taker, q to the maker and updates; then market data.
Packets(a, p, q, updates, market) == (a \o (<< p, q >> \o updates)) \o market

\* Behind the report p comes the maker's, which is not about the same order, and
\* market data.
LEMMA ReportPlace ==
    ASSUME NEW V, NEW a \in Seq(V), NEW updates \in Seq(V), NEW market \in Seq(V),
           NEW p \in V, NEW q \in V, NEW id,
           p.type = "EXECUTION_REPORT", p.client_order_id = id,
           q.client_order_id # id, NoReports(updates), NoReports(market)
    PROVE  LET packets == Packets(a, p, q, updates, market)
           IN  packets[Max(ReportsIn(packets, id))] = p
<1> DEFINE both    == << p, q >>
           b       == both \o updates
           c       == a \o b
           packets == Packets(a, p, q, updates, market)
           k       == Len(a)
           u       == Len(updates)
           w       == Len(market)
           n       == k + 1
           m       == k + (2 + u) + w
<1>1. a \in Seq(V) /\ updates \in Seq(V) /\ market \in Seq(V) /\ both \in Seq(V)
  OBVIOUS
<1>2. Len(both) = 2 /\ both[1] = p /\ both[2] = q
  OBVIOUS
<1>3. packets = c \o market /\ c = a \o b /\ b = both \o updates
  BY DEF Packets
<1> HIDE DEF both, b, c, packets
<1>4. /\ Len(both) \in Nat /\ DOMAIN both = 1 .. Len(both)
      /\ Len(updates) \in Nat /\ DOMAIN updates = 1 .. Len(updates)
      /\ b \in Seq(V) /\ Len(b) = Len(both) + Len(updates)
      /\ \A i \in 1 .. Len(both) : b[i] = both[i]
      /\ \A i \in 1 .. Len(updates) : b[Len(both) + i] = updates[i]
  BY <1>1, <1>3, JoinedLemma
<1>5. /\ Len(a) \in Nat /\ DOMAIN a = 1 .. Len(a)
      /\ Len(b) \in Nat /\ DOMAIN b = 1 .. Len(b)
      /\ c \in Seq(V) /\ Len(c) = Len(a) + Len(b)
      /\ \A i \in 1 .. Len(a) : c[i] = a[i]
      /\ \A i \in 1 .. Len(b) : c[Len(a) + i] = b[i]
  BY <1>1, <1>3, <1>4, JoinedLemma
<1>6. /\ Len(c) \in Nat /\ DOMAIN c = 1 .. Len(c)
      /\ Len(market) \in Nat /\ DOMAIN market = 1 .. Len(market)
      /\ packets \in Seq(V) /\ Len(packets) = Len(c) + Len(market)
      /\ \A i \in 1 .. Len(c) : packets[i] = c[i]
      /\ \A i \in 1 .. Len(market) : packets[Len(c) + i] = market[i]
  <2>1. c \in Seq(V) /\ market \in Seq(V) /\ packets = c \o market
    BY <1>1, <1>3, <1>5
  <2> QED
    BY <2>1, JoinedLemma
<1>7. /\ k \in Nat /\ u \in Nat /\ w \in Nat /\ DOMAIN updates = 1 .. u /\ DOMAIN market = 1 .. w
      /\ Len(b) = 2 + u /\ Len(c) = k + (2 + u) /\ Len(packets) = k + (2 + u) + w
  BY <1>2, <1>4, <1>5, <1>6
<1>8. /\ \A i \in 1 .. 2 : b[i] = both[i]
      /\ \A i \in 1 .. u : b[2 + i] = updates[i]
      /\ \A i \in 1 .. 2 + u : c[k + i] = b[i]
      /\ \A i \in 1 .. k + (2 + u) : packets[i] = c[i]
      /\ \A i \in 1 .. w : packets[k + (2 + u) + i] = market[i]
  BY <1>2, <1>4, <1>5, <1>6, <1>7
<1>9. m \in Nat /\ n \in 1 .. m /\ DOMAIN packets = 1 .. m
  BY <1>6, <1>7
<1> HIDE DEF k, u, w
<1>10. packets[n] = p
  <2>1. 1 \in 1 .. 2 + u /\ k + 1 \in 1 .. k + (2 + u) /\ 1 \in 1 .. 2
    BY <1>7
  <2>2. c[k + 1] = b[1] /\ b[1] = p /\ packets[k + 1] = c[k + 1]
    BY <1>2, <1>8, <2>1
  <2> QED
    BY <2>2
<1>11. ASSUME NEW i \in n + 1 .. m
       PROVE  ~(packets[i].type = "EXECUTION_REPORT" /\ packets[i].client_order_id = id)
  <2>1. CASE \E j \in 1 .. w : i = k + (2 + u) + j
    <3>1. PICK j \in 1 .. w : i = k + (2 + u) + j
      BY <2>1
    <3>2. packets[i] = market[j]
      BY <1>8, <3>1
    <3> QED
      BY <1>7, <3>2 DEF NoReports
  <2>2. CASE i = k + 2
    <3>1. 2 \in 1 .. 2 + u /\ k + 2 \in 1 .. k + (2 + u) /\ 2 \in 1 .. 2
      BY <1>7
    <3>2. packets[k + 2] = c[k + 2] /\ c[k + 2] = b[2] /\ b[2] = q
      BY <1>2, <1>8, <3>1
    <3> QED
      BY <2>2, <3>2
  <2>3. CASE \E j \in 1 .. u : i = k + (2 + j)
    <3>1. PICK j \in 1 .. u : i = k + (2 + j)
      BY <2>3
    <3>2. 2 + j \in 1 .. 2 + u /\ k + (2 + j) \in 1 .. k + (2 + u)
      <4>1. j \in Nat /\ 1 <= j /\ j <= u /\ k \in Nat /\ u \in Nat
        BY <1>7
      <4> QED
        BY <4>1
    <3>3. packets[i] = c[k + (2 + j)] /\ c[k + (2 + j)] = b[2 + j] /\ b[2 + j] = updates[j]
      BY <1>8, <3>1, <3>2
    <3> QED
      BY <1>7, <3>3 DEF NoReports
  <2>4. \/ \E j \in 1 .. w : i = k + (2 + u) + j
        \/ i = k + 2
        \/ \E j \in 1 .. u : i = k + (2 + j)
    <3>1. /\ i \in Int /\ k \in Nat /\ u \in Nat /\ w \in Nat
          /\ k + 2 <= i /\ i <= k + (2 + u) + w
      BY <1>7
    <3>2. CASE i > k + (2 + u)
      <4>1. i - (k + (2 + u)) \in 1 .. w /\ i = k + (2 + u) + (i - (k + (2 + u)))
        BY <3>1, <3>2
      <4> QED
        BY <4>1
    <3>3. CASE k + 2 < i /\ i <= k + (2 + u)
      <4>1. i - (k + 2) \in 1 .. u /\ i = k + (2 + (i - (k + 2)))
        BY <3>1, <3>3
      <4> QED
        BY <4>1
    <3> QED
      BY <3>1, <3>2, <3>3
  <2> QED
    BY <2>1, <2>2, <2>3, <2>4
<1> HIDE DEF m, n
<1>12. /\ packets[n].type = "EXECUTION_REPORT" /\ packets[n].client_order_id = id
       /\ \A i \in n + 1 .. m : ~(/\ packets[i].type = "EXECUTION_REPORT"
                                 /\ packets[i].client_order_id = id)
  BY <1>10, <1>11
<1>13. packets[Max(ReportsIn(packets, id))] = packets[n]
  BY <1>9, <1>12, LastReport
<1> QED
  BY <1>10, <1>13 DEF packets

\* An order that did not trade is reported as new.
LEMMA NewReport ==
    ASSUME NEW U, NEW market \in Seq(U), NEW p, NEW id,
           p.type = "EXECUTION_REPORT", p.client_order_id = id, NoReports(market)
    PROVE  LET packets == << p >> \o market
           IN  packets[Max(ReportsIn(packets, id))] = p
<1> DEFINE V       == U \cup {p}
           one     == << p >>
           packets == one \o market
           m       == 1 + Len(market)
<1>1. one \in Seq(V) /\ market \in Seq(V) /\ Len(one) = 1 /\ one[1] = p
  <2>1. U \subseteq V /\ p \in V
    OBVIOUS
  <2> HIDE DEF V
  <2> QED
    BY <2>1, SeqWider
<1>2. packets = one \o market
  OBVIOUS
<1> HIDE DEF V, one, packets
<1>3. /\ Len(one) \in Nat /\ DOMAIN one = 1 .. Len(one)
      /\ Len(market) \in Nat /\ DOMAIN market = 1 .. Len(market)
      /\ packets \in Seq(V) /\ Len(packets) = Len(one) + Len(market)
      /\ \A i \in 1 .. Len(one) : packets[i] = one[i]
      /\ \A i \in 1 .. Len(market) : packets[Len(one) + i] = market[i]
  <2>1. one \in Seq(V) /\ market \in Seq(V) /\ packets = one \o market
    BY <1>1, <1>2
  <2> QED
    BY <2>1, JoinedLemma
<1>4. m \in Nat /\ 1 \in 1 .. m /\ DOMAIN packets = 1 .. m /\ packets[1] = p
  BY <1>1, <1>3
<1>5. ASSUME NEW i \in 1 + 1 .. m
      PROVE  ~(packets[i].type = "EXECUTION_REPORT" /\ packets[i].client_order_id = id)
  <2>1. i - 1 \in 1 .. Len(market) /\ 1 + (i - 1) = i
    BY <1>3
  <2>2. packets[i] = market[i - 1]
    BY <1>1, <1>3, <2>1
  <2> QED
    BY <1>3, <2>1, <2>2 DEF NoReports
<1> HIDE DEF m
<1>6. /\ packets[1].type = "EXECUTION_REPORT" /\ packets[1].client_order_id = id
      /\ \A i \in 1 + 1 .. m : ~(/\ packets[i].type = "EXECUTION_REPORT"
                                 /\ packets[i].client_order_id = id)
  BY <1>4, <1>5
<1>7. packets[Max(ReportsIn(packets, id))] = packets[1]
  BY <1>4, <1>6, LastReport
<1> QED
  BY <1>4, <1>7 DEF packets, one

LEMMA ReportAgrees ==
    ASSUME SafeInv, ServerInv, CallOf(Packet.order), ReportOrder
    PROVE  LET order == Packet.order
               slot  == getOrderbyId(order_books[order.symbol], order.id)
               last  == sent'[Max(ReportsIn(sent', order.id))]
           IN  IF slot # NoSlot
               THEN last.filled_quantity = mem[slot].quantity_filled /\ last.status # FILLED
               ELSE trades # << >> /\ order.type = "LIMIT" =>
                       last.filled_quantity = order.quantity /\ last.status = FILLED
<1> DEFINE order  == Packet.order
           slot   == Resting(order)
           n      == Len(trades)
           seqs   == [k \in DOMAIN trades |-> ReportsOf(k)]
           market == broadcastMarketData(order.symbol)
           last   == sent'[Max(ReportsIn(sent', order.id))]
           new    == ExecutionReport(order.id, order.user_id, order.quantity, 0, NEW_REPORT)
<1>1. /\ processing /\ Idle
      /\ sent' = (IF trades = << >> THEN << new >> ELSE FlattenSeq(seqs)) \o market
  BY DEF ReportOrder, SendPackets
<1>2. order.quantity \in Quantities
  <2>1. ServerTypes /\ (\A fd \in Fds : StreamKept(fd))
        /\ serving # NoFd /\ Len(Buffer) >= 2 /\ Packet.type = "NEW_ORDER"
    BY <1>1 DEF ServerInv, ServerTypes
  <2>2. Packet.order \in OrderRequest
    BY <2>1, PacketLemma, RequestsTyped DEF HasFields
  <2> QED
    BY <2>2 DEF OrderRequest
<1>3. PICK U : market \in Seq(U) /\ NoReports(market)
  BY MarketPackets
<1>4. trades \in Seq(Trade)
  BY DEF SafeInv, TypeOK
<1>5. /\ \A k \in DOMAIN trades : OtherId(order, trades[k]) # order.id
      /\ slot # NoSlot => /\ mem[slot].quantity_filled = FilledBy(trades)
                          /\ FilledBy(trades) < order.quantity
      /\ slot = NoSlot /\ trades # << >> /\ order.type = "LIMIT" =>
            FilledBy(trades) = order.quantity
  BY <1>1 DEF CallOf
<1>6. CASE trades = << >>
  <2>1. sent' = << new >> \o market
    BY <1>1, <1>6
  <2>2. new.type = "EXECUTION_REPORT" /\ new.client_order_id = order.id
        /\ new.filled_quantity = 0 /\ new.status # FILLED
    BY DEF ExecutionReport, NEW_REPORT, FILLED
  <2> HIDE DEF new, market
  <2>3. last = new
    BY <1>3, <2>1, <2>2, NewReport
  <2>4. FilledBy(trades) = 0
    BY <1>6, NothingFilled
  <2> QED
    BY <1>5, <1>6, <2>2, <2>3, <2>4 DEF Resting
<1>7. CASE trades # << >>
  <2> DEFINE p       == TakerReport(n)
             q       == MakerReport(n)
             updates == broadcastTradeUpdate(trades[n])
  <2>1. n \in Nat /\ n # 0 /\ DOMAIN trades = 1 .. n /\ n \in DOMAIN trades
    BY <1>4, <1>7
  <2>2. PICK R : \A k \in DOMAIN trades : ReportsOf(k) \in Seq(R)
    BY ReportsTogether
  <2>3. Len(seqs) = n /\ seqs[n] = << p, q >> \o updates
        /\ \A i \in 1 .. n : seqs[i] \in Seq(R)
    <3>1. seqs = [k \in 1 .. n |-> ReportsOf(k)]
      BY <2>1
    <3>2. ReportsOf(n) = << p, q >> \o updates
      BY DEF ReportsOf
    <3> HIDE DEF n, seqs, p, q, updates
    <3>3. Len(seqs) = n /\ seqs[n] = ReportsOf(n)
      BY <2>1, <3>1
    <3>4. \A i \in 1 .. n : seqs[i] \in Seq(R)
      BY <2>1, <2>2, <3>1
    <3> QED
      BY <3>2, <3>3, <3>4
  <2>4. PICK a \in Seq(R) : FlattenSeq(seqs) = a \o seqs[n]
    <3> HIDE DEF seqs, n
    <3> QED
      BY <2>1, <2>3, FlattenEnds
  <2>5. PICK T : updates \in Seq(T) /\ NoReports(updates)
    BY UpdatesLemma
  <2>6. sent' = (a \o (<< p, q >> \o updates)) \o market
    <3> HIDE DEF seqs, market, p, q, updates
    <3> QED
      BY <1>1, <1>7, <2>3, <2>4
  <2>7. /\ p.type = "EXECUTION_REPORT" /\ p.client_order_id = order.id
        /\ q.client_order_id = OtherId(order, trades[n])
        /\ p.filled_quantity = CopyFilled(n)
        /\ p.status = IF CopyFilled(n) >= order.quantity THEN FILLED ELSE PARTIALLY_FILLED
    BY DEF TakerReport, MakerReport, ExecutionReport, OtherId
  <2>8. q.client_order_id # order.id
    BY <1>5, <2>1, <2>7
  <2>9. CopyFilled(n) = FilledBy(trades) % QuantityModulus
    BY <2>1 DEF CopyFilled, FilledBy, Reported
  <2> HIDE DEF p, q, updates, market
  <2>10. last = p
    <3> DEFINE packets == Packets(a, p, q, updates, market)
    <3>1. packets[Max(ReportsIn(packets, order.id))] = p
      <4> DEFINE id == order.id
                 V  == R \cup T \cup U \cup {p, q}
      <4>1. a \in Seq(V) /\ updates \in Seq(V) /\ market \in Seq(V) /\ p \in V /\ q \in V
        <5>1. R \subseteq V /\ T \subseteq V /\ U \subseteq V /\ p \in V /\ q \in V
          OBVIOUS
        <5> HIDE DEF V
        <5> QED
          BY <1>3, <2>4, <2>5, <5>1, SeqWider
      <4>2. /\ a \in Seq(V) /\ updates \in Seq(V) /\ market \in Seq(V) /\ p \in V /\ q \in V
            /\ p.type = "EXECUTION_REPORT" /\ p.client_order_id = id
            /\ q.client_order_id # id /\ NoReports(updates) /\ NoReports(market)
        BY <1>3, <2>5, <2>7, <2>8, <4>1
      <4> HIDE DEF id, V
      <4>3. packets[Max(ReportsIn(packets, id))] = p
        BY <4>2, ReportPlace
      <4> QED
        BY <4>3 DEF id
    <3>2. sent' = packets
      BY <2>6 DEF Packets
    <3> HIDE DEF packets
    <3> QED
      BY <3>1, <3>2
  <2>11. FilledBy(trades) \in Nat
    BY <1>4, FilledType
  <2>12. FilledBy(trades) <= order.quantity => CopyFilled(n) = FilledBy(trades)
    BY <1>2, <2>9, <2>11, QuantityModulusAssumption DEF Quantities
  <2>13. CASE slot # NoSlot
    <3>1. CopyFilled(n) = FilledBy(trades) /\ ~(CopyFilled(n) >= order.quantity)
      BY <1>2, <1>5, <2>11, <2>12, <2>13, QuantityModulusAssumption DEF Quantities
    <3>2. p.filled_quantity = mem[slot].quantity_filled /\ p.status # FILLED
      BY <1>5, <2>7, <2>13, <3>1 DEF FILLED, PARTIALLY_FILLED
    <3> QED
      BY <2>10, <2>13, <3>2 DEF Resting
  <2>14. CASE slot = NoSlot
    <3>1. ASSUME order.type = "LIMIT"
          PROVE  p.filled_quantity = order.quantity /\ p.status = FILLED
      <4>1. FilledBy(trades) = order.quantity
        BY <1>5, <1>7, <2>14, <3>1
      <4>2. CopyFilled(n) = order.quantity /\ CopyFilled(n) >= order.quantity
        BY <1>2, <2>11, <2>12, <4>1, QuantityModulusAssumption DEF Quantities
      <4> QED
        BY <2>7, <4>2
    <3> QED
      BY <2>10, <2>14, <3>1 DEF Resting
  <2> QED
    BY <2>13, <2>14
<1> QED
  BY <1>6, <1>7

-----------------------------------------------------------------------------
(***************************************************************************)
(* The call of the packet in hand, in every state.                         *)
(***************************************************************************)
CallInv == processing => CallOf(Packet.order)

LEMMA InitCallInv == GatewayInit => CallInv
  BY DEF GatewayInit, JustStarted, CallInv

LEMMA NextCallInv == GInv /\ CallInv /\ [GatewayNext]_systemVars => CallInv'
<1> SUFFICES ASSUME GInv, CallInv, [GatewayNext]_systemVars, processing'
             PROVE  CallOf(Packet.order)'
  BY DEF CallInv
<1>1. IInv /\ SafeInv /\ ServerInv
  BY IInvIsSafe DEF GInv
<1>2. Packet' = Packet => Packet.order' = Packet.order
  OBVIOUS
<1>3. PICK order : order = Packet.order
  OBVIOUS
<1>4. CASE handleNewOrder
  <2>1. /\ ProcessNewOrder(order) /\ ~processing
        /\ sessions' = sessions /\ serving' = serving
    BY <1>3, <1>4 DEF handleNewOrder, Request, Complete, Parsing
  <2>2. order \in Requests /\ order.id \notin IdsOf(event_log)
    BY <1>1, <1>3, <1>4, HandleNewOrderStep
  <2>3. FreshId(order)
    <3>1. LiveIsLogged(DOMAIN event_log) /\ order \in OrderRequest
      BY <2>2, RequestsTyped DEF GInv
    <3>2. \A k \in DOMAIN event_log :
             event_log[k].type = "NEW_ORDER" => event_log[k].order.id # order.id
      BY <2>2 DEF IdsOf
    <3> DEFINE P == DOMAIN event_log
    <3> HIDE DEF P
    <3>3. LiveIsLogged(P) /\ \A k \in P :
             event_log[k].type = "NEW_ORDER" => event_log[k].order.id # order.id
      BY <3>1, <3>2 DEF P
    <3> QED
      BY <1>1, <3>1, <3>3, FreshLemma
  <2>4. CallOf(order)'
    BY <1>1, <2>1, <2>2, <2>3, ArrivedCall
  <2>5. order = Packet.order'
    BY <1>3, <2>1 DEF Packet, Buffer
  <2> QED
    BY <2>4, <2>5
<1>5. CASE EngineRuns
  <2>1. /\ EngineStep /\ processing
        /\ sessions' = sessions /\ serving' = serving
    BY <1>5 DEF EngineRuns, gatewayVars
  <2>2. CallOf(order)
    BY <1>3, <2>1 DEF CallInv
  <2>3. CallOf(order)'
    BY <1>1, <2>1, <2>2, MatchedCall, FinishedCall DEF EngineStep
  <2>4. order = Packet.order'
    BY <1>3, <2>1 DEF Packet, Buffer
  <2> QED
    BY <2>3, <2>4
<1>6. CASE ReportCrashes \/ UNCHANGED systemVars
  <2>1. /\ UNCHANGED vars /\ processing
        /\ sessions' = sessions /\ serving' = serving
    BY <1>6 DEF ReportCrashes, systemVars, gatewayVars
  <2>2. CallOf(order)
    BY <1>3, <2>1 DEF CallInv
  <2>3. CallOf(order)'
    BY <2>1, <2>2, KeptCall
  <2>4. order = Packet.order'
    BY <1>3, <2>1 DEF Packet, Buffer
  <2> QED
    BY <2>3, <2>4
<1>7. CASE (AtSelect /\ Clients) \/ Select \/ \E fd \in Fds : SelectAndAccept(fd)
  <2>1. serving = NoFd /\ processing' = processing
    BY <1>7 DEF AtSelect, Clients, ClientConnects, ClientCloses, Select, SelectAndAccept,
                gatewayVars
  <2> QED
    BY <1>1, <2>1 DEF ServerInv, ServerTypes
<1>8. CASE /\ Server
           /\ ~handleNewOrder /\ ~EngineRuns /\ ~ReportCrashes
           /\ ~Select /\ ~\E fd \in Fds : SelectAndAccept(fd)
  <2>1. ~processing
    BY <1>1, <1>8 DEF Server, ServerInv, ServerTypes, AtClient, ReceiveSome, Disconnect,
                NothingToHandle, handleLogin, Ignored, handleSubscriptionRequest,
                handleMarketDataRequest, handleOrderCancel, Request, Complete, Parsing,
                ReportOrder
  <2>2. processing' = processing
    BY <1>8 DEF Server, ReceiveSome, Disconnect, NothingToHandle, handleLogin, Ignored,
                handleSubscriptionRequest, handleMarketDataRequest, handleOrderCancel,
                ReportOrder, Handled
  <2> QED
    BY <2>1, <2>2
<1> QED
  BY <1>4, <1>5, <1>6, <1>7, <1>8 DEF GatewayNext

\* The last report that an order is answered with agrees with the book: what
\* rests is reported with the fill that it has in the engine and not as filled,
\* and a limit order that traded and does not rest is reported as filled.
THEOREM ReportsAreRight == GatewaySpec => TakerReportsAgree
<1>1. GInv /\ CallInv =>
         [ ReportOrder =>
             LET order == Packet.order
                 slot  == getOrderbyId(order_books[order.symbol], order.id)
                 last  == sent'[Max(ReportsIn(sent', order.id))]
             IN  IF slot # NoSlot
                 THEN last.filled_quantity = mem[slot].quantity_filled /\ last.status # FILLED
                 ELSE trades # << >> /\ order.type = "LIMIT" =>
                         last.filled_quantity = order.quantity /\ last.status = FILLED
         ]_systemVars
  <2> SUFFICES ASSUME GInv, CallInv, ReportOrder
               PROVE  LET order == Packet.order
                          slot  == getOrderbyId(order_books[order.symbol], order.id)
                          last  == sent'[Max(ReportsIn(sent', order.id))]
                      IN  IF slot # NoSlot
                          THEN /\ last.filled_quantity = mem[slot].quantity_filled
                               /\ last.status # FILLED
                          ELSE trades # << >> /\ order.type = "LIMIT" =>
                                  last.filled_quantity = order.quantity /\ last.status = FILLED
    OBVIOUS
  <2>1. SafeInv /\ ServerInv
    BY IInvIsSafe DEF GInv
  <2>2. CallOf(Packet.order)
    BY DEF CallInv, ReportOrder
  <2> QED
    BY <2>1, <2>2, ReportAgrees
<1> QED
  BY <1>1, InitCallInv, NextCallInv, GatewayInvariance, PTL DEF GatewaySpec, TakerReportsAgree
=============================================================================
