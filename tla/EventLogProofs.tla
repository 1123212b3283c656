--------------------------- MODULE EventLogProofs ---------------------------
(***************************************************************************)
(* The server across crashes and restarts, for every number of them and    *)
(* whatever the clients send: what rests in a book is in the log, at every *)
(* moment, during a replay too.                                            *)
(*                                                                         *)
(* While a replay runs, the engine has been given a part of the log, and   *)
(* only what is there may be in it (LogGiven): that is what keeps the id   *)
(* of the next record out of the books, because an id is in the log once.  *)
(* A cancel breaks this in three ways.  Read as a MARKET order it brings   *)
(* an id that may rest, so all of the engine's invariant that holds is     *)
(* SafeInv, which asks nothing of a MARKET order; read as a LIMIT order it *)
(* may rest under that id; and behind it no record begins.  With the       *)
(* second and the third the replay has strayed, and all that is said of    *)
(* the engine ends there.  What is said of the log goes on: which records  *)
(* were handled to their end does not depend on what was read.             *)
(*                                                                         *)
(* A replay of orders leads back to where the engine was.  That relates    *)
(* two processes, so no invariant of one engine tells it: the engine's     *)
(* steps are written as functions on the values of its state, whatever it  *)
(* is in is shown to be on the run that they make of the log, and that run *)
(* has one idle state for each number of records.                          *)
(***************************************************************************)
EXTENDS EventLog, GatewayProofs

-----------------------------------------------------------------------------
(***************************************************************************)
(* The file.                                                               *)
(***************************************************************************)
\* The bytes of the first n records of a log.
Bytes(log, n) == SumFunctionOnSet([k \in DOMAIN log |-> RecordSize(log[k])], 1 .. n)

LEMMA OffsetIsBytes ==
    ASSUME NEW n
    PROVE  Offset(n) = Bytes(event_log, n) /\ Offset(n)' = Bytes(event_log', n)
  BY DEF Offset, Bytes

\* More records are not fewer bytes.
LEMMA BytesGrow ==
    ASSUME NEW log \in Seq(Messages), NEW m \in 0 .. Len(log), NEW n \in 0 .. m
    PROVE  Bytes(log, n) \in Nat /\ Bytes(log, m) \in Nat /\ Bytes(log, n) <= Bytes(log, m)
<1> DEFINE f == [k \in DOMAIN log |-> RecordSize(log[k])]
           S == 1 .. m
           T == 1 .. n
<1>1. IsFiniteSet(S) /\ IsFiniteSet(T) /\ T \in SUBSET S
  BY FS_Interval
<1>2. NatOn(f, S)
  BY DEF NatOn, RecordSize, OrderSize, CancelSize
<1>3. NatOn(f, T)
  BY <1>1, <1>2 DEF NatOn
<1> HIDE DEF f, S, T
<1>4. SumFunctionOnSet(f, S) \in Nat /\ SumFunctionOnSet(f, T) \in Nat
  BY <1>1, <1>2, <1>3, SumType
<1>5. SumFunctionOnSet(f, T) <= SumFunctionOnSet(f, S)
  BY <1>1, <1>2, SumMonotone
<1> QED
  BY <1>4, <1>5 DEF Bytes, f, S, T

LEMMA BytesLemma ==
    ASSUME NEW log \in Seq(Messages), NEW n \in 0 .. Len(log)
    PROVE  Bytes(log, n) \in Nat /\ Bytes(log, Len(log)) \in Nat
           /\ Bytes(log, n) <= Bytes(log, Len(log))
<1>1. Len(log) \in 0 .. Len(log)
  OBVIOUS
<1> QED
  BY <1>1, BytesGrow

\* What is appended changes nothing of what comes before it.
LEMMA BytesKept ==
    ASSUME NEW log \in Seq(Messages), NEW record \in Messages, NEW n \in 0 .. Len(log)
    PROVE  Bytes(Append(log, record), n) = Bytes(log, n)
<1> DEFINE more == Append(log, record)
           f == [k \in DOMAIN log |-> RecordSize(log[k])]
           g == [k \in DOMAIN more |-> RecordSize(more[k])]
           T == 1 .. n
<1>1. IsFiniteSet(T)
  BY FS_Interval
<1>2. \A k \in T : k \in DOMAIN log /\ k \in DOMAIN more /\ more[k] = log[k]
  OBVIOUS
<1> HIDE DEF more, T
<1>3. NatOn(f, T) /\ \A k \in T : f[k] = g[k]
  BY <1>2 DEF NatOn, RecordSize, OrderSize, CancelSize
<1> HIDE DEF f, g
<1>4. SumFunctionOnSet(f, T) = SumFunctionOnSet(g, T)
  BY <1>1, <1>3, SumSame
<1> QED
  BY <1>4 DEF Bytes, f, g, T, more

\* Where the records of the log begin, and how long it is.
LEMMA OffsetLemma ==
    ASSUME event_log \in Seq(Messages)
    PROVE  FileSize \in Nat /\ \A n \in 0 .. Len(event_log) : Offset(n) \in Nat
<1>1. Len(event_log) \in 0 .. Len(event_log)
  OBVIOUS
<1> QED
  BY <1>1, OffsetIsBytes, BytesLemma DEF FileSize

LEMMA GrownFile ==
    ASSUME event_log \in Seq(Messages), NEW record \in Messages,
           event_log' = Append(event_log, record)
    PROVE  /\ \A n \in 0 .. Len(event_log) : Offset(n)' = Offset(n)
           /\ FileSize \in Nat /\ FileSize' \in Nat /\ FileSize <= FileSize'
<1> DEFINE more == Append(event_log, record)
           n == Len(event_log)
<1>1. /\ more \in Seq(Messages) /\ n \in 0 .. Len(more) /\ n \in 0 .. n
      /\ Len(more) \in 0 .. Len(more)
  OBVIOUS
<1>2. \A k \in 0 .. n : Offset(k)' = Offset(k)
  BY OffsetIsBytes, BytesKept
<1>3. FileSize = Bytes(more, n)
  BY <1>1, OffsetIsBytes, BytesKept DEF FileSize
<1>4. FileSize' = Bytes(more, Len(more))
  BY DEF FileSize, Offset, Bytes
<1> HIDE DEF more, n
<1>5. Bytes(more, n) \in Nat /\ Bytes(more, Len(more)) \in Nat
      /\ Bytes(more, n) <= Bytes(more, Len(more))
  BY <1>1, BytesLemma
<1> QED
  BY <1>2, <1>3, <1>4, <1>5 DEF n

\* A record adds its own.
LEMMA BytesAdd ==
    ASSUME NEW log \in Seq(Messages), NEW n \in 1 .. Len(log)
    PROVE  /\ n - 1 \in 0 .. Len(log)
           /\ Bytes(log, n - 1) \in Nat
           /\ Bytes(log, n) = RecordSize(log[n]) + Bytes(log, n - 1)
<1> DEFINE f == [k \in DOMAIN log |-> RecordSize(log[k])]
           S == 1 .. n
<1>1. IsFiniteSet(S)
  BY FS_Interval
<1>2. n \in S /\ S \ {n} = 1 .. (n - 1) /\ n - 1 \in 0 .. Len(log) /\ n \in DOMAIN log
  OBVIOUS
<1>3. NatOn(f, S)
  BY DEF NatOn, RecordSize, OrderSize, CancelSize
<1>4. f[n] = RecordSize(log[n])
  BY <1>2
<1>5. Bytes(log, n - 1) \in Nat
  BY <1>2, BytesLemma
<1>6. /\ SumFunctionOnSet(f, S) = Bytes(log, n)
      /\ SumFunctionOnSet(f, 1 .. (n - 1)) = Bytes(log, n - 1)
  BY DEF Bytes
<1> HIDE DEF f, S
<1>7. SumFunctionOnSet(f, S) = f[n] + SumFunctionOnSet(f, S \ {n})
  BY <1>1, <1>2, <1>3, SumAdd
<1> QED
  BY <1>2, <1>4, <1>5, <1>6, <1>7

\* The first n records are orders.
OrdersUpTo(log, n) == \A k \in 1 .. n : k \in DOMAIN log /\ log[k].type = "NEW_ORDER"

\* Of orders alone the bytes are 49 for each.
LEMMA BytesOfOrders ==
    ASSUME NEW log \in Seq(Messages), NEW n \in Nat, n <= Len(log), OrdersUpTo(log, n)
    PROVE  \A k \in 0 .. n : Bytes(log, k) = OrderSize * k
<1> DEFINE f == [k \in DOMAIN log |-> RecordSize(log[k])]
           Bad == {k \in Nat : k \in 0 .. n /\ Bytes(log, k) # OrderSize * k}
<1>1. SUFFICES ASSUME Bad # {} PROVE FALSE
  OBVIOUS
<1>2. PICK k \in Bad : \A j \in Bad : k <= j
  BY <1>1, LeastNatural
<1>3. k \in 0 .. n /\ Bytes(log, k) # OrderSize * k
  BY <1>2
<1>4. \A j \in 1 .. n : f[j] = OrderSize
  BY DEF OrdersUpTo, RecordSize
<1>5. \A j : Bytes(log, j) = SumFunctionOnSet(f, 1 .. j)
  BY DEF Bytes
<1> HIDE DEF f
<1>6. k # 0
  <2>1. 1 .. 0 = {}
    OBVIOUS
  <2>2. Bytes(log, 0) = 0
    BY <1>5, <2>1, SumEmpty
  <2> QED
    BY <1>3, <2>2 DEF OrderSize
<1>7. k \in 1 .. n /\ k - 1 \in Nat /\ k - 1 \in 0 .. n /\ k - 1 \notin Bad
  BY <1>2, <1>3, <1>6
<1>8. Bytes(log, k - 1) = OrderSize * (k - 1)
  BY <1>7
<1> DEFINE S == 1 .. k
<1>9. IsFiniteSet(S)
  BY <1>7, FS_Interval
<1>10. k \in S /\ S \ {k} = 1 .. (k - 1)
  BY <1>7
<1>11. NatOn(f, S)
  BY <1>4, <1>7 DEF NatOn, OrderSize
<1> HIDE DEF S
<1>12. SumFunctionOnSet(f, S) = f[k] + SumFunctionOnSet(f, S \ {k})
  BY <1>9, <1>10, <1>11, SumAdd
<1>13. Bytes(log, k) = OrderSize + OrderSize * (k - 1)
  BY <1>4, <1>5, <1>7, <1>8, <1>10, <1>12 DEF S
<1> QED
  BY <1>3, <1>7, <1>13 DEF OrderSize

LEMMA OffsetOfOrders ==
    ASSUME event_log \in Seq(Messages), NEW n \in Nat, OrdersUpTo(event_log, n)
    PROVE  n <= Len(event_log) /\ \A k \in 0 .. n : Offset(k) = OrderSize * k
<1>1. n <= Len(event_log)
  <2>1. CASE n = 0
    BY <2>1
  <2>2. CASE n # 0
    <3>1. n \in 1 .. n
      BY <2>2
    <3>2. n \in DOMAIN event_log
      BY <3>1 DEF OrdersUpTo
    <3> QED
      BY <3>2
  <2> QED
    BY <2>1, <2>2
<1> QED
  BY <1>1, BytesOfOrders, OffsetIsBytes

\* A number of records that were read whole, and of bytes.
LEMMA Division ==
    ASSUME NEW p \in Nat, p % OrderSize = 0
    PROVE  /\ p \div OrderSize \in Nat /\ OrderSize * (p \div OrderSize) = p
           /\ (p + OrderSize) \div OrderSize = p \div OrderSize + 1
  BY DEF OrderSize

-----------------------------------------------------------------------------
(***************************************************************************)
(* The invariant.                                                          *)
(***************************************************************************)
\* Only orders and cancels are written to the log.
RecordsOK ==
    \A n \in DOMAIN event_log : event_log[n].type \in {"NEW_ORDER", "ORDER_CANCEL"}

\* A replay reads orders from the beginning of the file, and not beyond its end.
ReplayState ==
    /\ replay_pos \in Nat
    /\ replay_pos % OrderSize = 0
    /\ replay_pos <= FileSize

\* The records that the engine was given: all, or those before replay_pos.
LogGiven == {n \in DOMAIN event_log : replaying => Offset(n - 1) < replay_pos}

\* A record that is not behind a cancel has orders in front of it only.
LEMMA OrdersInFront ==
    ASSUME event_log \in Seq(Messages), RecordsOK, NEW n \in DOMAIN event_log, ~BehindCancel(n)
    PROVE  OrdersUpTo(event_log, n)
<1>1. \A k \in 1 .. n : k \in DOMAIN event_log
  OBVIOUS
<1> QED
  BY <1>1 DEF RecordsOK, BehindCancel, OrdersUpTo

\* What is being done about record n, cut short in front of any cancel: it is
\* the last, and it is being handled, or a crash has come in between, or the
\* replay has not come to its end.
Pending(n) ==
    /\ n = Len(event_log)
    /\ IF replaying
       THEN replay_pos < Offset(n) \/ (replay_pos = Offset(n) /\ ~Idle)
       ELSE processing \/ crashed

\* How many records were cut short, and which of them while nothing is forgotten.
HandledState ==
    /\ handled \subseteq DOMAIN event_log
    /\ restarts \in Nat
    /\ replaying => ~processing /\ ~crashed
    /\ processing => Len(event_log) \in CutShort
    /\ Cardinality(CutShort) <= restarts + (IF processing \/ crashed THEN 1 ELSE 0)
    /\ ~forgot => \A n \in CutShort : BehindCancel(n) \/ Pending(n)

EngineState == SafeInv /\ LiveIsLogged(LogGiven)

LInv ==
    /\ ServerInv
    /\ RecordsOK
    /\ ReplayState
    /\ HandledState
    /\ ~Strayed => EngineState

-----------------------------------------------------------------------------
(***************************************************************************)
(* Live: the server serves clients.                                        *)
(***************************************************************************)
\* What a step of the server does to the log.
LEMMA LoggedNext ==
    ASSUME ServerInv, GatewayNext
    PROVE  \/ event_log' = event_log
           \/ \E record \in Messages :
                 /\ record.type \in {"NEW_ORDER", "ORDER_CANCEL"}
                 /\ event_log' = Append(event_log, record)
<1>1. CASE handleNewOrder \/ handleOrderCancel
  <2>1. /\ Complete /\ event_log' = Append(event_log, Packet)
        /\ Packet.type \in {"NEW_ORDER", "ORDER_CANCEL"}
    BY <1>1 DEF handleNewOrder, handleOrderCancel, Request
  <2>2. Packet \in Messages
    BY <2>1, CompleteLemma
  <2> QED
    BY <2>1, <2>2
<1>2. ASSUME ~handleNewOrder, ~handleOrderCancel
      PROVE  event_log' = event_log
  <2>1. CASE AtSelect /\ Clients
    BY <2>1 DEF Clients, ClientConnects, ClientCloses, gatewayVars
  <2>2. CASE Server
    BY <1>2, <2>2 DEF Server, Select, SelectAndAccept, ReceiveSome, Disconnect,
                      NothingToHandle, handleLogin, Ignored, handleSubscriptionRequest,
                      handleMarketDataRequest, EngineRuns, ReportOrder, ReportCrashes,
                      gatewayVars
  <2> QED
    BY <2>1, <2>2 DEF GatewayNext
<1> QED
  BY <1>1, <1>2

\* It does so at the beginning of a packet.
LEMMA LoggingLemma ==
    ASSUME GatewayNext, event_log' # event_log
    PROVE  ~processing /\ ~crashed
<1>1. handleNewOrder \/ handleOrderCancel
  BY DEF GatewayNext, Clients, ClientConnects, ClientCloses, gatewayVars, Server,
         Select, SelectAndAccept, ReceiveSome, Disconnect, NothingToHandle,
         handleLogin, Ignored, handleSubscriptionRequest, handleMarketDataRequest,
         EngineRuns, ReportOrder, ReportCrashes
<1> QED
  BY <1>1 DEF handleNewOrder, handleOrderCancel, Request, Complete, Parsing

LEMMA NotCrashed == GatewayNext => ~crashed
  BY DEF GatewayNext, Server, AtSelect, Select, SelectAndAccept, AtClient,
         ReceiveSome, Disconnect, Parsing, NothingToHandle, Complete, Request,
         handleLogin, Ignored, handleSubscriptionRequest, handleMarketDataRequest,
         handleOrderCancel, handleNewOrder, EngineRuns, ReportOrder, ReportCrashes

\* It begins to process an order with the record of it.
LEMMA ProcessingLemma ==
    ASSUME ServerInv, GatewayNext, event_log' = event_log, processing'
    PROVE  processing
<1>1. CASE handleNewOrder
  <2>1. event_log \in Seq(Messages) /\ event_log' = Append(event_log, Packet)
    BY <1>1 DEF handleNewOrder, ServerInv, ServerTypes
  <2>2. Len(event_log') = Len(event_log) + 1 /\ Len(event_log) \in Nat
    BY <2>1
  <2> QED
    BY <2>2
<1>2. CASE ~handleNewOrder
  BY <1>2 DEF GatewayNext, Clients, ClientConnects, ClientCloses, gatewayVars, Server,
              Select, SelectAndAccept, ReceiveSome, Disconnect, NothingToHandle,
              handleLogin, Ignored, handleSubscriptionRequest, handleMarketDataRequest,
              handleOrderCancel, Handled, EngineRuns, ReportOrder, ReportCrashes
<1> QED
  BY <1>1, <1>2

\* A step of the engine as it was specified keeps what it is safe by.
LEMMA SafeNext ==
    ASSUME SafeInv, [Next]_vars
    PROVE  SafeInv'
<1>1. ASSUME NEW request \in Requests, FreshId(request), ProcessNewOrder(request)
      PROVE  SafeInv'
  <2>1. request \in OrderRequest /\ MayRest(request)
    BY <1>1, RequestsTyped DEF MayRest
  <2> QED
    BY <1>1, <2>1, NextSafe
<1> QED
  BY <1>1, NextSafe DEF Next

\* No more are cut short than were.
LEMMA CutLemma ==
    ASSUME event_log \in Seq(Messages), NEW S, S \subseteq CutShort
    PROVE  Cardinality(CutShort) \in Nat /\ Cardinality(S) \in Nat
           /\ Cardinality(S) <= Cardinality(CutShort)
<1>1. IsFiniteSet(DOMAIN event_log)
  BY FS_Interval
<1>2. IsFiniteSet(CutShort)
  BY <1>1, FS_Subset DEF CutShort
<1> QED
  BY <1>2, FS_Subset, FS_CardinalityType

\* A record is appended, and cut short by what does not handle it in one step.
LEMMA CutByOne ==
    ASSUME event_log \in Seq(Messages), HandledState, ~processing, ~crashed, ~replaying,
           NEW record \in Messages, event_log' = Append(event_log, record),
           handled' = handled, restarts' = restarts, forgot' = forgot, ~replaying',
           processing' \/ crashed'
    PROVE  HandledState'
<1>1. PICK n : n = Len(event_log)
  OBVIOUS
<1>2. /\ n \in Nat /\ DOMAIN event_log = 1 .. n /\ DOMAIN event_log' = 1 .. n + 1
      /\ Len(event_log') = n + 1 /\ \A k \in 1 .. n : event_log'[k] = event_log[k]
  BY <1>1
<1>3. handled \subseteq 1 .. n /\ restarts \in Nat /\ Cardinality(CutShort) <= restarts
      /\ (~forgot => \A k \in CutShort : BehindCancel(k))
  BY <1>2 DEF HandledState, Pending
<1>4. CutShort' = CutShort \cup {n + 1} /\ n + 1 \notin CutShort
  BY <1>2, <1>3 DEF CutShort
<1>5. Cardinality(CutShort') = Cardinality(CutShort) + 1 /\ Cardinality(CutShort) \in Nat
  <2>1. IsFiniteSet(1 .. n)
    BY <1>2, FS_Interval
  <2>2. IsFiniteSet(CutShort)
    BY <1>2, <2>1, FS_Subset DEF CutShort
  <2> QED
    BY <1>4, <2>2, FS_AddElement, FS_CardinalityType
<1>6. ASSUME NEW k \in CutShort, BehindCancel(k)
      PROVE  BehindCancel(k)'
  <2>1. k \in 1 .. n
    BY <1>2 DEF CutShort
  <2> QED
    BY <1>2, <1>6, <2>1 DEF BehindCancel
<1>7. Pending(n + 1)'
  BY <1>2 DEF Pending
<1>8. ~forgot' => \A k \in CutShort' : BehindCancel(k)' \/ Pending(k)'
  BY <1>3, <1>4, <1>6, <1>7
<1>9. Cardinality(CutShort') <= restarts' + (IF processing' \/ crashed' THEN 1 ELSE 0)
  BY <1>3, <1>5
<1> QED
  BY <1>2, <1>3, <1>4, <1>8, <1>9 DEF HandledState

\* A step of the server appends a record, and begins to handle it or has handled
\* it at once, or it ends what was begun, or it does neither.
LEMMA HandledLive ==
    ASSUME ServerInv, HandledState, Live
    PROVE  HandledState'
<1>1. /\ ~replaying /\ ~replaying' /\ GatewayNext /\ forgot' = forgot /\ restarts' = restarts
      /\ Handles(IF RecordHandled THEN {Len(event_log')} ELSE {})
  BY DEF Live
<1>2. event_log \in Seq(Messages)
  BY DEF ServerInv, ServerTypes
<1>3. handled' = IF RecordHandled THEN handled \cup {Len(event_log')} ELSE handled
  BY <1>1 DEF Handles
<1>4. ~crashed
  BY <1>1, NotCrashed
<1>5. CASE event_log' = event_log /\ ~RecordHandled
  <2>1. CutShort' = CutShort /\ handled' = handled
    BY <1>3, <1>5 DEF CutShort
  <2>2. processing => processing'
    BY <1>5 DEF RecordHandled
  <2>3. processing' => processing
    BY <1>1, <1>5, ProcessingLemma
  <2>4. Cardinality(CutShort) \in Nat
    BY <1>2, CutLemma
  <2>5. \A n : BehindCancel(n)' = BehindCancel(n)
    BY <1>5 DEF BehindCancel
  <2>6. \A n : Pending(n) => Pending(n)'
    BY <1>1, <1>4, <1>5, <2>2 DEF Pending
  <2> QED
    BY <1>1, <1>4, <1>5, <2>1, <2>2, <2>3, <2>4, <2>5, <2>6 DEF HandledState
<1>6. CASE event_log' = event_log /\ RecordHandled
  <2>1. processing /\ ~processing'
    BY <1>6 DEF RecordHandled
  <2>2. PICK n : n = Len(event_log)
    OBVIOUS
  <2>3. n \in CutShort /\ n \in DOMAIN event_log /\ CutShort' = CutShort \ {n}
        /\ handled' = handled \cup {n}
    BY <1>3, <1>6, <2>1, <2>2 DEF HandledState, CutShort
  <2>4. Cardinality(CutShort') = Cardinality(CutShort) - 1 /\ Cardinality(CutShort) \in Nat
    <3>1. IsFiniteSet(DOMAIN event_log)
      BY <1>2, FS_Interval
    <3>2. IsFiniteSet(CutShort)
      BY <3>1, FS_Subset DEF CutShort
    <3> QED
      BY <2>3, <3>2, FS_RemoveElement, FS_CardinalityType
  <2>5. Cardinality(CutShort') <= restarts'
    BY <1>1, <2>1, <2>4 DEF HandledState
  <2>6. ASSUME ~forgot', NEW k \in CutShort'
        PROVE  BehindCancel(k)'
    BY <1>1, <1>6, <2>2, <2>3, <2>6 DEF HandledState, Pending, BehindCancel
  <2>7. Cardinality(CutShort') \in Nat
    BY <1>2, <2>3, CutLemma
  <2> QED
    BY <1>1, <1>6, <2>1, <2>3, <2>5, <2>6, <2>7 DEF HandledState
<1>7. CASE event_log' # event_log
  <2>1. PICK record \in Messages : event_log' = Append(event_log, record)
    BY <1>1, <1>7, LoggedNext
  <2>2. ~processing
    BY <1>1, <1>7, LoggingLemma
  <2>3. CASE ~RecordHandled
    <3>1. processing' /\ handled' = handled
      BY <1>3, <1>7, <2>3 DEF RecordHandled
    <3> QED
      BY <1>1, <1>2, <1>4, <2>1, <2>2, <3>1, CutByOne
  <2>4. CASE RecordHandled
    <3>1. PICK n : n = Len(event_log)
      OBVIOUS
    <3>2. /\ n \in Nat /\ DOMAIN event_log = 1 .. n /\ DOMAIN event_log' = 1 .. n + 1
          /\ Len(event_log') = n + 1 /\ \A k \in 1 .. n : event_log'[k] = event_log[k]
      BY <1>2, <2>1, <3>1
    <3>3. ~processing' /\ handled' = handled \cup {n + 1} /\ handled \subseteq 1 .. n
      BY <1>3, <2>4, <3>2 DEF RecordHandled, HandledState
    <3>4. CutShort' = CutShort
      BY <3>2, <3>3 DEF CutShort
    <3>5. Cardinality(CutShort) <= restarts /\ Cardinality(CutShort) \in Nat /\ restarts \in Nat
      BY <1>2, <1>4, <2>2, CutLemma DEF HandledState
    <3>6. ASSUME ~forgot', NEW k \in CutShort
          PROVE  BehindCancel(k)'
      <4>1. BehindCancel(k) /\ k \in 1 .. n
        BY <1>1, <1>4, <2>2, <3>2, <3>6 DEF HandledState, Pending, CutShort
      <4> QED
        BY <3>2, <4>1 DEF BehindCancel
    <3> QED
      BY <1>1, <3>2, <3>3, <3>4, <3>5, <3>6 DEF HandledState
  <2> QED
    BY <2>3, <2>4
<1> QED
  BY <1>5, <1>6, <1>7

\* A record that is appended changes nothing of what the replay has read.
LEMMA GrownReplay ==
    ASSUME event_log \in Seq(Messages), RecordsOK, ReplayState,
           NEW record \in Messages, record.type \in {"NEW_ORDER", "ORDER_CANCEL"},
           event_log' = Append(event_log, record), replay_pos' = replay_pos
    PROVE  RecordsOK' /\ ReplayState' /\ (Strayed => Strayed')
<1> DEFINE len == Len(event_log)
<1>1. /\ \A n \in 0 .. len : Offset(n)' = Offset(n)
      /\ FileSize \in Nat /\ FileSize' \in Nat /\ FileSize <= FileSize'
  BY GrownFile
<1>2. /\ len \in Nat /\ DOMAIN event_log = 1 .. len /\ DOMAIN event_log' = 1 .. len + 1
      /\ \A n \in 1 .. len : event_log'[n] = event_log[n]
      /\ event_log'[len + 1] = record
  OBVIOUS
<1>3. FileSize = Offset(len)
  BY DEF FileSize
<1> HIDE DEF len
<1>4. RecordsOK'
  BY <1>2 DEF RecordsOK
<1>5. ReplayState'
  BY <1>1 DEF ReplayState
<1>6. ASSUME Strayed
      PROVE  Strayed'
  <2>1. PICK pos \in 0 .. replay_pos - 1 :
           /\ pos % OrderSize = 0
           /\ \/ \A k \in DOMAIN event_log : Offset(k - 1) # pos
              \/ \E k \in DOMAIN event_log : Offset(k - 1) = pos /\ ReadAsLimit(k)
    BY <1>6 DEF Strayed
  <2>2. pos \in 0 .. replay_pos' - 1
    OBVIOUS
  <2>3. \A k \in 1 .. len + 1 : k - 1 \in 0 .. len /\ Offset(k - 1)' = Offset(k - 1)
    BY <1>1, <1>2
  <2>4. CASE \A k \in DOMAIN event_log : Offset(k - 1) # pos
    <3>1. ASSUME NEW k \in DOMAIN event_log'
          PROVE  Offset(k - 1)' # pos
      <4>1. CASE k \in 1 .. len
        BY <1>2, <2>3, <2>4, <4>1
      <4>2. CASE k = len + 1
        <5>1. Offset(k - 1) = FileSize /\ replay_pos \in Nat /\ replay_pos <= FileSize
          BY <1>2, <1>3, <4>2 DEF ReplayState
        <5> QED
          BY <1>1, <1>2, <2>1, <2>3, <5>1
      <4> QED
        BY <1>2, <4>1, <4>2
    <3> QED
      BY <2>1, <2>2, <3>1 DEF Strayed
  <2>5. CASE \E k \in DOMAIN event_log : Offset(k - 1) = pos /\ ReadAsLimit(k)
    <3>1. PICK k \in DOMAIN event_log : Offset(k - 1) = pos /\ ReadAsLimit(k)
      BY <2>5
    <3>2. k \in 1 .. len /\ k + 1 \in 1 .. len /\ k \in DOMAIN event_log'
      BY <1>2, <3>1 DEF ReadAsLimit, len
    <3>3. ReadAsLimit(k)'
      <4>1. Len(event_log') = len + 1
        BY DEF len
      <4>2. event_log'[k] = event_log[k] /\ event_log'[k + 1] = event_log[k + 1]
        BY <1>2, <3>2
      <4> QED
        BY <1>2, <3>1, <3>2, <4>1, <4>2 DEF ReadAsLimit
    <3>4. Offset(k - 1)' = pos
      BY <1>2, <2>3, <3>1, <3>2
    <3> QED
      BY <2>1, <2>2, <3>2, <3>3, <3>4 DEF Strayed
  <2> QED
    BY <2>1, <2>4, <2>5
<1> QED
  BY <1>4, <1>5, <1>6

LEMMA LiveStep == LInv /\ Live => LInv'
<1> SUFFICES ASSUME LInv, Live PROVE LInv'
  OBVIOUS
<1>1. /\ ServerInv /\ RecordsOK /\ ReplayState /\ (~Strayed => EngineState)
      /\ GatewayNext /\ ~replaying /\ ~replaying' /\ replay_pos' = replay_pos
  BY DEF LInv, Live
<1>2. event_log \in Seq(Messages)
  BY <1>1 DEF ServerInv, ServerTypes
<1>3. ServerInv'
  BY <1>1, NextServerInv
<1>4. LogGiven = DOMAIN event_log /\ LogGiven' = DOMAIN event_log'
  BY <1>1 DEF LogGiven
<1>5. ASSUME event_log' = event_log
      PROVE  RecordsOK' /\ ReplayState' /\ (Strayed => Strayed')
  <2>1. \A n : Offset(n)' = Offset(n)
    BY <1>5 DEF Offset
  <2>2. FileSize' = FileSize
    BY <1>5 DEF FileSize, Offset
  <2>3. RecordsOK' /\ ReplayState'
    BY <1>1, <1>5, <2>2 DEF RecordsOK, ReplayState
  <2>4. Strayed => Strayed'
    BY <1>1, <1>5, <2>1 DEF Strayed, ReadAsLimit
  <2> QED
    BY <2>3, <2>4
<1>6. ASSUME NEW record \in Messages, record.type \in {"NEW_ORDER", "ORDER_CANCEL"},
             event_log' = Append(event_log, record)
      PROVE  RecordsOK' /\ ReplayState' /\ (Strayed => Strayed')
  BY <1>1, <1>2, <1>6, GrownReplay
<1>7. RecordsOK' /\ ReplayState' /\ (Strayed => Strayed')
  BY <1>1, <1>5, <1>6, LoggedNext
<1>8. HandledState'
  BY HandledLive DEF LInv
<1>9. ASSUME ~Strayed'
      PROVE  EngineState'
  <2>1. SafeInv /\ LiveIsLogged(DOMAIN event_log)
    BY <1>1, <1>4, <1>7, <1>9 DEF EngineState
  <2>2. [Next]_vars /\ LiveIsLogged(DOMAIN event_log)'
    BY <1>1, <2>1, GatewayEngineStep
  <2>3. SafeInv'
    BY <2>1, <2>2, SafeNext
  <2> QED
    BY <1>4, <2>2, <2>3 DEF EngineState, LiveIsLogged
<1> QED
  BY <1>3, <1>7, <1>8, <1>9 DEF LInv

-----------------------------------------------------------------------------
(***************************************************************************)
(* Crash and restart.                                                      *)
(***************************************************************************)
\* A step that leaves the engine alone, or is one of its own that brings no
\* order, while nothing of the log is forgotten.
LEMMA EngineKept ==
    ASSUME EngineState, EngineStep \/ UNCHANGED vars, event_log' = event_log,
           NEW Q, LogGiven' = Q, LogGiven \subseteq Q
    PROVE  EngineState'
<1>1. SafeInv'
  BY NextSafe DEF EngineState
<1> DEFINE P == LogGiven
<1>2. SafeInv /\ LiveIsLogged(P) /\ P \subseteq Q
  BY DEF EngineState
<1> HIDE DEF P
<1>3. \A order : LoggedIn(event_log, P, order) => LoggedIn(event_log, Q, order)
  BY <1>2 DEF LoggedIn
<1>4. \A s \in LiveSlots' : mem'[s].type # "MARKET" => LoggedIn(event_log, Q, mem'[s])
  BY <1>2, <1>3, KeptLogged
<1> QED
  BY <1>1, <1>4 DEF EngineState, LiveIsLogged

\* A step that leaves the log and the server alone.
LEMMA QuietLog ==
    ASSUME LInv, UNCHANGED << netVars, sessions, subscriptions, event_log, serving,
                              processing, replay_pos >>
    PROVE  ServerInv' /\ RecordsOK' /\ ReplayState' /\ Strayed' = Strayed
<1>1. ServerInv /\ RecordsOK /\ ReplayState /\ event_log' = event_log
      /\ replay_pos' = replay_pos
  BY DEF LInv
<1>2. ServerInv'
  BY <1>1, StutterStep
<1>3. \A n : Offset(n)' = Offset(n)
  BY <1>1 DEF Offset
<1>4. FileSize' = FileSize
  BY <1>1 DEF FileSize, Offset
<1>5. RecordsOK' /\ ReplayState'
  BY <1>1, <1>4 DEF RecordsOK, ReplayState
<1>6. Strayed' = Strayed
  BY <1>1, <1>3 DEF Strayed, ReadAsLimit
<1> QED
  BY <1>2, <1>5, <1>6

LEMMA CrashStep == LInv /\ Crash => LInv'
<1> SUFFICES ASSUME LInv, Crash PROVE LInv'
  OBVIOUS
<1>1. /\ UNCHANGED << netVars, sessions, subscriptions, event_log, serving,
                      processing, replay_pos >>
      /\ UNCHANGED vars /\ ~replaying' /\ event_log' = event_log
  BY DEF Crash
<1>2. ServerInv' /\ RecordsOK' /\ ReplayState' /\ Strayed' = Strayed
  BY <1>1, QuietLog
<1>3. LogGiven' = DOMAIN event_log /\ LogGiven \subseteq DOMAIN event_log
  BY <1>1 DEF LogGiven
<1>4. EngineState => EngineState'
  BY <1>1, <1>3, EngineKept
<1>5. HandledState'
  <2>1. /\ ~crashed /\ crashed' /\ handled' = handled /\ restarts' = restarts
        /\ forgot' = forgot /\ processing' = processing /\ HandledState
    BY DEF Crash, LInv
  <2>2. CutShort' = CutShort /\ \A n : BehindCancel(n)' = BehindCancel(n)
    BY <1>1, <2>1 DEF CutShort, BehindCancel
  <2>3. \A n : Pending(n) => Pending(n)'
    BY <1>1, <2>1 DEF Pending
  <2>4. Cardinality(CutShort) \in Nat
    BY CutLemma DEF LInv, ServerInv, ServerTypes
  <2> QED
    BY <1>1, <2>1, <2>2, <2>3, <2>4 DEF HandledState
<1> QED
  BY <1>2, <1>4, <1>5 DEF LInv

\* The record of a cancel brings no id to the log.
LEMMA LoggedCancel ==
    ASSUME ServerInv, Complete, Packet.type = "ORDER_CANCEL",
           event_log' = Append(event_log, Packet),
           UNCHANGED << netVars, sessions, subscriptions, serving, processing >>
    PROVE  ServerInv'
<1>1. /\ peer' = peer /\ wire' = wire /\ clients' = clients /\ fds' = fds
      /\ unhandled' = unhandled /\ submitted' = submitted /\ sessions' = sessions
      /\ subscriptions' = subscriptions /\ serving' = serving /\ processing' = processing
  BY DEF netVars
<1>2. /\ ServerTypes /\ (\A fd \in Fds : StreamKept(fd)) /\ IdsOnce /\ SubscribersAreLoggedIn
      /\ event_log \in Seq(Messages) /\ UsesIdsOnce(event_log)
  BY DEF ServerInv, ServerTypes, IdsOnce
<1> DEFINE record == Packet
<1>3. record \in Messages /\ record.type # "NEW_ORDER" /\ event_log' = Append(event_log, record)
  BY CompleteLemma
<1> HIDE DEF record
<1>4. /\ event_log' \in Seq(Messages)
      /\ IdsOf(event_log') = IdsOf(event_log) /\ UsesIdsOnce(event_log')
  BY <1>2, <1>3, AppendedRecord
<1>5. Polled' = Polled
  BY <1>1 DEF Polled
<1>6. ServerTypes'
  BY <1>1, <1>2, <1>4, <1>5 DEF ServerTypes, NoDuplicates, Vacant, Buffer, Packet
<1>7. \A fd \in Fds : StreamKept(fd)'
  BY <1>1, <1>2, <1>5 DEF StreamKept, Received
<1>8. IdsOnce'
  <2>1. \A fd \in Fds : Ahead(fd)' = Ahead(fd)
    BY <1>1 DEF Ahead
  <2> QED
    BY <1>1, <1>2, <1>4, <2>1, IdsKept
<1>9. SubscribersAreLoggedIn'
  BY <1>1, <1>2 DEF SubscribersAreLoggedIn
<1> QED
  BY <1>6, <1>7, <1>8, <1>9 DEF ServerInv

\* The record of a cancel is appended, and nothing else is done.
LEMMA CrashInCancelStep == LInv /\ CrashInCancel => LInv'
<1> SUFFICES ASSUME LInv, CrashInCancel PROVE LInv'
  OBVIOUS
<1>1. /\ UNCHANGED << netVars, sessions, subscriptions, serving, processing >>
      /\ UNCHANGED vars /\ UNCHANGED restartVars
      /\ Complete /\ Packet.type = "ORDER_CANCEL" /\ event_log' = Append(event_log, Packet)
      /\ ~replaying /\ ~processing /\ ~crashed /\ crashed'
  BY DEF CrashInCancel, Request, Complete, Parsing
<1>2. /\ ServerInv /\ RecordsOK /\ ReplayState /\ HandledState /\ (~Strayed => EngineState)
      /\ event_log \in Seq(Messages)
  BY DEF LInv, ServerInv, ServerTypes
<1>3. Packet \in Messages
  BY <1>1, <1>2, CompleteLemma
<1>4. ServerInv'
  BY <1>1, <1>2, LoggedCancel
<1>5. RecordsOK' /\ ReplayState' /\ (Strayed => Strayed')
  BY <1>1, <1>2, <1>3, GrownReplay DEF restartVars
<1>6. HandledState'
  BY <1>1, <1>2, <1>3, CutByOne DEF restartVars
<1>7. ASSUME ~Strayed'
      PROVE  EngineState'
  <2>1. EngineState
    BY <1>2, <1>5, <1>7
  <2>2. LogGiven = DOMAIN event_log /\ LogGiven' = DOMAIN event_log'
    BY <1>1 DEF LogGiven, restartVars
  <2>3. SafeInv' /\ LiveSlots' = LiveSlots /\ mem' = mem
    BY <1>1, <2>1, NextSafe DEF EngineState, LiveSlots, RestingSlots, vars
  <2>4. PICK P : P = DOMAIN event_log
    OBVIOUS
  <2>5. LiveIsLogged(P)
    BY <2>1, <2>2, <2>4 DEF EngineState
  <2>6. P \subseteq DOMAIN event_log' /\ \A k \in P : event_log'[k] = event_log[k]
    BY <1>1, <1>2, <2>4
  <2>7. ASSUME NEW order, LoggedIn(event_log, P, order)
        PROVE  LoggedIn(event_log', DOMAIN event_log', order)
    BY <2>6, <2>7 DEF LoggedIn
  <2> QED
    BY <2>2, <2>3, <2>5, <2>7 DEF EngineState, LiveIsLogged
<1> QED
  BY <1>4, <1>5, <1>6, <1>7 DEF LInv

\* The state that a step has just started the process in.
NoneLive == LiveSlots = {}

LEMMA NoneLiveInit == Init => NoneLive
  BY NothingLive DEF NoneLive

LEMMA SafeStart == Init' => SafeInv'
  BY InitSafe, PTL

LEMMA NoneLiveStart == Init' => NoneLive'
  BY NoneLiveInit, PTL

LEMMA ServerStart == JustStarted' => ServerInv'
  BY NewServerInv, PTL

LEMMA RestartStep ==
    ASSUME NEW replay_mode \in BOOLEAN, LInv, Restart(replay_mode)
    PROVE  LInv'
<1>1. /\ ServerInv /\ RecordsOK /\ ReplayState /\ event_log' = event_log
      /\ replay_pos' = 0 /\ submitted' = submitted /\ NewEngine /\ NewServer
  BY DEF LInv, Restart, NewServer, startLogging
<1>2. Init'
  BY <1>1 DEF Init, NewEngine
<1>3. event_log \in Seq(Messages) /\ UsesIdsOnce(event_log) /\ IdsOf(event_log) \subseteq submitted
  BY <1>1 DEF ServerInv, ServerTypes, IdsOnce
<1>4. JustStarted'
  BY <1>1, <1>3 DEF JustStarted, NewServer
<1>5. SafeInv' /\ ServerInv' /\ LiveSlots' = {}
  BY <1>2, <1>4, SafeStart, NoneLiveStart, ServerStart DEF NoneLive
<1>6. FileSize' = FileSize /\ FileSize \in Nat
  BY <1>1, <1>3, OffsetLemma DEF FileSize, Offset
<1>7. RecordsOK' /\ ReplayState'
  BY <1>1, <1>6 DEF RecordsOK, ReplayState, OrderSize
<1>8. EngineState'
  BY <1>5 DEF EngineState, LiveIsLogged
<1>9. HandledState'
  <2>1. /\ crashed /\ ~crashed' /\ ~processing' /\ handled' = handled
        /\ restarts' = restarts + 1 /\ forgot' = (forgot \/ ~replay_mode)
        /\ replaying' = replay_mode /\ HandledState
    BY DEF Restart, NewServer, LInv
  <2>2. CutShort' = CutShort /\ \A n : BehindCancel(n)' = BehindCancel(n)
    BY <1>1, <2>1 DEF CutShort, BehindCancel
  <2>3. /\ Cardinality(CutShort) \in Nat /\ restarts \in Nat
        /\ Cardinality(CutShort) <= restarts + 1
    BY <1>3, <2>1, CutLemma DEF HandledState
  <2>4. Cardinality(CutShort)' <= restarts' + (IF processing' \/ crashed' THEN 1 ELSE 0)
    BY <2>1, <2>2, <2>3
  <2>5. ASSUME ~forgot', NEW n \in CutShort, ~BehindCancel(n)
        PROVE  Pending(n)'
    <3>1. n = Len(event_log) /\ replaying'
      BY <2>1, <2>5 DEF HandledState, Pending
    <3>2. n \in DOMAIN event_log /\ n \in Nat /\ n > 0
      BY <1>3, <2>5 DEF CutShort
    <3>3. Offset(n) = OrderSize * n
      <4>1. n \in 0 .. n
        BY <3>2
      <4>2. OrdersUpTo(event_log, n)
        BY <1>1, <1>3, <2>5, <3>2, OrdersInFront
      <4> QED
        BY <1>3, <3>2, <4>1, <4>2, OffsetOfOrders
    <3>4. Offset(n)' = Offset(n)
      BY <1>1 DEF Offset
    <3> QED
      BY <1>1, <3>1, <3>2, <3>3, <3>4 DEF Pending, OrderSize
  <2> QED
    BY <1>1, <2>1, <2>2, <2>3, <2>4, <2>5 DEF HandledState
<1> QED
  BY <1>5, <1>7, <1>8, <1>9 DEF LInv

-----------------------------------------------------------------------------
(***************************************************************************)
(* The replay.                                                             *)
(***************************************************************************)
\* A step of the loop handles a record, or none.
LEMMA HandledReplay ==
    ASSUME event_log \in Seq(Messages), HandledState, replaying, replaying',
           event_log' = event_log, processing' = processing, crashed' = crashed,
           restarts' = restarts, forgot' = forgot,
           NEW done, done \subseteq DOMAIN event_log, handled' = handled \cup done,
           \A n \in CutShort \ done :
              n = Len(event_log) /\ ~BehindCancel(n) /\ Pending(n) => Pending(n)'
    PROVE  HandledState'
<1>1. CutShort' = CutShort \ done /\ \A n : BehindCancel(n)' = BehindCancel(n)
  BY DEF CutShort, BehindCancel
<1>2. /\ Cardinality(CutShort) \in Nat /\ Cardinality(CutShort') \in Nat
      /\ Cardinality(CutShort') <= Cardinality(CutShort)
  <2>1. PICK S : S = CutShort'
    OBVIOUS
  <2>2. S \subseteq CutShort
    BY <1>1, <2>1
  <2> QED
    BY <2>1, <2>2, CutLemma
<1>3. \A n \in CutShort' : ~forgot => BehindCancel(n)' \/ Pending(n)'
  BY <1>1 DEF HandledState, Pending
<1>4. ~processing /\ ~crashed /\ restarts \in Nat /\ Cardinality(CutShort) <= restarts
  BY <1>2 DEF HandledState
<1> QED
  BY <1>1, <1>2, <1>3, <1>4 DEF HandledState

\* Where the record ends that is pending in front of any cancel.
LEMMA PendingEnds ==
    ASSUME event_log \in Seq(Messages), RecordsOK, NEW n \in DOMAIN event_log, ~BehindCancel(n),
           n = Len(event_log)
    PROVE  Offset(n) = OrderSize * n /\ n \in Nat /\ FileSize = Offset(n)
           /\ event_log[n].type = "NEW_ORDER"
<1>1. OrdersUpTo(event_log, n)
  BY OrdersInFront
<1>2. n \in Nat /\ n \in 0 .. n /\ n \in 1 .. n
  OBVIOUS
<1>3. Offset(n) = OrderSize * n
  BY <1>1, <1>2, OffsetOfOrders
<1> QED
  BY <1>1, <1>2, <1>3 DEF FileSize, OrdersUpTo

LEMMA ReplayEngineStep == LInv /\ ReplayEngine => LInv'
<1> SUFFICES ASSUME LInv, ReplayEngine PROVE LInv'
  OBVIOUS
<1>1. /\ UNCHANGED << netVars, sessions, subscriptions, event_log, serving,
                      processing, replay_pos >>
      /\ EngineStep /\ replaying' = replaying /\ event_log' = event_log
      /\ replay_pos' = replay_pos
  BY DEF ReplayEngine, gatewayVars
<1>2. ServerInv' /\ RecordsOK' /\ ReplayState' /\ Strayed' = Strayed
  BY <1>1, QuietLog
<1>3. PICK P : P = LogGiven
  OBVIOUS
<1>4. LogGiven' = P
  BY <1>1, <1>3 DEF LogGiven, Offset
<1>5. EngineState => EngineState'
  BY <1>1, <1>3, <1>4, EngineKept
<1>6. HandledState'
  <2>1. PICK done : done = Replayed
    OBVIOUS
  <2>2. /\ replaying /\ replaying' /\ processing' = processing /\ crashed' = crashed
        /\ restarts' = restarts /\ forgot' = forgot /\ handled' = handled \cup done
    BY <2>1 DEF ReplayEngine, gatewayVars, Handles
  <2>3. done \subseteq DOMAIN event_log
    BY <2>1 DEF Replayed
  <2>4. event_log \in Seq(Messages) /\ RecordsOK /\ HandledState
    BY DEF LInv, ServerInv, ServerTypes
  <2>5. ASSUME NEW n \in CutShort \ done, n = Len(event_log), ~BehindCancel(n), Pending(n)
        PROVE  Pending(n)'
    <3>1. n \in DOMAIN event_log
      BY <2>5 DEF CutShort
    <3>2. event_log[n].type = "NEW_ORDER"
      BY <2>4, <2>5, <3>1, PendingEnds
    <3>3. Offset(n)' = Offset(n)
      BY <1>1 DEF Offset
    <3>4. replay_pos = Offset(n) => ~Idle'
      BY <1>1, <2>1, <2>5, <3>1, <3>2 DEF Replayed
    <3> QED
      BY <1>1, <2>2, <2>5, <3>3, <3>4 DEF Pending
  <2> QED
    BY <1>1, <2>2, <2>3, <2>4, <2>5, HandledReplay
<1> QED
  BY <1>2, <1>5, <1>6 DEF LInv

LEMMA ReplayDoneStep == LInv /\ ReplayDone => LInv'
<1> SUFFICES ASSUME LInv, ReplayDone PROVE LInv'
  OBVIOUS
<1>1. /\ UNCHANGED << netVars, sessions, subscriptions, event_log, serving,
                      processing, replay_pos >>
      /\ UNCHANGED vars /\ ~replaying' /\ event_log' = event_log
  BY DEF ReplayDone, systemVars, gatewayVars
<1>2. ServerInv' /\ RecordsOK' /\ ReplayState' /\ Strayed' = Strayed
  BY <1>1, QuietLog
<1>3. LogGiven' = DOMAIN event_log /\ LogGiven \subseteq DOMAIN event_log
  BY <1>1 DEF LogGiven
<1>4. EngineState => EngineState'
  BY <1>1, <1>3, EngineKept
<1>5. HandledState'
  <2>1. /\ replaying /\ Idle /\ replay_pos + OrderSize > FileSize
        /\ handled' = handled /\ restarts' = restarts /\ forgot' = forgot
        /\ processing' = processing /\ crashed' = crashed
    BY DEF ReplayDone, systemVars, gatewayVars
  <2>2. event_log \in Seq(Messages) /\ RecordsOK /\ HandledState /\ ReplayState
    BY DEF LInv, ServerInv, ServerTypes
  <2>3. CutShort' = CutShort /\ \A n : BehindCancel(n)' = BehindCancel(n)
    BY <1>1, <2>1 DEF CutShort, BehindCancel
  <2>4. ASSUME ~forgot, NEW n \in CutShort
        PROVE  BehindCancel(n)
    <3>1. SUFFICES ASSUME ~BehindCancel(n) PROVE FALSE
      OBVIOUS
    <3>2. n \in DOMAIN event_log /\ n = Len(event_log) /\ replay_pos < Offset(n)
      BY <2>1, <2>2, <2>4, <3>1 DEF HandledState, Pending, CutShort
    <3>3. Offset(n) = OrderSize * n /\ n \in Nat /\ FileSize = Offset(n)
      BY <2>2, <3>1, <3>2, PendingEnds
    <3>4. replay_pos \in Nat /\ replay_pos % 49 = 0 /\ replay_pos < 49 * n
          /\ replay_pos + 49 > 49 * n
      BY <2>1, <2>2, <3>2, <3>3 DEF ReplayState, OrderSize
    <3>5. PICK k \in Nat : replay_pos = 49 * k
      BY <2>2, Division DEF ReplayState, OrderSize
    <3> QED
      BY <3>3, <3>4, <3>5
  <2> QED
    BY <1>1, <2>1, <2>2, <2>3, <2>4 DEF HandledState
<1> QED
  BY <1>2, <1>4, <1>5 DEF LInv

\* The next 49 bytes hold the order of a record that the engine was not given
\* yet, or a cancel that will not rest.
LEMMA NextReadLemma ==
    ASSUME ServerInv, RecordsOK, ReplayState, EngineState, replaying,
           replay_pos + OrderSize <= FileSize,
           NEW n \in DOMAIN event_log, Offset(n - 1) = replay_pos, ~ReadAsLimit(n),
           NEW request,
           request = IF event_log[n].type = "NEW_ORDER" THEN event_log[n].order ELSE Misread(n)
    PROVE  /\ request \in OrderRequest /\ MayRest(request)
           /\ request.type # "MARKET" =>
                 event_log[n].type = "NEW_ORDER" /\ request = event_log[n].order
<1> DEFINE record == event_log[n]
<1>1. /\ record \in Messages /\ record.type \in {"NEW_ORDER", "ORDER_CANCEL"}
      /\ event_log \in Seq(Messages)
  BY DEF ServerInv, ServerTypes, RecordsOK
<1>2. CASE record.type = "NEW_ORDER"
  <2>1. request = record.order /\ request \in OrderRequest
    BY <1>1, <1>2, GatewayAssumption, RequestsTyped DEF HasFields
  <2>2. \A k \in LogGiven : event_log[k].type = "NEW_ORDER" => event_log[k].order.id # request.id
    <3> SUFFICES ASSUME NEW k \in LogGiven, event_log[k].type = "NEW_ORDER",
                        event_log[k].order.id = request.id
                 PROVE  FALSE
      OBVIOUS
    <3>1. k \in DOMAIN event_log /\ Offset(k - 1) < replay_pos
      BY DEF LogGiven
    <3>2. UsesIdsOnce(event_log)
      BY DEF ServerInv, IdsOnce
    <3>3. k = n
      BY <1>2, <2>1, <3>1, <3>2 DEF UsesIdsOnce
    <3>4. replay_pos \in Nat
      BY DEF ReplayState
    <3> QED
      BY <3>1, <3>3, <3>4
  <2>3. FreshId(request)
    <3> DEFINE P == LogGiven
    <3>1. /\ SafeInv /\ LiveIsLogged(P)
          /\ \A k \in P : event_log[k].type = "NEW_ORDER" => event_log[k].order.id # request.id
      BY <2>2 DEF EngineState
    <3> HIDE DEF P
    <3> QED
      BY <2>1, <3>1, FreshLemma
  <2> QED
    BY <1>2, <2>1, <2>3 DEF MayRest
<1>3. CASE record.type = "ORDER_CANCEL"
  <2>1. request = Misread(n)
    BY <1>3
  <2>2. /\ record.id \in OrderIds /\ record.symbol \in Symbols
        /\ record.user_id \in Users /\ record.side \in Sides
    BY <1>1, <1>3, GatewayAssumption, EventLogAssumption DEF HasFields
  <2>3. n < Len(event_log)
    <3>1. n \in 1 .. Len(event_log)
      BY <1>1
    <3>2. SUFFICES ASSUME n = Len(event_log) PROVE FALSE
      BY <3>1
    <3>3. /\ Bytes(event_log, n - 1) \in Nat
          /\ Bytes(event_log, n) = RecordSize(event_log[n]) + Bytes(event_log, n - 1)
      BY <1>1, <3>1, BytesAdd
    <3>4. FileSize = CancelSize + replay_pos
      BY <1>3, <3>2, <3>3, OffsetIsBytes DEF FileSize, RecordSize
    <3> QED
      BY <3>4 DEF CancelSize, OrderSize, ReplayState
  <2>4. PICK next : next = event_log[n + 1]
    OBVIOUS
  <2>5. next \in Messages /\ next.type \in {"NEW_ORDER", "ORDER_CANCEL"}
    <3>1. n + 1 \in DOMAIN event_log
      BY <1>1, <2>3
    <3> QED
      BY <1>1, <2>4, <3>1 DEF RecordsOK
  <2>6. Opening[next] \in [type : {"MARKET", "LIMIT"}, price : Prices, quantity : Quantities]
    BY <2>5, EventLogAssumption
  <2>7. Opening[next].type = "MARKET"
    BY <1>3, <2>3, <2>4, <2>6 DEF ReadAsLimit
  <2>8. PICK rest : rest = Opening[next]
    OBVIOUS
  <2>9. request = [id |-> record.id, symbol |-> record.symbol, user_id |-> record.user_id,
                   side |-> record.side, type |-> rest.type, price |-> rest.price,
                   quantity |-> rest.quantity]
    BY <2>1, <2>4, <2>8 DEF Misread
  <2> HIDE DEF record
  <2>10. rest.type = "MARKET" /\ rest.price \in Prices /\ rest.quantity \in Quantities
    BY <2>6, <2>7, <2>8
  <2>11. request \in OrderRequest /\ request.type = "MARKET"
    BY <2>2, <2>9, <2>10 DEF OrderRequest, OrderTypes
  <2> QED
    BY <2>11 DEF MayRest
<1> QED
  BY <1>1, <1>2, <1>3

LEMMA ReplayNextStep == LInv /\ ReplayNext => LInv'
<1> SUFFICES ASSUME LInv, ReplayNext PROVE LInv'
  OBVIOUS
<1>1. /\ UNCHANGED << netVars, sessions, subscriptions, event_log, serving, processing >>
      /\ event_log' = event_log
      /\ replaying /\ replaying' /\ replay_pos' = replay_pos + OrderSize
      /\ replay_pos + OrderSize <= FileSize
  BY DEF ReplayNext, gatewayVars
<1>2. ServerInv /\ RecordsOK /\ ReplayState /\ replay_pos \in Nat
      /\ event_log \in Seq(Messages) /\ (~Strayed => EngineState)
  BY DEF LInv, ReplayState, ServerInv, ServerTypes
<1>3. ServerInv'
  BY <1>1, <1>2, StutterStep
<1>4. FileSize' = FileSize /\ \A n : Offset(n)' = Offset(n)
  BY <1>1 DEF FileSize, Offset
<1>5. RecordsOK' /\ ReplayState'
  BY <1>1, <1>2, <1>4 DEF RecordsOK, ReplayState, OrderSize
<1>6. ASSUME ~Strayed'
      PROVE  EngineState'
  <2>1. ASSUME NEW pos \in 0 .. replay_pos + 48, pos % OrderSize = 0
        PROVE  /\ \E k \in DOMAIN event_log : Offset(k - 1) = pos
               /\ \A k \in DOMAIN event_log : Offset(k - 1) = pos => ~ReadAsLimit(k)
    <3>1. pos \in 0 .. replay_pos' - 1
      BY <1>1, <1>2 DEF OrderSize
    <3>2. \A k : ReadAsLimit(k)' = ReadAsLimit(k)
      BY <1>1 DEF ReadAsLimit
    <3> QED
      BY <1>1, <1>4, <1>6, <2>1, <3>1, <3>2 DEF Strayed
  <2>2. ~Strayed
    <3>1. \A pos \in 0 .. replay_pos - 1 : pos \in 0 .. replay_pos + 48
      BY <1>2
    <3> QED
      BY <2>1, <3>1 DEF Strayed
  <2>3. /\ \E k \in DOMAIN event_log : Offset(k - 1) = replay_pos
        /\ \A k \in DOMAIN event_log : Offset(k - 1) = replay_pos => ~ReadAsLimit(k)
    <3>1. replay_pos \in 0 .. replay_pos + 48
      BY <1>2
    <3> QED
      BY <1>2, <2>1, <3>1 DEF ReplayState
  <2>4. PICK request \in NextRead : ProcessNewOrder(request)
    BY DEF ReplayNext
  <2>5. PICK n \in DOMAIN event_log :
           /\ Offset(n - 1) = replay_pos
           /\ request = IF event_log[n].type = "NEW_ORDER" THEN event_log[n].order
                        ELSE Misread(n)
    BY <2>3, <2>4 DEF NextRead
  <2>6. EngineState /\ ~ReadAsLimit(n)
    BY <1>2, <2>2, <2>3, <2>5
  <2>7. /\ request \in OrderRequest /\ MayRest(request)
        /\ request.type # "MARKET" =>
              event_log[n].type = "NEW_ORDER" /\ request = event_log[n].order
    BY <1>1, <1>2, <2>5, <2>6, NextReadLemma
  <2>8. SafeInv /\ SafeInv'
    BY <2>4, <2>6, <2>7, NextSafe DEF EngineState
  <2>9. PICK Q : Q = LogGiven'
    OBVIOUS
  <2>10. LogGiven \subseteq Q /\ n \in Q
    <3>1. LogGiven' = {k \in DOMAIN event_log : Offset(k - 1) < replay_pos + OrderSize}
      BY <1>1, <1>4 DEF LogGiven
    <3>2. LogGiven = {k \in DOMAIN event_log : Offset(k - 1) < replay_pos}
      BY <1>1 DEF LogGiven
    <3>3. \A k \in DOMAIN event_log : Offset(k - 1) \in Nat
      BY <1>2, OffsetLemma
    <3> QED
      BY <1>2, <2>5, <2>9, <3>1, <3>2, <3>3 DEF OrderSize
  <2>11. ASSUME NEW s \in LiveSlots', mem'[s].type # "MARKET"
         PROVE  LoggedIn(event_log, Q, mem'[s])
    <3>1. CASE s \in LiveSlots /\ mem'[s] = mem[s]
      BY <2>6, <2>10, <2>11, <3>1 DEF EngineState, LiveIsLogged, LoggedIn
    <3>2. CASE mem'[s] = NewOrder(request, clock)
      <4>1. event_log[n].type = "NEW_ORDER" /\ request = event_log[n].order
        BY <2>7, <2>11, <3>2 DEF NewOrder
      <4> QED
        BY <2>10, <3>2, <4>1, NewIsLogged
    <3> QED
      BY <2>4, <2>7, <2>8, <3>1, <3>2, ArrivedOrders
  <2> QED
    BY <1>1, <2>8, <2>9, <2>11 DEF EngineState, LiveIsLogged
<1>7. HandledState'
  <2>1. PICK done : done = Replayed
    OBVIOUS
  <2>2. /\ replaying /\ replaying' /\ processing' = processing /\ crashed' = crashed
        /\ restarts' = restarts /\ forgot' = forgot /\ handled' = handled \cup done /\ Idle
    BY <2>1 DEF ReplayNext, gatewayVars, Handles
  <2>3. done \subseteq DOMAIN event_log
    BY <2>1 DEF Replayed
  <2>4. HandledState
    BY DEF LInv
  <2>5. ASSUME NEW n \in CutShort \ done, n = Len(event_log), ~BehindCancel(n), Pending(n)
        PROVE  Pending(n)'
    <3>1. n \in DOMAIN event_log /\ replay_pos < Offset(n)
      BY <2>2, <2>5 DEF CutShort, Pending
    <3>2. /\ Offset(n) = OrderSize * n /\ n \in Nat /\ event_log[n].type = "NEW_ORDER"
      BY <1>2, <2>5, <3>1, PendingEnds
    <3>3. Offset(n)' = Offset(n)
      BY <1>4
    <3>4. replay_pos' = Offset(n) => ~Idle'
      BY <2>1, <2>5, <3>1, <3>2 DEF Replayed
    <3>5. replay_pos + OrderSize <= Offset(n)
      <4>1. PICK k \in Nat : replay_pos = 49 * k
        BY <1>2, Division DEF ReplayState, OrderSize
      <4>2. 49 * k < 49 * n
        BY <3>1, <3>2, <4>1 DEF OrderSize
      <4> QED
        BY <3>2, <4>1, <4>2 DEF OrderSize
    <3>6. replay_pos' < Offset(n) \/ (replay_pos' = Offset(n) /\ ~Idle')
      BY <1>1, <1>2, <3>2, <3>4, <3>5 DEF OrderSize
    <3> QED
      BY <1>1, <2>5, <3>3, <3>6 DEF Pending
  <2> QED
    BY <1>1, <1>2, <2>2, <2>3, <2>4, <2>5, HandledReplay
<1> QED
  BY <1>3, <1>5, <1>6, <1>7 DEF LInv

-----------------------------------------------------------------------------
(***************************************************************************)
(* What holds through every crash and every restart.                       *)
(***************************************************************************)
LEMMA InitLInv == EventLogInit => LInv
<1> SUFFICES ASSUME EventLogInit PROVE LInv
  OBVIOUS
<1>1. GInv /\ SafeInv /\ LiveSlots = {} /\ event_log = << >> /\ replay_pos = 0
  BY InitGInv, IInvIsSafe, NothingLive DEF EventLogInit, GatewayInit, GInv
<1>2. event_log \in Seq(Messages) /\ ServerInv
  BY <1>1 DEF GInv
<1>3. RecordsOK /\ ReplayState
  BY <1>1, <1>2, OffsetLemma DEF RecordsOK, ReplayState, OrderSize
<1>4. EngineState
  BY <1>1 DEF EngineState, LiveIsLogged
<1>5. HandledState
  <2>1. CutShort = {} /\ handled = {} /\ restarts = 0 /\ ~replaying
    BY <1>1 DEF EventLogInit, CutShort
  <2>2. ~processing
    BY DEF EventLogInit, GatewayInit
  <2>3. Cardinality({}) = 0
    BY FS_EmptySet
  <2> QED
    BY <2>1, <2>2, <2>3 DEF HandledState
<1> QED
  BY <1>2, <1>3, <1>4, <1>5 DEF LInv

LEMMA NextLInv == LInv /\ [EventLogNext]_allVars => LInv'
<1> SUFFICES ASSUME LInv, [EventLogNext]_allVars
             PROVE  LInv'
  OBVIOUS
<1>1. CASE Live
  BY <1>1, LiveStep
<1>2. CASE CrashInCancel
  BY <1>2, CrashInCancelStep
<1>3. CASE Crash
  BY <1>3, CrashStep
<1>4. CASE \E replay_mode \in BOOLEAN : Restart(replay_mode)
  BY <1>4, RestartStep
<1>5. CASE Replay
  BY <1>5, ReplayNextStep, ReplayEngineStep, ReplayDoneStep DEF Replay
<1>6. CASE UNCHANGED allVars
  <2>1. /\ UNCHANGED << netVars, sessions, subscriptions, event_log, serving,
                        processing, replay_pos >>
        /\ UNCHANGED vars /\ replaying' = replaying /\ event_log' = event_log
        /\ replay_pos' = replay_pos
    BY <1>6 DEF allVars, systemVars, gatewayVars, restartVars
  <2>2. ServerInv' /\ RecordsOK' /\ ReplayState' /\ Strayed' = Strayed
    BY <2>1, QuietLog
  <2>3. PICK P : P = LogGiven
    OBVIOUS
  <2>4. LogGiven' = P
    BY <2>1, <2>3 DEF LogGiven, Offset
  <2>5. EngineState => EngineState'
    BY <2>1, <2>3, <2>4, EngineKept
  <2>6. HandledState'
    BY <1>6 DEF allVars, systemVars, gatewayVars, restartVars, LInv, HandledState, CutShort,
                Pending, BehindCancel, Offset, Idle, vars
  <2> QED
    BY <2>2, <2>5, <2>6 DEF LInv
<1> QED
  BY <1>1, <1>2, <1>3, <1>4, <1>5, <1>6 DEF EventLogNext

\* The invariant holds through every crash and every restart: the server's part
\* whatever the file holds and a replay makes of it, the engine's part while no
\* replay has strayed.
THEOREM LogInvariance == EventLogSpec => []LInv
  BY InitLInv, NextLInv, PTL DEF EventLogSpec

\* A crash cuts the handling of one record short at most, whatever is in the
\* log and whatever a replay made of it; and while every restart replays, of
\* the orders in front of the first cancel only the last can be one that no
\* process handled to its end.
THEOREM HandledButForOne == EventLogSpec => []AtMostOneCutShort
<1>1. LInv => AtMostOneCutShort
  <2> SUFFICES ASSUME LInv PROVE AtMostOneCutShort
    OBVIOUS
  <2>1. HandledState /\ Cardinality(CutShort) \in Nat
    BY CutLemma DEF LInv, ServerInv, ServerTypes
  <2>2. Cardinality(CutShort) <= restarts + 1
    BY <2>1 DEF HandledState
  <2>3. ~forgot => \A n \in CutShort : n = Len(event_log) \/ BehindCancel(n)
    BY <2>1 DEF HandledState, Pending
  <2> QED
    BY <2>2, <2>3 DEF AtMostOneCutShort
<1> QED
  BY <1>1, LogInvariance, PTL

\* What holds of the server holds in every process that is started after a
\* crash: the stream of each connection is handled in order, only logged in
\* clients are subscribed, and, while no replay has strayed, no slot of the pool
\* is used twice, the lookup agrees with the lists, no book is crossed and what
\* is quoted is what can be cancelled.
THEOREM RestartsAreSafe ==
    EventLogSpec =>
        [](/\ StreamInOrder /\ SubscribersAreLoggedIn
           /\ ~Strayed => /\ PoolSafety /\ LookupAgreesWithLists /\ NotCrossed
                          /\ QuotesMatchLiveOrders)
<1>1. LInv => /\ StreamInOrder /\ SubscribersAreLoggedIn
              /\ ~Strayed => /\ PoolSafety /\ LookupAgreesWithLists /\ NotCrossed
                             /\ QuotesMatchLiveOrders
  <2>1. SafeInv => QuotesMatchLiveOrders
    BY Regroup, QuotesLemma
  <2> QED
    BY <2>1, ServerStream DEF LInv, ServerInv, EngineState, SafeInv
<1> QED
  BY <1>1, LogInvariance, PTL

\* Whatever rests in a book is in the log as it was submitted, at every moment
\* of a server that logs, cancels, crashes and replays, while no replay has
\* strayed: a crash destroys no order that the file does not have, and a cancel
\* that is read as a MARKET order leaves nothing in a book.
THEOREM RestingOrdersAreLogged == EventLogSpec => []RestingIsLogged
<1>1. ASSUME LInv, ~Strayed,
             NEW symbol \in Symbols, NEW slot \in Pool, Listed(order_books[symbol], slot)
      PROVE  LoggedIn(event_log, LogGiven, mem[slot])
  <2>1. SafeInv /\ LiveIsLogged(LogGiven) /\ BooksOK
    BY <1>1, Regroup DEF LInv, EngineState
  <2>2. slot \in LiveSlots /\ mem[slot].type # "MARKET"
    BY <1>1, <2>1 DEF LiveSlots, RestingSlots, BooksOK
  <2> QED
    BY <2>1, <2>2 DEF LiveIsLogged
<1>2. LInv => RestingIsLogged
  BY <1>1 DEF RestingIsLogged, LoggedIn, LogGiven
<1> QED
  BY <1>2, LogInvariance, PTL

-----------------------------------------------------------------------------
(***************************************************************************)
(* What the engine does with a log is determined.  EngineAt is its state   *)
(* as a value, with the number of records that it was given; Arrived,      *)
(* Matched and Finished are what its steps make of such a value.           *)
(***************************************************************************)
EngineAt(records) ==
    [mem |-> mem, free |-> free_indices, books |-> order_books,
     history |-> trade_history, taker |-> taker, clock |-> clock, records |-> records]

Fresh ==
    [mem |-> [slot \in Pool |-> Blank], free |-> NewPool(PoolSize),
     books |-> [symbol \in Symbols |-> EmptyBook], history |-> << >>,
     taker |-> NoSlot, clock |-> 0, records |-> 0]

ContentsOf(s) ==
    [queues |-> [symbol \in Symbols |-> [side \in Sides |->
        LET levels == s.books[symbol].orders[side]
        IN  [price \in DOMAIN levels |-> [i \in DOMAIN levels[price] |->
                LET order == s.mem[levels[price][i]]
                IN  << order.id, order.user_id, remaining_qty(order) >>]]]],
     trades |-> s.history]

Killed(s, order) ==
    order.type = "FOK" /\ ~can_fill_completely(s.books[order.symbol], s.mem, order)

Arrived(s, request) ==
    LET slot  == allocated(s.free)
        order == NewOrder(request, s.clock)
        valid == validate_order(order)
    IN  IF slot = NoSlot
        THEN [mem |-> s.mem, free |-> s.free, books |-> s.books, history |-> s.history,
              taker |-> s.taker, clock |-> s.clock, records |-> s.records + 1]
        ELSE [mem     |-> [s.mem EXCEPT ![slot] = order],
              free    |-> IF valid THEN allocate(s.free)
                          ELSE deallocate(allocate(s.free), slot),
              books   |-> s.books,
              history |-> s.history,
              taker   |-> IF valid /\ ~Killed(s, order) THEN slot ELSE s.taker,
              clock   |-> IF valid THEN s.clock + 1 ELSE s.clock,
              records |-> s.records + 1]

MakerOf(s) ==
    getBest(s.books[s.mem[s.taker].symbol], Opposite(s.mem[s.taker].side))

Continues(s) ==
    /\ remaining_qty(s.mem[s.taker]) > 0
    /\ MakerOf(s) # NoSlot
    /\ Matchable(s.mem[s.taker], s.mem[MakerOf(s)])

QuantityOf(s) ==
    Min({remaining_qty(s.mem[s.taker]), remaining_qty(s.mem[MakerOf(s)])})

Traded(order, maker, quantity, time) ==
    LET bid == IF order.side = BUY THEN order ELSE maker
        ask == IF order.side = BUY THEN maker ELSE order
    IN  [buy_order_id |-> bid.id, buy_user_id |-> bid.user_id,
         sell_order_id |-> ask.id, sell_user_id |-> ask.user_id,
         symbol |-> bid.symbol, price |-> maker.price, quantity |-> quantity,
         timestamp |-> time]

MemMatched(s) ==
    [s.mem EXCEPT ![s.taker] = reduce_quantity(@, QuantityOf(s)),
                  ![MakerOf(s)] = reduce_quantity(@, QuantityOf(s))]

Matched(s) ==
    LET maker  == MakerOf(s)
        m      == MemMatched(s)
        filled == is_filled(m[maker])
    IN  [mem     |-> m,
         free    |-> IF filled THEN deallocate(s.free, maker) ELSE s.free,
         books   |-> IF filled
                     THEN [s.books EXCEPT ![s.mem[s.taker].symbol] = cancel_order(@, m, m[maker].id)]
                     ELSE s.books,
         history |-> Append(s.history,
                        Traded(s.mem[s.taker], s.mem[maker], QuantityOf(s), s.clock)),
         taker   |-> s.taker, clock |-> s.clock, records |-> s.records]

Finished(s) ==
    LET order == s.mem[s.taker]
    IN  [mem     |-> s.mem,
         free    |-> IF is_filled(order) \/ order.type = "IOC"
                     THEN deallocate(s.free, s.taker) ELSE s.free,
         books   |-> IF is_filled(order) \/ order.type \in {"IOC", "MARKET"}
                     THEN s.books
                     ELSE [s.books EXCEPT ![order.symbol] = add_order(@, s.mem, s.taker)],
         history |-> s.history,
         taker   |-> NoSlot, clock |-> s.clock, records |-> s.records]

\* The step that follows: the next record, or what the call in it does next.
Following(log, s) ==
    IF s.taker = NoSlot THEN Arrived(s, log[s.records + 1].order)
    ELSE IF Continues(s) THEN Matched(s)
    ELSE Finished(s)

\* The engine's own steps are these.
LEMMA ArrivedStep ==
    ASSUME NEW request, ProcessNewOrder(request), NEW n \in Nat
    PROVE  Idle /\ EngineAt(n + 1)' = Arrived(EngineAt(n), request)
<1> DEFINE slot  == allocated(free_indices)
           order == NewOrder(request, clock)
<1>1. CASE RejectPoolExhausted(request)
  <2>1. /\ Idle /\ slot = NoSlot
        /\ UNCHANGED << mem, free_indices, order_books, trade_history, taker, clock >>
    BY <1>1 DEF RejectPoolExhausted
  <2> QED
    BY <2>1 DEF EngineAt, Arrived
<1>2. CASE RejectInvalid(request)
  <2>1. /\ Idle /\ slot # NoSlot /\ ~validate_order(order)
        /\ mem' = [mem EXCEPT ![slot] = order]
        /\ free_indices' = deallocate(allocate(free_indices), slot)
        /\ UNCHANGED << order_books, trade_history, taker, clock >>
    BY <1>2 DEF RejectInvalid, Receive
  <2> HIDE DEF slot, order
  <2> QED
    BY <2>1 DEF EngineAt, Arrived, slot, order
<1>3. CASE KillFok(request) \/ BeginMatching(request)
  <2>1. /\ Idle /\ slot # NoSlot /\ validate_order(order)
        /\ mem' = [mem EXCEPT ![slot] = order]
        /\ free_indices' = allocate(free_indices)
        /\ clock' = clock + 1
        /\ UNCHANGED << order_books, trade_history >>
    BY <1>3 DEF KillFok, BeginMatching, Valid, Receive
  <2>2. order.type = request.type /\ order.symbol = request.symbol
    BY DEF NewOrder
  <2>3. Killed(EngineAt(n), order) <=> request.type = "FOK" /\ ~Fillable(request)
    BY <2>2 DEF Killed, EngineAt, Fillable
  <2>4. taker' = IF ~Killed(EngineAt(n), order) THEN slot ELSE taker
    BY <1>3, <2>3 DEF KillFok, BeginMatching
  <2> HIDE DEF slot, order
  <2> QED
    BY <2>1, <2>4 DEF EngineAt, Arrived, slot, order
<1> QED
  BY <1>1, <1>2, <1>3 DEF ProcessNewOrder

LEMMA EngineSteps ==
    ASSUME EngineStep, NEW n, NEW log
    PROVE  EngineAt(n)' = Following(log, EngineAt(n))
<1> DEFINE s == EngineAt(n)
<1>1. /\ s.mem = mem /\ s.free = free_indices /\ s.books = order_books
      /\ s.history = trade_history /\ s.taker = taker /\ s.clock = clock /\ s.records = n
  BY DEF EngineAt
<1> HIDE DEF s
<1>2. MakerOf(s) = Maker
  BY <1>1 DEF MakerOf, Maker, TakerBook
<1>3. Continues(s) <=> Matching
  BY <1>1, <1>2 DEF Continues, Matching
<1>4. QuantityOf(s) = TradeQuantity
  BY <1>1, <1>2 DEF QuantityOf, TradeQuantity
<1>5. taker # NoSlot
  BY DEF EngineStep, MatchStep, FinishOrder, ReturnFilled, ReturnIOC, ReturnMarket,
         ReturnResting, Return, Idle
<1>6. CASE MatchStep
  <2>1. Continues(s)
    BY <1>3, <1>6 DEF MatchStep
  <2>2. mem' = MemMatched(s)
    BY <1>1, <1>2, <1>4, <1>6 DEF MatchStep, MemMatched
  <2>3. TradeOf(mem[taker], mem[Maker], TradeQuantity)
           = Traded(s.mem[s.taker], s.mem[MakerOf(s)], QuantityOf(s), s.clock)
    BY <1>1, <1>2, <1>4 DEF TradeOf, Traded, create_trade
  <2>4. trade_history' = Append(s.history,
           Traded(s.mem[s.taker], s.mem[MakerOf(s)], QuantityOf(s), s.clock))
    BY <1>1, <1>6, <2>3 DEF MatchStep
  <2>5. /\ free_indices' = IF is_filled(MemMatched(s)[MakerOf(s)])
                           THEN deallocate(s.free, MakerOf(s)) ELSE s.free
        /\ order_books' = IF is_filled(MemMatched(s)[MakerOf(s)])
                          THEN [s.books EXCEPT ![s.mem[s.taker].symbol] =
                                   cancel_order(@, MemMatched(s), MemMatched(s)[MakerOf(s)].id)]
                          ELSE s.books
    BY <1>1, <1>2, <1>6, <2>2 DEF MatchStep, RemoveIfFilled
  <2>6. taker' = s.taker /\ clock' = s.clock
    BY <1>1, <1>6 DEF MatchStep
  <2>7. EngineAt(n)' = Matched(s)
    BY <1>1, <2>2, <2>4, <2>5, <2>6 DEF EngineAt, Matched
  <2> QED
    BY <1>1, <1>5, <2>1, <2>7 DEF Following, s
<1>7. CASE FinishOrder
  <2>1. /\ ~Continues(s) /\ taker' = NoSlot /\ mem' = s.mem /\ trade_history' = s.history
        /\ clock' = s.clock
    BY <1>1, <1>3, <1>7 DEF FinishOrder, ReturnFilled, ReturnIOC, ReturnMarket,
                            ReturnResting, Return
  <2>2. /\ free_indices' = IF is_filled(s.mem[s.taker]) \/ s.mem[s.taker].type = "IOC"
                           THEN deallocate(s.free, s.taker) ELSE s.free
        /\ order_books' = IF is_filled(s.mem[s.taker]) \/ s.mem[s.taker].type \in {"IOC", "MARKET"}
                          THEN s.books
                          ELSE [s.books EXCEPT ![s.mem[s.taker].symbol] =
                                   add_order(@, s.mem, s.taker)]
    BY <1>1, <1>7 DEF FinishOrder, ReturnFilled, ReturnIOC, ReturnMarket, ReturnResting
  <2>3. EngineAt(n)' = Finished(s)
    BY <1>1, <2>1, <2>2 DEF EngineAt, Finished
  <2> QED
    BY <1>1, <1>5, <2>1, <2>3 DEF Following, s
<1> QED
  BY <1>6, <1>7 DEF EngineStep

-----------------------------------------------------------------------------
(***************************************************************************)
(* Runs.  A run of the engine on a log begins with the engine as it is     *)
(* constructed; two runs on one log are the same as far as both go, so     *)
(* there is one idle state for each number of records.                     *)
(***************************************************************************)
IsRun(log, g, n) ==
    /\ g[0] = Fresh
    /\ \A i \in 1 .. n : g[i] = Following(log, g[i - 1])

Reaches(log, s) == \E n \in Nat : \E g : IsRun(log, g, n) /\ g[n] = s

LEMMA FreshIsReached == \A log : Reaches(log, Fresh)
<1> TAKE log
<1> DEFINE g == [i \in 0 .. 0 |-> Fresh]
<1>1. IsRun(log, g, 0) /\ g[0] = Fresh /\ 0 \in Nat
  BY DEF IsRun
<1> QED
  BY <1>1 DEF Reaches

LEMMA ReachesOn ==
    ASSUME NEW log, NEW s, Reaches(log, s)
    PROVE  Reaches(log, Following(log, s))
<1>1. PICK n \in Nat : \E g : IsRun(log, g, n) /\ g[n] = s
  BY DEF Reaches
<1>2. PICK g : IsRun(log, g, n) /\ g[n] = s
  BY <1>1
<1> DEFINE next == Following(log, s)
           h == [i \in 0 .. n + 1 |-> IF i = n + 1 THEN next ELSE g[i]]
<1> HIDE DEF next
<1>3. /\ h[n + 1] = next
      /\ \A i \in 0 .. n : h[i] = g[i]
  BY <1>1
<1> HIDE DEF h
<1>4. h[0] = Fresh
  BY <1>1, <1>2, <1>3 DEF IsRun
<1>5. ASSUME NEW i \in 1 .. n + 1
      PROVE  h[i] = Following(log, h[i - 1])
  <2>1. CASE i = n + 1
    <3>1. i - 1 = n /\ n \in 0 .. n
      BY <1>1, <2>1
    <3>2. h[i - 1] = s
      BY <1>2, <1>3, <3>1
    <3> QED
      BY <1>3, <2>1, <3>2 DEF next
  <2>2. CASE i # n + 1
    <3>1. i \in 1 .. n /\ i \in 0 .. n /\ i - 1 \in 0 .. n
      BY <1>1, <2>2
    <3>2. g[i] = Following(log, g[i - 1])
      BY <1>2, <3>1 DEF IsRun
    <3>3. h[i] = g[i] /\ h[i - 1] = g[i - 1]
      BY <1>3, <3>1
    <3> QED
      BY <3>2, <3>3
  <2> QED
    BY <2>1, <2>2
<1>6. IsRun(log, h, n + 1) /\ h[n + 1] = next /\ n + 1 \in Nat
  BY <1>1, <1>3, <1>4, <1>5 DEF IsRun
<1> QED
  BY <1>6 DEF Reaches, next

\* Two runs agree.
LEMMA RunsAgree ==
    ASSUME NEW log, NEW n \in Nat, NEW m \in Nat, n <= m,
           NEW g, IsRun(log, g, n), NEW h, IsRun(log, h, m)
    PROVE  \A i \in 0 .. n : g[i] = h[i]
<1> DEFINE Bad == {i \in Nat : i \in 0 .. n /\ g[i] # h[i]}
<1>1. SUFFICES ASSUME Bad # {} PROVE FALSE
  OBVIOUS
<1>2. PICK i \in Bad : \A j \in Bad : i <= j
  BY <1>1, LeastNatural
<1>3. i \in 0 .. n /\ g[i] # h[i]
  BY <1>2
<1>4. i # 0
  BY <1>3 DEF IsRun
<1>5. i \in 1 .. n /\ i \in 1 .. m /\ i - 1 \in Nat /\ i - 1 \in 0 .. n
  BY <1>3, <1>4
<1>6. i - 1 \notin Bad
  BY <1>2, <1>5
<1>7. g[i - 1] = h[i - 1]
  BY <1>5, <1>6
<1>8. g[i] = Following(log, g[i - 1]) /\ h[i] = Following(log, h[i - 1])
  BY <1>5 DEF IsRun
<1> QED
  BY <1>3, <1>7, <1>8

\* A record is read when no call is running, and then only.
LEMMA RecordsRead ==
    ASSUME NEW log, NEW s
    PROVE  Following(log, s).records =
              IF s.taker = NoSlot THEN s.records + 1 ELSE s.records
  BY DEF Following, Arrived, Matched, Finished

\* So their number never goes down.
LEMMA RecordsGrow ==
    ASSUME NEW log, NEW n \in Nat, NEW g, IsRun(log, g, n)
    PROVE  \A j \in 0 .. n :
              /\ g[j].records \in Nat
              /\ \A i \in 0 .. j : g[i].records <= g[j].records
<1> DEFINE Good(j) == /\ g[j].records \in Nat
                      /\ \A i \in 0 .. j : g[i].records <= g[j].records
           Bad == {j \in Nat : j \in 0 .. n /\ ~Good(j)}
<1>1. SUFFICES ASSUME Bad # {} PROVE FALSE
  OBVIOUS
<1>2. PICK j \in Bad : \A k \in Bad : j <= k
  BY <1>1, LeastNatural
<1>3. j \in 0 .. n /\ ~Good(j)
  BY <1>2
<1>4. j # 0
  <2>1. g[0].records = 0
    BY DEF IsRun, Fresh
  <2>2. Good(0)
    BY <2>1
  <2> HIDE DEF Good
  <2> QED
    BY <1>3, <2>2
<1>5. j \in 1 .. n /\ j - 1 \in Nat /\ j - 1 \in 0 .. n
  BY <1>3, <1>4
<1>6. Good(j - 1)
  <2> HIDE DEF Good
  <2>1. j - 1 \notin Bad
    BY <1>2, <1>5
  <2> QED
    BY <1>5, <2>1
<1>7. g[j] = Following(log, g[j - 1])
  BY <1>5 DEF IsRun
<1>8. g[j].records = g[j - 1].records \/ g[j].records = g[j - 1].records + 1
  BY <1>7, RecordsRead
<1> DEFINE a == g[j - 1].records
           b == g[j].records
<1>9. a \in Nat /\ (b = a \/ b = a + 1) /\ \A i \in 0 .. j - 1 : g[i].records <= a
  BY <1>6, <1>8
<1> HIDE DEF a, b
<1>10. b \in Nat /\ a <= b
  BY <1>9
<1>11. ASSUME NEW i \in 0 .. j
       PROVE  g[i].records <= b
  <2>1. CASE i = j
    BY <1>10, <2>1 DEF b
  <2>2. CASE i # j
    <3>1. i \in 0 .. j - 1 /\ i \in 0 .. n
      BY <1>5, <2>2
    <3>2. g[i].records <= a
      BY <1>9, <3>1
    <3>3. i \notin Bad /\ i \in Nat
      <4>1. i \in Nat /\ i < j
        BY <1>5, <3>1
      <4> HIDE DEF Bad
      <4> QED
        BY <1>2, <1>5, <4>1
    <3>4. g[i].records \in Nat
      BY <3>1, <3>3
    <3> QED
      BY <1>9, <1>10, <3>2, <3>4
  <2> QED
    BY <2>1, <2>2
<1>12. Good(j)
  BY <1>10, <1>11 DEF b
<1> HIDE DEF Good
<1> QED
  BY <1>3, <1>12

\* An idle state is told by the number of records that were read.
LEMMA IdleIsUnique ==
    ASSUME NEW log, NEW s, NEW t, Reaches(log, s), Reaches(log, t),
           s.taker = NoSlot, t.taker = NoSlot, s.records = t.records
    PROVE  s = t
<1>1. ASSUME NEW n \in Nat, NEW m \in Nat, n <= m,
             NEW g, IsRun(log, g, n), NEW h, IsRun(log, h, m),
             g[n].taker = NoSlot, g[n].records = h[m].records
      PROVE  g[n] = h[m]
  <2>1. g[n] = h[n]
    BY <1>1, RunsAgree
  <2>2. CASE n = m
    BY <2>1, <2>2
  <2>3. CASE n # m
    <3>1. n + 1 \in 1 .. m /\ n + 1 \in 0 .. m /\ n \in 0 .. m /\ m \in 0 .. m
          /\ (n + 1) - 1 = n
      BY <1>1, <2>3
    <3>2. h[n + 1] = Following(log, h[n])
      BY <1>1, <3>1 DEF IsRun
    <3>3. h[n + 1].records = h[n].records + 1
      BY <1>1, <2>1, <3>2, RecordsRead
    <3>4. \A j \in 0 .. m : /\ h[j].records \in Nat
                            /\ \A i \in 0 .. j : h[i].records <= h[j].records
      BY <1>1, RecordsGrow
    <3>5. h[n].records \in Nat /\ h[n + 1].records <= h[m].records
      BY <3>1, <3>4
    <3> QED
      BY <1>1, <2>1, <3>3, <3>5
  <2> QED
    BY <2>2, <2>3
<1>2. PICK n \in Nat : \E g : IsRun(log, g, n) /\ g[n] = s
  BY DEF Reaches
<1>3. PICK g : IsRun(log, g, n) /\ g[n] = s
  BY <1>2
<1>4. PICK m \in Nat : \E h : IsRun(log, h, m) /\ h[m] = t
  BY DEF Reaches
<1>5. PICK h : IsRun(log, h, m) /\ h[m] = t
  BY <1>4
<1>6. CASE n <= m
  BY <1>1, <1>3, <1>5, <1>6
<1>7. CASE m <= n
  BY <1>1, <1>3, <1>5, <1>7
<1> QED
  BY <1>6, <1>7

\* What is appended to the log changes nothing of a run that read no further.
LEMMA LogGrows ==
    ASSUME NEW R, NEW log \in Seq(R), NEW record, NEW s, Reaches(log, s),
           s.records <= Len(log)
    PROVE  Reaches(Append(log, record), s)
<1>1. PICK n \in Nat : \E g : IsRun(log, g, n) /\ g[n] = s
  BY DEF Reaches
<1>2. PICK g : IsRun(log, g, n) /\ g[n] = s
  BY <1>1
<1> DEFINE more == Append(log, record)
<1>3. Len(log) \in Nat /\ \A k \in 1 .. Len(log) : more[k] = log[k]
  OBVIOUS
<1> HIDE DEF more
<1>4. ASSUME NEW i \in 1 .. n
      PROVE  Following(more, g[i - 1]) = Following(log, g[i - 1])
  <2>1. i - 1 \in 0 .. n /\ i \in 0 .. n /\ n \in 0 .. n
    BY <1>1
  <2>2. /\ g[i - 1].records \in Nat /\ g[i].records \in Nat /\ g[n].records \in Nat
        /\ g[i].records <= g[n].records
    BY <1>2, <2>1, RecordsGrow
  <2>3. g[i] = Following(log, g[i - 1])
    BY <1>2 DEF IsRun
  <2>4. CASE g[i - 1].taker = NoSlot
    <3>1. g[i].records = g[i - 1].records + 1
      BY <2>3, <2>4, RecordsRead
    <3>2. g[i - 1].records + 1 \in 1 .. Len(log)
      BY <1>2, <1>3, <2>2, <3>1
    <3>3. more[g[i - 1].records + 1] = log[g[i - 1].records + 1]
      BY <1>3, <3>2
    <3> QED
      BY <2>4, <3>3 DEF Following
  <2>5. CASE g[i - 1].taker # NoSlot
    BY <2>5 DEF Following
  <2> QED
    BY <2>4, <2>5
<1>5. IsRun(more, g, n)
  BY <1>2, <1>4 DEF IsRun
<1> QED
  BY <1>1, <1>2, <1>5 DEF Reaches, more

-----------------------------------------------------------------------------
(***************************************************************************)
(* A replay repeats.  As long as the log holds nothing but orders, and     *)
(* every restart replays, whatever the engine is in the middle of is a     *)
(* state that a run on the log reaches, and so was what was known.         *)
(***************************************************************************)
\* How many records the engine was given.
RecordsGiven == IF replaying THEN replay_pos \div OrderSize ELSE Len(event_log)

KnownIsReached(log, k) ==
    OrdersUpTo(log, k.records) =>
        \E s : /\ Reaches(log, s)
              /\ s.taker = NoSlot
              /\ s.records = k.records
              /\ ContentsOf(s) = k.contents

Repeats ==
    /\ replaying => ~crashed
    /\ ~forgot =>
          /\ KnownIsReached(event_log, known)
          /\ ~crashed /\ OrdersUpTo(event_log, RecordsGiven) =>
                Reaches(event_log, EngineAt(RecordsGiven))

RInv == LInv /\ known.records \in 0 .. Len(event_log) /\ Repeats

LEMMA ContentsLemma == \A n : Contents = ContentsOf(EngineAt(n))
  BY DEF Contents, ContentsOf, EngineAt

LEMMA ContentsAfter == \A n : Contents' = ContentsOf(EngineAt(n)')
  BY DEF Contents, ContentsOf, EngineAt

\* The state in which a process starts.
LEMMA InitIsFresh == Init => EngineAt(0) = Fresh
  BY DEF Init, EngineAt, Fresh

LEMMA FreshStart == Init' => EngineAt(0)' = Fresh
  BY DEF Init, EngineAt, Fresh

-----------------------------------------------------------------------------
LEMMA InitRepeats == EventLogInit => Repeats
<1> SUFFICES ASSUME EventLogInit PROVE Repeats
  OBVIOUS
<1>1. /\ Init /\ ~replaying /\ event_log = << >> /\ known = [records |-> 0, contents |-> Contents]
  BY DEF EventLogInit, GatewayInit
<1>2. EngineAt(0) = Fresh /\ RecordsGiven = 0
  BY <1>1, InitIsFresh DEF RecordsGiven
<1>3. Contents = ContentsOf(EngineAt(0))
  BY ContentsLemma
<1>4. Reaches(event_log, Fresh) /\ Fresh.taker = NoSlot /\ Fresh.records = 0
  BY FreshIsReached DEF Fresh
<1>5. KnownIsReached(event_log, known)
  BY <1>1, <1>2, <1>3, <1>4 DEF KnownIsReached
<1> QED
  BY <1>1, <1>2, <1>4, <1>5 DEF Repeats

LEMMA CrashRepeats == Repeats /\ Crash => Repeats'
  BY DEF Repeats, Crash

LEMMA RestartRepeats ==
    ASSUME NEW replay_mode \in BOOLEAN, Repeats, Restart(replay_mode)
    PROVE  Repeats'
<1>1. /\ event_log' = event_log /\ known' = known /\ forgot' = (forgot \/ ~replay_mode)
      /\ replaying' = replay_mode /\ replay_pos' = 0 /\ ~crashed' /\ NewEngine
  BY DEF Restart, startLogging, NewServer
<1>2. Init'
  BY <1>1 DEF Init, NewEngine
<1>3. EngineAt(0)' = Fresh
  BY <1>2, FreshStart
<1>4. ASSUME ~forgot'
      PROVE  RecordsGiven' = 0
  <2>1. replaying' /\ replay_pos' = 0
    BY <1>1, <1>4
  <2>2. RecordsGiven' = 0 \div OrderSize
    BY <2>1 DEF RecordsGiven
  <2>3. 0 \div OrderSize = 0
    BY DEF OrderSize
  <2> QED
    BY <2>2, <2>3
<1>5. Reaches(event_log, Fresh)
  BY FreshIsReached
<1>6. ~forgot' => EngineAt(RecordsGiven)' = Fresh
  BY <1>3, <1>4 DEF EngineAt
<1>7. ~forgot' => KnownIsReached(event_log, known)
  BY <1>1 DEF Repeats
<1> QED
  BY <1>1, <1>5, <1>6, <1>7 DEF Repeats

\* The engine after a step, with the records that it was given by then.
LEMMA GivenAfter ==
    ASSUME NEW n, RecordsGiven' = n,
           OrdersUpTo(event_log', n) => Reaches(event_log', EngineAt(n)')
    PROVE  (OrdersUpTo(event_log, RecordsGiven) =>
               Reaches(event_log, EngineAt(RecordsGiven)))'
  BY DEF EngineAt

LEMMA SameEngine ==
    ASSUME UNCHANGED vars, NEW n
    PROVE  EngineAt(n)' = EngineAt(n)
  BY DEF vars, EngineAt

\* A record that is handled leaves the engine idle, and what it holds is known.
LEMMA KnownNow ==
    ASSUME NEW log, NEW n,
           OrdersUpTo(log, n) => Reaches(log, EngineAt(n)'),
           taker' = NoSlot,
           NEW k, k = [records |-> n, contents |-> Contents']
    PROVE  KnownIsReached(log, k)
<1>1. EngineAt(n)'.taker = NoSlot /\ EngineAt(n)'.records = n
  BY DEF EngineAt
<1>2. ContentsOf(EngineAt(n)') = Contents'
  BY ContentsAfter
<1>3. k.records = n /\ k.contents = Contents'
  OBVIOUS
<1> QED
  BY <1>1, <1>2, <1>3 DEF KnownIsReached

\* What is said of the first records of a log does not depend on the others.
LEMMA KnownKept ==
    ASSUME NEW log \in Seq(Messages), NEW record, NEW k, k.records \in Nat,
           k.records <= Len(log), KnownIsReached(log, k)
    PROVE  KnownIsReached(Append(log, record), k)
<1>1. SUFFICES ASSUME OrdersUpTo(Append(log, record), k.records)
               PROVE  \E s : /\ Reaches(Append(log, record), s)
                             /\ s.taker = NoSlot
                             /\ s.records = k.records
                             /\ ContentsOf(s) = k.contents
  BY DEF KnownIsReached
<1>2. OrdersUpTo(log, k.records)
  BY <1>1 DEF OrdersUpTo
<1>3. PICK s : /\ Reaches(log, s)
               /\ s.taker = NoSlot
               /\ s.records = k.records
               /\ ContentsOf(s) = k.contents
  BY <1>2 DEF KnownIsReached
<1>4. Reaches(Append(log, record), s)
  BY <1>3, LogGrows
<1> QED
  BY <1>3, <1>4

\* The record of a cancel was appended, and is not among those known.
LEMMA CrashInCancelRepeats == RInv /\ CrashInCancel => Repeats'
<1> SUFFICES ASSUME RInv, CrashInCancel PROVE Repeats'
  OBVIOUS
<1>1. /\ event_log' = Append(event_log, Packet) /\ crashed' /\ ~replaying' /\ forgot' = forgot
      /\ known' = known
  BY DEF CrashInCancel, restartVars
<1>2. /\ event_log \in Seq(Messages) /\ known.records \in 0 .. Len(event_log)
      /\ ~forgot => KnownIsReached(event_log, known)
  BY DEF RInv, LInv, ServerInv, ServerTypes, Repeats
<1>3. ~forgot => KnownIsReached(event_log', known)
  BY <1>1, <1>2, KnownKept
<1> QED
  BY <1>1, <1>3 DEF Repeats

\* A step of the server that serves clients.
LEMMA LiveCases ==
    ASSUME GatewayNext
    PROVE  \/ handleNewOrder \/ handleOrderCancel \/ EngineRuns
           \/ /\ UNCHANGED vars /\ event_log' = event_log
              /\ RecordHandled => Idle
<1>1. CASE AtSelect /\ Clients
  BY <1>1 DEF Clients, ClientConnects, ClientCloses, gatewayVars, RecordHandled
<1>2. CASE ReportOrder
  BY <1>2 DEF ReportOrder
<1>3. CASE Server /\ ~ReportOrder
  BY <1>3 DEF Server, Select, SelectAndAccept, ReceiveSome, Disconnect,
              NothingToHandle, handleLogin, Ignored, handleSubscriptionRequest,
              handleMarketDataRequest, ReportCrashes, Handled,
              gatewayVars, RecordHandled
<1> QED
  BY <1>1, <1>2, <1>3 DEF GatewayNext

LEMMA LiveRepeats == RInv /\ Live => Repeats'
<1> SUFFICES ASSUME RInv, Live PROVE Repeats'
  OBVIOUS
<1>1. /\ LInv /\ ServerInv /\ GatewayNext /\ known.records \in 0 .. Len(event_log)
      /\ ~replaying /\ ~replaying' /\ forgot' = forgot /\ ~crashed
      /\ \/ known' = known
         \/ RecordHandled /\ known' = [records |-> Len(event_log'), contents |-> Contents']
  BY NotCrashed DEF RInv, LInv, Live, Handles
<1>2. event_log \in Seq(Messages) /\ Len(event_log) \in Nat
  BY <1>1 DEF ServerInv, ServerTypes
<1>3. RecordsGiven = Len(event_log) /\ RecordsGiven' = Len(event_log')
  BY <1>1 DEF RecordsGiven
<1> SUFFICES ASSUME ~forgot
             PROVE  /\ KnownIsReached(event_log', known')
                    /\ (OrdersUpTo(event_log, RecordsGiven) =>
                           Reaches(event_log, EngineAt(RecordsGiven)))'
  BY <1>1 DEF Repeats
<1>4. PICK n : n = Len(event_log)
  OBVIOUS
<1>5. /\ KnownIsReached(event_log, known)
      /\ OrdersUpTo(event_log, n) => Reaches(event_log, EngineAt(n))
  BY <1>1, <1>3, <1>4 DEF RInv, Repeats
<1>6. CASE handleNewOrder
  <2>1. /\ Complete /\ ~processing /\ processing' /\ ProcessNewOrder(Packet.order)
        /\ Packet.type = "NEW_ORDER" /\ event_log' = Append(event_log, Packet)
    BY <1>6 DEF handleNewOrder, Request, Complete, Parsing
  <2>2. known' = known
    BY <1>1, <2>1 DEF RecordHandled
  <2>4. KnownIsReached(event_log', known')
    BY <1>1, <1>2, <1>5, <2>1, <2>2, KnownKept
  <2>5. PICK record : record = Packet
    OBVIOUS
  <2> DEFINE log == Append(event_log, record)
  <2>6. /\ log = event_log' /\ Len(event_log') = n + 1 /\ log[n + 1] = record
        /\ \A k \in 1 .. n : k \in DOMAIN event_log
                             /\ log[k] = event_log[k]
    BY <1>2, <1>4, <2>1, <2>5
  <2>7. EngineAt(n + 1)' = Arrived(EngineAt(n), record.order)
    BY <1>2, <1>4, <2>1, <2>5, ArrivedStep
  <2>8. EngineAt(n).taker = NoSlot /\ EngineAt(n).records = n
    BY <2>1 DEF EngineAt, ProcessNewOrder, RejectPoolExhausted, RejectInvalid, KillFok,
                   BeginMatching, Valid, Receive, Idle
  <2>9. Following(log, EngineAt(n)) = EngineAt(n + 1)'
    BY <2>6, <2>7, <2>8 DEF Following
  <2>10. ASSUME OrdersUpTo(log, n + 1)
         PROVE  Reaches(log, EngineAt(n + 1)')
    <3>1. OrdersUpTo(event_log, n)
      BY <1>2, <1>4, <2>6, <2>10 DEF OrdersUpTo
    <3>2. Reaches(event_log, EngineAt(n))
      BY <1>5, <3>1
    <3>3. Reaches(log, EngineAt(n))
      BY <1>2, <1>4, <2>8, <3>2, LogGrows
    <3>4. Reaches(log, Following(log, EngineAt(n)))
      BY <3>3, ReachesOn
    <3> QED
      BY <2>9, <3>4
  <2>11. RecordsGiven' = n + 1
    BY <1>3, <2>6
  <2> HIDE DEF log
  <2>12. OrdersUpTo(event_log', n + 1) => Reaches(event_log', EngineAt(n + 1)')
    BY <2>6, <2>10
  <2> QED
    BY <2>4, <2>11, <2>12, GivenAfter
<1>7. CASE handleOrderCancel
  <2>1. /\ Packet.type = "ORDER_CANCEL" /\ event_log' = Append(event_log, Packet)
        /\ Complete /\ processing' = processing
    BY <1>7 DEF handleOrderCancel, Request, Handled
  <2>2. Len(event_log') = n + 1 /\ event_log'[n + 1].type # "NEW_ORDER"
        /\ event_log' # event_log
    BY <1>2, <1>4, <2>1
  <2>3. ~OrdersUpTo(event_log', n + 1)
    <3>1. n + 1 \in 1 .. n + 1
      BY <1>2, <1>4
    <3> QED
      BY <2>2, <3>1 DEF OrdersUpTo
  <2>4. known' = known \/ known'.records = n + 1
    BY <1>1, <2>2
  <2>5. KnownIsReached(event_log', known')
    <3>1. CASE known' = known
      BY <1>1, <1>2, <1>5, <2>1, <3>1, KnownKept
    <3>2. CASE known'.records = n + 1
      BY <2>3, <3>2 DEF KnownIsReached
    <3> QED
      BY <2>4, <3>1, <3>2
  <2>6. RecordsGiven' = n + 1
    BY <1>3, <2>2
  <2> QED
    BY <2>3, <2>5, <2>6, GivenAfter
<1>8. CASE EngineRuns
  <2>1. EngineStep /\ processing /\ processing' = processing /\ event_log' = event_log
    BY <1>8 DEF EngineRuns, gatewayVars
  <2>2. known' = known
    BY <1>1, <2>1 DEF RecordHandled
  <2>3. ASSUME OrdersUpTo(event_log, n)
        PROVE  Reaches(event_log, EngineAt(n)')
    <3>1. EngineAt(n)' = Following(event_log, EngineAt(n))
      BY <2>1, EngineSteps
    <3> QED
      BY <1>5, <2>3, <3>1, ReachesOn
  <2>4. RecordsGiven' = n
    BY <1>3, <1>4, <2>1
  <2>5. OrdersUpTo(event_log', n) => Reaches(event_log', EngineAt(n)')
    BY <2>1, <2>3
  <2> QED
    BY <1>5, <2>1, <2>2, <2>4, <2>5, GivenAfter
<1>9. CASE /\ UNCHANGED vars /\ event_log' = event_log
           /\ RecordHandled => Idle
  <2>2. EngineAt(n)' = EngineAt(n)
    BY <1>9, SameEngine
  <2>3. RecordsGiven' = n
    BY <1>3, <1>9, <1>4
  <2>4. OrdersUpTo(event_log, n) => Reaches(event_log, EngineAt(n)')
    BY <1>5, <2>2
  <2>5. (OrdersUpTo(event_log, RecordsGiven) =>
            Reaches(event_log, EngineAt(RecordsGiven)))'
    BY <1>9, <2>3, <2>4, GivenAfter
  <2>6. CASE RecordHandled /\ known' = [records |-> Len(event_log'), contents |-> Contents']
    <3>1. known' = [records |-> n, contents |-> Contents']
      BY <1>9, <1>4, <2>6
    <3>2. taker' = NoSlot
      BY <1>9, <2>6 DEF Idle, vars
    <3>3. KnownIsReached(event_log, known')
      BY <2>4, <3>1, <3>2, KnownNow
    <3> QED
      BY <1>9, <2>5, <3>3
  <2>7. CASE known' = known
    BY <1>5, <1>9, <2>5, <2>7
  <2> QED
    BY <1>1, <2>6, <2>7
<1> QED
  BY <1>1, <1>6, <1>7, <1>8, <1>9, LiveCases

-----------------------------------------------------------------------------
\* What a replay reads next, as long as it read nothing but orders, is the
\* order of the next record.
LEMMA NextRecord ==
    ASSUME event_log \in Seq(Messages), NEW n \in Nat, OrdersUpTo(event_log, n + 1),
           replay_pos = OrderSize * n, NEW request \in NextRead
    PROVE  request = event_log[n + 1].order
<1>1. /\ n + 1 <= Len(event_log)
      /\ \A k \in 0 .. n + 1 : Offset(k) = OrderSize * k
  BY OffsetOfOrders
<1>2. n + 1 \in DOMAIN event_log /\ event_log[n + 1].type = "NEW_ORDER"
  <2>1. n + 1 \in 1 .. n + 1
    OBVIOUS
  <2> QED
    BY <2>1 DEF OrdersUpTo
<1>3. Offset(n + 1 - 1) = replay_pos
  <2>1. n + 1 - 1 = n /\ n \in 0 .. n + 1
    OBVIOUS
  <2> QED
    BY <1>1, <2>1
<1>4. ASSUME NEW k \in DOMAIN event_log, Offset(k - 1) = replay_pos
      PROVE  k = n + 1
  <2>1. k \in Nat /\ k \in 1 .. Len(event_log) /\ Len(event_log) \in Nat
    OBVIOUS
  <2>2. CASE k <= n + 1
    <3>1. k - 1 \in 0 .. n + 1
      BY <2>1, <2>2
    <3>2. Offset(k - 1) = OrderSize * (k - 1)
      BY <1>1, <3>1
    <3> QED
      BY <1>4, <2>1, <3>2 DEF OrderSize
  <2>3. CASE k > n + 1
    <3>1. k - 1 \in 0 .. Len(event_log) /\ n + 1 \in 0 .. k - 1 /\ n + 1 \in 0 .. n + 1
      BY <2>1, <2>3
    <3>2. Bytes(event_log, n + 1) <= Bytes(event_log, k - 1)
      BY <3>1, BytesGrow
    <3>3. Offset(n + 1) <= Offset(k - 1)
      BY <3>2, OffsetIsBytes
    <3>4. Offset(n + 1) = OrderSize * (n + 1)
      BY <1>1, <3>1
    <3> QED
      BY <1>4, <3>3, <3>4 DEF OrderSize
  <2> QED
    BY <2>1, <2>2, <2>3
<1>5. PICK k \in DOMAIN event_log :
         /\ Offset(k - 1) = replay_pos
         /\ request = IF event_log[k].type = "NEW_ORDER" THEN event_log[k].order
                      ELSE Misread(k)
  BY <1>2, <1>3 DEF NextRead
<1> QED
  BY <1>2, <1>4, <1>5

\* A record that the replay has handled to its end, behind orders alone, is the
\* last that the engine was given.
LEMMA KnownReplayed ==
    ASSUME event_log \in Seq(Messages), event_log' = event_log, Handles(Replayed),
           KnownIsReached(event_log, known), NEW n \in Nat, replay_pos' = OrderSize * n,
           OrdersUpTo(event_log, n) => Reaches(event_log, EngineAt(n)')
    PROVE  KnownIsReached(event_log, known')
<1>1. CASE known' = known
  BY <1>1
<1>2. CASE known' # known
  <2>1. PICK k \in Replayed : known' = [records |-> k, contents |-> Contents']
    BY <1>2 DEF Handles
  <2>2. k \in DOMAIN event_log /\ Offset(k) = replay_pos' /\ taker' = NoSlot
    BY <2>1 DEF Replayed, Idle
  <2>3. ASSUME OrdersUpTo(event_log, k)
        PROVE  k = n
    <3>1. k \in Nat /\ k \in 0 .. k
      BY <2>2
    <3>2. Offset(k) = OrderSize * k
      BY <2>3, <3>1, OffsetOfOrders
    <3> QED
      BY <2>2, <3>1, <3>2 DEF OrderSize
  <2>4. CASE OrdersUpTo(event_log, k)
    BY <2>1, <2>2, <2>3, <2>4, KnownNow
  <2>5. CASE ~OrdersUpTo(event_log, k)
    BY <2>1, <2>5 DEF KnownIsReached
  <2> QED
    BY <2>4, <2>5
<1> QED
  BY <1>1, <1>2

LEMMA ReplayNextRepeats == RInv /\ ReplayNext => Repeats'
<1> SUFFICES ASSUME RInv, ReplayNext PROVE Repeats'
  OBVIOUS
<1>1. /\ event_log \in Seq(Messages) /\ Repeats
      /\ replay_pos \in Nat /\ replay_pos % OrderSize = 0
  BY DEF RInv, LInv, ServerInv, ServerTypes, ReplayState
<1>2. /\ event_log' = event_log /\ forgot' = forgot /\ crashed' = crashed
      /\ replaying /\ replaying' = replaying /\ replay_pos' = replay_pos + OrderSize /\ Idle
      /\ Handles(Replayed)
  BY DEF ReplayNext, gatewayVars
<1> SUFFICES ASSUME ~forgot
             PROVE  /\ KnownIsReached(event_log, known')
                    /\ (OrdersUpTo(event_log, RecordsGiven) =>
                           Reaches(event_log, EngineAt(RecordsGiven)))'
  BY <1>1, <1>2 DEF Repeats
<1>3. PICK n : n = replay_pos \div OrderSize
  OBVIOUS
<1>4. n \in Nat /\ replay_pos = OrderSize * n /\ (replay_pos + OrderSize) \div OrderSize = n + 1
  BY <1>1, <1>3, Division
<1>5. RecordsGiven = n /\ RecordsGiven' = n + 1
  BY <1>2, <1>3, <1>4 DEF RecordsGiven
<1>6. ASSUME OrdersUpTo(event_log, n + 1)
      PROVE  Reaches(event_log, EngineAt(n + 1)')
  <2>1. PICK request \in NextRead : ProcessNewOrder(request)
    BY DEF ReplayNext
  <2>2. request = event_log[n + 1].order
    BY <1>1, <1>4, <1>6, <2>1, NextRecord
  <2>3. EngineAt(n + 1)' = Arrived(EngineAt(n), request)
    BY <1>4, <2>1, ArrivedStep
  <2>4. EngineAt(n).taker = NoSlot /\ EngineAt(n).records = n
    BY <1>2 DEF EngineAt, Idle
  <2>5. EngineAt(n + 1)' = Following(event_log, EngineAt(n))
    BY <2>2, <2>3, <2>4 DEF Following
  <2>6. OrdersUpTo(event_log, n)
    BY <1>4, <1>6 DEF OrdersUpTo
  <2>7. Reaches(event_log, EngineAt(n))
    BY <1>1, <1>2, <1>5, <2>6 DEF Repeats
  <2> QED
    BY <2>5, <2>7, ReachesOn
<1>7. OrdersUpTo(event_log', n + 1) => Reaches(event_log', EngineAt(n + 1)')
  BY <1>2, <1>6
<1>8. (OrdersUpTo(event_log, RecordsGiven) =>
          Reaches(event_log, EngineAt(RecordsGiven)))'
  BY <1>5, <1>7, GivenAfter
<1>9. KnownIsReached(event_log, known)
  BY <1>1 DEF Repeats
<1>10. replay_pos' = OrderSize * (n + 1) /\ n + 1 \in Nat
  BY <1>2, <1>4 DEF OrderSize
<1>11. KnownIsReached(event_log, known')
  BY <1>1, <1>2, <1>6, <1>9, <1>10, KnownReplayed
<1> QED
  BY <1>8, <1>11

LEMMA ReplayEngineRepeats == RInv /\ ReplayEngine => Repeats'
<1> SUFFICES ASSUME RInv, ReplayEngine PROVE Repeats'
  OBVIOUS
<1>1. /\ event_log' = event_log /\ forgot' = forgot /\ crashed' = crashed
      /\ replaying /\ replaying' = replaying /\ replay_pos' = replay_pos
      /\ EngineStep /\ Handles(Replayed) /\ Repeats
  BY DEF ReplayEngine, gatewayVars, RInv
<1>2. event_log \in Seq(Messages) /\ replay_pos \in Nat /\ replay_pos % OrderSize = 0
  BY DEF RInv, LInv, ServerInv, ServerTypes, ReplayState
<1> SUFFICES ASSUME ~forgot
             PROVE  /\ KnownIsReached(event_log, known')
                    /\ (OrdersUpTo(event_log, RecordsGiven) =>
                           Reaches(event_log, EngineAt(RecordsGiven)))'
  BY <1>1 DEF Repeats
<1>3. PICK n : n = RecordsGiven
  OBVIOUS
<1>4. RecordsGiven' = n
  BY <1>1, <1>3 DEF RecordsGiven
<1>5. OrdersUpTo(event_log, n) => Reaches(event_log, EngineAt(n))
  BY <1>1, <1>3 DEF Repeats
<1>6. EngineAt(n)' = Following(event_log, EngineAt(n))
  BY <1>1, EngineSteps
<1>7. OrdersUpTo(event_log', n) => Reaches(event_log', EngineAt(n)')
  BY <1>1, <1>5, <1>6, ReachesOn
<1>8. (OrdersUpTo(event_log, RecordsGiven) =>
          Reaches(event_log, EngineAt(RecordsGiven)))'
  BY <1>4, <1>7, GivenAfter
<1>9. n \in Nat /\ replay_pos' = OrderSize * n
  BY <1>1, <1>3, <1>2, Division DEF RecordsGiven
<1>10. KnownIsReached(event_log, known)
  BY <1>1 DEF Repeats
<1>11. KnownIsReached(event_log, known')
  BY <1>1, <1>7, <1>2, <1>9, <1>10, KnownReplayed
<1> QED
  BY <1>8, <1>11

\* When less than an order is left, all records were read if all are orders.
LEMMA ReplayDoneRepeats == RInv /\ ReplayDone => Repeats'
<1> SUFFICES ASSUME RInv, ReplayDone PROVE Repeats'
  OBVIOUS
<1>1. /\ event_log \in Seq(Messages) /\ Repeats
      /\ replay_pos \in Nat /\ replay_pos % OrderSize = 0 /\ replay_pos <= FileSize
  BY DEF RInv, LInv, ServerInv, ServerTypes, ReplayState
<1>2. /\ event_log' = event_log /\ forgot' = forgot /\ crashed' = crashed
      /\ replaying /\ ~replaying' /\ replay_pos + OrderSize > FileSize /\ Idle
      /\ known' = known /\ UNCHANGED vars
  BY DEF ReplayDone, gatewayVars, systemVars
<1> SUFFICES ASSUME ~forgot
             PROVE  (OrdersUpTo(event_log, RecordsGiven) =>
                        Reaches(event_log, EngineAt(RecordsGiven)))'
  BY <1>1, <1>2 DEF Repeats
<1>3. PICK n : n = Len(event_log)
  OBVIOUS
<1>4. RecordsGiven' = n
  BY <1>2, <1>3 DEF RecordsGiven
<1>5. ASSUME OrdersUpTo(event_log, n)
      PROVE  Reaches(event_log, EngineAt(n)')
  <2>1. FileSize = OrderSize * n
    <3>1. n \in Nat /\ n \in 0 .. n
      BY <1>1, <1>3
    <3>2. \A k \in 0 .. n : Offset(k) = OrderSize * k
      BY <1>1, <1>5, <3>1, OffsetOfOrders
    <3> QED
      BY <1>3, <3>1, <3>2 DEF FileSize
  <2>2. replay_pos \div OrderSize = n
    <3> DEFINE pos == replay_pos
               quot == pos \div OrderSize
    <3>1. quot \in Nat /\ OrderSize * quot = pos
      BY <1>1, Division
    <3>2. n \in Nat
      BY <1>1, <1>3
    <3>3. 49 * quot <= 49 * n /\ 49 * n < 49 * quot + 49
      BY <1>1, <1>2, <2>1, <3>1, <3>2 DEF OrderSize
    <3> HIDE DEF quot
    <3> QED
      BY <3>1, <3>2, <3>3 DEF quot
  <2>3. RecordsGiven = n
    BY <1>2, <2>2 DEF RecordsGiven
  <2>4. Reaches(event_log, EngineAt(n))
    BY <1>1, <1>2, <1>5, <2>3 DEF Repeats
  <2> QED
    BY <1>2, <2>4, SameEngine
<1> QED
  BY <1>2, <1>4, <1>5, GivenAfter

LEMMA NextRepeats == RInv /\ [EventLogNext]_allVars => Repeats'
<1> SUFFICES ASSUME RInv, [EventLogNext]_allVars PROVE Repeats'
  OBVIOUS
<1>1. CASE Live
  BY <1>1, LiveRepeats
<1>2. CASE Crash
  BY <1>2, CrashRepeats DEF RInv
<1>3. CASE CrashInCancel
  BY <1>3, CrashInCancelRepeats
<1>4. CASE \E replay_mode \in BOOLEAN : Restart(replay_mode)
  BY <1>4, RestartRepeats DEF RInv
<1>5. CASE Replay
  BY <1>5, ReplayNextRepeats, ReplayEngineRepeats, ReplayDoneRepeats DEF Replay
<1>6. CASE UNCHANGED allVars
  <2>1. /\ event_log' = event_log /\ known' = known /\ forgot' = forgot
        /\ crashed' = crashed /\ replaying' = replaying /\ replay_pos' = replay_pos
        /\ UNCHANGED vars /\ Repeats
    BY <1>6 DEF allVars, systemVars, gatewayVars, restartVars, RInv
  <2>2. PICK n : n = RecordsGiven
    OBVIOUS
  <2>3. RecordsGiven' = n
    BY <2>1, <2>2 DEF RecordsGiven
  <2>4. EngineAt(n)' = EngineAt(n)
    BY <2>1, SameEngine
  <2>5. ASSUME ~forgot, ~crashed, OrdersUpTo(event_log', n)
        PROVE  Reaches(event_log', EngineAt(n)')
    <3>1. Reaches(event_log, EngineAt(n))
      <4>1. OrdersUpTo(event_log, RecordsGiven)
        BY <2>1, <2>2, <2>5
      <4>2. Reaches(event_log, EngineAt(RecordsGiven))
        BY <2>1, <2>5, <4>1 DEF Repeats
      <4> QED
        BY <2>2, <4>2
    <3> QED
      BY <2>1, <2>4, <3>1
  <2>6. ~forgot /\ ~crashed => (OrdersUpTo(event_log, RecordsGiven) =>
                                   Reaches(event_log, EngineAt(RecordsGiven)))'
    BY <2>3, <2>5, GivenAfter
  <2> QED
    BY <2>1, <2>6 DEF Repeats
<1> QED
  BY <1>1, <1>2, <1>3, <1>4, <1>5, <1>6 DEF EventLogNext

\* No record is known that was not logged.
LEMMA KnownCounts ==
    ASSUME RInv, [EventLogNext]_allVars
    PROVE  known'.records \in 0 .. Len(event_log')
<1>1. event_log \in Seq(Messages) /\ known.records \in 0 .. Len(event_log) /\ ServerInv
  BY DEF RInv, LInv, ServerInv, ServerTypes
<1>2. event_log' = event_log \/ \E record \in Messages : event_log' = Append(event_log, record)
  <2>1. CASE Live
    BY <1>1, <2>1, LoggedNext DEF Live
  <2>2. CASE CrashInCancel
    BY <1>1, <2>2, CompleteLemma DEF CrashInCancel, Request
  <2>3. CASE ~Live /\ ~CrashInCancel
    BY <2>3 DEF EventLogNext, Crash, Restart, startLogging, Replay, ReplayNext,
                ReplayEngine, ReplayDone, allVars, systemVars, gatewayVars
  <2> QED
    BY <2>1, <2>2, <2>3
<1>3. Len(event_log) \in Nat /\ Len(event_log') \in Nat /\ Len(event_log) <= Len(event_log')
  <2>1. ASSUME NEW record \in Messages, event_log' = Append(event_log, record)
        PROVE  Len(event_log') = Len(event_log) + 1
    BY <1>1, <2>1
  <2> QED
    BY <1>1, <1>2, <2>1
<1>4. \/ known' = known
      \/ known'.records = Len(event_log')
      \/ known'.records \in DOMAIN event_log
  <2>1. CASE Live
    BY <2>1 DEF Live, Handles
  <2>2. CASE ReplayNext \/ ReplayEngine
    <3>1. Handles(Replayed)
      BY <2>2 DEF ReplayNext, ReplayEngine
    <3> QED
      BY <3>1 DEF Handles, Replayed
  <2>3. CASE Crash \/ CrashInCancel \/ ReplayDone \/ UNCHANGED allVars
    BY <2>3 DEF Crash, CrashInCancel, ReplayDone, restartVars, allVars
  <2>4. CASE \E replay_mode \in BOOLEAN : Restart(replay_mode)
    BY <2>4 DEF Restart
  <2> QED
    BY <2>1, <2>2, <2>3, <2>4 DEF EventLogNext, Replay
<1> QED
  BY <1>1, <1>3, <1>4

\* When it has read the records that were handled to their end, a replay is
\* where the engine was when the last of them was: its queues and its trades
\* are what they were.
THEOREM ReplaysRestore == EventLogSpec => []ReplayRestores
<1>1. EventLogInit => RInv
  BY InitLInv, InitRepeats DEF RInv, EventLogInit
<1>2. RInv /\ [EventLogNext]_allVars => RInv'
  BY NextLInv, NextRepeats, KnownCounts DEF RInv
<1>3. RInv => ReplayRestores
  <2> SUFFICES ASSUME RInv, replaying, Idle, ~forgot, OnlyOrdersHandled,
                      replay_pos = Offset(known.records)
               PROVE  Contents = known.contents
    BY DEF ReplayRestores
  <2>1. /\ event_log \in Seq(Messages) /\ Repeats
        /\ known.records \in 0 .. Len(event_log) /\ Len(event_log) \in Nat /\ ~crashed
        /\ replay_pos \in Nat
    BY DEF RInv, LInv, ServerInv, ServerTypes, Repeats, ReplayState
  <2>2. PICK n : n = known.records
    OBVIOUS
  <2>3. n \in Nat /\ n <= Len(event_log)
    BY <2>1, <2>2
  <2>4. OrdersUpTo(event_log, n)
    BY <2>1, <2>2, <2>3 DEF OrdersUpTo, OnlyOrdersHandled
  <2>5. RecordsGiven = n
    <3>1. n \in 0 .. n
      BY <2>3
    <3>2. Offset(n) = OrderSize * n
      BY <2>1, <2>3, <2>4, <3>1, OffsetOfOrders
    <3>3. replay_pos = OrderSize * n
      BY <2>2, <3>2
    <3>4. (49 * n) \div 49 = n
      BY <2>3
    <3> QED
      BY <3>3, <3>4 DEF RecordsGiven, OrderSize
  <2>6. Reaches(event_log, EngineAt(n)) /\ EngineAt(n).taker = NoSlot /\ EngineAt(n).records = n
    BY <2>1, <2>4, <2>5 DEF Repeats, EngineAt, Idle
  <2>7. PICK s : /\ Reaches(event_log, s)
                 /\ s.taker = NoSlot
                 /\ s.records = n
                 /\ ContentsOf(s) = known.contents
    BY <2>1, <2>2, <2>4 DEF Repeats, KnownIsReached
  <2>8. EngineAt(n) = s
    BY <2>6, <2>7, IdleIsUnique
  <2> QED
    BY <2>7, <2>8, ContentsLemma
<1> QED
  BY <1>1, <1>2, <1>3, PTL DEF EventLogSpec
=============================================================================
