------------------------------ MODULE EventLog ------------------------------
(***************************************************************************)
(* The server across crashes.  Requests are appended to bins/orders.bin    *)
(* before they are handled (module ClientGateway); a crash leaves the file *)
(* and nothing else.  The next process starts with an empty engine, and if *)
(* it is given --replay-mode it first feeds the file to the engine         *)
(* (ClientGateway::replayEvents), before it looks at any client.           *)
(*                                                                         *)
(* What flush has handed to the operating system survives the process; a   *)
(* failure of the machine or of the file system is left out.               *)
(***************************************************************************)
EXTENDS ClientGateway

CONSTANTS
    MaxRestarts,    \* bound on the restarts of a behaviour
    Opening         \* what the first 17 bytes of each message say where the
                    \* last 17 of an order are read: [type, price, quantity]

\* The handler of a cancel does not read its user and its side; the replay
\* does.  A type byte is MARKET if it is 0 and else LIMIT.
ASSUME EventLogAssumption ==
    /\ MaxRestarts \in Nat
    /\ \A m \in Messages : m.type = "ORDER_CANCEL" => m.user_id \in Users /\ m.side \in Sides
    /\ \A m \in Messages :
          m.type \in {"NEW_ORDER", "ORDER_CANCEL"} =>
              Opening[m] \in [type : {"MARKET", "LIMIT"}, price : Prices, quantity : Quantities]

VARIABLES
    replaying,      \* replayEvents is in its loop
    replay_pos,     \* bytes of the file that infile has read

    restarts,       \* how many restarts there were
    forgot,         \* some restart was without --replay-mode
    handled,        \* the records that some process has handled to their end:
                    \* the one that logged them, or a replay that read them
    known           \* the last of them, and what the engine contained when it
                    \* was handled first

restartVars == << replaying, replay_pos, restarts, forgot, handled, known >>
allVars == << systemVars, restartVars >>

\* What the engine holds for its users: the queues, and the trades.
Contents ==
    [queues |-> [symbol \in Symbols |-> [side \in Sides |->
        LET levels == order_books[symbol].orders[side]
        IN  [price \in DOMAIN levels |-> [i \in DOMAIN levels[price] |->
                LET order == mem[levels[price][i]]
                IN  << order.id, order.user_id, remaining_qty(order) >>]]]],
     trades |-> trade_history]

EventLogInit ==
    /\ GatewayInit
    /\ replaying = FALSE
    /\ replay_pos = 0
    /\ restarts = 0
    /\ forgot = FALSE
    /\ handled = {}
    /\ known = [records |-> 0, contents |-> Contents]

-----------------------------------------------------------------------------
(***************************************************************************)
(* The file.  Its records have no length and no mark: replayEvents reads   *)
(* 49 bytes at a time, the size of an order.                               *)
(***************************************************************************)
OrderSize == 49
CancelSize == 32

RecordSize(record) == IF record.type = "NEW_ORDER" THEN OrderSize ELSE CancelSize

\* The bytes of the first n records.
Offset(n) ==
    SumFunctionOnSet([k \in DOMAIN event_log |-> RecordSize(event_log[k])], 1 .. n)

FileSize == Offset(Len(event_log))

\* The cancel in record n read as an order.  The fields up to the side are in
\* their place; type, price and quantity are what the next record begins with.
Misread(n) ==
    LET cancel == event_log[n]
        rest   == Opening[event_log[n + 1]]
    IN  [id |-> cancel.id, symbol |-> cancel.symbol, user_id |-> cancel.user_id,
         side |-> cancel.side, type |-> rest.type, price |-> rest.price,
         quantity |-> rest.quantity]

\* What the next 49 bytes may be.  Where no record begins, any order.
NextRead ==
    LET begins == {n \in DOMAIN event_log : Offset(n - 1) = replay_pos}
    IN  IF begins = {} THEN Requests
        ELSE {IF event_log[n].type = "NEW_ORDER" THEN event_log[n].order ELSE Misread(n) :
              n \in begins}

\* The records in done, one or none, have been handled to their end.
Handles(done) ==
    /\ handled' = handled \cup done
    /\ IF \E n \in done : n > known.records
       THEN \E n \in done : known' = [records |-> n, contents |-> Contents']
       ELSE known' = known

-----------------------------------------------------------------------------
(***************************************************************************)
(* Crash and restart.                                                      *)
(***************************************************************************)
Crash ==
    /\ ~crashed
    /\ crashed' = TRUE
    /\ replaying' = FALSE
    /\ UNCHANGED << vars, netVars, sessions, subscriptions, event_log, serving,
                    processing, sent, shown, replay_pos, restarts, forgot, handled, known >>

\* Between the write and the call of cancelOrder, which handleOrderCancel does
\* in one step.  The same for an order is Crash, behind handleNewOrder.
CrashInCancel ==
    /\ ~replaying
    /\ Request("ORDER_CANCEL")
    /\ event_log' = Append(event_log, Packet)
    /\ crashed' = TRUE
    /\ UNCHANGED << vars, netVars, sessions, subscriptions, serving, processing, sent,
                    shown, restartVars >>

\* The constructors: an empty pool, no book, no session.  The connections are
\* gone with the old process; the clients know what they have submitted.
NewEngine ==
    /\ mem' = [slot \in Pool |-> Blank]
    /\ free_indices' = NewPool(PoolSize)
    /\ order_books' = [symbol \in Symbols |-> EmptyBook]
    /\ created' = {}
    /\ trade_history' = << >>
    /\ trades' = << >>
    /\ taker' = NoSlot
    /\ clock' = 0

NewServer ==
    /\ peer' = [fd \in Fds |-> "none"]
    /\ wire' = [fd \in Fds |-> << >>]
    /\ clients' = << >>
    /\ fds' = {}
    /\ sessions' = [fd \in {} |-> NoSession]
    /\ subscriptions' = [symbol \in Symbols |-> {}]
    /\ serving' = NoFd
    /\ processing' = FALSE
    /\ sent' = << >>
    /\ crashed' = FALSE
    /\ unhandled' = [fd \in Fds |-> << >>]
    /\ shown' = [fd \in Fds |-> NothingShown]
    /\ UNCHANGED << submitted, connections >>

startLogging == UNCHANGED event_log

\* replay_mode is false unless --replay-mode is given.
Restart(replay_mode) ==
    /\ crashed
    /\ restarts < MaxRestarts
    /\ restarts' = restarts + 1
    /\ NewEngine
    /\ NewServer
    /\ startLogging
    /\ replaying' = replay_mode
    /\ replay_pos' = 0
    /\ forgot' = (forgot \/ ~replay_mode)
    /\ UNCHANGED << handled, known >>

-----------------------------------------------------------------------------
(***************************************************************************)
(* replayEvents: no record is written, no report sent, nobody connected.   *)
(***************************************************************************)
\* The record whose order process_new_order has just returned from, if the 49
\* bytes were one.
Replayed ==
    {n \in DOMAIN event_log :
        event_log[n].type = "NEW_ORDER" /\ Offset(n) = replay_pos' /\ Idle'}

\* Variation: the order is the user_id argument's, which replayEvents sets to
\* the id of the order.
ReplayNextOfUser ==
    /\ replaying /\ Idle
    /\ replay_pos + OrderSize <= FileSize
    /\ replay_pos' = replay_pos + OrderSize
    /\ \E request \in NextRead :
          ProcessNewOrder([request EXCEPT !.user_id = request.id])
    /\ Handles(Replayed)
    /\ UNCHANGED << netVars, gatewayVars, replaying, restarts, forgot >>

ReplayNext ==
    /\ replaying /\ Idle
    /\ replay_pos + OrderSize <= FileSize
    /\ replay_pos' = replay_pos + OrderSize
    /\ \E request \in NextRead : ProcessNewOrder(request)
    /\ Handles(Replayed)
    /\ UNCHANGED << netVars, gatewayVars, replaying, restarts, forgot >>

ReplayEngine ==
    /\ replaying
    /\ EngineStep
    /\ UNCHANGED << netVars, gatewayVars, replaying, replay_pos, restarts, forgot >>
    /\ Handles(Replayed)

\* Variation: the loop ends when the last byte has been read.
ReplayDoneAtEnd ==
    /\ replaying /\ Idle
    /\ replay_pos = FileSize
    /\ replaying' = FALSE
    /\ UNCHANGED << systemVars, replay_pos, restarts, forgot, handled, known >>

\* Variation: the loop ends with the last whole record unread.
ReplayDoneTooEarly ==
    /\ replaying /\ Idle
    /\ replay_pos + OrderSize >= FileSize
    /\ replaying' = FALSE
    /\ UNCHANGED << systemVars, replay_pos, restarts, forgot, handled, known >>

\* What is left is shorter than an order: read fails, and the server starts.
ReplayDone ==
    /\ replaying /\ Idle
    /\ replay_pos + OrderSize > FileSize
    /\ replaying' = FALSE
    /\ UNCHANGED << systemVars, replay_pos, restarts, forgot, handled, known >>

Replay == ReplayNext \/ ReplayEngine \/ ReplayDone

\* The record of the request that has just been handled is the last.
RecordHandled == ~processing' /\ (processing \/ event_log' # event_log)

Live ==
    /\ ~replaying
    /\ GatewayNext
    /\ Handles(IF RecordHandled THEN {Len(event_log')} ELSE {})
    /\ UNCHANGED << replaying, replay_pos, restarts, forgot >>

EventLogNext ==
    \/ Live
    \/ Crash
    \/ CrashInCancel
    \/ \E replay_mode \in BOOLEAN : Restart(replay_mode)
    \/ Replay

EventLogSpec == EventLogInit /\ [][EventLogNext]_allVars

\* main calls replayEvents, and nothing in its loop waits.
FairEventLogSpec == EventLogSpec /\ WF_allVars(Replay)
-----------------------------------------------------------------------------
(***************************************************************************)
(* Properties.                                                             *)
(***************************************************************************)
\* Record n is a cancel, or comes behind one.
BehindCancel(n) == \E k \in 1 .. n : event_log[k].type = "ORDER_CANCEL"

OnlyOrdersHandled ==
    \A n \in DOMAIN event_log : n <= known.records => event_log[n].type = "NEW_ORDER"

\* The records that no process has handled to their end.
CutShort == DOMAIN event_log \ handled

\* A crash cuts the handling of one record short at most.  Whatever is in the
\* log, and whether or not it is replayed, no process leaves more than one
\* behind.  While every restart replays, what was cut short is made up for
\* before the next record is logged, up to the first cancel: of the orders in
\* front of it, all that are not the last record were handled to their end.
AtMostOneCutShort ==
    /\ Cardinality(CutShort) <= restarts + 1
    /\ ~forgot => \A n \in CutShort : n = Len(event_log) \/ BehindCancel(n)

\* While only orders were handled and every restart replayed, a replay leads
\* through the very state that the crash destroyed: when it has read the records
\* that were handled to their end, the queues and the trades are what they were.
ReplayRestores ==
    replaying /\ Idle /\ ~forgot /\ OnlyOrdersHandled /\ replay_pos = Offset(known.records) =>
        Contents = known.contents

\* Record n is a cancel that the replay takes for a LIMIT order.
ReadAsLimit(n) ==
    /\ n < Len(event_log)
    /\ event_log[n].type = "ORDER_CANCEL"
    /\ Opening[event_log[n + 1]].type = "LIMIT"

\* The replay has read what nobody submitted and what may rest: from a position
\* at which no record begins, as they are behind a cancel, or a cancel that the
\* next record makes a LIMIT order.
Strayed ==
    \E pos \in 0 .. replay_pos - 1 :
        /\ pos % OrderSize = 0
        /\ \/ \A n \in DOMAIN event_log : Offset(n - 1) # pos
           \/ \E n \in DOMAIN event_log : Offset(n - 1) = pos /\ ReadAsLimit(n)

\* Whatever rests in a book is in the log, as it was submitted: a crash at any
\* moment, during a replay too, finds there what it needs.  Nothing is said of
\* a replay that has strayed: with a cancel in the log, when the record behind
\* it has a seq_num other than 0, or is not the last.
RestingIsLogged ==
    ~Strayed =>
    \A symbol \in Symbols : \A slot \in Pool :
        Listed(order_books[symbol], slot) =>
            \E n \in DOMAIN event_log :
                /\ event_log[n].type = "NEW_ORDER"
                /\ mem[slot] = [NewOrder(event_log[n].order, mem[slot].timestamp)
                                  EXCEPT !.quantity_filled = mem[slot].quantity_filled]

\* The replay comes to its end, and the clients that wait are served, unless
\* it has strayed: what it read then may bring an id a second time, and the
\* matching loop may never end.
ReplayEnds == replaying ~> ~replaying \/ Strayed

-----------------------------------------------------------------------------
\* include/config.h:48 "Enable replay mode to process historical events": the
\* restarted engine is the one that crashed.  A cancel is written to the log
\* and not replayed: the order it took out is in the book again.
ReplayProcessesHistory ==
    [][ ReplayDone /\ ~forgot /\ Len(event_log) = known.records =>
          Contents = known.contents ]_allVars
=============================================================================
