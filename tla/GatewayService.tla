--------------------------- MODULE GatewayService ---------------------------
(***************************************************************************)
(* The gRPC gateway (gateway/gateway.py): a pool of worker threads that    *)
(* serves the calls of the traders, and a listener thread that hands what  *)
(* the matching engine sends to the queues of the streams.  They share the *)
(* order id counter, the dict of the users' queues, the list of the market *)
(* data streams and the socket, and no lock.  A step is one access to one  *)
(* of these; between two, any other thread may run.                        *)
(*                                                                         *)
(* The matching engine and its server are external here: they answer what  *)
(* is sent to them, in order, and may go away once.                        *)
(***************************************************************************)
EXTENDS Naturals, FiniteSets, Functions, SequencesExt

CONSTANTS
    Workers,    \* the threads of the pool: ten in the code
    Users,      \* the users that tokens are issued to
    Calls,      \* the calls traders make: [rpc, user, symbol]
    MaxCalls,   \* bound on the calls made in a behaviour
    MaxBacklog  \* bound on what the listener has before it, and on what each
                \* queue of md_streams holds, when the engine sends unasked

Rpcs == {"PlaceOrder", "CancelOrder", "StreamExecutions", "StreamMarketData",
         "RequestMarketDataSnapshot"}

ASSUME ServiceAssumption ==
    /\ MaxCalls \in Nat /\ MaxBacklog \in Nat
    /\ Calls \subseteq [rpc : Rpcs, user : Users, symbol : STRING]

VARIABLES
    waiting,            \* calls that no worker has taken yet, oldest first
    thread,             \* what each worker is at, and its locals
    listener,           \* what the listener is at, and its locals
    order_id_counter,
    queues,             \* every queue.Queue that was made, by its number
    user_queues,        \* a partial function from users to queues
    md_streams,         \* the list of the market data queues
    from_ome,           \* what the engine has sent and the listener not read
    connected,          \* the engine is there
    subscribed,         \* the symbols the engine sends snapshots of
    booked,             \* the symbols it has a book of

    calls,              \* how many calls were made
    ids,                \* the ids given to orders, in the order they were read
    raced,              \* two workers were in get_order_id at the same time
    reported,           \* how many reports to each user the engine has sent
                        \* and no break has lost
    replaced,           \* the users whose queue a stream has replaced
    yielded             \* what the streams of each user have taken, in order

shared == << order_id_counter, queues, user_queues, md_streams >>
engine == << from_ome, subscribed, booked, reported >>
history == << ids, raced, replaced, yielded >>
serviceVars == << waiting, thread, listener, shared, engine, connected,
                  calls, history >>

NoQueue == 0

IdleThread == [at |-> "idle", active |-> FALSE, counter |-> 0, queue |-> NoQueue]

AtRecv == [at |-> "recv"]

ServiceInit ==
    /\ waiting = << >>
    /\ thread = [w \in Workers |-> IdleThread]
    /\ listener = AtRecv
    /\ order_id_counter = 0
    /\ queues = << >>
    /\ user_queues = [user \in {} |-> NoQueue]
    /\ md_streams = << >>
    /\ from_ome = << >>
    /\ connected = TRUE
    /\ subscribed = {}
    /\ booked = {}
    /\ calls = 0
    /\ ids = << >>
    /\ raced = FALSE
    /\ reported = [user \in Users |-> 0]
    /\ replaced = {}
    /\ yielded = [user \in Users |-> << >>]

-----------------------------------------------------------------------------
(***************************************************************************)
(* Traders and the pool.                                                   *)
(***************************************************************************)
Submit(call) ==
    /\ calls < MaxCalls
    /\ calls' = calls + 1
    /\ waiting' = Append(waiting, call)
    /\ UNCHANGED << thread, listener, shared, engine, connected, history >>

\* Worker w is at the line named, in the call named.
At(w, line) == thread[w].at = line

Goes(w, line) == thread' = [thread EXCEPT ![w].at = line]

Ends(w) == thread' = [thread EXCEPT ![w] = IdleThread]

FirstLine(rpc) ==
    CASE rpc = "PlaceOrder" -> "load"
      [] rpc = "CancelOrder" -> "send"
      [] rpc = "StreamExecutions" -> "test"
      [] rpc = "StreamMarketData" -> "send"
      [] rpc = "RequestMarketDataSnapshot" -> "append"

\* get_user_from_context: an invalid or expired token aborts the call.  Market
\* data needs none.
NeedsToken == {"CancelOrder", "StreamExecutions"}

\* The executor gives the oldest call to an idle worker.
TakeCall(w) ==
    LET call == Head(waiting)
    IN  /\ At(w, "idle") /\ waiting # << >>
        /\ waiting' = Tail(waiting)
        /\ \/ thread' = [thread EXCEPT ![w] =
                 [at |-> FirstLine(call.rpc), active |-> TRUE, counter |-> 0, queue |-> NoQueue,
                  rpc |-> call.rpc, user |-> call.user, symbol |-> call.symbol]]
           \/ call.rpc \in NeedsToken /\ UNCHANGED thread
        /\ UNCHANGED << listener, shared, engine, connected, calls, history >>

Streams == {"StreamExecutions", "StreamMarketData"}

Busy(w) == thread[w].at # "idle"

\* The trader hangs up: context.is_active() is false from now on.
HangUp(w) ==
    /\ Busy(w) /\ thread[w].rpc \in Streams /\ thread[w].active
    /\ thread' = [thread EXCEPT ![w].active = FALSE]
    /\ UNCHANGED << waiting, listener, shared, engine, connected, calls,
                    history >>

-----------------------------------------------------------------------------
(***************************************************************************)
(* The matching engine.  It answers requests in the order they are sent;   *)
(* here at once, and how long that takes is how long the answer stays in   *)
(* from_ome.                                                               *)
(***************************************************************************)
Snapshots(symbols) == SetToSeq({[type |-> "SNAPSHOT", symbol |-> symbol] : symbol \in symbols})

ReportsIn(messages, user) ==
    Cardinality({i \in DOMAIN messages :
                    messages[i].type = "REPORT" /\ messages[i].user = user})

\* Orders and cancels are reported, and their book is shown to subscribers.
OmeReports(user, symbol) ==
    /\ booked' = booked \cup {symbol}
    /\ reported' = [reported EXCEPT ![user] = @ + 1]
    /\ from_ome' = from_ome \o << [type |-> "REPORT", user |-> user, report |-> reported'[user]] >>
                            \o Snapshots({symbol} \cap subscribed)
    /\ UNCHANGED subscribed

OmeSubscribes(symbol) ==
    /\ subscribed' = subscribed \cup {symbol}
    /\ UNCHANGED << from_ome, booked, reported >>

\* A symbol without a book is not answered.
OmeAnswers(symbol) ==
    /\ from_ome' = from_ome \o Snapshots({symbol} \cap booked)
    /\ UNCHANGED << subscribed, booked, reported >>

\* The engine has other clients than the gateway.  They trade in what it has
\* subscribed to for as long as they like, and it is shown every change.
OmeBroadcasts(symbol) ==
    /\ connected /\ symbol \in subscribed
    /\ Len(from_ome) + (IF listener = AtRecv THEN 0 ELSE 1) < MaxBacklog
    /\ \A queue \in ToSet(md_streams) : Len(queues[queue]) < MaxBacklog
    /\ booked' = booked \cup {symbol}
    /\ from_ome' = from_ome \o Snapshots({symbol} \cap subscribed)
    /\ UNCHANGED << waiting, thread, listener, shared, subscribed, reported, connected,
                    calls, history >>

\* send_to_ome in the three kinds of calls.  sendall is one send, which the
\* kernel does not mix with another's.
SendOrder(w) ==
    /\ thread[w].rpc \in {"PlaceOrder", "CancelOrder"}
    /\ OmeReports(thread[w].user, thread[w].symbol)
    /\ Ends(w)

SendSubscription(w) ==
    /\ thread[w].rpc = "StreamMarketData"
    /\ OmeSubscribes(thread[w].symbol)
    /\ Goes(w, "append")

SendQuery(w) ==
    /\ thread[w].rpc = "RequestMarketDataSnapshot"
    /\ OmeAnswers(thread[w].symbol)
    /\ Goes(w, "get")

Send(w) ==
    /\ At(w, "send") /\ connected
    /\ SendOrder(w) \/ SendSubscription(w) \/ SendQuery(w)
    /\ UNCHANGED << waiting, listener, shared, connected, calls, history >>

\* Once the engine is gone sendall raises, or the kernel takes the message
\* before it knows and the call goes on as if it had been sent.
SendFails(w) ==
    /\ At(w, "send") /\ ~connected
    /\ CASE thread[w].rpc \in {"PlaceOrder", "CancelOrder"} -> Ends(w)
         [] thread[w].rpc = "StreamMarketData" -> Ends(w) \/ Goes(w, "append")
         [] thread[w].rpc = "RequestMarketDataSnapshot" -> Goes(w, "finally") \/ Goes(w, "get")
    /\ UNCHANGED << waiting, listener, shared, engine, connected, calls, history >>

-----------------------------------------------------------------------------
(***************************************************************************)
(* get_order_id: += reads the counter and sets it, return reads it again.  *)
(***************************************************************************)
LoadCounter(w) ==
    /\ At(w, "load")
    /\ thread' = [thread EXCEPT ![w].at = "store", ![w].counter = order_id_counter]
    /\ raced' = (raced \/ \E other \in Workers : thread[other].at \in {"store", "return"})
    /\ UNCHANGED << waiting, listener, shared, engine, connected, calls,
                    ids, replaced, yielded >>

\* Variation: what the counter is raised to is not kept.
StoreCounterUnset(w) ==
    /\ At(w, "store")
    /\ Goes(w, "return")
    /\ UNCHANGED << waiting, listener, shared, engine, connected, calls, history >>

StoreCounter(w) ==
    /\ At(w, "store")
    /\ order_id_counter' = thread[w].counter + 1
    /\ thread' = [thread EXCEPT ![w].at = "return", ![w].counter = 0]
    /\ UNCHANGED << waiting, listener, queues, user_queues, md_streams, engine,
                    connected, calls, history >>

\* The id is spent before the token is checked.
ReturnCounter(w) ==
    /\ At(w, "return")
    /\ ids' = Append(ids, order_id_counter)
    /\ Goes(w, "send") \/ Ends(w)
    /\ UNCHANGED << waiting, listener, shared, engine, connected, calls, raced,
                    replaced, yielded >>

-----------------------------------------------------------------------------
(***************************************************************************)
(* StreamExecutions.                                                       *)
(***************************************************************************)
\* A queue.Queue is made and becomes the one of the user.
NewUserQueue(user) ==
    /\ queues' = Append(queues, << >>)
    /\ user_queues' = [u \in {user} \cup DOMAIN user_queues |->
                          IF u = user THEN Len(queues') ELSE user_queues[u]]

TestQueue(w) ==
    /\ At(w, "test")
    /\ Goes(w, IF thread[w].user \in DOMAIN user_queues THEN "lookup" ELSE "create")
    /\ UNCHANGED << waiting, listener, shared, engine, connected, calls,
                    history >>

CreateQueue(w) ==
    LET user == thread[w].user
    IN  /\ At(w, "create")
        /\ NewUserQueue(user)
        /\ replaced' = IF user \in DOMAIN user_queues THEN replaced \cup {user} ELSE replaced
        /\ Goes(w, "lookup")
        /\ UNCHANGED << waiting, listener, order_id_counter, md_streams, engine,
                        connected, calls, ids, raced, yielded >>

\* The queue is looked up anew in every iteration ...
LookupQueue(w) ==
    /\ At(w, "lookup") /\ thread[w].active
    /\ thread' = [thread EXCEPT ![w].at = "take",
                                ![w].queue = user_queues[thread[w].user]]
    /\ UNCHANGED << waiting, listener, shared, engine, connected, calls,
                    history >>

LooksAgain(w) == thread' = [thread EXCEPT ![w].at = "lookup", ![w].queue = NoQueue]

\* ... and get takes a report, or gives up after a second.
TakeReport(w) ==
    LET queue == thread[w].queue
    IN  /\ At(w, "take") /\ queues[queue] # << >>
        /\ queues' = [queues EXCEPT ![queue] = Tail(@)]
        /\ yielded' = [yielded EXCEPT ![thread[w].user] = Append(@, Head(queues[queue]))]
        /\ LooksAgain(w)
        /\ UNCHANGED << waiting, listener, order_id_counter, user_queues, md_streams,
                        engine, connected, calls, ids, raced, replaced >>

\* Variation: get is tried again on the same queue.
TakeAgain(w) ==
    /\ At(w, "take") /\ queues[thread[w].queue] = << >>
    /\ UNCHANGED serviceVars

TakeTimesOut(w) ==
    /\ At(w, "take") /\ queues[thread[w].queue] = << >>
    /\ LooksAgain(w)
    /\ UNCHANGED << waiting, listener, shared, engine, connected, calls,
                    history >>

\* Variation: the queue is emptied when the stream ends.
LeaveExecutionsWithQueue(w) ==
    /\ At(w, "lookup") /\ ~thread[w].active
    /\ NewUserQueue(thread[w].user)
    /\ Ends(w)
    /\ UNCHANGED << waiting, listener, order_id_counter, md_streams, engine,
                    connected, calls, history >>

LeaveExecutions(w) ==
    /\ At(w, "lookup") /\ ~thread[w].active
    /\ Ends(w)
    /\ UNCHANGED << waiting, listener, shared, engine, connected, calls,
                    history >>

-----------------------------------------------------------------------------
(***************************************************************************)
(* StreamMarketData, which sends and then appends its queue, and           *)
(* RequestMarketDataSnapshot, which appends and then sends.                *)
(***************************************************************************)
AppendStream(w) ==
    /\ At(w, "append")
    /\ queues' = Append(queues, << >>)
    /\ md_streams' = Append(md_streams, Len(queues'))
    /\ thread' = [thread EXCEPT
           ![w].queue = Len(queues'),
           ![w].at = IF thread[w].rpc = "StreamMarketData" THEN "get" ELSE "send"]
    /\ UNCHANGED << waiting, listener, order_id_counter, user_queues, engine,
                    connected, calls, history >>

\* The request asks for this symbol.
Asked(w, symbol) == thread[w].rpc = "RequestMarketDataSnapshot" /\ thread[w].symbol = symbol

\* A snapshot of another symbol is dropped; the request ends with its own, and
\* a stream when its trader has hung up, which is_active says after each get.
GetSnapshot(w) ==
    LET queue == thread[w].queue
    IN  /\ At(w, "get") /\ queues[queue] # << >>
        /\ queues' = [queues EXCEPT ![queue] = Tail(@)]
        /\ IF Asked(w, Head(queues[queue])) \/ ~thread[w].active
           THEN Goes(w, "finally") ELSE UNCHANGED thread
        /\ UNCHANGED << waiting, listener, order_id_counter, user_queues, md_streams,
                        engine, connected, calls, history >>

\* Variation: get has no timeout in a stream, which looks at its context only
\* when it has got something.
GetEndsNever(w) ==
    /\ At(w, "get")
    /\ thread[w].rpc = "RequestMarketDataSnapshot"
    /\ queues[thread[w].queue] = << >>
    /\ Goes(w, "finally")
    /\ UNCHANGED << waiting, listener, shared, engine, connected, calls,
                    history >>

\* Variation: a request has no timeout.
GetEndsForStreams(w) ==
    /\ At(w, "get")
    /\ thread[w].rpc = "StreamMarketData" /\ ~thread[w].active
    /\ Goes(w, "finally")
    /\ UNCHANGED << waiting, listener, shared, engine, connected, calls,
                    history >>

\* A stream whose trader has hung up, within a second; a request that got
\* nothing for three seconds, counted anew from each snapshot it gets.
GetEnds(w) ==
    /\ At(w, "get")
    /\ IF thread[w].rpc = "StreamMarketData" THEN ~thread[w].active
       ELSE queues[thread[w].queue] = << >>
    /\ Goes(w, "finally")
    /\ UNCHANGED << waiting, listener, shared, engine, connected, calls,
                    history >>

\* The broadcast that goes on while the list gets shorter.
Leaving == IF listener.at = "broadcast" THEN [listener EXCEPT !.left = @ + 1] ELSE listener

\* Variation: the last stream is taken off.
RemoveLastStream(w) ==
    /\ At(w, "finally")
    /\ md_streams' = Front(md_streams)
    /\ Ends(w)
    /\ listener' = Leaving
    /\ UNCHANGED << waiting, order_id_counter, queues, user_queues, engine, connected,
                    calls, history >>

\* remove takes the first that is equal; the queue is nobody's after that.
RemoveStream(w) ==
    /\ At(w, "finally")
    /\ md_streams' = RemoveFirst(md_streams, thread[w].queue)
    /\ queues' = [queues EXCEPT ![thread[w].queue] = << >>]
    /\ Ends(w)
    /\ listener' = Leaving
    /\ UNCHANGED << waiting, order_id_counter, user_queues, engine, connected,
                    calls, history >>

-----------------------------------------------------------------------------
(***************************************************************************)
(* tcp_listener_loop.                                                      *)
(***************************************************************************)
\* The queues of the calls that wait for market data.
Audience == {thread[w].queue : w \in {v \in Workers : At(v, "get")}}

Receive ==
    /\ listener.at = "recv" /\ from_ome # << >>
    /\ from_ome' = Tail(from_ome)
    /\ listener' =
          IF Head(from_ome).type = "SNAPSHOT"
          THEN [at |-> "broadcast", symbol |-> Head(from_ome).symbol, next |-> 1,
                audience |-> Audience, served |-> << >>, left |-> 0]
          ELSE [at |-> "test", user |-> Head(from_ome).user, report |-> Head(from_ome).report]
    /\ UNCHANGED << waiting, thread, shared, subscribed, booked, reported, connected,
                    calls, history >>

\* Nothing is left to read and nothing will come: the thread ends.
ListenerStops ==
    /\ listener.at = "recv" /\ from_ome = << >> /\ ~connected
    /\ listener' = [at |-> "stopped"]
    /\ UNCHANGED << waiting, thread, shared, engine, connected, calls, history >>

\* handle_snapshot: the iterator of the list is an index into it.
PutSnapshot ==
    /\ listener.at = "broadcast" /\ listener.next <= Len(md_streams)
    /\ LET queue == md_streams[listener.next]
       IN  /\ queues' = [queues EXCEPT ![queue] = Append(@, listener.symbol)]
           /\ listener' = [listener EXCEPT !.next = @ + 1, !.served = Append(@, queue)]
    /\ UNCHANGED << waiting, thread, order_id_counter, user_queues, md_streams, engine,
                    connected, calls, history >>

EndBroadcast ==
    /\ listener.at = "broadcast" /\ listener.next > Len(md_streams)
    /\ listener' = AtRecv
    /\ UNCHANGED << waiting, thread, shared, engine, connected, calls, history >>

\* handle_execution.
ListenerTests ==
    /\ listener.at = "test"
    /\ listener' = [listener EXCEPT !.at =
                       IF listener.user \in DOMAIN user_queues THEN "lookup" ELSE "create"]
    /\ UNCHANGED << waiting, thread, shared, engine, connected, calls, history >>

ListenerCreates ==
    /\ listener.at = "create"
    /\ NewUserQueue(listener.user)
    /\ listener' = [listener EXCEPT !.at = "lookup"]
    /\ UNCHANGED << waiting, thread, order_id_counter, md_streams, engine, connected,
                    calls, history >>

ListenerLooksUp ==
    /\ listener.at = "lookup"
    /\ listener' = [at |-> "put", user |-> listener.user, report |-> listener.report,
                    queue |-> user_queues[listener.user]]
    /\ UNCHANGED << waiting, thread, shared, engine, connected, calls, history >>

ListenerPuts ==
    /\ listener.at = "put"
    /\ queues' = [queues EXCEPT ![listener.queue] = Append(@, listener.report)]
    /\ listener' = AtRecv
    /\ UNCHANGED << waiting, thread, order_id_counter, user_queues, md_streams, engine,
                    connected, calls, history >>

Listener ==
    \/ Receive \/ ListenerStops
    \/ PutSnapshot \/ EndBroadcast
    \/ ListenerTests \/ ListenerCreates \/ ListenerLooksUp \/ ListenerPuts

-----------------------------------------------------------------------------
\* The connection breaks: of what was on its way to the gateway, the first part
\* still arrives.
OmeGoes ==
    /\ connected
    /\ connected' = FALSE
    /\ \E arriving \in 0 .. Len(from_ome) :
          /\ from_ome' = SubSeq(from_ome, 1, arriving)
          /\ reported' = [user \in Users |->
                reported[user] - ReportsIn(SubSeq(from_ome, arriving + 1, Len(from_ome)), user)]
    /\ UNCHANGED << waiting, thread, listener, shared, subscribed, booked, calls, history >>

-----------------------------------------------------------------------------
Worker(w) ==
    \/ TakeCall(w) \/ Send(w) \/ SendFails(w)
    \/ LoadCounter(w) \/ StoreCounter(w) \/ ReturnCounter(w)
    \/ TestQueue(w) \/ CreateQueue(w) \/ LookupQueue(w) \/ TakeReport(w) \/ TakeTimesOut(w)
    \/ LeaveExecutions(w)
    \/ AppendStream(w) \/ GetSnapshot(w) \/ GetEnds(w) \/ RemoveStream(w)

Traders ==
    \/ \E call \in Calls : Submit(call)
    \/ \E w \in Workers : HangUp(w)

ServiceNext ==
    \/ Traders
    \/ \E w \in Workers : Worker(w)
    \/ Listener
    \/ \E symbol \in subscribed : OmeBroadcasts(symbol)
    \/ OmeGoes

ServiceSpec == ServiceInit /\ [][ServiceNext]_serviceVars

\* Every thread runs on; traders need do nothing, nor need the engine.
FairServiceSpec ==
    /\ ServiceSpec
    /\ \A w \in Workers : WF_serviceVars(Worker(w))
    /\ WF_serviceVars(Listener)
-----------------------------------------------------------------------------
(***************************************************************************)
(* Properties.                                                             *)
(***************************************************************************)
Streaming(w) == Busy(w) /\ thread[w].rpc \in Streams /\ thread[w].active

Waits(user) == IF user \in DOMAIN user_queues THEN queues[user_queues[user]] ELSE << >>

\* The reports to a user that the listener has put somewhere.
Handed(user) ==
    reported[user] - ReportsIn(from_ome, user)
      - (IF listener.at \in {"test", "create", "lookup", "put"} /\ listener.user = user
         THEN 1 ELSE 0)

\* However the listener and the streams of a user meet in the dict, across
\* streams that come and go, every report that was put is taken once and in
\* order or still waits in the queue that the next stream will find; but for a
\* user whose queue was replaced by a stream that had found none.
ReportsInOrder ==
    \A user \in Users \ replaced :
        yielded[user] \o Waits(user) = [i \in 1 .. Handed(user) |-> i]

\* No two orders get the same id, unless two workers were in get_order_id at
\* the same time.
IdsAreUnique == raced \/ IsInjective(ids)

\* A snapshot is put in no queue twice, and every call that waited for market
\* data when it came gets it, but for as many as left the list on the way.
BroadcastReachesAll ==
    listener.at = "broadcast" =>
        /\ IsInjective(listener.served)
        /\ listener.next > Len(md_streams) =>
              Cardinality(listener.audience \ ToSet(listener.served)) <= listener.left

\* A request of a snapshot gets one of another symbol, drops it and waits on.
TakesOther(w) ==
    /\ At(w, "get") /\ thread[w].rpc = "RequestMarketDataSnapshot"
    /\ GetSnapshot(w) /\ UNCHANGED thread

\* Every call that is not a stream returns, and a stream gives its worker back
\* when the trader has hung up, whether the engine answers or has gone; but for
\* a request of a snapshot that is kept waiting by those of other symbols: its
\* three seconds begin again with each, and nothing ends that.
CallsEnd ==
    \A w \in Workers :
        \/ []<>(~Busy(w) \/ Streaming(w))
        \/ []<><< TakesOther(w) >>_serviceVars

\* The calls that wait are taken, one after the other, unless from some time on
\* every worker has a stream whose trader stays or a request that is kept
\* waiting so: ten of them, and no order or cancel is taken any more.
CallsAreTaken ==
    \/ []<>(waiting = << >>)
    \/ []<><< \E w \in Workers : TakeCall(w) >>_serviceVars
    \/ \A w \in Workers : <>[]Streaming(w) \/ []<><< TakesOther(w) >>_serviceVars

\* A report that waits for a user with a stream reaches it, also if it was put
\* in a queue that is not the one the stream began with.
ReportsReachTheStream ==
    \A w \in Workers : \A user \in Users :
        []<>~(/\ Streaming(w) /\ thread[w].rpc = "StreamExecutions" /\ thread[w].user = user
              /\ Waits(user) # << >>)
=============================================================================
