--------------------------- MODULE GatewayProofs ---------------------------
(***************************************************************************)
(* The server, for every set of descriptors, every script that a client    *)
(* may send and every way the network cuts it: each message is handled     *)
(* once and in order, only logged in clients are subscribed, and the       *)
(* engine under the server is the engine that was specified, so that what  *)
(* is proved of that one holds here.                                       *)
(*                                                                         *)
(* The last needs that the id of an order is not in the book when its      *)
(* packet comes up, FreshId.  Clients use an id once; that the server      *)
(* gives it to the engine once is what the stream contributes: an id is    *)
(* in what is still unhandled of one connection, or in the log, and never  *)
(* in both; and no order is in the engine that is not in the log.          *)
(*                                                                         *)
(* ServerInv is about the server and its log alone, and holds whatever the *)
(* engine does: EventLogProofs needs it while the engine replays.          *)
(***************************************************************************)
EXTENDS ClientGateway, ExchangeProofs

-----------------------------------------------------------------------------
(***************************************************************************)
(* Framing: how buffer and wire make up the stream.                        *)
(***************************************************************************)
UnitSet == Messages \X {"header", "body"}

\* The k-th unit of a script.
Unit(script, k) ==
    << script[(k + 1) \div 2], IF k % 2 = 1 THEN "header" ELSE "body" >>

\* What is in the buffer and what is on the line is the beginning of the
\* stream.
Framed(buffer, line, script) ==
    /\ Len(buffer) + Len(line) <= 2 * Len(script)
    /\ \A k \in DOMAIN buffer : buffer[k] = Unit(script, k)
    /\ \A k \in DOMAIN line : line[k] = Unit(script, Len(buffer) + k)

\* All of a new stream is on the line.
LEMMA StreamLemma ==
    ASSUME NEW script \in Seq(Messages)
    PROVE  /\ Stream(script) \in Seq(UnitSet)
           /\ Len(Stream(script)) = 2 * Len(script)
           /\ Framed(<< >>, Stream(script), script)
<1> DEFINE n == Len(script)
<1>1. n \in Nat /\ \A i \in 1 .. n : script[i] \in Messages
  OBVIOUS
<1>2. Stream(script) = [k \in 1 .. 2 * n |-> Unit(script, k)]
  BY DEF Stream, Unit
<1>3. \A k \in 1 .. 2 * n : (k + 1) \div 2 \in 1 .. n
  BY <1>1
<1>4. \A k \in 1 .. 2 * n : Unit(script, k) \in UnitSet
  BY <1>1, <1>3 DEF Unit, UnitSet
<1> HIDE DEF n
<1>5. 2 * n \in Nat
  BY <1>1
<1>6. Stream(script) \in Seq(UnitSet) /\ Len(Stream(script)) = 2 * n
  BY <1>2, <1>4, <1>5
<1>7. Framed(<< >>, Stream(script), script)
  BY <1>2, <1>5, <1>6 DEF Framed, n
<1> QED
  BY <1>6, <1>7 DEF n

\* A sequence without its first n elements.
LEMMA DropLemma ==
    ASSUME NEW S, NEW list \in Seq(S), NEW n \in 0 .. Len(list)
    PROVE  LET less == SubSeq(list, n + 1, Len(list))
           IN  /\ less \in Seq(S) /\ Len(less) = Len(list) - n
               /\ \A k \in 1 .. Len(list) - n : less[k] = list[n + k]
  OBVIOUS

\* What a recv takes off the line is added to the buffer.
LEMMA ReceiveFramed ==
    ASSUME NEW buffer \in Seq(UnitSet), NEW line \in Seq(UnitSet),
           NEW script \in Seq(Messages), Framed(buffer, line, script),
           NEW n \in 1 .. Len(line)
    PROVE  LET more == buffer \o SubSeq(line, 1, n)
               less == SubSeq(line, n + 1, Len(line))
           IN  /\ more \in Seq(UnitSet) /\ less \in Seq(UnitSet)
               /\ Len(more) + Len(less) = Len(buffer) + Len(line)
               /\ Framed(more, less, script)
<1> DEFINE head == SubSeq(line, 1, n)
           more == buffer \o head
           less == SubSeq(line, n + 1, Len(line))
           b    == Len(buffer)
           w    == Len(line)
<1>1. b \in Nat /\ w \in Nat /\ n \in Nat /\ n <= w
  OBVIOUS
<1>2. /\ head \in Seq(UnitSet) /\ Len(head) = n
      /\ \A k \in 1 .. n : head[k] = line[k]
  OBVIOUS
<1>3. /\ less \in Seq(UnitSet) /\ Len(less) = w - n
      /\ \A k \in 1 .. w - n : less[k] = line[n + k]
  OBVIOUS
<1> HIDE DEF head, less
<1>4. /\ more \in Seq(UnitSet) /\ Len(more) = b + n
      /\ \A k \in 1 .. b : more[k] = buffer[k]
      /\ \A k \in b + 1 .. b + n : more[k] = head[k - b]
  BY <1>1, <1>2
<1> HIDE DEF more
<1>5. \A k \in 1 .. b + n : more[k] = Unit(script, k)
  <2> SUFFICES ASSUME NEW k \in 1 .. b + n
               PROVE  more[k] = Unit(script, k)
    OBVIOUS
  <2>1. CASE k <= b
    BY <1>1, <1>4, <2>1 DEF Framed
  <2>2. CASE k > b
    <3>1. k - b \in 1 .. n /\ b + (k - b) = k
      BY <1>1, <2>2
    <3>2. more[k] = line[k - b]
      BY <1>1, <1>2, <1>4, <2>2, <3>1
    <3>3. line[k - b] = Unit(script, b + (k - b))
      BY <1>1, <3>1 DEF Framed
    <3> QED
      BY <3>1, <3>2, <3>3
  <2> QED
    BY <1>1, <2>1, <2>2
<1>6. \A k \in 1 .. w - n : less[k] = Unit(script, (b + n) + k)
  <2> SUFFICES ASSUME NEW k \in 1 .. w - n
               PROVE  less[k] = Unit(script, (b + n) + k)
    OBVIOUS
  <2>1. n + k \in 1 .. w /\ b + (n + k) = (b + n) + k
    BY <1>1
  <2>2. line[n + k] = Unit(script, b + (n + k))
    BY <2>1 DEF Framed
  <2> QED
    BY <1>3, <2>1, <2>2
<1>7. Len(more) + Len(less) = b + w
  BY <1>1, <1>3, <1>4
<1>8. DOMAIN more = 1 .. b + n /\ DOMAIN less = 1 .. w - n
  BY <1>3, <1>4
<1>9. Framed(more, less, script)
  BY <1>4, <1>5, <1>6, <1>7, <1>8 DEF Framed
<1> QED
  BY <1>3, <1>4, <1>7, <1>9 DEF more, head, less

\* A packet that has been handled is taken off the buffer and the script.
LEMMA EraseFramed ==
    ASSUME NEW buffer \in Seq(UnitSet), NEW line \in Seq(UnitSet),
           NEW script \in Seq(Messages), Framed(buffer, line, script), Len(buffer) >= 2
    PROVE  LET less == SubSeq(buffer, 3, Len(buffer))
           IN  /\ less \in Seq(UnitSet)
               /\ script # << >> /\ Tail(script) \in Seq(Messages)
               /\ buffer[1][1] = script[1]
               /\ Len(less) = Len(buffer) - 2 /\ Len(Tail(script)) = Len(script) - 1
               /\ Framed(less, line, Tail(script))
<1> DEFINE less == SubSeq(buffer, 3, Len(buffer))
           rest == Tail(script)
           b    == Len(buffer)
           w    == Len(line)
           n    == Len(script)
<1>1. b \in Nat /\ w \in Nat /\ n \in Nat /\ b + w <= 2 * n /\ b >= 2
  BY DEF Framed
<1>2. n >= 1
  BY <1>1
<1>3. script # << >> /\ rest \in Seq(Messages) /\ Len(rest) = n - 1
      /\ \A i \in 1 .. n - 1 : rest[i] = script[i + 1]
  BY <1>2
<1>4. /\ less \in Seq(UnitSet) /\ Len(less) = b - 2
      /\ \A k \in 1 .. b - 2 : less[k] = buffer[k + 2]
  <2>1. 2 \in 0 .. Len(buffer) /\ 2 + 1 = 3 /\ \A k \in 1 .. b - 2 : 2 + k = k + 2
    BY <1>1
  <2>2. LET rest2 == SubSeq(buffer, 2 + 1, Len(buffer))
        IN  /\ rest2 \in Seq(UnitSet) /\ Len(rest2) = Len(buffer) - 2
            /\ \A k \in 1 .. Len(buffer) - 2 : rest2[k] = buffer[2 + k]
    BY <2>1, DropLemma
  <2> QED
    BY <2>1, <2>2
<1> HIDE DEF less, rest
<1>5. \A k \in 1 .. 2 * (n - 1) : Unit(rest, k) = Unit(script, k + 2)
  <2> SUFFICES ASSUME NEW k \in 1 .. 2 * (n - 1)
               PROVE  Unit(rest, k) = Unit(script, k + 2)
    OBVIOUS
  <2>1. /\ (k + 1) \div 2 \in 1 .. n - 1
        /\ (k + 2 + 1) \div 2 = ((k + 1) \div 2) + 1
        /\ (k + 2) % 2 = k % 2
    BY <1>1
  <2> QED
    BY <1>3, <2>1 DEF Unit
<1>6. \A k \in 1 .. b - 2 : less[k] = Unit(rest, k)
  <2> SUFFICES ASSUME NEW k \in 1 .. b - 2
               PROVE  less[k] = Unit(rest, k)
    OBVIOUS
  <2>1. k \in 1 .. 2 * (n - 1) /\ k + 2 \in 1 .. b
    BY <1>1
  <2>2. buffer[k + 2] = Unit(script, k + 2)
    BY <1>1, <2>1 DEF Framed
  <2> QED
    BY <1>4, <1>5, <2>1, <2>2
<1>7. \A k \in 1 .. w : line[k] = Unit(rest, (b - 2) + k)
  <2> SUFFICES ASSUME NEW k \in 1 .. w
               PROVE  line[k] = Unit(rest, (b - 2) + k)
    OBVIOUS
  <2>1. (b - 2) + k \in 1 .. 2 * (n - 1) /\ ((b - 2) + k) + 2 = b + k
    BY <1>1
  <2>2. line[k] = Unit(script, b + k)
    BY <1>1 DEF Framed
  <2> QED
    BY <1>5, <2>1, <2>2
<1>8. Len(less) + w <= 2 * Len(rest)
  BY <1>1, <1>3, <1>4
<1>9. DOMAIN less = 1 .. b - 2 /\ DOMAIN line = 1 .. w
  BY <1>1, <1>4
<1>10. Framed(less, line, rest)
  BY <1>3, <1>4, <1>6, <1>7, <1>8, <1>9 DEF Framed
<1>11. buffer[1][1] = script[1]
  <2>1. buffer[1] = Unit(script, 1) /\ (1 + 1) \div 2 = 1
    BY <1>1 DEF Framed
  <2> QED
    BY <2>1 DEF Unit
<1> QED
  BY <1>3, <1>4, <1>10, <1>11 DEF less, rest

\* When nothing of the stream is missing, it is the buffer and the line.
LEMMA FramedStream ==
    ASSUME NEW buffer \in Seq(UnitSet), NEW line \in Seq(UnitSet),
           NEW script \in Seq(Messages), Framed(buffer, line, script),
           Len(buffer) + Len(line) = 2 * Len(script)
    PROVE  Stream(script) = buffer \o line
<1> DEFINE b   == Len(buffer)
           w   == Len(line)
           all == buffer \o line
<1>1. b \in Nat /\ w \in Nat /\ Len(script) \in Nat
  OBVIOUS
<1>2. /\ all \in Seq(UnitSet) /\ Len(all) = b + w
      /\ \A k \in 1 .. b : all[k] = buffer[k]
      /\ \A k \in b + 1 .. b + w : all[k] = line[k - b]
  BY <1>1
<1> HIDE DEF all
<1>3. \A k \in 1 .. b + w : all[k] = Unit(script, k)
  <2> SUFFICES ASSUME NEW k \in 1 .. b + w
               PROVE  all[k] = Unit(script, k)
    OBVIOUS
  <2>1. CASE k <= b
    BY <1>1, <1>2, <2>1 DEF Framed
  <2>2. CASE k > b
    <3>1. k - b \in 1 .. w /\ b + (k - b) = k
      BY <1>1, <2>2
    <3>2. line[k - b] = Unit(script, b + (k - b))
      BY <1>1, <3>1 DEF Framed
    <3> QED
      BY <1>1, <1>2, <2>2, <3>1, <3>2
  <2> QED
    BY <1>1, <2>1, <2>2
<1>4. Stream(script) = [k \in 1 .. b + w |-> Unit(script, k)]
  BY DEF Stream, Unit
<1>5. all = [k \in 1 .. b + w |-> all[k]]
  BY <1>2
<1> QED
  BY <1>3, <1>4, <1>5 DEF all

-----------------------------------------------------------------------------
(***************************************************************************)
(* Ids in scripts.                                                         *)
(***************************************************************************)
\* The ids of a script, after the first message and of it.
LEMMA TailIds ==
    ASSUME NEW script \in Seq(Messages), script # << >>
    PROVE  /\ IdsOf(Tail(script)) \subseteq IdsOf(script)
           /\ UsesIdsOnce(script) => UsesIdsOnce(Tail(script))
           /\ script[1].type = "NEW_ORDER" =>
                 /\ script[1].order.id \in IdsOf(script)
                 /\ UsesIdsOnce(script) => script[1].order.id \notin IdsOf(Tail(script))
<1> DEFINE rest == Tail(script)
           n    == Len(script)
<1>1. n \in Nat /\ n >= 1 /\ DOMAIN script = 1 .. n
  OBVIOUS
<1>2. DOMAIN rest = 1 .. n - 1 /\ \A i \in 1 .. n - 1 : rest[i] = script[i + 1]
  BY <1>1
<1> HIDE DEF rest, n
<1>3. \A i \in 1 .. n - 1 : i + 1 \in 1 .. n /\ i + 1 # 1
  BY <1>1
<1>4. IdsOf(rest) \subseteq IdsOf(script)
  BY <1>1, <1>2, <1>3 DEF IdsOf
<1>5. ASSUME UsesIdsOnce(script)
      PROVE  UsesIdsOnce(rest)
  <2> SUFFICES ASSUME NEW i \in 1 .. n - 1, NEW j \in 1 .. n - 1,
                      rest[i].type = "NEW_ORDER", rest[j].type = "NEW_ORDER",
                      rest[i].order.id = rest[j].order.id
               PROVE  i = j
    BY <1>2 DEF UsesIdsOnce
  <2>1. i + 1 = j + 1
    BY <1>1, <1>2, <1>3, <1>5 DEF UsesIdsOnce
  <2> QED
    BY <2>1
<1>6. ASSUME script[1].type = "NEW_ORDER"
      PROVE  script[1].order.id \in IdsOf(script)
  BY <1>1, <1>6 DEF IdsOf
<1>7. ASSUME script[1].type = "NEW_ORDER", UsesIdsOnce(script),
             script[1].order.id \in IdsOf(rest)
      PROVE  FALSE
  <2>1. PICK i \in 1 .. n - 1 : rest[i].type = "NEW_ORDER"
                                 /\ rest[i].order.id = script[1].order.id
    BY <1>2, <1>7 DEF IdsOf
  <2>2. /\ i + 1 \in DOMAIN script /\ 1 \in DOMAIN script
        /\ script[i + 1].type = "NEW_ORDER"
        /\ script[i + 1].order.id = script[1].order.id
    BY <1>1, <1>2, <1>3, <2>1
  <2>3. i + 1 = 1
    BY <1>7, <2>2 DEF UsesIdsOnce
  <2> QED
    BY <1>3, <2>3
<1> QED
  BY <1>4, <1>5, <1>6, <1>7 DEF rest

-----------------------------------------------------------------------------
(***************************************************************************)
(* The invariant.                                                          *)
(***************************************************************************)
SessionSet == [logged_in : BOOLEAN, buffer : Seq(UnitSet)]

\* A descriptor that no client holds is not polled, and nothing is left of
\* its last connection.
Vacant(fd) == fd \notin Polled /\ wire[fd] = << >> /\ unhandled[fd] = << >>

ServerTypes ==
    /\ peer \in [Fds -> {"none", "open", "closed", "reset"}]
    /\ wire \in [Fds -> Seq(UnitSet)]
    /\ unhandled \in [Fds -> Seq(Messages)]
    /\ clients \in Seq(Fds)
    /\ NoDuplicates(clients)
    /\ fds \subseteq Polled
    /\ sessions \in [Polled -> SessionSet]
    /\ subscriptions \in [Symbols -> SUBSET Fds]
    /\ serving \in Polled \cup {NoFd}
    /\ \A fd \in Fds : peer[fd] = "none" => Vacant(fd)
    /\ processing => serving # NoFd /\ Len(Buffer) >= 2 /\ Packet.type = "NEW_ORDER"
    /\ event_log \in Seq(Messages)

Received(fd) == IF fd \in Polled THEN sessions[fd].buffer ELSE << >>

\* What is still to come of the stream of a descriptor; all of it, if its
\* client is there.
StreamKept(fd) ==
    /\ Framed(Received(fd), wire[fd], unhandled[fd])
    /\ peer[fd] = "open" =>
          Len(Received(fd)) + Len(wire[fd]) = 2 * Len(unhandled[fd])

\* The messages of a connection whose orders are not in the log.
Ahead(fd) == IF processing /\ fd = serving THEN Tail(unhandled[fd]) ELSE unhandled[fd]

\* An id is with one connection or in the log, and was used to get there.
IdsOnce ==
    /\ IdsOf(event_log) \subseteq submitted
    /\ UsesIdsOnce(event_log)
    /\ \A fd \in Fds : IdsOf(unhandled[fd]) \subseteq submitted
    /\ \A fd \in Fds : UsesIdsOnce(unhandled[fd])
    /\ \A fd, gd \in Fds : fd # gd => IdsOf(unhandled[fd]) \cap IdsOf(unhandled[gd]) = {}
    /\ \A fd \in Fds : IdsOf(Ahead(fd)) \cap IdsOf(event_log) = {}

ServerInv ==
    /\ ServerTypes
    /\ \A fd \in Fds : StreamKept(fd)
    /\ IdsOnce
    /\ SubscribersAreLoggedIn

\* The order is the one that a record of P brought, but for its fill.
LoggedIn(log, P, order) ==
    \E n \in P :
        /\ log[n].type = "NEW_ORDER"
        /\ order = [NewOrder(log[n].order, order.timestamp)
                       EXCEPT !.quantity_filled = order.quantity_filled]

\* So is every order that is live, if it is one that may rest.
LiveIsLogged(P) ==
    \A s \in LiveSlots : mem[s].type # "MARKET" => LoggedIn(event_log, P, mem[s])

GInv ==
    /\ IInv
    /\ ServerInv
    /\ ~Idle => processing
    /\ LiveIsLogged(DOMAIN event_log)

-----------------------------------------------------------------------------
(***************************************************************************)
(* What the invariant says of the step that comes next.                    *)
(***************************************************************************)
LEMMA PolledLemma ==
    ASSUME ServerTypes
    PROVE  /\ Polled \subseteq Fds /\ NoFd \notin Polled
           /\ \A fd : fd \in Polled <=> InStack(clients, fd)
           /\ \A fd \in Polled : /\ peer[fd] # "none"
                                 /\ sessions[fd] \in SessionSet
                                 /\ Received(fd) = sessions[fd].buffer
           /\ \A fd \in Fds : Received(fd) \in Seq(UnitSet)
<1>1. \A i \in DOMAIN clients : clients[i] \in Fds
  BY DEF ServerTypes
<1>2. Polled \subseteq Fds /\ NoFd \notin Polled
  BY <1>1, GatewayAssumption DEF Polled
<1>3. \A fd : fd \in Polled <=> InStack(clients, fd)
  BY DEF Polled, InStack
<1>4. \A fd \in Polled : peer[fd] # "none" /\ sessions[fd] \in SessionSet
  BY <1>2 DEF ServerTypes, Vacant
<1>5. \A fd \in Fds : Received(fd) \in Seq(UnitSet)
  BY <1>4 DEF Received, SessionSet
<1> QED
  BY <1>2, <1>3, <1>4, <1>5 DEF Received

\* The packet in front of the buffer is the message that comes next.
LEMMA PacketLemma ==
    ASSUME ServerTypes, \A fd \in Fds : StreamKept(fd), serving # NoFd, Len(Buffer) >= 2
    PROVE  /\ serving \in Fds /\ serving \in Polled
           /\ Session \in SessionSet /\ Received(serving) = Buffer
           /\ unhandled[serving] \in Seq(Messages) /\ unhandled[serving] # << >>
           /\ Packet = unhandled[serving][1]
           /\ HasFields(Packet)
<1>1. /\ serving \in Polled /\ serving \in Fds
      /\ Session \in SessionSet /\ Received(serving) = Buffer
  BY PolledLemma DEF ServerTypes, Session, Buffer
<1>2. /\ Buffer \in Seq(UnitSet) /\ wire[serving] \in Seq(UnitSet)
      /\ unhandled[serving] \in Seq(Messages)
      /\ Framed(Buffer, wire[serving], unhandled[serving])
  BY <1>1 DEF ServerTypes, StreamKept, SessionSet, Session, Buffer
<1>3. unhandled[serving] # << >> /\ Buffer[1][1] = unhandled[serving][1]
  BY <1>2, EraseFramed
<1>4. unhandled[serving][1] \in Messages
  BY <1>2, <1>3
<1> QED
  BY <1>1, <1>2, <1>3, <1>4, GatewayAssumption DEF Packet

\* What a step does to the ids, if it is not the one that submits an order or
\* hands it over.
LEMMA IdsKept ==
    ASSUME IdsOnce, submitted' = submitted,
           IdsOf(event_log') = IdsOf(event_log), UsesIdsOnce(event_log'),
           \A fd \in Fds :
              /\ IdsOf(unhandled'[fd]) \subseteq IdsOf(unhandled[fd])
              /\ UsesIdsOnce(unhandled[fd]) => UsesIdsOnce(unhandled'[fd])
              /\ IdsOf(Ahead(fd)') \subseteq IdsOf(Ahead(fd))
    PROVE  IdsOnce'
<1>1. IdsOf(event_log') \subseteq submitted'
  BY DEF IdsOnce
<1>2. \A fd \in Fds : IdsOf(unhandled'[fd]) \subseteq submitted' /\ UsesIdsOnce(unhandled'[fd])
  BY DEF IdsOnce
<1>3. \A fd, gd \in Fds :
         fd # gd => IdsOf(unhandled'[fd]) \cap IdsOf(unhandled'[gd]) = {}
  BY DEF IdsOnce
<1>4. \A fd \in Fds : IdsOf(Ahead(fd)') \cap IdsOf(event_log') = {}
  BY DEF IdsOnce
<1>5. \A fd \in Fds : IdsOf(Ahead(fd))' = IdsOf(Ahead(fd)')
  BY DEF IdsOf
<1> QED
  BY <1>1, <1>2, <1>3, <1>4, <1>5 DEF IdsOnce, IdsOf, UsesIdsOnce

\* A record that is appended to the log brings its id to those of the log.
LEMMA AppendedRecord ==
    ASSUME NEW log \in Seq(Messages), NEW record \in Messages
    PROVE  LET more == Append(log, record)
           IN  /\ more \in Seq(Messages)
               /\ record.type # "NEW_ORDER" =>
                     /\ IdsOf(more) = IdsOf(log)
                     /\ UsesIdsOnce(log) => UsesIdsOnce(more)
               /\ record.type = "NEW_ORDER" =>
                     /\ IdsOf(more) = IdsOf(log) \cup {record.order.id}
                     /\ UsesIdsOnce(log) /\ record.order.id \notin IdsOf(log) =>
                           UsesIdsOnce(more)
<1> DEFINE more == Append(log, record)
           n    == Len(log)
<1>1. /\ more \in Seq(Messages) /\ n \in Nat /\ DOMAIN log = 1 .. n
      /\ DOMAIN more = 1 .. n + 1 /\ more[n + 1] = record
      /\ \A k \in 1 .. n : more[k] = log[k]
  OBVIOUS
<1> HIDE DEF more, n
<1>2. /\ \A k \in DOMAIN more : k \in DOMAIN log \/ k = n + 1
      /\ \A k \in DOMAIN log : k \in DOMAIN more /\ k # n + 1 /\ more[k] = log[k]
      /\ n + 1 \in DOMAIN more
  BY <1>1
<1>3. IdsOf(more) = IdsOf(log) \cup (IF record.type = "NEW_ORDER" THEN {record.order.id} ELSE {})
  BY <1>1, <1>2 DEF IdsOf
<1>4. ASSUME UsesIdsOnce(log),
             record.type = "NEW_ORDER" => record.order.id \notin IdsOf(log)
      PROVE  UsesIdsOnce(more)
  <2>1. \A k \in DOMAIN log :
           log[k].type = "NEW_ORDER" => log[k].order.id \in IdsOf(log)
    BY DEF IdsOf
  <2> QED
    BY <1>1, <1>2, <1>4, <2>1 DEF UsesIdsOnce
<1> QED
  BY <1>1, <1>3, <1>4 DEF more

-----------------------------------------------------------------------------
(***************************************************************************)
(* The end of a handler: the packet is taken off, the answers are sent.    *)
(***************************************************************************)
\* Sending leaves every client as it was, but for a closed one.
LEMMA SentLemma ==
    ASSUME ServerTypes, NEW packets, SendPackets(packets)
    PROVE  /\ peer' \in [Fds -> {"none", "open", "closed", "reset"}]
           /\ \A fd \in Fds : /\ peer'[fd] = "none" => peer[fd] = "none"
                              /\ peer'[fd] = "open" => peer[fd] = "open"
  BY DEF SendPackets, ServerTypes

\* The session, the stream and the ids when a packet has been handled.
LEMMA ErasedLemma ==
    ASSUME ServerInv, serving # NoFd, Len(Buffer) >= 2,
           NEW update \in SessionSet, update.buffer = Buffer, ErasePacket(update)
    PROVE  /\ Polled' = Polled
           /\ sessions' \in [Polled -> SessionSet]
           /\ \A fd \in Polled : sessions'[fd].logged_in =
                 IF fd = serving THEN update.logged_in ELSE sessions[fd].logged_in
           /\ unhandled' \in [Fds -> Seq(Messages)]
           /\ \A fd \in Fds :
                 /\ fd # serving => unhandled'[fd] = unhandled[fd]
                 /\ Framed(Received(fd)', wire[fd], unhandled'[fd])
                 /\ Len(Received(fd)) + Len(wire[fd]) = 2 * Len(unhandled[fd]) =>
                       Len(Received(fd)') + Len(wire[fd]) = 2 * Len(unhandled'[fd])
                 /\ IdsOf(unhandled'[fd]) \subseteq IdsOf(unhandled[fd])
                 /\ UsesIdsOnce(unhandled[fd]) => UsesIdsOnce(unhandled'[fd])
           /\ unhandled'[serving] = Tail(unhandled[serving])
<1> DEFINE less   == SubSeq(Buffer, 3, Len(Buffer))
           script == unhandled[serving]
           next   == [update EXCEPT !.buffer = SubSeq(@, 3, Len(@))]
<1>1. ServerTypes /\ \A fd \in Fds : StreamKept(fd)
  BY DEF ServerInv
<1>2. /\ serving \in Fds /\ serving \in Polled
      /\ Session \in SessionSet /\ Received(serving) = Buffer
      /\ script \in Seq(Messages) /\ script # << >>
  BY <1>1, PacketLemma
<1>3. Buffer \in Seq(UnitSet) /\ wire[serving] \in Seq(UnitSet)
      /\ Framed(Buffer, wire[serving], script)
  BY <1>1, <1>2, PolledLemma DEF ServerTypes, StreamKept
<1>4. /\ less \in Seq(UnitSet)
      /\ Tail(script) \in Seq(Messages)
      /\ Len(less) = Len(Buffer) - 2 /\ Len(Tail(script)) = Len(script) - 1
      /\ Framed(less, wire[serving], Tail(script))
  BY <1>2, <1>3, EraseFramed
<1>5. next \in SessionSet /\ next.buffer = less /\ next.logged_in = update.logged_in
  BY <1>4 DEF SessionSet
<1>6. /\ sessions' = [sessions EXCEPT ![serving] = next]
      /\ unhandled' = [unhandled EXCEPT ![serving] = Tail(script)]
      /\ clients' = clients
  BY DEF ErasePacket
<1>7. Polled' = Polled
  BY <1>6 DEF Polled
<1> HIDE DEF next, less
<1>8. sessions \in [Polled -> SessionSet] /\ unhandled \in [Fds -> Seq(Messages)]
  BY <1>1 DEF ServerTypes
<1>9. /\ sessions' \in [Polled -> SessionSet]
      /\ sessions'[serving] = next
      /\ \A fd \in Polled : fd # serving => sessions'[fd] = sessions[fd]
  BY <1>2, <1>5, <1>6, <1>8
<1>10. /\ unhandled' \in [Fds -> Seq(Messages)]
       /\ unhandled'[serving] = Tail(script)
       /\ \A fd \in Fds : fd # serving => unhandled'[fd] = unhandled[fd]
  BY <1>2, <1>4, <1>6, <1>8
<1>11. \A fd \in Fds :
          Received(fd)' = IF fd \in Polled THEN sessions'[fd].buffer ELSE << >>
  BY <1>7 DEF Received
<1>12. \A fd \in Fds : fd = serving => Received(fd)' = less
  BY <1>2, <1>5, <1>9, <1>11
<1>13. \A fd \in Fds : fd # serving => Received(fd)' = Received(fd)
  BY <1>9, <1>11 DEF Received
<1>14. /\ Framed(less, wire[serving], unhandled'[serving])
       /\ Len(Buffer) + Len(wire[serving]) = 2 * Len(script) =>
             Len(less) + Len(wire[serving]) = 2 * Len(unhandled'[serving])
  <2>1. Framed(less, wire[serving], unhandled'[serving])
    BY <1>4, <1>10
  <2>2. Len(Buffer) \in Nat /\ Len(wire[serving]) \in Nat /\ Len(script) \in Nat
    BY <1>2, <1>3
  <2>3. Len(Buffer) + Len(wire[serving]) = 2 * Len(script) =>
           (Len(Buffer) - 2) + Len(wire[serving]) = 2 * (Len(script) - 1)
    BY <2>2
  <2> QED
    BY <1>4, <1>10, <2>1, <2>3
<1>15. ASSUME NEW fd \in Fds
       PROVE  /\ Framed(Received(fd)', wire[fd], unhandled'[fd])
              /\ Len(Received(fd)) + Len(wire[fd]) = 2 * Len(unhandled[fd]) =>
                    Len(Received(fd)') + Len(wire[fd]) = 2 * Len(unhandled'[fd])
  <2>1. CASE fd = serving
    BY <1>2, <1>12, <1>14, <2>1
  <2>2. CASE fd # serving
    BY <1>1, <1>10, <1>13, <2>2 DEF StreamKept
  <2> QED
    BY <2>1, <2>2
<1>16. /\ IdsOf(Tail(script)) \subseteq IdsOf(script)
       /\ UsesIdsOnce(script) => UsesIdsOnce(Tail(script))
  BY <1>2, TailIds
<1>17. \A fd \in Fds :
          /\ IdsOf(unhandled'[fd]) \subseteq IdsOf(unhandled[fd])
          /\ UsesIdsOnce(unhandled[fd]) => UsesIdsOnce(unhandled'[fd])
  BY <1>10, <1>16
<1>18. \A fd \in Polled : sessions'[fd].logged_in =
          IF fd = serving THEN update.logged_in ELSE sessions[fd].logged_in
  BY <1>5, <1>9
<1> QED
  BY <1>7, <1>9, <1>10, <1>15, <1>17, <1>18

\* A handler that subscribes nobody but its own client, logged in, and that
\* brings no id to the log.
LEMMA HandledLemma ==
    ASSUME ServerInv, serving # NoFd, Len(Buffer) >= 2,
           NEW update \in SessionSet, update.buffer = Buffer,
           Session.logged_in => update.logged_in, ErasePacket(update),
           NEW packets, SendPackets(packets),
           serving' = serving, ~processing',
           event_log' \in Seq(Messages),
           IdsOf(event_log') = IdsOf(event_log), UsesIdsOnce(event_log'),
           subscriptions' \in [Symbols -> SUBSET Fds],
           \A symbol \in Symbols : \A fd \in subscriptions'[symbol] :
              fd \in subscriptions[symbol] \/ (fd = serving /\ update.logged_in)
    PROVE  ServerInv'
<1>1. ServerTypes /\ (\A fd \in Fds : StreamKept(fd)) /\ IdsOnce /\ SubscribersAreLoggedIn
  BY DEF ServerInv
<1>2. /\ clients' = clients /\ fds' = fds /\ wire' = wire /\ submitted' = submitted
  BY DEF ErasePacket
<1>3. /\ peer' \in [Fds -> {"none", "open", "closed", "reset"}]
      /\ \A fd \in Fds : /\ peer'[fd] = "none" => peer[fd] = "none"
                         /\ peer'[fd] = "open" => peer[fd] = "open"
  BY <1>1, SentLemma
<1>4. serving \in Fds /\ serving \in Polled
  BY <1>1, PacketLemma
<1>5. /\ Polled' = Polled
      /\ sessions' \in [Polled -> SessionSet]
      /\ \A fd \in Polled : sessions'[fd].logged_in =
            IF fd = serving THEN update.logged_in ELSE sessions[fd].logged_in
      /\ unhandled' \in [Fds -> Seq(Messages)]
      /\ \A fd \in Fds :
            /\ fd # serving => unhandled'[fd] = unhandled[fd]
            /\ Framed(Received(fd)', wire[fd], unhandled'[fd])
            /\ Len(Received(fd)) + Len(wire[fd]) = 2 * Len(unhandled[fd]) =>
                  Len(Received(fd)') + Len(wire[fd]) = 2 * Len(unhandled'[fd])
            /\ IdsOf(unhandled'[fd]) \subseteq IdsOf(unhandled[fd])
            /\ UsesIdsOnce(unhandled[fd]) => UsesIdsOnce(unhandled'[fd])
      /\ unhandled'[serving] = Tail(unhandled[serving])
  BY ErasedLemma
<1>6. \A fd \in Fds : StreamKept(fd)'
  BY <1>1, <1>2, <1>3, <1>5 DEF StreamKept
<1>7. \A fd \in Fds : peer'[fd] = "none" => Vacant(fd)'
  <2> SUFFICES ASSUME NEW fd \in Fds, peer'[fd] = "none"
               PROVE  Vacant(fd)'
    OBVIOUS
  <2>1. Vacant(fd)
    BY <1>1, <1>3 DEF ServerTypes
  <2>2. fd # serving
    BY <1>4, <2>1 DEF Vacant
  <2> QED
    BY <1>2, <1>5, <2>1, <2>2 DEF Vacant
<1>8. ServerTypes'
  BY <1>1, <1>2, <1>3, <1>5, <1>7 DEF ServerTypes, NoDuplicates
<1>9. \A fd \in Fds : IdsOf(Ahead(fd)') \subseteq IdsOf(Ahead(fd))
  <2> SUFFICES ASSUME NEW fd \in Fds
               PROVE  IdsOf(Ahead(fd)') \subseteq IdsOf(Ahead(fd))
    OBVIOUS
  <2>1. Ahead(fd)' = unhandled'[fd]
    BY DEF Ahead
  <2>2. CASE fd = serving /\ processing
    BY <1>5, <2>1, <2>2 DEF Ahead
  <2>3. CASE ~(fd = serving /\ processing)
    BY <1>5, <2>1, <2>3 DEF Ahead
  <2> QED
    BY <2>2, <2>3
<1>10. IdsOnce'
  BY <1>1, <1>2, <1>5, <1>9, IdsKept
<1>11. SubscribersAreLoggedIn'
  <2> SUFFICES ASSUME NEW symbol \in Symbols, NEW fd \in subscriptions'[symbol]
               PROVE  fd \in DOMAIN sessions' /\ sessions'[fd].logged_in
    BY DEF SubscribersAreLoggedIn
  <2>1. CASE fd = serving
    <3>1. update.logged_in
      BY <1>1, <2>1 DEF SubscribersAreLoggedIn, Session
    <3> QED
      BY <1>4, <1>5, <2>1, <3>1
  <2>2. CASE fd # serving
    <3>1. fd \in DOMAIN sessions /\ sessions[fd].logged_in
      BY <1>1, <2>2 DEF SubscribersAreLoggedIn
    <3>2. fd \in Polled
      BY <1>1, <3>1 DEF ServerTypes
    <3> QED
      BY <1>5, <2>2, <3>1, <3>2
  <2> QED
    BY <2>1, <2>2
<1> QED
  BY <1>6, <1>8, <1>10, <1>11 DEF ServerInv

-----------------------------------------------------------------------------
(***************************************************************************)
(* The steps of the clients and of the select loop.                        *)
(***************************************************************************)
\* No packet is handled while the server is in select or at its round.
LEMMA RestsLemma ==
    ASSUME ServerTypes, serving = NoFd
    PROVE  ~processing
  BY DEF ServerTypes

LEMMA ClientConnectsStep ==
    ASSUME ServerInv, AtSelect, NEW fd \in Fds, NEW script \in Scripts,
           ClientConnects(fd, script)
    PROVE  ServerInv'
<1>1. ServerTypes /\ (\A gd \in Fds : StreamKept(gd)) /\ IdsOnce /\ SubscribersAreLoggedIn
  BY DEF ServerInv
<1>2. ~processing /\ serving = NoFd
  BY <1>1, RestsLemma DEF AtSelect
<1>3. /\ event_log' = event_log /\ clients' = clients /\ fds' = fds /\ sessions' = sessions
      /\ subscriptions' = subscriptions /\ serving' = serving /\ processing' = processing
  BY DEF ClientConnects, gatewayVars
<1>5. script \in Seq(Messages) /\ UsesIdsOnce(script)
  BY GatewayAssumption
<1>6. /\ Stream(script) \in Seq(UnitSet)
      /\ Len(Stream(script)) = 2 * Len(script)
      /\ Framed(<< >>, Stream(script), script)
  BY <1>5, StreamLemma
<1>7. fd \notin Polled
  BY <1>1 DEF ServerTypes, Vacant, ClientConnects
<1>8. /\ peer' = [peer EXCEPT ![fd] = "open"]
      /\ wire' = [wire EXCEPT ![fd] = Stream(script)]
      /\ unhandled' = [unhandled EXCEPT ![fd] = script]
  BY DEF ClientConnects
<1>9. Polled' = Polled
  BY <1>3 DEF Polled
<1>10. \A gd \in Fds : Received(gd)' = Received(gd)
  BY <1>3, <1>9 DEF Received
<1>11. /\ peer'[fd] = "open" /\ wire'[fd] = Stream(script) /\ unhandled'[fd] = script
       /\ \A gd \in Fds : gd # fd =>
             peer'[gd] = peer[gd] /\ wire'[gd] = wire[gd] /\ unhandled'[gd] = unhandled[gd]
  BY <1>1, <1>8 DEF ServerTypes
<1>12. /\ peer' \in [Fds -> {"none", "open", "closed", "reset"}]
       /\ wire' \in [Fds -> Seq(UnitSet)]
       /\ unhandled' \in [Fds -> Seq(Messages)]
  BY <1>1, <1>5, <1>6, <1>8 DEF ServerTypes
<1>13. \A gd \in Fds : peer'[gd] = "none" => Vacant(gd)'
  BY <1>1, <1>9, <1>11 DEF ServerTypes, Vacant
<1>14. ServerTypes'
  BY <1>1, <1>2, <1>3, <1>9, <1>12, <1>13 DEF ServerTypes, NoDuplicates
<1>15. ASSUME NEW gd \in Fds
       PROVE  StreamKept(gd)'
  <2>1. CASE gd = fd
    <3>1. Received(gd)' = << >>
      BY <1>7, <1>10, <2>1 DEF Received
    <3>2. Len(<< >>) + Len(Stream(script)) = 2 * Len(script)
      BY <1>5, <1>6
    <3> QED
      BY <1>6, <1>11, <2>1, <3>1, <3>2 DEF StreamKept
  <2>2. CASE gd # fd
    BY <1>1, <1>10, <1>11, <2>2 DEF StreamKept
  <2> QED
    BY <2>1, <2>2
<1>16. IdsOnce'
  <2> DEFINE ids == IdsOf(script)
  <2>1. ids \cap submitted = {} /\ submitted' = submitted \cup ids
    BY DEF ClientConnects
  <2>2. \A gd \in Fds : Ahead(gd)' = unhandled'[gd] /\ Ahead(gd) = unhandled[gd]
    BY <1>2, <1>3 DEF Ahead
  <2>3. \A gd \in Fds : gd # fd => unhandled'[gd] = unhandled[gd]
    BY <1>11
  <2>4. unhandled'[fd] = script
    BY <1>11
  <2>5. \A gd \in Fds :
           /\ IdsOf(unhandled'[gd]) = IF gd = fd THEN ids ELSE IdsOf(unhandled[gd])
           /\ UsesIdsOnce(unhandled'[gd])
    BY <1>1, <1>5, <2>3, <2>4 DEF IdsOnce
  <2> HIDE DEF ids
  <2>6. /\ IdsOf(event_log) \subseteq submitted' /\ IdsOf(event_log) \cap ids = {}
        /\ UsesIdsOnce(event_log)
    BY <1>1, <2>1 DEF IdsOnce
  <2>7. \A gd \in Fds : IdsOf(unhandled[gd]) \subseteq submitted
    BY <1>1 DEF IdsOnce
  <2>8. \A gd \in Fds : IdsOf(unhandled'[gd]) \subseteq submitted'
    BY <2>1, <2>5, <2>7
  <2>9. \A gd, hd \in Fds : gd # hd =>
           IdsOf(unhandled'[gd]) \cap IdsOf(unhandled'[hd]) = {}
    BY <1>1, <2>1, <2>5, <2>7 DEF IdsOnce
  <2>10. \A gd \in Fds : IdsOf(unhandled'[gd]) \cap IdsOf(event_log) = {}
    <3>1. \A gd \in Fds : IdsOf(unhandled[gd]) \cap IdsOf(event_log) = {}
      BY <1>1, <2>2 DEF IdsOnce
    <3> QED
      BY <2>5, <2>6, <3>1
  <2>11. \A gd \in Fds : IdsOf(Ahead(gd))' = IdsOf(unhandled'[gd])
    BY <2>2 DEF IdsOf
  <2>12. \A gd \in Fds : /\ IdsOf(unhandled[gd])' = IdsOf(unhandled'[gd])
                         /\ UsesIdsOnce(unhandled[gd])' <=> UsesIdsOnce(unhandled'[gd])
    BY DEF IdsOf, UsesIdsOnce
  <2>13. IdsOf(event_log)' = IdsOf(event_log) /\ UsesIdsOnce(event_log)' = UsesIdsOnce(event_log)
    BY <1>3 DEF IdsOf, UsesIdsOnce
  <2> QED
    BY <2>5, <2>6, <2>8, <2>9, <2>10, <2>11, <2>12, <2>13 DEF IdsOnce
<1>17. SubscribersAreLoggedIn'
  BY <1>1, <1>3 DEF SubscribersAreLoggedIn
<1> QED
  BY <1>14, <1>15, <1>16, <1>17 DEF ServerInv

\* A step that hands no message over and subscribes nobody: the ids stay, and
\* so do the subscribers, if the sessions that remain are as logged in.
LEMMA QuietStep ==
    ASSUME ServerInv, event_log' = event_log, submitted' = submitted,
           ~processing, ~processing',
           \A fd \in Fds : unhandled'[fd] \in {unhandled[fd], << >>},
           \A symbol \in Symbols : \A fd \in subscriptions'[symbol] :
              /\ fd \in subscriptions[symbol]
              /\ fd \in DOMAIN sessions'
              /\ sessions'[fd].logged_in = sessions[fd].logged_in
    PROVE  IdsOnce' /\ SubscribersAreLoggedIn'
<1>1. IdsOnce /\ SubscribersAreLoggedIn
  BY DEF ServerInv
<1>2. IdsOf(event_log') = IdsOf(event_log) /\ UsesIdsOnce(event_log')
  BY <1>1 DEF IdsOnce
<1>3. IdsOf(<< >>) = {} /\ UsesIdsOnce(<< >>)
  BY DEF IdsOf, UsesIdsOnce
<1>4. \A fd \in Fds : Ahead(fd)' = unhandled'[fd] /\ Ahead(fd) = unhandled[fd]
  BY DEF Ahead
<1>5. \A fd \in Fds :
         /\ IdsOf(unhandled'[fd]) \subseteq IdsOf(unhandled[fd])
         /\ UsesIdsOnce(unhandled[fd]) => UsesIdsOnce(unhandled'[fd])
         /\ IdsOf(Ahead(fd)') \subseteq IdsOf(Ahead(fd))
  BY <1>3, <1>4
<1>6. IdsOnce'
  BY <1>1, <1>2, <1>5, IdsKept
<1>7. SubscribersAreLoggedIn'
  BY <1>1 DEF SubscribersAreLoggedIn
<1> QED
  BY <1>6, <1>7

LEMMA ClientClosesStep ==
    ASSUME ServerInv, AtSelect, NEW fd \in Fds, ClientCloses(fd)
    PROVE  ServerInv'
<1>1. ServerTypes /\ (\A gd \in Fds : StreamKept(gd)) /\ SubscribersAreLoggedIn
  BY DEF ServerInv
<1>2. ~processing /\ serving = NoFd
  BY <1>1, RestsLemma DEF AtSelect
<1>3. /\ event_log' = event_log /\ clients' = clients /\ fds' = fds /\ sessions' = sessions
      /\ subscriptions' = subscriptions /\ serving' = serving /\ processing' = processing
      /\ unhandled' = unhandled /\ submitted' = submitted
  BY DEF ClientCloses, gatewayVars
<1>4. Polled' = Polled
  BY <1>3 DEF Polled
<1>5. /\ peer' \in [Fds -> {"none", "open", "closed", "reset"}]
      /\ peer'[fd] = "closed"
      /\ \A gd \in Fds : gd # fd => peer'[gd] = peer[gd]
  BY <1>1 DEF ServerTypes, ClientCloses
<1>6. /\ wire' \in [Fds -> Seq(UnitSet)]
      /\ wire'[fd] \in {wire[fd], << >>}
      /\ \A gd \in Fds : gd # fd => wire'[gd] = wire[gd]
  <2>1. wire \in [Fds -> Seq(UnitSet)] /\ << >> \in Seq(UnitSet)
    BY <1>1 DEF ServerTypes
  <2>2. wire' = wire \/ wire' = [wire EXCEPT ![fd] = << >>]
    BY DEF ClientCloses
  <2> QED
    BY <2>1, <2>2
<1>7. \A gd \in Fds : peer'[gd] = "none" => Vacant(gd)'
  BY <1>1, <1>3, <1>4, <1>5, <1>6 DEF ServerTypes, Vacant
<1>8. ServerTypes'
  BY <1>1, <1>2, <1>3, <1>4, <1>5, <1>6, <1>7 DEF ServerTypes, NoDuplicates
<1>9. \A gd \in Fds : Received(gd)' = Received(gd)
  BY <1>3, <1>4 DEF Received
<1>10. ASSUME NEW gd \in Fds
       PROVE  StreamKept(gd)'
  <2>1. CASE gd = fd
    <3>1. Framed(Received(gd), wire[gd], unhandled[gd])
      BY <1>1 DEF StreamKept
    <3>2. Framed(Received(gd), << >>, unhandled[gd])
      <4>1. /\ Received(gd) \in Seq(UnitSet) /\ wire[gd] \in Seq(UnitSet)
            /\ unhandled[gd] \in Seq(Messages)
        BY <1>1, PolledLemma DEF ServerTypes
      <4>2. Len(Received(gd)) + Len(<< >>) <= 2 * Len(unhandled[gd])
        BY <3>1, <4>1 DEF Framed
      <4> QED
        BY <3>1, <4>2 DEF Framed
    <3>3. Framed(Received(gd), wire'[gd], unhandled[gd])
      BY <1>6, <2>1, <3>1, <3>2
    <3> QED
      BY <1>3, <1>5, <1>9, <2>1, <3>3 DEF StreamKept
  <2>2. CASE gd # fd
    BY <1>1, <1>3, <1>5, <1>6, <1>9, <2>2 DEF StreamKept
  <2> QED
    BY <2>1, <2>2
<1>11. IdsOnce' /\ SubscribersAreLoggedIn'
  <2>1. \A symbol \in Symbols : \A gd \in subscriptions[symbol] : gd \in DOMAIN sessions
    BY <1>1 DEF SubscribersAreLoggedIn
  <2> QED
    BY <1>2, <1>3, <2>1, QuietStep
<1> QED
  BY <1>8, <1>10, <1>11 DEF ServerInv

LEMMA SelectStep ==
    ASSUME ServerInv, Select
    PROVE  ServerInv'
<1>1. ServerTypes /\ (\A fd \in Fds : StreamKept(fd)) /\ SubscribersAreLoggedIn
  BY DEF ServerInv
<1>2. ~processing /\ serving = NoFd
  BY <1>1, RestsLemma DEF Select, AtSelect
<1>3. /\ event_log' = event_log /\ clients' = clients /\ sessions' = sessions
      /\ peer' = peer /\ wire' = wire
      /\ subscriptions' = subscriptions /\ serving' = serving /\ processing' = processing
      /\ unhandled' = unhandled /\ submitted' = submitted
      /\ fds' \subseteq Polled
  BY DEF Select, gatewayVars, Readable
<1>4. Polled' = Polled
  BY <1>3 DEF Polled
<1>5. ServerTypes'
  BY <1>1, <1>2, <1>3, <1>4 DEF ServerTypes, NoDuplicates, Vacant
<1>6. \A fd \in Fds : StreamKept(fd)'
  BY <1>1, <1>3, <1>4 DEF StreamKept, Received
<1>7. IdsOnce' /\ SubscribersAreLoggedIn'
  <2>1. \A symbol \in Symbols : \A gd \in subscriptions[symbol] : gd \in DOMAIN sessions
    BY <1>1 DEF SubscribersAreLoggedIn
  <2> QED
    BY <1>2, <1>3, <2>1, QuietStep
<1> QED
  BY <1>5, <1>6, <1>7 DEF ServerInv

LEMMA SelectAndAcceptStep ==
    ASSUME ServerInv, NEW fd \in Fds, SelectAndAccept(fd)
    PROVE  ServerInv'
<1>1. ServerTypes /\ (\A gd \in Fds : StreamKept(gd)) /\ SubscribersAreLoggedIn
  BY DEF ServerInv
<1>2. ~processing /\ serving = NoFd
  BY <1>1, RestsLemma DEF SelectAndAccept, AtSelect
<1>3. /\ event_log' = event_log /\ peer' = peer /\ wire' = wire
      /\ subscriptions' = subscriptions /\ serving' = serving /\ processing' = processing
      /\ unhandled' = unhandled /\ submitted' = submitted
      /\ fds' \subseteq Polled
      /\ clients' = Append(clients, fd)
      /\ sessions' = Put(sessions, fd, NoSession)
      /\ fd \notin Polled /\ peer[fd] # "none"
  BY DEF SelectAndAccept, onConnection, Readable, Backlog
<1>5. clients \in Seq(Fds) /\ NoDuplicates(clients) /\ sessions \in [Polled -> SessionSet]
  BY <1>1 DEF ServerTypes
<1>6. /\ clients' \in Seq(Fds) /\ DOMAIN clients' = 1 .. Len(clients) + 1
      /\ clients'[Len(clients) + 1] = fd
      /\ \A i \in 1 .. Len(clients) : clients'[i] = clients[i]
      /\ DOMAIN clients = 1 .. Len(clients) /\ Len(clients) \in Nat
  BY <1>3, <1>5
<1>7. Polled' = Polled \cup {fd}
  <2>1. Polled' = {clients'[i] : i \in 1 .. Len(clients) + 1}
    BY <1>6 DEF Polled
  <2>2. Polled = {clients[i] : i \in 1 .. Len(clients)}
    BY <1>6 DEF Polled
  <2>3. 1 .. Len(clients) + 1 = (1 .. Len(clients)) \cup {Len(clients) + 1}
    BY <1>6
  <2> QED
    BY <1>6, <2>1, <2>2, <2>3
<1>8. NoDuplicates(clients')
  <2>1. \A i \in 1 .. Len(clients) : clients[i] # fd
    BY <1>3, <1>6 DEF Polled
  <2> SUFFICES ASSUME NEW i \in DOMAIN clients', NEW j \in DOMAIN clients',
                      clients'[i] = clients'[j]
               PROVE  i = j
    BY DEF NoDuplicates
  <2>2. \A k \in DOMAIN clients' : k \in DOMAIN clients \/ k = Len(clients) + 1
    BY <1>6
  <2> QED
    BY <1>5, <1>6, <2>1, <2>2 DEF NoDuplicates
<1>9. NoSession \in SessionSet /\ NoSession.buffer = << >>
  BY DEF NoSession, SessionSet
<1>10. /\ sessions' \in [Polled' -> SessionSet]
       /\ sessions'[fd] = NoSession
       /\ \A gd \in Polled : sessions'[gd] = sessions[gd]
  BY <1>3, <1>5, <1>7, <1>9 DEF Put
<1>11. \A gd \in Fds : peer'[gd] = "none" => Vacant(gd)'
  BY <1>1, <1>3, <1>7 DEF ServerTypes, Vacant
<1>12. ServerTypes'
  <2>1. NoDuplicates(clients)'
    BY <1>8 DEF NoDuplicates
  <2> QED
    BY <1>1, <1>2, <1>3, <1>6, <1>7, <1>10, <1>11, <2>1 DEF ServerTypes
<1>13. \A gd \in Fds : Received(gd)' = Received(gd)
  <2> SUFFICES ASSUME NEW gd \in Fds
               PROVE  Received(gd)' = Received(gd)
    OBVIOUS
  <2>1. CASE gd = fd
    BY <1>3, <1>7, <1>9, <1>10, <2>1 DEF Received
  <2>2. CASE gd # fd
    BY <1>7, <1>10, <2>2 DEF Received
  <2> QED
    BY <2>1, <2>2
<1>14. \A gd \in Fds : StreamKept(gd)'
  BY <1>1, <1>3, <1>13 DEF StreamKept
<1>15. IdsOnce' /\ SubscribersAreLoggedIn'
  <2>1. \A symbol \in Symbols : \A gd \in subscriptions'[symbol] :
           /\ gd \in subscriptions[symbol]
           /\ gd \in DOMAIN sessions'
           /\ sessions'[gd].logged_in = sessions[gd].logged_in
    BY <1>1, <1>3, <1>5, <1>7, <1>10 DEF SubscribersAreLoggedIn
  <2>2. \A gd \in Fds : unhandled'[gd] \in {unhandled[gd], << >>}
    BY <1>3
  <2> QED
    BY <1>2, <1>3, <2>1, <2>2, QuietStep
<1> QED
  BY <1>12, <1>14, <1>15 DEF ServerInv

\* The descriptor whose turn it is.
LEMMA NextReadableLemma ==
    ASSUME ServerTypes, fds # {}
    PROVE  NextReadable \in DOMAIN clients /\ clients[NextReadable] \in fds
<1> DEFINE S == {i \in DOMAIN clients : clients[i] \in fds}
<1>1. clients \in Seq(Fds) /\ fds \subseteq Polled
  BY DEF ServerTypes
<1>2. S \subseteq Nat /\ S # {}
  BY <1>1 DEF Polled
<1> HIDE DEF S
<1>3. \E i \in S : \A j \in S : i <= j
  BY <1>2, LeastNatural
<1>4. Min(S) \in S
  BY <1>3 DEF Min
<1>5. NextReadable = Min(S)
  BY DEF NextReadable, S
<1> QED
  BY <1>4, <1>5 DEF S

LEMMA ReceiveSomeStep ==
    ASSUME ServerInv, NEW fd \in Fds, ReceiveSome(fd)
    PROVE  ServerInv'
<1>1. ServerTypes /\ (\A gd \in Fds : StreamKept(gd)) /\ SubscribersAreLoggedIn
  BY DEF ServerInv
<1>2. ~processing /\ serving = NoFd /\ fds # {}
      /\ fd = clients[NextReadable] /\ fds' = fds \ {fd}
  BY <1>1, RestsLemma DEF ReceiveSome, AtClient
<1>3. fd \in fds /\ fds \subseteq Polled /\ fd \in Polled
  BY <1>1, <1>2, NextReadableLemma DEF ServerTypes
<1>4. /\ event_log' = event_log /\ peer' = peer /\ clients' = clients
      /\ subscriptions' = subscriptions /\ serving' = fd /\ processing' = processing
      /\ unhandled' = unhandled /\ submitted' = submitted
  BY DEF ReceiveSome
<1>5. Polled' = Polled
  BY <1>4 DEF Polled
<1> DEFINE buffer == sessions[fd].buffer
           line   == wire[fd]
<1>6. /\ sessions \in [Polled -> SessionSet] /\ wire \in [Fds -> Seq(UnitSet)]
      /\ buffer \in Seq(UnitSet) /\ line \in Seq(UnitSet)
      /\ unhandled[fd] \in Seq(Messages)
      /\ Received(fd) = buffer
  BY <1>1, <1>3, PolledLemma DEF ServerTypes, SessionSet
<1>7. PICK n \in 1 .. Min({RecvSize, Len(line)}) :
         /\ sessions' = [sessions EXCEPT ![fd].buffer = @ \o SubSeq(line, 1, n)]
         /\ wire' = [wire EXCEPT ![fd] = SubSeq(@, n + 1, Len(@))]
  BY DEF ReceiveSome
<1>8. n \in 1 .. Len(line)
  <2>1. RecvSize \in Int /\ Len(line) \in Int /\ Len(line) \in Nat
    BY <1>6, GatewayAssumption
  <2>2. Min({RecvSize, Len(line)}) =
           IF RecvSize <= Len(line) THEN RecvSize ELSE Len(line)
    BY <2>1, MinLemma
  <2> QED
    BY <1>7, <2>1, <2>2
<1> DEFINE more == buffer \o SubSeq(line, 1, n)
           less == SubSeq(line, n + 1, Len(line))
<1>9. Framed(buffer, line, unhandled[fd])
  BY <1>1, <1>6 DEF StreamKept
<1>10. /\ more \in Seq(UnitSet) /\ less \in Seq(UnitSet)
       /\ Len(more) + Len(less) = Len(buffer) + Len(line)
       /\ Framed(more, less, unhandled[fd])
  BY <1>6, <1>8, <1>9, ReceiveFramed
<1>11. /\ sessions' = [sessions EXCEPT ![fd].buffer = more]
       /\ wire' = [wire EXCEPT ![fd] = less]
  BY <1>7
<1> HIDE DEF more, less
<1>12. /\ sessions' \in [Polled -> SessionSet]
       /\ sessions'[fd].buffer = more
       /\ \A gd \in Polled : sessions'[gd].logged_in = sessions[gd].logged_in
       /\ \A gd \in Polled : gd # fd => sessions'[gd] = sessions[gd]
  <2>1. sessions[fd] \in SessionSet
    BY <1>3, <1>6
  <2>2. [sessions[fd] EXCEPT !.buffer = more] \in SessionSet
    BY <1>10, <2>1 DEF SessionSet
  <2>3. sessions' = [sessions EXCEPT ![fd] = [sessions[fd] EXCEPT !.buffer = more]]
    BY <1>11
  <2>4. /\ [sessions[fd] EXCEPT !.buffer = more].buffer = more
        /\ [sessions[fd] EXCEPT !.buffer = more].logged_in = sessions[fd].logged_in
    BY <2>1 DEF SessionSet
  <2> QED
    BY <1>3, <1>6, <2>2, <2>3, <2>4
<1>13. /\ wire' \in [Fds -> Seq(UnitSet)]
       /\ wire'[fd] = less
       /\ \A gd \in Fds : gd # fd => wire'[gd] = wire[gd]
  BY <1>6, <1>10, <1>11
<1>14. \A gd \in Fds : peer'[gd] = "none" => Vacant(gd)'
  BY <1>1, <1>3, <1>4, <1>5, <1>13 DEF ServerTypes, Vacant
<1>15. ServerTypes'
  BY <1>1, <1>2, <1>3, <1>4, <1>5, <1>12, <1>13, <1>14 DEF ServerTypes, NoDuplicates
<1>16. ASSUME NEW gd \in Fds
       PROVE  StreamKept(gd)'
  <2>1. CASE gd = fd
    <3>1. Received(gd)' = more
      BY <1>3, <1>5, <1>12, <2>1 DEF Received
    <3> QED
      BY <1>1, <1>4, <1>6, <1>10, <1>13, <2>1, <3>1 DEF StreamKept
  <2>2. CASE gd # fd
    <3>1. Received(gd)' = Received(gd)
      BY <1>5, <1>12, <2>2 DEF Received
    <3> QED
      BY <1>1, <1>4, <1>13, <2>2, <3>1 DEF StreamKept
  <2> QED
    BY <2>1, <2>2
<1>17. IdsOnce' /\ SubscribersAreLoggedIn'
  <2>1. \A symbol \in Symbols : \A gd \in subscriptions'[symbol] :
           /\ gd \in subscriptions[symbol]
           /\ gd \in DOMAIN sessions'
           /\ sessions'[gd].logged_in = sessions[gd].logged_in
    BY <1>1, <1>4, <1>6, <1>12 DEF SubscribersAreLoggedIn
  <2>2. \A gd \in Fds : unhandled'[gd] \in {unhandled[gd], << >>}
    BY <1>4
  <2> QED
    BY <1>2, <1>4, <2>1, <2>2, QuietStep
<1> QED
  BY <1>15, <1>16, <1>17 DEF ServerInv

LEMMA DisconnectStep ==
    ASSUME ServerInv, NEW fd \in Fds, Disconnect(fd)
    PROVE  ServerInv'
<1>1. ServerTypes /\ (\A gd \in Fds : StreamKept(gd)) /\ SubscribersAreLoggedIn
  BY DEF ServerInv
<1>2. ~processing /\ serving = NoFd /\ fds # {}
      /\ fd = clients[NextReadable] /\ fds' = fds \ {fd}
  BY <1>1, RestsLemma DEF Disconnect, AtClient
<1>3. /\ NextReadable \in DOMAIN clients
      /\ fd \in fds /\ fds \subseteq Polled /\ fd \in Polled
  BY <1>1, <1>2, NextReadableLemma DEF ServerTypes
<1>4. /\ event_log' = event_log /\ serving' = serving /\ processing' = processing
      /\ wire' = wire /\ submitted' = submitted /\ wire[fd] = << >>
      /\ clients' = Erased(clients, NextReadable)
      /\ sessions' = Without(sessions, fd)
      /\ subscriptions' = [symbol \in Symbols |-> subscriptions[symbol] \ {fd}]
      /\ peer' = [peer EXCEPT ![fd] = "none"]
      /\ unhandled' = [unhandled EXCEPT ![fd] = << >>]
  BY DEF Disconnect, onDisconnection
<1>6. /\ clients \in Seq(Fds) /\ NoDuplicates(clients) /\ InStack(clients, fd)
      /\ NodeOf(clients, fd) = NextReadable
  <2>1. clients \in Seq(Fds) /\ NoDuplicates(clients)
    BY <1>1 DEF ServerTypes
  <2>2. \A j \in DOMAIN clients : clients[j] = fd <=> j = NextReadable
    BY <1>2, <1>3, <2>1 DEF NoDuplicates
  <2>3. NextReadable \in Nat
    BY <1>3, <2>1
  <2>4. \A i : (i \in DOMAIN clients /\ clients[i] = fd
                  /\ \A j \in DOMAIN clients : clients[j] = fd => j <= i)
               <=> i = NextReadable
    BY <1>3, <2>2, <2>3
  <2> QED
    BY <1>3, <2>1, <2>2, <2>4 DEF NodeOf, InStack
<1>7. /\ clients' \in Seq(Fds) /\ NoDuplicates(clients')
      /\ \A gd : InStack(clients', gd) <=> InStack(clients, gd) /\ gd # fd
  <2>1. LET rest == Erased(clients, NodeOf(clients, fd))
        IN  /\ rest \in Seq(Fds)
            /\ NoDuplicates(rest)
            /\ \A s : InStack(rest, s) <=> InStack(clients, s) /\ s # fd
    BY <1>6, EraseLemma
  <2> QED
    BY <1>4, <1>6, <2>1
<1>8. Polled' = Polled \ {fd}
  <2>1. \A gd : gd \in Polled' <=> InStack(clients', gd)
    BY DEF Polled, InStack
  <2>2. \A gd : gd \in Polled <=> InStack(clients, gd)
    BY DEF Polled, InStack
  <2> QED
    BY <1>7, <2>1, <2>2
<1>9. /\ sessions' \in [Polled' -> SessionSet]
      /\ \A gd \in Polled : gd # fd => sessions'[gd] = sessions[gd]
  <2>1. sessions \in [Polled -> SessionSet]
    BY <1>1 DEF ServerTypes
  <2> QED
    BY <1>4, <1>8, <2>1 DEF Without, Restrict
<1>10. /\ peer' \in [Fds -> {"none", "open", "closed", "reset"}]
       /\ unhandled' \in [Fds -> Seq(Messages)]
       /\ peer'[fd] = "none" /\ unhandled'[fd] = << >>
       /\ \A gd \in Fds : gd # fd => peer'[gd] = peer[gd] /\ unhandled'[gd] = unhandled[gd]
       /\ subscriptions' \in [Symbols -> SUBSET Fds]
  <2>1. << >> \in Seq(Messages)
    OBVIOUS
  <2>2. /\ peer \in [Fds -> {"none", "open", "closed", "reset"}]
        /\ unhandled \in [Fds -> Seq(Messages)]
        /\ subscriptions \in [Symbols -> SUBSET Fds]
    BY <1>1 DEF ServerTypes
  <2> QED
    BY <1>4, <2>1, <2>2
<1>11. \A gd \in Fds : peer'[gd] = "none" => Vacant(gd)'
  BY <1>1, <1>4, <1>8, <1>10 DEF ServerTypes, Vacant
<1>12. ServerTypes'
  <2>1. NoDuplicates(clients)'
    BY <1>7 DEF NoDuplicates
  <2> QED
    BY <1>1, <1>2, <1>3, <1>4, <1>7, <1>8, <1>9, <1>10, <1>11, <2>1 DEF ServerTypes
<1>13. ASSUME NEW gd \in Fds
       PROVE  StreamKept(gd)'
  <2>1. CASE gd = fd
    <3>1. Received(gd)' = << >>
      BY <1>8, <2>1 DEF Received
    <3>2. Framed(<< >>, << >>, << >>)
      BY DEF Framed
    <3>3. wire'[gd] = << >> /\ unhandled'[gd] = << >> /\ peer'[gd] # "open"
      BY <1>4, <1>10, <2>1
    <3> QED
      BY <3>1, <3>2, <3>3 DEF StreamKept
  <2>2. CASE gd # fd
    <3>1. Received(gd)' = Received(gd)
      BY <1>8, <1>9, <2>2 DEF Received
    <3> QED
      BY <1>1, <1>4, <1>10, <2>2, <3>1 DEF StreamKept
  <2> QED
    BY <2>1, <2>2
<1>14. IdsOnce' /\ SubscribersAreLoggedIn'
  <2>1. \A symbol \in Symbols : subscriptions'[symbol] = subscriptions[symbol] \ {fd}
    BY <1>4
  <2>2. ASSUME NEW symbol \in Symbols, NEW gd \in subscriptions'[symbol]
        PROVE  /\ gd \in subscriptions[symbol]
               /\ gd \in DOMAIN sessions'
               /\ sessions'[gd].logged_in = sessions[gd].logged_in
    <3>1. gd \in subscriptions[symbol] /\ gd # fd
      BY <2>1, <2>2
    <3>2. gd \in Polled
      BY <1>1, <3>1 DEF ServerTypes, SubscribersAreLoggedIn
    <3>3. gd \in DOMAIN sessions' /\ sessions'[gd] = sessions[gd]
      BY <1>8, <1>9, <3>1, <3>2
    <3> QED
      BY <3>1, <3>3
  <2>3. \A gd \in Fds : unhandled'[gd] \in {unhandled[gd], << >>}
    BY <1>10
  <2> QED
    BY <1>2, <1>4, <2>2, <2>3, QuietStep
<1> QED
  BY <1>12, <1>13, <1>14 DEF ServerInv

LEMMA NothingToHandleStep ==
    ASSUME ServerInv, NothingToHandle
    PROVE  ServerInv'
<1>1. ServerTypes /\ (\A fd \in Fds : StreamKept(fd)) /\ SubscribersAreLoggedIn
  BY DEF ServerInv
<1>2. /\ event_log' = event_log /\ peer' = peer /\ wire' = wire /\ clients' = clients /\ fds' = fds
      /\ unhandled' = unhandled /\ submitted' = submitted /\ sessions' = sessions
      /\ subscriptions' = subscriptions /\ processing' = processing
      /\ serving' = NoFd /\ ~processing
  BY DEF NothingToHandle, netVars, Parsing
<1>3. Polled' = Polled
  BY <1>2 DEF Polled
<1>4. ServerTypes'
  BY <1>1, <1>2, <1>3 DEF ServerTypes, NoDuplicates, Vacant
<1>5. \A fd \in Fds : StreamKept(fd)'
  BY <1>1, <1>2, <1>3 DEF StreamKept, Received
<1>6. IdsOnce' /\ SubscribersAreLoggedIn'
  <2>1. \A symbol \in Symbols : \A gd \in subscriptions[symbol] : gd \in DOMAIN sessions
    BY <1>1 DEF SubscribersAreLoggedIn
  <2> QED
    BY <1>2, <2>1, QuietStep
<1> QED
  BY <1>4, <1>5, <1>6 DEF ServerInv

-----------------------------------------------------------------------------
(***************************************************************************)
(* The handlers.  Each is a step of the engine's Next or leaves it alone.  *)
(***************************************************************************)
\* The state in which a handler is called.
LEMMA CompleteLemma ==
    ASSUME ServerInv, Complete
    PROVE  /\ serving # NoFd /\ Len(Buffer) >= 2 /\ ~processing
           /\ serving \in Fds /\ serving \in Polled
           /\ Session \in SessionSet /\ Session.buffer = Buffer
           /\ HasFields(Packet)
           /\ unhandled[serving] \in Seq(Messages) /\ unhandled[serving] # << >>
           /\ Packet = unhandled[serving][1]
           /\ Packet \in Messages
           /\ subscriptions \in [Symbols -> SUBSET Fds] /\ event_log \in Seq(Messages)
           /\ UsesIdsOnce(event_log)
<1>1. ServerTypes /\ \A fd \in Fds : StreamKept(fd)
  BY DEF ServerInv
<1>2. serving # NoFd /\ Len(Buffer) >= 2 /\ ~processing
  BY DEF Complete, Parsing, PacketInBuffer
<1>3. /\ subscriptions \in [Symbols -> SUBSET Fds] /\ event_log \in Seq(Messages)
      /\ UsesIdsOnce(event_log)
  BY <1>1 DEF ServerInv, ServerTypes, IdsOnce
<1>4. /\ serving \in Fds /\ serving \in Polled
      /\ Session \in SessionSet
      /\ unhandled[serving] \in Seq(Messages) /\ unhandled[serving] # << >>
      /\ Packet = unhandled[serving][1]
      /\ HasFields(Packet)
  BY <1>1, <1>2, PacketLemma
<1>5. Session.buffer = Buffer
  BY DEF Session, Buffer
<1>6. Packet \in Messages
  BY <1>4
<1> QED
  BY <1>2, <1>3, <1>4, <1>5, <1>6

\* A handler that the engine has no part in.
LEMMA QuietHandlerStep ==
    ASSUME ServerInv,
           handleLogin \/ Ignored \/ handleSubscriptionRequest \/ handleMarketDataRequest
    PROVE  ServerInv' /\ UNCHANGED vars
<1>1. Complete /\ UNCHANGED vars /\ event_log' = event_log
  BY DEF handleLogin, Ignored, handleSubscriptionRequest, handleMarketDataRequest, Request
<1>2. /\ serving # NoFd /\ Len(Buffer) >= 2 /\ ~processing
      /\ serving \in Fds
      /\ Session \in SessionSet /\ Session.buffer = Buffer
      /\ HasFields(Packet)
      /\ subscriptions \in [Symbols -> SUBSET Fds] /\ event_log \in Seq(Messages)
      /\ UsesIdsOnce(event_log)
  BY <1>1, CompleteLemma
<1>3. /\ event_log' \in Seq(Messages)
      /\ IdsOf(event_log') = IdsOf(event_log) /\ UsesIdsOnce(event_log')
  BY <1>1, <1>2
<1>4. CASE handleLogin
  <2> DEFINE update == [Session EXCEPT !.logged_in = TRUE]
  <2>1. PICK packets : ErasePacket(update) /\ SendPackets(packets)
    BY <1>4 DEF handleLogin, Handled
  <2>2. /\ serving' = serving /\ ~processing' /\ subscriptions' = subscriptions
    BY <1>2, <1>4 DEF handleLogin, Handled
  <2>3. update \in SessionSet /\ update.buffer = Buffer /\ update.logged_in
    BY <1>2 DEF SessionSet
  <2> HIDE DEF update
  <2> QED
    BY <1>1, <1>2, <1>3, <2>1, <2>2, <2>3, HandledLemma
<1>5. CASE Ignored \/ handleMarketDataRequest
  <2>1. PICK packets : ErasePacket(Session) /\ SendPackets(packets)
    BY <1>5 DEF Ignored, handleMarketDataRequest, Handled
  <2>2. serving' = serving /\ ~processing' /\ subscriptions' = subscriptions
    BY <1>2, <1>5 DEF Ignored, handleMarketDataRequest, Handled
  <2> QED
    BY <1>1, <1>2, <1>3, <2>1, <2>2, HandledLemma
<1>6. CASE handleSubscriptionRequest
  <2>1. PICK packets : ErasePacket(Session) /\ SendPackets(packets)
    BY <1>6 DEF handleSubscriptionRequest, Handled
  <2>2. serving' = serving /\ ~processing' /\ Session.logged_in
    BY <1>2, <1>6 DEF handleSubscriptionRequest, Handled, Request
  <2>3. subscriptions' = [subscriptions EXCEPT ![Packet.symbol] =
           IF Packet.is_subscribe THEN @ \cup {serving} ELSE @ \ {serving}]
    BY <1>6 DEF handleSubscriptionRequest
  <2>4. Packet.symbol \in Symbols
    BY <1>2, <1>6 DEF handleSubscriptionRequest, Request, HasFields
  <2>5. subscriptions' \in [Symbols -> SUBSET Fds]
    BY <1>2, <2>3, <2>4
  <2>6. \A symbol \in Symbols : \A fd \in subscriptions'[symbol] :
           fd \in subscriptions[symbol] \/ (fd = serving /\ Session.logged_in)
    BY <1>2, <2>2, <2>3, <2>4
  <2> QED
    BY <1>1, <1>2, <1>3, <2>1, <2>2, <2>5, <2>6, HandledLemma
<1> QED
  BY <1>1, <1>4, <1>5, <1>6

\* A cancel, which the log is told of.
LEMMA HandleOrderCancelStep ==
    ASSUME ServerInv, handleOrderCancel
    PROVE  ServerInv' /\ Cancel
<1>1. Complete /\ Session.logged_in /\ Packet.type = "ORDER_CANCEL"
      /\ CancelOrder(Packet.id, Packet.symbol) /\ subscriptions' = subscriptions
      /\ event_log' = Append(event_log, Packet)
  BY DEF handleOrderCancel, Request
<1>2. /\ serving # NoFd /\ Len(Buffer) >= 2 /\ ~processing
      /\ Session \in SessionSet /\ Session.buffer = Buffer
      /\ HasFields(Packet) /\ Packet \in Messages
      /\ subscriptions \in [Symbols -> SUBSET Fds] /\ event_log \in Seq(Messages)
      /\ UsesIdsOnce(event_log)
  BY <1>1, CompleteLemma
<1>3. Packet.id \in OrderIds /\ Packet.symbol \in Symbols
  BY <1>1, <1>2 DEF HasFields
<1> DEFINE record == Packet
<1>4. record \in Messages /\ record.type # "NEW_ORDER" /\ event_log' = Append(event_log, record)
  BY <1>1, <1>2
<1> HIDE DEF record
<1>5. /\ event_log' \in Seq(Messages)
      /\ IdsOf(event_log') = IdsOf(event_log) /\ UsesIdsOnce(event_log')
  BY <1>2, <1>4, AppendedRecord
<1>6. PICK packets : ErasePacket(Session) /\ SendPackets(packets)
                     /\ serving' = serving /\ processing' = processing
  BY DEF handleOrderCancel, Handled
<1>7. ServerInv'
  BY <1>1, <1>2, <1>5, <1>6, HandledLemma
<1> QED
  BY <1>1, <1>3, <1>7 DEF Cancel

\* What the engine returned is reported.
LEMMA ReportOrderStep ==
    ASSUME ServerInv, ReportOrder
    PROVE  ServerInv' /\ UNCHANGED vars
<1>1. ServerTypes /\ (\A fd \in Fds : StreamKept(fd))
  BY DEF ServerInv
<1>2. /\ UNCHANGED vars /\ subscriptions' = subscriptions /\ serving' = serving
      /\ event_log' = event_log /\ ~processing' /\ processing /\ ErasePacket(Session)
  BY DEF ReportOrder
<1>3. PICK packets : SendPackets(packets)
  BY DEF ReportOrder
<1>4. /\ serving # NoFd /\ Len(Buffer) >= 2
      /\ subscriptions \in [Symbols -> SUBSET Fds]
  BY <1>1, <1>2 DEF ServerTypes
<1>5. Session \in SessionSet /\ Session.buffer = Buffer
  BY <1>1, <1>4, PacketLemma DEF Session, Buffer
<1>6. /\ event_log' \in Seq(Messages)
      /\ IdsOf(event_log') = IdsOf(event_log) /\ UsesIdsOnce(event_log')
  BY <1>1, <1>2 DEF ServerInv, ServerTypes, IdsOnce
<1> QED
  BY <1>2, <1>3, <1>4, <1>5, <1>6, HandledLemma

\* A step of the engine, or of nobody, or the last one of a server that dies.
LEMMA StutterStep ==
    ASSUME ServerInv, UNCHANGED << netVars, sessions, subscriptions, event_log, serving,
                                   processing >>
    PROVE  ServerInv'
<1>1. /\ event_log' = event_log /\ peer' = peer /\ wire' = wire /\ clients' = clients /\ fds' = fds
      /\ unhandled' = unhandled /\ submitted' = submitted /\ sessions' = sessions
      /\ subscriptions' = subscriptions /\ serving' = serving /\ processing' = processing
  BY DEF netVars
<1>2. ServerTypes /\ (\A fd \in Fds : StreamKept(fd)) /\ IdsOnce /\ SubscribersAreLoggedIn
  BY DEF ServerInv
<1>3. /\ Polled' = Polled
      /\ IdsOf(event_log') = IdsOf(event_log) /\ UsesIdsOnce(event_log')
  BY <1>1, <1>2 DEF Polled, IdsOnce
<1>4. ServerTypes'
  BY <1>1, <1>2, <1>3 DEF ServerTypes, NoDuplicates, Vacant, Buffer, Packet
<1>5. \A fd \in Fds : StreamKept(fd)'
  BY <1>1, <1>2, <1>3 DEF StreamKept, Received
<1>6. IdsOnce'
  <2>1. \A fd \in Fds : Ahead(fd)' = Ahead(fd)
    BY <1>1 DEF Ahead
  <2> QED
    BY <1>1, <1>2, <1>3, <2>1, IdsKept
<1>7. SubscribersAreLoggedIn'
  BY <1>1, <1>2 DEF SubscribersAreLoggedIn
<1> QED
  BY <1>4, <1>5, <1>6, <1>7 DEF ServerInv

\* The order that is handed to the engine is one that the log did not have.
LEMMA HandleNewOrderStep ==
    ASSUME ServerInv, handleNewOrder
    PROVE  /\ ServerInv'
           /\ Packet.order \in Requests /\ Packet.order.id \notin IdsOf(event_log)
<1> DEFINE record  == Packet
           request == Packet.order
           script  == unhandled[serving]
<1>1. /\ Complete /\ record.type = "NEW_ORDER"
      /\ event_log' = Append(event_log, record)
      /\ peer' = peer /\ wire' = wire /\ clients' = clients /\ fds' = fds
      /\ unhandled' = unhandled /\ submitted' = submitted /\ sessions' = sessions
      /\ subscriptions' = subscriptions /\ serving' = serving /\ processing' = TRUE
  BY DEF handleNewOrder, Request, netVars
<1>2. /\ serving # NoFd /\ Len(Buffer) >= 2 /\ ~processing
      /\ serving \in Fds /\ HasFields(Packet) /\ record \in Messages
      /\ script \in Seq(Messages) /\ script # << >> /\ Packet = script[1]
      /\ event_log \in Seq(Messages)
  BY <1>1, CompleteLemma
<1>3. ServerTypes /\ (\A fd \in Fds : StreamKept(fd)) /\ IdsOnce /\ SubscribersAreLoggedIn
  BY DEF ServerInv
<1>4. request \in Requests
  BY <1>1, <1>2 DEF HasFields
<1>5. /\ IdsOf(Tail(script)) \subseteq IdsOf(script)
      /\ request.id \in IdsOf(script) /\ request.id \notin IdsOf(Tail(script))
  <2>1. script[1].type = "NEW_ORDER" /\ request.id = script[1].order.id
    BY <1>1, <1>2
  <2>2. UsesIdsOnce(script)
    BY <1>2, <1>3 DEF IdsOnce
  <2> QED
    BY <1>2, <2>1, <2>2, TailIds
<1>6. record.order.id = request.id
  OBVIOUS
<1>7. \A fd \in Fds : Ahead(fd) = unhandled[fd]
  BY <1>2 DEF Ahead
<1>8. \A fd \in Fds : Ahead(fd)' = IF fd = serving THEN Tail(script) ELSE unhandled[fd]
  BY <1>1 DEF Ahead
<1> HIDE DEF request, record
<1>9. /\ IdsOf(script) \subseteq submitted
      /\ \A fd \in Fds : IdsOf(unhandled[fd]) \cap IdsOf(event_log) = {}
      /\ \A fd \in Fds : fd # serving => request.id \notin IdsOf(unhandled[fd])
  BY <1>2, <1>3, <1>5, <1>7 DEF IdsOnce
<1>10. request.id \notin IdsOf(event_log)
  BY <1>2, <1>5, <1>9
<1>11. /\ event_log' \in Seq(Messages)
       /\ IdsOf(event_log') = IdsOf(event_log) \cup {request.id}
       /\ UsesIdsOnce(event_log')
  <2>1. LET more == Append(event_log, record)
        IN  /\ more \in Seq(Messages)
            /\ record.type # "NEW_ORDER" =>
                  /\ IdsOf(more) = IdsOf(event_log)
                  /\ UsesIdsOnce(event_log) => UsesIdsOnce(more)
            /\ record.type = "NEW_ORDER" =>
                  /\ IdsOf(more) = IdsOf(event_log) \cup {record.order.id}
                  /\ UsesIdsOnce(event_log) /\ record.order.id \notin IdsOf(event_log) =>
                        UsesIdsOnce(more)
    BY <1>2, AppendedRecord
  <2>2. UsesIdsOnce(event_log)
    BY <1>3 DEF IdsOnce
  <2> QED
    BY <1>1, <1>6, <1>10, <2>1, <2>2
<1>12. Polled' = Polled
  BY <1>1 DEF Polled
<1>13. ServerTypes'
  <2>1. Buffer' = Buffer /\ Packet' = record
    BY <1>1 DEF Buffer, Packet, record
  <2> QED
    BY <1>1, <1>2, <1>3, <1>11, <1>12, <2>1 DEF ServerTypes, NoDuplicates, Vacant
<1>14. \A fd \in Fds : StreamKept(fd)'
  BY <1>1, <1>3, <1>12 DEF StreamKept, Received
<1>15. IdsOnce'
  <2>1. IdsOf(event_log') \subseteq submitted'
    BY <1>1, <1>3, <1>5, <1>9, <1>11 DEF IdsOnce
  <2>2. \A fd \in Fds : IdsOf(Ahead(fd)') \cap IdsOf(event_log') = {}
    <3> SUFFICES ASSUME NEW fd \in Fds
                 PROVE  IdsOf(Ahead(fd)') \cap IdsOf(event_log') = {}
      OBVIOUS
    <3>1. IdsOf(unhandled[fd]) \cap IdsOf(event_log) = {}
      BY <1>9
    <3>2. CASE fd = serving
      BY <1>5, <1>8, <1>11, <3>1, <3>2
    <3>3. CASE fd # serving
      BY <1>8, <1>9, <1>11, <3>1, <3>3
    <3> QED
      BY <3>2, <3>3
  <2>3. \A fd \in Fds : IdsOf(Ahead(fd))' = IdsOf(Ahead(fd)')
    BY DEF IdsOf
  <2>4. /\ \A fd \in Fds : IdsOf(unhandled'[fd]) \subseteq submitted'
        /\ \A fd \in Fds : UsesIdsOnce(unhandled'[fd])
        /\ \A fd, gd \in Fds : fd # gd =>
              IdsOf(unhandled'[fd]) \cap IdsOf(unhandled'[gd]) = {}
    BY <1>1, <1>3 DEF IdsOnce
  <2>5. /\ \A fd \in Fds : /\ IdsOf(unhandled[fd])' = IdsOf(unhandled'[fd])
                           /\ UsesIdsOnce(unhandled[fd])' <=> UsesIdsOnce(unhandled'[fd])
        /\ IdsOf(event_log)' = IdsOf(event_log')
        /\ UsesIdsOnce(event_log)' <=> UsesIdsOnce(event_log')
    BY DEF IdsOf, UsesIdsOnce
  <2> QED
    BY <1>11, <2>1, <2>2, <2>3, <2>4, <2>5 DEF IdsOnce
<1>16. SubscribersAreLoggedIn'
  BY <1>1, <1>3 DEF SubscribersAreLoggedIn
<1>17. ServerInv'
  BY <1>13, <1>14, <1>15, <1>16 DEF ServerInv
<1> QED
  BY <1>4, <1>10, <1>17 DEF request

-----------------------------------------------------------------------------
(***************************************************************************)
(* The server and its log, whatever the engine does.                       *)
(***************************************************************************)
\* No client, no connection, no message: a server that has just been started,
\* whatever log of orders it finds.
JustStarted ==
    /\ peer = [fd \in Fds |-> "none"] /\ wire = [fd \in Fds |-> << >>]
    /\ unhandled = [fd \in Fds |-> << >>]
    /\ clients = << >> /\ fds = {}
    /\ sessions = [fd \in {} |-> NoSession]
    /\ subscriptions = [symbol \in Symbols |-> {}]
    /\ serving = NoFd /\ processing = FALSE
    /\ event_log \in Seq(Messages) /\ UsesIdsOnce(event_log)
    /\ IdsOf(event_log) \subseteq submitted

LEMMA NewServerInv == JustStarted => ServerInv
<1> SUFFICES ASSUME JustStarted PROVE ServerInv
  OBVIOUS
<1>1. Polled = {}
  BY DEF JustStarted, Polled
<1>2. << >> \in Seq(UnitSet) /\ << >> \in Seq(Messages)
      /\ << >> \in Seq(Fds) /\ NoDuplicates(<< >>)
  BY DEF NoDuplicates
<1>3. ServerTypes
  BY <1>1, <1>2 DEF JustStarted, ServerTypes, Vacant
<1>4. Framed(<< >>, << >>, << >>)
  BY DEF Framed
<1>5. \A fd \in Fds : StreamKept(fd)
  BY <1>1, <1>4 DEF JustStarted, StreamKept, Received
<1>6. IdsOf(<< >>) = {} /\ UsesIdsOnce(<< >>)
  BY DEF IdsOf, UsesIdsOnce
<1>7. IdsOnce
  BY <1>6 DEF JustStarted, IdsOnce, Ahead
<1>8. SubscribersAreLoggedIn
  BY DEF JustStarted, SubscribersAreLoggedIn
<1> QED
  BY <1>3, <1>5, <1>7, <1>8 DEF ServerInv

\* Every step keeps it.
LEMMA NextServerInv == ServerInv /\ [GatewayNext]_systemVars => ServerInv'
<1> SUFFICES ASSUME ServerInv, [GatewayNext]_systemVars
             PROVE  ServerInv'
  OBVIOUS
<1>1. CASE AtSelect /\ Clients
  BY <1>1, ClientConnectsStep, ClientClosesStep DEF Clients
<1>2. CASE Select \/ NothingToHandle
  BY <1>2, SelectStep, NothingToHandleStep
<1>3. CASE \E fd \in Fds : SelectAndAccept(fd) \/ ReceiveSome(fd) \/ Disconnect(fd)
  BY <1>3, SelectAndAcceptStep, ReceiveSomeStep, DisconnectStep
<1>4. CASE handleLogin \/ Ignored \/ handleSubscriptionRequest \/ handleMarketDataRequest
  BY <1>4, QuietHandlerStep
<1>5. CASE handleOrderCancel \/ handleNewOrder \/ ReportOrder
  BY <1>5, HandleOrderCancelStep, HandleNewOrderStep, ReportOrderStep
<1>6. CASE EngineRuns \/ ReportCrashes \/ UNCHANGED systemVars
  <2>1. UNCHANGED << netVars, sessions, subscriptions, event_log, serving, processing >>
    BY <1>6 DEF EngineRuns, ReportCrashes, systemVars, gatewayVars
  <2> QED
    BY <2>1, StutterStep
<1> QED
  BY <1>1, <1>2, <1>3, <1>4, <1>5, <1>6 DEF GatewayNext, Server

\* When nothing of a stream is lost, it is what the property says.
LEMMA ServerStream == ServerInv => StreamInOrder
<1> SUFFICES ASSUME ServerInv, NEW fd \in Fds, peer[fd] = "open"
             PROVE  Stream(unhandled[fd]) = Received(fd) \o wire[fd]
  BY DEF StreamInOrder, Received
<1>1. ServerTypes /\ StreamKept(fd)
  BY DEF ServerInv
<1>2. /\ Received(fd) \in Seq(UnitSet) /\ wire[fd] \in Seq(UnitSet)
      /\ unhandled[fd] \in Seq(Messages)
  BY <1>1, PolledLemma DEF ServerTypes
<1> QED
  BY <1>1, <1>2, FramedStream DEF StreamKept

-----------------------------------------------------------------------------
(***************************************************************************)
(* The engine and the log: what is live was logged.                        *)
(***************************************************************************)
\* What was in the log is there still when a record has been appended.
LEMMA GrownLog ==
    ASSUME NEW log \in Seq(Messages), NEW record \in Messages,
           NEW P \in SUBSET DOMAIN log, NEW Q, P \subseteq Q, NEW order,
           LoggedIn(log, P, order)
    PROVE  LoggedIn(Append(log, record), Q, order)
<1>1. \A n \in DOMAIN log : Append(log, record)[n] = log[n]
  OBVIOUS
<1> QED
  BY <1>1 DEF LoggedIn

\* It stays so as the order is filled.
LEMMA FilledIsLogged ==
    ASSUME NEW log, NEW P, NEW order \in Order, NEW after, SameOrder(after, order),
           LoggedIn(log, P, order)
    PROVE  LoggedIn(log, P, after) /\ after.type = order.type
<1> DEFINE q == after.quantity_filled
<1>1. after = [order EXCEPT !.quantity_filled = q] /\ order.timestamp = after.timestamp
      /\ after.type = order.type
  BY DEF SameOrder, Order
<1>2. PICK n \in P : /\ log[n].type = "NEW_ORDER"
                     /\ order = [NewOrder(log[n].order, order.timestamp)
                                   EXCEPT !.quantity_filled = order.quantity_filled]
  BY DEF LoggedIn
<1> HIDE DEF q
<1>3. after = [NewOrder(log[n].order, after.timestamp) EXCEPT !.quantity_filled = q]
  BY <1>1, <1>2 DEF NewOrder
<1> QED
  BY <1>1, <1>2, <1>3 DEF LoggedIn, q

\* An order that was just given to the engine is the one that was logged.
LEMMA NewIsLogged ==
    ASSUME NEW log, NEW P, NEW n \in P, log[n].type = "NEW_ORDER", NEW time
    PROVE  LoggedIn(log, P, NewOrder(log[n].order, time))
<1> DEFINE order == NewOrder(log[n].order, time)
<1>1. order.timestamp = time
      /\ order = [order EXCEPT !.quantity_filled = order.quantity_filled]
  BY DEF NewOrder
<1> QED
  BY <1>1 DEF LoggedIn

\* A step of the engine that is not an arrival.
LEMMA KeptLogged ==
    ASSUME SafeInv, EngineStep \/ Cancel \/ UNCHANGED vars,
           NEW P, LiveIsLogged(P), NEW log, NEW Q,
           \A order : LoggedIn(event_log, P, order) => LoggedIn(log, Q, order)
    PROVE  \A s \in LiveSlots' : mem'[s].type # "MARKET" => LoggedIn(log, Q, mem'[s])
<1> SUFFICES ASSUME NEW s \in LiveSlots', mem'[s].type # "MARKET"
             PROVE  LoggedIn(log, Q, mem'[s])
  OBVIOUS
<1>1. s \in LiveSlots /\ mem[s] \in Order /\ SameOrder(mem'[s], mem[s])
  BY KeptOrders
<1>2. mem[s].type # "MARKET"
  BY <1>1 DEF SameOrder, Order
<1>3. LoggedIn(log, Q, mem[s])
  BY <1>1, <1>2 DEF LiveIsLogged
<1> DEFINE before == mem[s]
           after  == mem'[s]
<1>4. before \in Order /\ SameOrder(after, before) /\ LoggedIn(log, Q, before)
  BY <1>1, <1>3
<1> HIDE DEF before, after
<1>5. LoggedIn(log, Q, after)
  BY <1>4, FilledIsLogged
<1> QED
  BY <1>5 DEF after

\* An id that is not in the log is not in a book.
LEMMA FreshLemma ==
    ASSUME SafeInv, NEW P, NEW request \in OrderRequest,
           LiveIsLogged(P),
           \A n \in P : event_log[n].type = "NEW_ORDER" => event_log[n].order.id # request.id
    PROVE  FreshId(request)
<1> SUFFICES ASSUME request.id \in DOMAIN order_books[request.symbol].lookup
             PROVE  FALSE
  BY DEF FreshId
<1> DEFINE book == order_books[request.symbol]
           slot == book.lookup[request.id]
<1>1. BooksOK /\ request.symbol \in Symbols
  BY Regroup DEF OrderRequest
<1>2. ConsistentBook(book, mem, request.symbol)
  BY <1>1 DEF BooksOK
<1>3. Listed(book, slot) /\ mem[slot].id = request.id
  BY <1>2, LookupLemma
<1>4. slot \in Pool /\ mem[slot] \in Order
  BY <1>2, <1>3, ListedLemma
<1>5. slot \in LiveSlots /\ mem[slot].type # "MARKET"
  BY <1>1, <1>3, <1>4 DEF LiveSlots, RestingSlots, BooksOK
<1> HIDE DEF book, slot
<1>6. PICK n \in P : /\ event_log[n].type = "NEW_ORDER"
                     /\ mem[slot] = [NewOrder(event_log[n].order, mem[slot].timestamp)
                                       EXCEPT !.quantity_filled = mem[slot].quantity_filled]
  BY <1>5 DEF LiveIsLogged, LoggedIn
<1>7. mem[slot].id = event_log[n].order.id
  BY <1>6 DEF NewOrder
<1> QED
  BY <1>3, <1>6, <1>7

\* What a step of the server is to the engine: one of its own, and what comes
\* to be live is in the log.
LEMMA GatewayEngineStep ==
    ASSUME SafeInv, ServerInv, LiveIsLogged(DOMAIN event_log), [GatewayNext]_systemVars
    PROVE  [Next]_vars /\ LiveIsLogged(DOMAIN event_log)'
<1> DEFINE P == DOMAIN event_log
           Q == DOMAIN event_log'
<1>1. event_log \in Seq(Messages) /\ IdsOnce
  BY DEF ServerInv, ServerTypes
<1>2. ASSUME EngineStep \/ Cancel \/ UNCHANGED vars,
             \/ event_log' = event_log
             \/ \E record \in Messages : event_log' = Append(event_log, record)
      PROVE  LiveIsLogged(DOMAIN event_log)'
  <2>1. CASE event_log' = event_log
    <3>1. \A s \in LiveSlots' : mem'[s].type # "MARKET" => LoggedIn(event_log, P, mem'[s])
      BY <1>2, KeptLogged
    <3> QED
      BY <2>1, <3>1 DEF LiveIsLogged, LoggedIn
  <2>2. CASE \E record \in Messages : event_log' = Append(event_log, record)
    <3>1. PICK record \in Messages : event_log' = Append(event_log, record)
      BY <2>2
    <3> DEFINE more == Append(event_log, record)
    <3>2. P \subseteq DOMAIN more
      BY <1>1
    <3>3. \A order : LoggedIn(event_log, P, order) => LoggedIn(more, DOMAIN more, order)
      BY <1>1, <3>2, GrownLog
    <3> HIDE DEF more
    <3>4. \A s \in LiveSlots' : mem'[s].type # "MARKET" => LoggedIn(more, DOMAIN more, mem'[s])
      BY <1>2, <3>3, KeptLogged
    <3> QED
      BY <3>1, <3>4 DEF LiveIsLogged, LoggedIn, more
  <2> QED
    BY <1>2, <2>1, <2>2
<1>3. CASE handleNewOrder
  <2> DEFINE record  == Packet
             request == record.order
             more    == Append(event_log, record)
  <2>1. /\ event_log' = more /\ ProcessNewOrder(request) /\ record.type = "NEW_ORDER"
        /\ Complete
    BY <1>3 DEF handleNewOrder, Request
  <2>2. request \in Requests /\ request.id \notin IdsOf(event_log)
    BY <1>3, HandleNewOrderStep
  <2>3. record \in Messages
    BY <2>1, CompleteLemma
  <2> HIDE DEF record
  <2>4. request \in OrderRequest
    BY <2>2, RequestsTyped
  <2>5. /\ P \subseteq DOMAIN more /\ Len(event_log) + 1 \in DOMAIN more
        /\ more[Len(event_log) + 1] = record
    BY <1>1, <2>3
  <2>6. \A order : LoggedIn(event_log, P, order) => LoggedIn(more, DOMAIN more, order)
    BY <1>1, <2>3, <2>5, GrownLog
  <2>7. LoggedIn(more, DOMAIN more, NewOrder(more[Len(event_log) + 1].order, clock))
    BY <2>1, <2>5, NewIsLogged
  <2>8. FreshId(request)
    <3>1. \A n \in P : event_log[n].type = "NEW_ORDER" => event_log[n].order.id # request.id
      BY <2>2 DEF IdsOf
    <3> HIDE DEF request, P
    <3>2. LiveIsLogged(P)
      BY DEF P
    <3> QED
      BY <2>4, <3>1, <3>2, FreshLemma
  <2> HIDE DEF more
  <2>9. \A s \in LiveSlots' : mem'[s].type # "MARKET" => LoggedIn(more, DOMAIN more, mem'[s])
    <3>1. \A s \in LiveSlots' : \/ s \in LiveSlots /\ mem'[s] = mem[s]
                                \/ mem'[s] = NewOrder(request, clock)
      BY <2>1, <2>4, ArrivedOrders
    <3>2. \A s \in LiveSlots : mem[s].type # "MARKET" => LoggedIn(more, DOMAIN more, mem[s])
      BY <2>6 DEF LiveIsLogged
    <3> QED
      BY <2>5, <2>7, <3>1, <3>2
  <2>10. LiveIsLogged(DOMAIN event_log)'
    BY <2>1, <2>9 DEF LiveIsLogged, LoggedIn
  <2>11. Next
    BY <2>1, <2>2, <2>8 DEF Next
  <2> QED
    BY <2>10, <2>11
<1>4. CASE handleOrderCancel
  <2>1. event_log' = Append(event_log, Packet) /\ Complete
    BY <1>4 DEF handleOrderCancel, Request
  <2>2. Cancel /\ Packet \in Messages
    BY <1>4, <2>1, HandleOrderCancelStep, CompleteLemma
  <2> QED
    BY <1>2, <2>1, <2>2 DEF Next
<1>5. CASE EngineRuns
  <2>1. EngineStep /\ event_log' = event_log
    BY <1>5 DEF EngineRuns, gatewayVars
  <2> QED
    BY <1>2, <2>1 DEF Next
<1>6. ASSUME ~handleNewOrder, ~handleOrderCancel, ~EngineRuns
      PROVE  UNCHANGED vars /\ event_log' = event_log
  <2>1. CASE AtSelect /\ Clients
    BY <2>1 DEF Clients, ClientConnects, ClientCloses, gatewayVars
  <2>2. CASE UNCHANGED systemVars
    BY <2>2 DEF systemVars, gatewayVars
  <2>3. CASE Server
    BY <1>6, <2>3 DEF Server, Select, SelectAndAccept, ReceiveSome, Disconnect,
                      NothingToHandle, handleLogin, Ignored, handleSubscriptionRequest,
                      handleMarketDataRequest, ReportOrder, ReportCrashes, gatewayVars
  <2> QED
    BY <2>1, <2>2, <2>3 DEF GatewayNext
<1> QED
  BY <1>2, <1>3, <1>4, <1>5, <1>6

-----------------------------------------------------------------------------
(***************************************************************************)
(* The invariant is inductive, and every step is the engine's or leaves    *)
(* the engine alone.                                                       *)
(***************************************************************************)
\* No order is live in an engine that was just started.
LEMMA NothingLive == Init => LiveSlots = {}
<1> SUFFICES ASSUME Init PROVE LiveSlots = {}
  OBVIOUS
<1>1. \A symbol \in Symbols : order_books[symbol] = EmptyBook
  BY DEF Init
<1>2. \A side \in Sides : DOMAIN EmptyBook.orders[side] = {}
  BY DEF EmptyBook, NoLevels
<1> QED
  BY <1>1, <1>2, NoSlotNotInPool DEF Init, LiveSlots, RestingSlots, Listed

LEMMA InitGInv == GatewayInit => GInv
<1> SUFFICES ASSUME GatewayInit PROVE GInv
  OBVIOUS
<1>1. Init /\ IInv /\ Idle
  BY InitIInv DEF GatewayInit, Init, Idle
<1>2. event_log \in Seq(Messages) /\ IdsOf(event_log) = {} /\ UsesIdsOnce(event_log)
  BY DEF GatewayInit, IdsOf, UsesIdsOnce
<1>3. ServerInv
  BY <1>2, NewServerInv DEF GatewayInit, JustStarted
<1>4. LiveIsLogged(DOMAIN event_log)
  BY <1>1, NothingLive DEF LiveIsLogged
<1> QED
  BY <1>1, <1>3, <1>4 DEF GInv

LEMMA NextGInv == GInv /\ [GatewayNext]_systemVars => GInv' /\ [Next]_vars
<1> SUFFICES ASSUME GInv, [GatewayNext]_systemVars
             PROVE  GInv' /\ [Next]_vars
  OBVIOUS
<1>1. IInv /\ SafeInv /\ ServerInv /\ LiveIsLogged(DOMAIN event_log)
  BY IInvIsSafe DEF GInv
<1>2. ServerInv'
  BY <1>1, NextServerInv
<1>3. [Next]_vars /\ LiveIsLogged(DOMAIN event_log)'
  BY <1>1, GatewayEngineStep
<1>4. IInv'
  BY <1>1, <1>3, NextIInv
<1>5. (~Idle => processing)'
  <2>1. CASE handleNewOrder
    BY <2>1 DEF handleNewOrder
  <2>2. CASE handleOrderCancel
    BY <2>2 DEF handleOrderCancel, CancelOrder, Idle
  <2>3. CASE EngineRuns
    BY <2>3 DEF EngineRuns, gatewayVars
  <2>4. CASE ReportOrder
    BY <2>4 DEF ReportOrder, vars, Idle
  <2>5. CASE \/ AtSelect /\ Clients
             \/ UNCHANGED systemVars
    BY <2>5 DEF GInv, Clients, ClientConnects, ClientCloses, gatewayVars, systemVars,
                vars, Idle
  <2>6. CASE /\ Server
             /\ ~handleNewOrder /\ ~handleOrderCancel /\ ~EngineRuns /\ ~ReportOrder
    <3>1. UNCHANGED vars /\ processing' = processing
      BY <2>6 DEF Server, Select, SelectAndAccept, ReceiveSome, Disconnect,
                  NothingToHandle, handleLogin, Ignored, handleSubscriptionRequest,
                  handleMarketDataRequest, ReportCrashes, Handled, gatewayVars
    <3> QED
      BY <3>1 DEF GInv, vars, Idle
  <2> QED
    BY <2>1, <2>2, <2>3, <2>4, <2>5, <2>6 DEF GatewayNext
<1> QED
  BY <1>2, <1>3, <1>4, <1>5 DEF GInv

-----------------------------------------------------------------------------
(***************************************************************************)
(* The theorems.                                                           *)
(***************************************************************************)
\* The invariant holds in every behaviour of the server.
THEOREM GatewayInvariance == GatewaySpec => []GInv
  BY InitGInv, NextGInv, PTL DEF GatewaySpec

\* Every variable of the server keeps its type, there is a session for every
\* descriptor that is polled and for no other, and an order is in the engine's
\* hands only while the packet that brought it is in front of its buffer.
THEOREM GatewayTypeCorrectness == GatewaySpec => []GatewayTypeOK
<1>1. GInv => GatewayTypeOK
  BY DEF GInv, ServerInv, ServerTypes, GatewayTypeOK
<1> QED
  BY <1>1, GatewayInvariance, PTL

\* A descriptor is used again by another connection, and what was subscribed
\* by it goes with the connection: only logged in clients are subscribed.
THEOREM OnlyLoggedInSubscribe == GatewaySpec => []SubscribersAreLoggedIn
<1>1. GInv => SubscribersAreLoggedIn
  BY DEF GInv, ServerInv
<1> QED
  BY <1>1, GatewayInvariance, PTL

\* However recv cuts the stream of a connection, what is handled and taken
\* off the buffer is the next message: none is lost, doubled or out of order.
THEOREM StreamIsKept == GatewaySpec => []StreamInOrder
<1>1. GInv => StreamInOrder
  BY ServerStream DEF GInv
<1> QED
  BY <1>1, GatewayInvariance, PTL

\* Under any clients that use an order id once, the engine behind the server
\* does what the specification of the engine allows, and nothing else.
THEOREM EngineUnderServer == GatewaySpec => EngineAsSpecified
<1>1. GatewayInit => Init
  BY DEF GatewayInit
<1> QED
  BY <1>1, InitGInv, NextGInv, PTL DEF GatewaySpec, EngineAsSpecified, Spec

\* So the engine keeps its promises there: it is the exchange of the abstract
\* specification, what its orders count as filled is what was traded, and what
\* is quoted is what can be cancelled.
THEOREM PromisesAreKept ==
    GatewaySpec =>
        /\ RefinesExchange
        /\ [](PoolSafety /\ NotCrossed)
        /\ []FilledMatchesHistory
        /\ []QuotesMatchLiveOrders
<1>1. Spec => [](PoolSafety /\ NotCrossed)
  <2>1. IInv => PoolSafety /\ NotCrossed
    BY DEF IInv
  <2> QED
    BY <2>1, Invariance, PTL
<1> QED
  BY <1>1, EngineUnderServer, EngineImplementsExchange, FillsAreReported, QuotesAreRight, PTL
     DEF EngineAsSpecified
=============================================================================
