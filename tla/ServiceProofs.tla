---------------------------- MODULE ServiceProofs ----------------------------
(***************************************************************************)
(* The gRPC gateway, for any number of worker threads, users and calls:    *)
(* what the unlocked counter, dict and list of gateway.py guarantee in     *)
(* every interleaving of its threads.                                      *)
(***************************************************************************)
EXTENDS GatewayService, FiniteSetTheorems, WellFoundedInduction, TLAPS

-----------------------------------------------------------------------------
(***************************************************************************)
(* Types.                                                                  *)
(***************************************************************************)
Lines == {"load", "store", "return", "send", "test", "create", "lookup", "take",
          "append", "get", "finally"}

Call == [at : Lines, active : BOOLEAN, counter : Nat, queue : Nat,
         rpc : Rpcs, user : Users, symbol : STRING]

\* A call is at a line of its own method.
InMethod(call) ==
    /\ call.at \in {"load", "store", "return"} => call.rpc = "PlaceOrder"
    /\ call.at \in {"test", "create", "lookup", "take"} => call.rpc = "StreamExecutions"
    /\ call.at \in {"append", "get", "finally"} =>
          call.rpc \in {"StreamMarketData", "RequestMarketDataSnapshot"}
    /\ call.at = "send" => call.rpc # "StreamExecutions"

Report == [type : {"REPORT"}, user : Users, report : Nat]
Shown == [type : {"SNAPSHOT"}, symbol : STRING]

Broadcast == [at : {"broadcast"}, symbol : STRING, next : Nat \ {0}, audience : SUBSET Nat,
              served : Seq(Nat), left : Nat]
Delivery == [at : {"test", "create", "lookup"}, user : Users, report : Nat]
Put == [at : {"put"}, user : Users, report : Nat, queue : Nat]

Made == 1 .. Len(queues)

ThreadTypes ==
    /\ DOMAIN thread = Workers
    /\ thread = [w \in Workers |-> thread[w]]
    /\ \A w \in Workers :
          thread[w] = IdleThread \/ (thread[w] \in Call /\ InMethod(thread[w]))

QueueTypes ==
    /\ queues \in Seq(Seq(Nat \cup STRING))
    /\ DOMAIN user_queues \subseteq Users
    /\ \A user \in DOMAIN user_queues : user_queues[user] \in Made
    /\ md_streams \in Seq(Made)

ServiceTypes ==
    /\ waiting \in Seq(Calls)
    /\ ThreadTypes
    /\ listener \in {AtRecv, [at |-> "stopped"]} \cup Broadcast \cup Delivery \cup Put
    /\ order_id_counter \in Nat
    /\ QueueTypes
    /\ from_ome \in Seq(Report \cup Shown)
    /\ subscribed \subseteq STRING /\ booked \subseteq STRING
    /\ ids \in Seq(Nat)
    /\ reported \in [Users -> Nat]
    /\ yielded \in [Users -> Seq(Nat \cup STRING)]

-----------------------------------------------------------------------------
(***************************************************************************)
(* get_order_id.                                                           *)
(***************************************************************************)
Counting(w) == thread[w].at \in {"store", "return"}

CounterKept ==
    /\ \A w \in Workers : At(w, "store") => thread[w].counter = order_id_counter
    /\ \A w \in Workers : At(w, "return") =>
          \A i \in DOMAIN ids : ids[i] # order_id_counter
    /\ \A v, w \in Workers : Counting(v) /\ Counting(w) => v = w
    /\ \A i \in DOMAIN ids : ids[i] <= order_id_counter
    /\ IsInjective(ids)

-----------------------------------------------------------------------------
(***************************************************************************)
(* Who uses which queue.                                                   *)
(***************************************************************************)
\* A worker between its append to md_streams and its remove.
Listening(w) ==
    \/ thread[w].at \in {"get", "finally"}
    \/ At(w, "send") /\ thread[w].rpc = "RequestMarketDataSnapshot"

StreamsListed ==
    /\ IsInjective(md_streams)
    /\ \A w \in Workers : Listening(w) => thread[w].queue \in ToSet(md_streams)
    /\ \A v, w \in Workers :
          Listening(v) /\ Listening(w) /\ thread[v].queue = thread[w].queue => v = w

\* The queue is the one of the user, or was when a thread looked it up.
Uses(user, queue) ==
    \/ user \in DOMAIN user_queues /\ user_queues[user] = queue
    \/ \E w \in Workers : At(w, "take") /\ thread[w].user = user /\ thread[w].queue = queue
    \/ listener.at = "put" /\ listener.user = user /\ listener.queue = queue

QueuesAreOwned ==
    \A queue \in Nat :
        /\ \A user \in Users : Uses(user, queue) =>
              queue \in Made /\ queue \notin ToSet(md_streams)
        /\ \A user, other \in Users : Uses(user, queue) /\ Uses(other, queue) => user = other

-----------------------------------------------------------------------------
(***************************************************************************)
(* Reports on their way.                                                   *)
(***************************************************************************)
Holds(user) == listener.at \in {"test", "create", "lookup", "put"} /\ listener.user = user

\* The reports to a user that come after position i.
Behind(messages, user, i) ==
    {k \in DOMAIN messages :
        k > i /\ messages[k].type = "REPORT" /\ messages[k].user = user}

ReportsNumbered ==
    /\ \A i \in DOMAIN from_ome : from_ome[i].type = "REPORT" =>
          from_ome[i].report + Cardinality(Behind(from_ome, from_ome[i].user, i)) =
              reported[from_ome[i].user]
    /\ \A user \in Users : Holds(user) =>
          listener.report + ReportsIn(from_ome, user) = reported[user]
    /\ \A user \in Users : Handed(user) \in Nat

-----------------------------------------------------------------------------
(***************************************************************************)
(* handle_execution and StreamExecutions.                                  *)
(***************************************************************************)
QueueIsThere ==
    /\ \A w \in Workers : thread[w].at \in {"lookup", "take"} => thread[w].user \in DOMAIN user_queues
    /\ listener.at \in {"lookup", "put"} => listener.user \in DOMAIN user_queues

\* Who has looked up a queue of a user that no stream has replaced has the one
\* that the dict has now, or one that is empty and stays so.
QueueIsCurrent ==
    /\ \A w \in Workers : At(w, "take") /\ thread[w].user \notin replaced =>
          thread[w].queue = user_queues[thread[w].user] \/ queues[thread[w].queue] = << >>
    /\ listener.at = "put" /\ listener.user \notin replaced =>
          listener.queue = user_queues[listener.user]
    /\ listener.at = "create" /\ listener.user \notin replaced =>
          Waits(listener.user) = << >>

-----------------------------------------------------------------------------
(***************************************************************************)
(* handle_snapshot.                                                        *)
(***************************************************************************)
From(list, n) == {list[i] : i \in {j \in DOMAIN list : j >= n}}

ToCome == From(md_streams, listener.next)

Lost == listener.audience \ (ToSet(listener.served) \cup ToCome)

BroadcastKept ==
    listener.at = "broadcast" =>
        /\ IsFiniteSet(listener.audience)
        /\ listener.audience \subseteq Made /\ ToSet(listener.served) \subseteq Made
        /\ IsInjective(listener.served)
        /\ ToSet(listener.served) \cap ToCome = {}
        /\ Cardinality(Lost) <= listener.left

-----------------------------------------------------------------------------
SInv ==
    /\ ServiceTypes
    /\ raced \/ CounterKept
    /\ StreamsListed
    /\ QueuesAreOwned
    /\ ReportsNumbered
    /\ QueueIsThere
    /\ QueueIsCurrent
    /\ ReportsInOrder
    /\ BroadcastKept

-----------------------------------------------------------------------------
(***************************************************************************)
(* What the operators do.                                                  *)
(***************************************************************************)
\* A new queue is empty, is the user's, and disturbs no other.
LEMMA NewQueueLemma ==
    ASSUME NEW user \in Users, QueueTypes, NewUserQueue(user)
    PROVE  /\ Len(queues') = Len(queues) + 1
           /\ queues' \in Seq(Seq(Nat \cup STRING))
           /\ queues'[Len(queues) + 1] = << >>
           /\ \A q \in Made : queues'[q] = queues[q]
           /\ DOMAIN user_queues' = DOMAIN user_queues \cup {user}
           /\ user_queues'[user] = Len(queues) + 1
           /\ \A other \in DOMAIN user_queues : other # user =>
                 user_queues'[other] = user_queues[other]
<1>1. Len(queues) \in Nat /\ << >> \in Seq(Nat \cup STRING)
  BY DEF QueueTypes
<1>2. queues' = Append(queues, << >>)
  BY DEF NewUserQueue
<1>3. Len(queues') = Len(queues) + 1
  BY <1>1, <1>2 DEF QueueTypes
<1>4. user_queues' = [u \in {user} \cup DOMAIN user_queues |->
                         IF u = user THEN Len(queues') ELSE user_queues[u]]
  BY DEF NewUserQueue
<1>5. DOMAIN user_queues' = DOMAIN user_queues \cup {user}
  BY <1>4
<1>6. user_queues'[user] = Len(queues) + 1
  BY <1>3, <1>4
<1>7. \A other \in DOMAIN user_queues : other # user => user_queues'[other] = user_queues[other]
  BY <1>4
<1> QED
  BY <1>1, <1>2, <1>3, <1>5, <1>6, <1>7 DEF Made, QueueTypes

\* One queue is given other contents.
LEMMA ContentsLemma ==
    ASSUME QueueTypes, NEW queue \in Made, NEW contents \in Seq(Nat \cup STRING),
           queues' = [queues EXCEPT ![queue] = contents]
    PROVE  /\ Len(queues') = Len(queues)
           /\ queues' \in Seq(Seq(Nat \cup STRING))
           /\ queues'[queue] = contents
           /\ \A q \in Made : q # queue => queues'[q] = queues[q]
  BY DEF QueueTypes, Made

\* remove takes one element out of a list without doubles.
LEMMA RemoveLemma ==
    ASSUME NEW T, NEW s \in Seq(T), NEW e, e \in ToSet(s),
           NEW r, r = RemoveFirst(s, e)
    PROVE  /\ r \in Seq(T)
           /\ Len(r) = Len(s) - 1
           /\ \E p \in 1 .. Len(s) :
                 /\ s[p] = e
                 /\ \A i \in 1 .. p - 1 : r[i] = s[i]
                 /\ \A i \in p .. Len(s) - 1 : r[i] = s[i + 1]
<1> DEFINE I == {i \in 1 .. Len(s) : s[i] = e}
           p == Min(I)
<1>1. I # {} /\ I \subseteq Nat /\ Len(s) \in Nat
  BY DEF ToSet
<1>2. \E x \in I : \A y \in I : x <= y
  <2> HIDE DEF I
  <2> DEFINE R == {ss \in Nat \X Nat : ss[1] < ss[2]}
  <2>1. IsWellFoundedOn(R, Nat)
    BY NatLessThanWellFounded DEF OpToRel
  <2>2. PICK x \in I : \A y \in I : ~(<< y, x >> \in R)
    <3> HIDE DEF R
    <3> QED  BY <1>1, <2>1, WFMin
  <2>3. \A y \in I : y < x => << y, x >> \in R
    BY <1>1
  <2>4. \A y \in I : y \in Nat /\ ~(y < x)
    BY <1>1, <2>2, <2>3
  <2> HIDE DEF R
  <2> QED
    BY <2>4
<1>3. p \in I
  <2> HIDE DEF I
  <2> QED  BY <1>2 DEF Min
<1>4. r = RemoveAt(s, p)
  BY <1>1 DEF RemoveFirst, SelectInSeq
<1>5. p \in 1 .. Len(s) /\ s[p] = e
  BY <1>3
<1> HIDE DEF I, p
<1> DEFINE a == SubSeq(s, 1, p - 1)
           b == SubSeq(s, p + 1, Len(s))
<1>6. /\ a \in Seq(T) /\ Len(a) = p - 1
      /\ \A i \in 1 .. p - 1 : a[i] = s[i]
  BY <1>1, <1>5
<1>7. /\ b \in Seq(T) /\ Len(b) = Len(s) - p
      /\ \A i \in 1 .. Len(s) - p : b[i] = s[p + i]
  BY <1>1, <1>5
<1>8. r = a \o b
  BY <1>4 DEF RemoveAt
<1> HIDE DEF a, b
<1>9. r \in Seq(T) /\ Len(r) = Len(s) - 1
  BY <1>1, <1>5, <1>6, <1>7, <1>8
<1>10. \A i \in 1 .. p - 1 : r[i] = s[i]
  BY <1>1, <1>5, <1>6, <1>7, <1>8
<1>11. \A i \in p .. Len(s) - 1 : r[i] = s[i + 1]
  <2> TAKE i \in p .. Len(s) - 1
  <2>1. i \in 1 .. Len(a) + Len(b) /\ ~(i <= Len(a)) /\ i - Len(a) = i - p + 1
    BY <1>1, <1>5, <1>6, <1>7
  <2>2. r[i] = b[i - p + 1]
    BY <2>1, <1>6, <1>7, <1>8
  <2>3. i - p + 1 \in 1 .. Len(s) - p /\ p + (i - p + 1) = i + 1
    BY <1>1, <1>5
  <2> QED
    BY <2>2, <2>3, <1>7
<1> QED
  BY <1>5, <1>9, <1>10, <1>11

\* A snapshot or none.
LEMMA SnapshotsLemma ==
    ASSUME NEW symbol \in STRING, NEW X
    PROVE  Snapshots({symbol} \cap X) \in Seq(Shown)
<1> DEFINE S == {[type |-> "SNAPSHOT", symbol |-> x] : x \in {symbol} \cap X}
<1>1. S \subseteq Shown
  BY DEF Shown
<1>2. IsFiniteSet(S)
  <2>1. S = {} \/ S = {[type |-> "SNAPSHOT", symbol |-> symbol]}
    OBVIOUS
  <2> HIDE DEF S
  <2> QED  BY <2>1, FS_EmptySet, FS_Singleton
<1>3. Snapshots({symbol} \cap X) = SetToSeq(S)
  BY DEF Snapshots
<1> HIDE DEF S
<1>4. ExistsBijection(1 .. Cardinality(S), S) /\ Cardinality(S) \in Nat
  BY <1>2, FS_CardinalityType
<1>5. \E f \in [1 .. Cardinality(S) -> S] : IsInjective(f)
  BY <1>4 DEF ExistsBijection, Bijection, Injection, Surjection, IsInjective
<1>6. SetToSeq(S) \in [1 .. Cardinality(S) -> S]
  BY <1>5 DEF SetToSeq
<1> QED
  BY <1>1, <1>3, <1>4, <1>6

-----------------------------------------------------------------------------
(***************************************************************************)
(* Counting the reports on their way.                                      *)
(***************************************************************************)
Messages == Report \cup Shown

LEMMA BehindFinite ==
    ASSUME NEW s \in Seq(Messages), NEW user, NEW i
    PROVE  /\ IsFiniteSet(Behind(s, user, i))
           /\ Cardinality(Behind(s, user, i)) \in Nat
<1>1. Behind(s, user, i) \in SUBSET (1 .. Len(s)) /\ Len(s) \in Nat
  BY DEF Behind
<1>2. IsFiniteSet(1 .. Len(s))
  BY <1>1, FS_Interval
<1>3. IsFiniteSet(Behind(s, user, i))
  BY <1>1, <1>2, FS_Subset
<1> QED
  BY <1>3, FS_CardinalityType

LEMMA ReportsBehind ==
    ASSUME NEW s \in Seq(Messages), NEW user
    PROVE  ReportsIn(s, user) = Cardinality(Behind(s, user, 0))
<1>1. {i \in DOMAIN s : s[i].type = "REPORT" /\ s[i].user = user} = Behind(s, user, 0)
  BY DEF Behind
<1> QED
  BY <1>1 DEF ReportsIn

\* Places moved by n are as many.
LEMMA ShiftLemma ==
    ASSUME NEW S, IsFiniteSet(S), S \subseteq Int, NEW n \in Int,
           NEW V, \A k \in Int : k \in V <=> k + n \in S, V \subseteq Int
    PROVE  IsFiniteSet(V) /\ Cardinality(V) = Cardinality(S)
<1> DEFINE f == [k \in S |-> k - n]
<1>1. f \in [S -> V]
  OBVIOUS
<1>2. \A a, b \in S : f[a] = f[b] => a = b
  OBVIOUS
<1>3. \A v \in V : \E k \in S : f[k] = v
  <2> TAKE v \in V
  <2>1. v + n \in S /\ f[v + n] = v
    OBVIOUS
  <2> QED  BY <2>1
<1>4. f \in Bijection(S, V)
  <2> HIDE DEF f
  <2> QED  BY <1>1, <1>2, <1>3 DEF Bijection, Injection, Surjection, IsInjective
<1>5. ExistsBijection(S, V)
  BY <1>4 DEF ExistsBijection
<1> QED
  BY <1>5, FS_Bijection

\* What is appended is no report to the user.
LEMMA AppendOthers ==
    ASSUME NEW s \in Seq(Messages), NEW t \in Seq(Messages), NEW user, NEW i,
           \A k \in DOMAIN t : ~(t[k].type = "REPORT" /\ t[k].user = user)
    PROVE  Behind(s \o t, user, i) = Behind(s, user, i)
<1>1. /\ DOMAIN (s \o t) = 1 .. Len(s) + Len(t)
      /\ \A k \in 1 .. Len(s) : (s \o t)[k] = s[k]
      /\ \A k \in 1 .. Len(s) + Len(t) : k > Len(s) => (s \o t)[k] = t[k - Len(s)]
      /\ DOMAIN s = 1 .. Len(s) /\ DOMAIN t = 1 .. Len(t)
      /\ Len(s) \in Nat /\ Len(t) \in Nat
  OBVIOUS
<1> DEFINE st == s \o t
<1> HIDE DEF st
<1>2. \A k \in 1 .. Len(s) + Len(t) : k > Len(s) => k - Len(s) \in 1 .. Len(t)
  BY <1>1
<1>3. \A k \in 1 .. Len(s) + Len(t) : k > Len(s) =>
         ~(st[k].type = "REPORT" /\ st[k].user = user)
  BY <1>1, <1>2 DEF st
<1>4. \A k \in 1 .. Len(s) + Len(t) : k > Len(s) \/ k \in 1 .. Len(s)
  BY <1>1
<1>5. \A k \in 1 .. Len(s) : k \in 1 .. Len(s) + Len(t)
  BY <1>1
<1>6. DOMAIN st = 1 .. Len(s) + Len(t) /\ \A k \in 1 .. Len(s) : st[k] = s[k]
  BY <1>1 DEF st
<1>7. Behind(st, user, i) = Behind(s, user, i)
  BY <1>1, <1>3, <1>4, <1>5, <1>6 DEF Behind
<1> QED
  BY <1>7 DEF st

\* One report to the user is appended.
LEMMA AppendReport ==
    ASSUME NEW s \in Seq(Messages), NEW m \in Report, NEW i \in 0 .. Len(s)
    PROVE  /\ Cardinality(Behind(Append(s, m), m.user, i)) = Cardinality(Behind(s, m.user, i)) + 1
           /\ Behind(Append(s, m), m.user, Len(s) + 1) = {}
<1> DEFINE u == m.user
           n == Len(s)
           t == Append(s, m)
<1>1. n \in Nat /\ DOMAIN s = 1 .. n /\ DOMAIN t = 1 .. n + 1 /\ t[n + 1] = m
      /\ \A k \in 1 .. n : t[k] = s[k]
  BY DEF Messages
<1>2. m.type = "REPORT"
  BY DEF Report
<1> HIDE DEF t, n, u
<1>3. i \in Int /\ i < n + 1
  BY <1>1 DEF n
<1>4. \A k \in 1 .. n + 1 : k = n + 1 \/ k \in 1 .. n
  BY <1>1
<1>5. \A k \in 1 .. n : k \in 1 .. n + 1
  BY <1>1
<1>6. n + 1 \in 1 .. n + 1
  BY <1>1
<1>7. Behind(t, u, i) = Behind(s, u, i) \cup {n + 1}
  BY <1>1, <1>2, <1>3, <1>4, <1>5, <1>6 DEF Behind, u
<1>8. n + 1 \notin Behind(s, u, i)
  BY <1>1 DEF Behind
<1>9. IsFiniteSet(Behind(s, u, i))
  BY BehindFinite
<1>10. Cardinality(Behind(t, u, i)) = Cardinality(Behind(s, u, i)) + 1
  BY <1>7, <1>8, <1>9, FS_AddElement
<1>11. \A k \in 1 .. n + 1 : ~(k > n + 1)
  BY <1>1
<1>12. Behind(t, u, n + 1) = {}
  BY <1>1, <1>11 DEF Behind
<1> QED
  BY <1>10, <1>12 DEF t, u, n

\* The first message is taken.
LEMMA TailBehind ==
    ASSUME NEW s \in Seq(Messages), s # << >>, NEW user, NEW i \in Nat
    PROVE  Cardinality(Behind(Tail(s), user, i)) = Cardinality(Behind(s, user, i + 1))
<1>1. /\ Len(s) \in Nat \ {0} /\ DOMAIN s = 1 .. Len(s)
      /\ DOMAIN Tail(s) = 1 .. Len(s) - 1
      /\ \A k \in 1 .. Len(s) - 1 : Tail(s)[k] = s[k + 1]
  OBVIOUS
<1> DEFINE t == Tail(s)
           V == Behind(t, user, i)
           S == Behind(s, user, i + 1)
<1> HIDE DEF t
<1>2. V \subseteq Int /\ S \subseteq Int
  BY <1>1 DEF Behind, t
<1>3. ASSUME NEW k \in Int
      PROVE  k \in V <=> k + 1 \in S
  <2>1. k + 1 \in DOMAIN s /\ k + 1 > i + 1 <=> k \in DOMAIN t /\ k > i
    BY <1>1 DEF t
  <2>2. k \in DOMAIN t => t[k] = s[k + 1]
    BY <1>1 DEF t
  <2> QED
    BY <2>1, <2>2 DEF Behind
<1>4. IsFiniteSet(S)
  BY BehindFinite
<1>5. Cardinality(V) = Cardinality(S)
  <2> HIDE DEF V, S
  <2>1. \A k \in Int : k \in V <=> k + 1 \in S
    BY <1>3
  <2> QED  BY 1 \in Int, <1>2, <2>1, <1>4, ShiftLemma
<1> QED
  BY <1>5 DEF V, S, t

\* The first message counts if it is a report to the user.
LEMMA HeadBehind ==
    ASSUME NEW s \in Seq(Messages), s # << >>, NEW user
    PROVE  Cardinality(Behind(s, user, 0)) =
              Cardinality(Behind(s, user, 1))
                + (IF Head(s).type = "REPORT" /\ Head(s).user = user THEN 1 ELSE 0)
<1>1. Len(s) \in Nat \ {0} /\ DOMAIN s = 1 .. Len(s) /\ Head(s) = s[1] /\ 1 \in DOMAIN s
  OBVIOUS
<1>2. 1 \notin Behind(s, user, 1) /\ IsFiniteSet(Behind(s, user, 1))
      /\ Cardinality(Behind(s, user, 1)) \in Nat
  <2>1. 1 \notin Behind(s, user, 1)
    BY DEF Behind
  <2> QED  BY <2>1, BehindFinite
<1>3. \A k \in 1 .. Len(s) : k > 0 /\ (k = 1 \/ k > 1)
  BY <1>1
<1>4. CASE Head(s).type = "REPORT" /\ Head(s).user = user
  <2>1. Behind(s, user, 0) = Behind(s, user, 1) \cup {1}
    BY <1>1, <1>3, <1>4 DEF Behind
  <2> QED
    BY <2>1, <1>2, <1>4, FS_AddElement
<1>5. CASE ~(Head(s).type = "REPORT" /\ Head(s).user = user)
  <2>1. Behind(s, user, 0) = Behind(s, user, 1)
    BY <1>1, <1>3, <1>5 DEF Behind
  <2> QED
    BY <2>1, <1>2, <1>5
<1> QED
  BY <1>4, <1>5

\* A sequence is cut.
LEMMA CutBehind ==
    ASSUME NEW s \in Seq(Messages), NEW n \in 0 .. Len(s), NEW user, NEW i \in 0 .. n
    PROVE  Cardinality(Behind(s, user, i)) =
              Cardinality(Behind(SubSeq(s, 1, n), user, i))
                + Cardinality(Behind(SubSeq(s, n + 1, Len(s)), user, 0))
<1> DEFINE a == SubSeq(s, 1, n)
           b == SubSeq(s, n + 1, Len(s))
           A == Behind(a, user, i)
           B == Behind(b, user, 0)
           C == Behind(s, user, n)
           S == Behind(s, user, i)
<1>1. /\ Len(s) \in Nat /\ n \in Nat /\ n <= Len(s) /\ DOMAIN s = 1 .. Len(s)
      /\ a \in Seq(Messages) /\ DOMAIN a = 1 .. n
      /\ \A k \in 1 .. n : a[k] = s[k]
      /\ b \in Seq(Messages) /\ DOMAIN b = 1 .. Len(s) - n
      /\ \A k \in 1 .. Len(s) - n : b[k] = s[n + k]
  OBVIOUS
<1> HIDE DEF a, b
<1>2. C \subseteq Int /\ B \subseteq Int /\ IsFiniteSet(C) /\ IsFiniteSet(A)
      /\ Cardinality(A) \in Nat /\ Cardinality(C) \in Nat
  <2>1. C \subseteq DOMAIN s /\ B \subseteq DOMAIN b
    BY DEF Behind
  <2>2. C \subseteq Int /\ B \subseteq Int
    BY <1>1, <2>1
  <2>3. IsFiniteSet(C) /\ Cardinality(C) \in Nat
    BY BehindFinite
  <2>4. IsFiniteSet(A) /\ Cardinality(A) \in Nat
    BY <1>1, BehindFinite
  <2> QED  BY <2>2, <2>3, <2>4
<1>3. ASSUME NEW k \in Int
      PROVE  k \in B <=> k + n \in C
  <2>1. k + n \in DOMAIN s /\ k + n > n <=> k \in DOMAIN b /\ k > 0
    BY <1>1
  <2>2. k \in DOMAIN b => b[k] = s[k + n]
    BY <1>1
  <2> QED
    BY <2>1, <2>2 DEF Behind
<1>4. S = A \cup C /\ A \cap C = {}
  <2>1. \A k \in 1 .. n : k \in 1 .. Len(s) /\ ~(k > n)
    BY <1>1
  <2>2. \A k \in 1 .. Len(s) : k > n \/ k \in 1 .. n
    BY <1>1
  <2>3. \A k \in 1 .. Len(s) : k > n => k > i
    BY <1>1
  <2>4. S = A \cup C
    BY <1>1, <2>1, <2>2, <2>3 DEF Behind
  <2>5. A \cap C = {}
    BY <1>1, <2>1 DEF Behind
  <2> QED
    BY <2>4, <2>5
<1> HIDE DEF A, B, C, S
<1>5. Cardinality(B) = Cardinality(C)
  <2>1. n \in Int /\ \A k \in Int : k \in B <=> k + n \in C
    BY <1>1, <1>3
  <2> QED  BY <1>2, <2>1, ShiftLemma
<1>6. Cardinality(S) = Cardinality(A) + Cardinality(C)
  <2>1. Cardinality(A \cap C) = 0
    BY <1>4, FS_EmptySet
  <2>2. Cardinality(A \cup C) = Cardinality(A) + Cardinality(C) - Cardinality(A \cap C)
    BY <1>2, FS_Union
  <2> QED  BY <1>2, <1>4, <2>1, <2>2
<1> QED
  BY <1>5, <1>6 DEF A, B, S, a, b

-----------------------------------------------------------------------------
(***************************************************************************)
(* Steps of one worker.                                                    *)
(***************************************************************************)
\* A worker that is in a call.
LEMMA BusyLemma ==
    ASSUME ThreadTypes, NEW w \in Workers, Busy(w)
    PROVE  thread[w] \in Call /\ InMethod(thread[w])
  BY DEF ThreadTypes, Busy, IdleThread

\* Worker w becomes r.
LEMMA MovesLemma ==
    ASSUME ThreadTypes, NEW w \in Workers, NEW r,
           r = IdleThread \/ (r \in Call /\ InMethod(r)),
           thread' = [thread EXCEPT ![w] = r]
    PROVE  ThreadTypes' /\ thread'[w] = r /\ \A v \in Workers : v # w => thread'[v] = thread[v]
  BY DEF ThreadTypes

\* Worker w goes to a line of its method.
LEMMA GoesLemma ==
    ASSUME ThreadTypes, NEW w \in Workers, Busy(w), NEW line \in Lines, Goes(w, line),
           InMethod([thread[w] EXCEPT !.at = line])
    PROVE  /\ ThreadTypes'
           /\ thread'[w].at = line
           /\ thread'[w].active = thread[w].active
           /\ thread'[w].counter = thread[w].counter
           /\ thread'[w].queue = thread[w].queue
           /\ thread'[w].rpc = thread[w].rpc
           /\ thread'[w].user = thread[w].user
           /\ thread'[w].symbol = thread[w].symbol
           /\ \A v \in Workers : v # w => thread'[v] = thread[v]
<1> DEFINE r == [thread[w] EXCEPT !.at = line]
<1>1. thread[w] \in Call
  BY BusyLemma
<1>2. /\ r \in Call /\ r.at = line /\ r.active = thread[w].active
      /\ r.counter = thread[w].counter /\ r.queue = thread[w].queue
      /\ r.rpc = thread[w].rpc /\ r.user = thread[w].user /\ r.symbol = thread[w].symbol
  BY <1>1 DEF Call
<1>3. thread' = [thread EXCEPT ![w] = r]
  BY DEF Goes
<1> HIDE DEF r
<1>4. InMethod(r)
  BY DEF r
<1>5. ThreadTypes' /\ thread'[w] = r /\ \A v \in Workers : v # w => thread'[v] = thread[v]
  BY <1>2, <1>3, <1>4, MovesLemma
<1> QED
  BY <1>2, <1>5

\* Worker w ends its call.
LEMMA EndsLemma ==
    ASSUME ThreadTypes, NEW w \in Workers, Ends(w)
    PROVE  /\ ThreadTypes'
           /\ thread'[w].at = "idle"
           /\ \A v \in Workers : v # w => thread'[v] = thread[v]
<1>1. thread' = [thread EXCEPT ![w] = IdleThread]
  BY DEF Ends
<1>2. ThreadTypes' /\ thread'[w] = IdleThread /\ \A v \in Workers : v # w => thread'[v] = thread[v]
  BY <1>1, MovesLemma
<1> QED
  BY <1>2 DEF IdleThread

-----------------------------------------------------------------------------
(***************************************************************************)
(* What leaves a part of the invariant alone.                              *)
(***************************************************************************)
LEMMA CounterFrame ==
    ASSUME raced \/ CounterKept,
           \A v \in Workers : thread'[v].at \in {"store", "return"} =>
               /\ thread[v].at = thread'[v].at
               /\ thread[v].counter = thread'[v].counter,
           UNCHANGED << order_id_counter, ids, raced >>
    PROVE  raced' \/ CounterKept'
  BY DEF CounterKept, Counting, At

LEMMA StreamsFrame ==
    ASSUME StreamsListed, md_streams' = md_streams,
           \A v \in Workers : Listening(v)' =>
               Listening(v) /\ thread[v].queue = thread'[v].queue
    PROVE  StreamsListed'
<1>1. IsInjective(md_streams)'
  BY DEF StreamsListed
<1>2. \A v \in Workers : Listening(v)' => thread'[v].queue \in ToSet(md_streams)
  BY DEF StreamsListed
<1>3. \A v, w \in Workers :
          Listening(v)' /\ Listening(w)' /\ thread'[v].queue = thread'[w].queue => v = w
  BY DEF StreamsListed
<1> QED
  BY <1>1, <1>2, <1>3 DEF StreamsListed

LEMMA OwnedFrame ==
    ASSUME QueuesAreOwned, Made \subseteq Made',
           \A q \in Made : q \in ToSet(md_streams') => q \in ToSet(md_streams),
           \A q \in Nat : \A user \in Users : Uses(user, q)' => Uses(user, q)
    PROVE  QueuesAreOwned'
<1> SUFFICES ASSUME NEW q \in Nat
             PROVE  /\ \A user \in Users : Uses(user, q)' =>
                          q \in Made' /\ q \notin ToSet(md_streams')
                    /\ \A user, other \in Users :
                          Uses(user, q)' /\ Uses(other, q)' => user = other
  BY DEF QueuesAreOwned
<1> QED
  BY DEF QueuesAreOwned

LEMMA NumberedFrame ==
    ASSUME ReportsNumbered, from_ome' = from_ome, reported' = reported,
           \A user \in Users : Holds(user)' <=> Holds(user),
           \A user \in Users : Holds(user) => listener'.report = listener.report
    PROVE  /\ ReportsNumbered'
           /\ \A user \in Users : Handed(user)' = Handed(user)
<1>1. \A user \in Users : Handed(user)' = Handed(user)
  BY DEF Handed, Holds
<1>2. \A user \in Users : Handed(user)' \in Nat
  BY <1>1 DEF ReportsNumbered
<1>3. \A user \in Users : Holds(user)' =>
          listener'.report + ReportsIn(from_ome', user) = reported'[user]
  BY DEF ReportsNumbered
<1> QED
  BY <1>1, <1>2, <1>3 DEF ReportsNumbered

LEMMA BroadcastFrame ==
    ASSUME BroadcastKept, listener' = listener, md_streams' = md_streams, Made \subseteq Made'
    PROVE  BroadcastKept'
<1>1. ToCome' = ToCome
  BY DEF ToCome
<1>2. Lost' = Lost
  BY <1>1 DEF Lost
<1> QED
  BY <1>1, <1>2 DEF BroadcastKept

\* Nothing of what the threads share about queues changes.
LEMMA QuietStep ==
    ASSUME SInv, ServiceTypes',
           UNCHANGED << listener, queues, user_queues, md_streams, replaced, yielded >>,
           raced' \/ CounterKept', ReportsNumbered',
           \A user \in Users : Handed(user)' = Handed(user),
           \A v \in Workers : Listening(v)' => Listening(v) /\ thread[v].queue = thread'[v].queue,
           \A v \in Workers : thread'[v].at \in {"lookup", "take"} =>
               thread'[v].user \in DOMAIN user_queues,
           \A v \in Workers : thread'[v].at = "take" =>
               \/ thread'[v].queue = user_queues[thread'[v].user]
               \/ /\ thread[v].at = "take" /\ thread'[v].user = thread[v].user
                  /\ thread'[v].queue = thread[v].queue
    PROVE  SInv'
<1>1. StreamsListed'
  BY StreamsFrame DEF SInv
<1>2. Made' = Made
  BY DEF Made
<1>3. \A q \in Nat : \A user \in Users : Uses(user, q)' => Uses(user, q)
  BY DEF Uses, At
<1>4. QueuesAreOwned'
  BY <1>2, <1>3, OwnedFrame DEF SInv
<1>5. BroadcastKept'
  BY <1>2, BroadcastFrame DEF SInv
<1>6. QueueIsThere'
  BY DEF SInv, QueueIsThere
<1>7. QueueIsCurrent'
  BY DEF SInv, QueueIsCurrent, At, Waits
<1>8. ReportsInOrder'
  BY DEF SInv, ReportsInOrder, Waits
<1> QED
  BY <1>1, <1>4, <1>5, <1>6, <1>7, <1>8 DEF SInv

-----------------------------------------------------------------------------
(***************************************************************************)
(* The steps that leave the queues alone.                                  *)
(***************************************************************************)
\* What is on its way stays as it is.
LEMMA SameTransit ==
    ASSUME SInv, UNCHANGED << listener, from_ome, reported >>
    PROVE  ReportsNumbered' /\ \A user \in Users : Handed(user)' = Handed(user)
  BY NumberedFrame DEF SInv, Holds

\* Nothing but a thread's own state changes.
LEMMA LocalStep ==
    ASSUME SInv, ThreadTypes', waiting' \in Seq(Calls),
           UNCHANGED << listener, shared, engine, history >>,
           \A v \in Workers : thread'[v].at \in {"store", "return"} =>
               /\ thread[v].at = thread'[v].at
               /\ thread[v].counter = thread'[v].counter,
           \A v \in Workers : Listening(v)' => Listening(v) /\ thread[v].queue = thread'[v].queue,
           \A v \in Workers : thread'[v].at \in {"lookup", "take"} =>
               thread'[v].user \in DOMAIN user_queues,
           \A v \in Workers : thread'[v].at = "take" =>
               \/ thread'[v].queue = user_queues[thread'[v].user]
               \/ /\ thread[v].at = "take" /\ thread'[v].user = thread[v].user
                  /\ thread'[v].queue = thread[v].queue
    PROVE  SInv'
<1>1. ServiceTypes'
  BY DEF SInv, ServiceTypes, QueueTypes, Made, shared, engine, history
<1>2. raced' \/ CounterKept'
  BY CounterFrame DEF SInv, shared, history
<1>3. ReportsNumbered' /\ \A user \in Users : Handed(user)' = Handed(user)
  BY SameTransit DEF engine
<1> QED
  BY <1>1, <1>2, <1>3, QuietStep DEF shared, history

LEMMA SubmitStep ==
    ASSUME SInv, NEW call \in Calls, Submit(call)
    PROVE  SInv'
<1>1. thread' = thread /\ UNCHANGED << listener, shared, engine, history >>
  BY DEF Submit
<1>2. waiting' \in Seq(Calls)
  BY DEF Submit, SInv, ServiceTypes
<1>3. ThreadTypes'
  BY <1>1 DEF SInv, ServiceTypes, ThreadTypes
<1>4. \A v \in Workers : thread[v].at \in {"lookup", "take"} => thread[v].user \in DOMAIN user_queues
  BY DEF SInv, QueueIsThere
<1>5. \A v \in Workers : Listening(v)' = Listening(v)
  BY <1>1 DEF Listening, At
<1> QED
  BY <1>1, <1>2, <1>3, <1>4, <1>5, LocalStep

\* What the invariant says of the workers at a queue of reports.
LEMMA LookingLemma ==
    ASSUME SInv, NEW v \in Workers, thread[v].at \in {"lookup", "take"}
    PROVE  thread[v].user \in DOMAIN user_queues
  BY DEF SInv, QueueIsThere

\* A worker that goes somewhere else than to get_order_id or a queue.
LEMMA PlainStep ==
    ASSUME SInv, NEW w \in Workers, ThreadTypes', waiting' \in Seq(Calls),
           UNCHANGED << listener, shared, engine, history >>,
           \A v \in Workers : v # w => thread'[v] = thread[v],
           thread'[w].at \notin {"store", "return"},
           Listening(w)' => Listening(w) /\ thread[w].queue = thread'[w].queue,
           thread'[w].at \in {"lookup", "take"} => thread'[w].user \in DOMAIN user_queues,
           thread'[w].at = "take" =>
               \/ thread'[w].queue = user_queues[thread'[w].user]
               \/ /\ thread[w].at = "take" /\ thread'[w].user = thread[w].user
                  /\ thread'[w].queue = thread[w].queue
    PROVE  SInv'
<1>1. \A v \in Workers : thread'[v].at \in {"store", "return"} =>
               /\ thread[v].at = thread'[v].at
               /\ thread[v].counter = thread'[v].counter
  OBVIOUS
<1>2. \A v \in Workers : Listening(v)' => Listening(v) /\ thread[v].queue = thread'[v].queue
  BY DEF Listening, At
<1>3. \A v \in Workers : thread'[v].at \in {"lookup", "take"} =>
               thread'[v].user \in DOMAIN user_queues
  BY LookingLemma
<1>4. \A v \in Workers : thread'[v].at = "take" =>
               \/ thread'[v].queue = user_queues[thread'[v].user]
               \/ /\ thread[v].at = "take" /\ thread'[v].user = thread[v].user
                  /\ thread'[v].queue = thread[v].queue
  OBVIOUS
<1> QED
  BY <1>1, <1>2, <1>3, <1>4, LocalStep

LEMMA TakeCallStep ==
    ASSUME SInv, NEW w \in Workers, TakeCall(w)
    PROVE  SInv'
<1> DEFINE call == Head(waiting)
           r == [at |-> FirstLine(call.rpc), active |-> TRUE, counter |-> 0, queue |-> NoQueue,
                 rpc |-> call.rpc, user |-> call.user, symbol |-> call.symbol]
<1>1. ThreadTypes /\ waiting \in Seq(Calls) /\ waiting # << >>
  BY DEF TakeCall, SInv, ServiceTypes
<1>2. call \in Calls /\ waiting' \in Seq(Calls)
  BY <1>1 DEF TakeCall
<1>3. call.rpc \in Rpcs /\ call.user \in Users /\ call.symbol \in STRING
  BY <1>2, ServiceAssumption
<1>4. UNCHANGED << listener, shared, engine, history >>
  BY DEF TakeCall
<1>5. CASE UNCHANGED thread
  <2>1. ThreadTypes' /\ \A v \in Workers : v # w => thread'[v] = thread[v]
    BY <1>1, <1>5 DEF ThreadTypes
  <2>2. thread'[w].at = "idle" /\ thread[w].at = "idle"
    BY <1>5 DEF TakeCall, At
  <2>3. ~Listening(w)'
    BY <2>2 DEF Listening, At
  <2> QED
    BY <1>2, <1>4, <2>1, <2>2, <2>3, PlainStep
<1>6. CASE thread' = [thread EXCEPT ![w] = r]
  <2>1. /\ FirstLine(call.rpc) \in {"load", "send", "test", "append"}
        /\ call.rpc = "PlaceOrder" => FirstLine(call.rpc) = "load"
        /\ call.rpc = "CancelOrder" => FirstLine(call.rpc) = "send"
        /\ call.rpc = "StreamExecutions" => FirstLine(call.rpc) = "test"
        /\ call.rpc = "StreamMarketData" => FirstLine(call.rpc) = "send"
        /\ call.rpc = "RequestMarketDataSnapshot" => FirstLine(call.rpc) = "append"
    BY <1>3 DEF FirstLine, Rpcs
  <2>2. r \in Call
    BY <1>3, <2>1 DEF Call, Lines, NoQueue
  <2>3. InMethod(r)
    BY <1>3, <2>1 DEF InMethod, Rpcs
  <2>4. r.at \in {"load", "send", "test", "append"} /\ ~(r.at = "send" /\ r.rpc = "RequestMarketDataSnapshot")
    BY <2>1
  <2> HIDE DEF r
  <2>5. ThreadTypes' /\ thread'[w] = r /\ \A v \in Workers : v # w => thread'[v] = thread[v]
    BY <1>1, <1>6, <2>2, <2>3, MovesLemma
  <2>6. ~Listening(w)' /\ thread'[w].at \notin {"store", "return", "lookup", "take"}
    BY <2>4, <2>5 DEF Listening, At
  <2> QED
    BY <1>2, <1>4, <2>5, <2>6, PlainStep
<1> QED
  BY <1>5, <1>6 DEF TakeCall

LEMMA HangUpStep ==
    ASSUME SInv, NEW w \in Workers, HangUp(w)
    PROVE  SInv'
<1> DEFINE r == [thread[w] EXCEPT !.active = FALSE]
<1>1. ThreadTypes /\ Busy(w) /\ thread[w].rpc \in Streams
  BY DEF HangUp, SInv, ServiceTypes
<1>2. thread[w] \in Call /\ InMethod(thread[w])
  BY <1>1, BusyLemma
<1>3. /\ r \in Call /\ r.at = thread[w].at /\ r.queue = thread[w].queue
      /\ r.rpc = thread[w].rpc /\ r.user = thread[w].user
  BY <1>2 DEF Call
<1>4. InMethod(r)
  BY <1>2, <1>3 DEF InMethod
<1>5. thread' = [thread EXCEPT ![w] = r]
  BY DEF HangUp
<1> HIDE DEF r
<1>6. ThreadTypes' /\ thread'[w] = r /\ \A v \in Workers : v # w => thread'[v] = thread[v]
  BY <1>1, <1>3, <1>4, <1>5, MovesLemma
<1>7. UNCHANGED << listener, shared, engine, history >> /\ waiting' \in Seq(Calls)
  BY DEF HangUp, SInv, ServiceTypes
<1>8. Listening(w)' => Listening(w)
  BY <1>3, <1>6 DEF Listening, At
<1>9. thread'[w].at \notin {"store", "return"}
  BY <1>1, <1>2, <1>3, <1>6 DEF InMethod, Streams
<1>10. thread'[w].at \in {"lookup", "take"} => thread'[w].user \in DOMAIN user_queues
  BY <1>3, <1>6, LookingLemma
<1> QED
  BY <1>3, <1>6, <1>7, <1>8, <1>9, <1>10, PlainStep

\* A worker that goes to a line of its method with all its locals.
LEMMA GoesStep ==
    ASSUME SInv, NEW w \in Workers, Busy(w), NEW line \in Lines \ {"store", "return"}, Goes(w, line),
           InMethod([thread[w] EXCEPT !.at = line]), waiting' = waiting,
           UNCHANGED << listener, shared, engine, history >>,
           line \in {"get", "finally"} \/ (line = "send" /\ thread[w].rpc = "RequestMarketDataSnapshot")
               => Listening(w),
           line = "lookup" => thread[w].user \in DOMAIN user_queues,
           line # "take"
    PROVE  SInv'
<1>1. ThreadTypes /\ waiting' \in Seq(Calls) /\ line \in Lines
  BY DEF SInv, ServiceTypes
<1>2. /\ ThreadTypes'
      /\ thread'[w].at = line
      /\ thread'[w].queue = thread[w].queue
      /\ thread'[w].rpc = thread[w].rpc
      /\ thread'[w].user = thread[w].user
      /\ \A v \in Workers : v # w => thread'[v] = thread[v]
  BY <1>1, GoesLemma
<1>3. Listening(w)' => Listening(w)
  BY <1>2 DEF Listening, At
<1> QED
  BY <1>1, <1>2, <1>3, PlainStep

\* A worker that ends its call.
LEMMA EndsStep ==
    ASSUME SInv, NEW w \in Workers, Ends(w), waiting' = waiting,
           UNCHANGED << listener, shared, engine, history >>
    PROVE  SInv'
<1>1. ThreadTypes /\ waiting' \in Seq(Calls)
  BY DEF SInv, ServiceTypes
<1>2. ThreadTypes' /\ thread'[w].at = "idle" /\ \A v \in Workers : v # w => thread'[v] = thread[v]
  BY <1>1, EndsLemma
<1>3. ~Listening(w)'
  BY <1>2 DEF Listening, At
<1> QED
  BY <1>1, <1>2, <1>3, PlainStep

\* A worker at a line is in a call, of that line's method.
LEMMA AtLemma ==
    ASSUME SInv, NEW w \in Workers, thread[w].at # "idle"
    PROVE  ThreadTypes /\ Busy(w) /\ thread[w] \in Call /\ InMethod(thread[w])
<1>1. ThreadTypes /\ Busy(w)
  BY DEF SInv, ServiceTypes, Busy
<1> QED
  BY <1>1, BusyLemma

\* What [call EXCEPT !.at = line] has to be at.
LEMMA LineLemma ==
    ASSUME NEW call \in Call, NEW line \in Lines,
           line \in {"load", "store", "return"} => call.rpc = "PlaceOrder",
           line \in {"test", "create", "lookup", "take"} => call.rpc = "StreamExecutions",
           line \in {"append", "get", "finally"} =>
              call.rpc \in {"StreamMarketData", "RequestMarketDataSnapshot"},
           line = "send" => call.rpc # "StreamExecutions"
    PROVE  InMethod([call EXCEPT !.at = line])
<1> DEFINE r == [call EXCEPT !.at = line]
<1>1. r.at = line /\ r.rpc = call.rpc
  BY DEF Call
<1> HIDE DEF r
<1>2. InMethod(r)
  BY <1>1 DEF InMethod
<1> QED
  BY <1>2 DEF r

LEMMA SendFailsStep ==
    ASSUME SInv, NEW w \in Workers, SendFails(w)
    PROVE  SInv'
<1>1. thread[w].at = "send" /\ thread[w].at # "idle"
  BY DEF SendFails, At
<1>2. ThreadTypes /\ Busy(w) /\ thread[w] \in Call /\ InMethod(thread[w])
  BY <1>1, AtLemma
<1>3. waiting' = waiting /\ UNCHANGED << listener, shared, engine, history >>
  BY DEF SendFails
<1>4. thread[w].rpc \in Rpcs /\ thread[w].rpc # "StreamExecutions"
  BY <1>1, <1>2 DEF Call, InMethod
<1>5. CASE Ends(w)
  BY <1>3, <1>5, EndsStep
<1>6. CASE thread[w].rpc = "StreamMarketData" /\ Goes(w, "append")
  <2>1. "append" \in Lines \ {"store", "return"} /\ "append" \in Lines
    BY DEF Lines
  <2>2. InMethod([thread[w] EXCEPT !.at = "append"])
    BY <1>2, <1>6, <2>1, LineLemma
  <2> QED
    BY <1>2, <1>3, <1>6, <2>1, <2>2, GoesStep
<1>7. CASE thread[w].rpc = "RequestMarketDataSnapshot" /\ (Goes(w, "finally") \/ Goes(w, "get"))
  <2>1. PICK line \in {"finally", "get"} : Goes(w, line)
    BY <1>7
  <2>2. line \in Lines \ {"store", "return"} /\ line \in Lines
    BY DEF Lines
  <2>3. InMethod([thread[w] EXCEPT !.at = line])
    BY <1>2, <1>7, <2>2, LineLemma
  <2>4. Listening(w)
    BY <1>1, <1>7 DEF Listening, At
  <2> QED
    BY <1>2, <1>3, <2>1, <2>2, <2>3, <2>4, GoesStep
<1> QED
  BY <1>4, <1>5, <1>6, <1>7 DEF SendFails, Rpcs

LEMMA TestQueueStep ==
    ASSUME SInv, NEW w \in Workers, TestQueue(w)
    PROVE  SInv'
<1>1. thread[w].at = "test" /\ thread[w].at # "idle"
  BY DEF TestQueue, At
<1>2. ThreadTypes /\ Busy(w) /\ thread[w] \in Call /\ InMethod(thread[w])
  BY <1>1, AtLemma
<1>3. waiting' = waiting /\ UNCHANGED << listener, shared, engine, history >>
  BY DEF TestQueue
<1>4. PICK line \in {"lookup", "create"} :
          Goes(w, line) /\ (line = "lookup" => thread[w].user \in DOMAIN user_queues)
  BY DEF TestQueue
<1>5. line \in Lines \ {"store", "return"} /\ line \in Lines
  BY DEF Lines
<1>6. InMethod([thread[w] EXCEPT !.at = line])
  BY <1>1, <1>2, <1>5, LineLemma DEF InMethod
<1> QED
  BY <1>2, <1>3, <1>4, <1>5, <1>6, GoesStep

LEMMA LookupQueueStep ==
    ASSUME SInv, NEW w \in Workers, LookupQueue(w)
    PROVE  SInv'
<1> DEFINE q == user_queues[thread[w].user]
           r == [thread[w] EXCEPT !.at = "take", !.queue = q]
<1>1. thread[w].at = "lookup" /\ thread[w].at # "idle"
  BY DEF LookupQueue, At
<1>2. ThreadTypes /\ thread[w] \in Call /\ InMethod(thread[w])
  BY <1>1, AtLemma
<1>3. UNCHANGED << listener, shared, engine, history >> /\ waiting' \in Seq(Calls)
  BY DEF LookupQueue, SInv, ServiceTypes
<1>4. thread[w].user \in DOMAIN user_queues
  BY <1>1, LookingLemma
<1>5. q \in Nat
  BY <1>4 DEF SInv, ServiceTypes, QueueTypes, Made
<1>6. /\ r \in Call /\ r.at = "take" /\ r.queue = q
      /\ r.rpc = thread[w].rpc /\ r.user = thread[w].user
  BY <1>2, <1>5 DEF Call, Lines
<1>7. InMethod(r)
  BY <1>1, <1>2, <1>6 DEF InMethod
<1>8. thread' = [thread EXCEPT ![w] = r]
  BY DEF LookupQueue
<1> HIDE DEF r
<1>9. ThreadTypes' /\ thread'[w] = r /\ \A v \in Workers : v # w => thread'[v] = thread[v]
  BY <1>2, <1>6, <1>7, <1>8, MovesLemma
<1>10. ~Listening(w)'
  BY <1>6, <1>9 DEF Listening, At
<1> QED
  BY <1>3, <1>4, <1>6, <1>9, <1>10, PlainStep

\* The stream turns to its loop's head.
LEMMA LooksAgainLemma ==
    ASSUME SInv, NEW w \in Workers, At(w, "take"), LooksAgain(w)
    PROVE  /\ ThreadTypes'
           /\ thread'[w].at = "lookup" /\ thread'[w].user = thread[w].user
           /\ \A v \in Workers : v # w => thread'[v] = thread[v]
<1> DEFINE r == [thread[w] EXCEPT !.at = "lookup", !.queue = NoQueue]
<1>1. thread[w].at = "take" /\ thread[w].at # "idle"
  BY DEF At
<1>2. ThreadTypes /\ thread[w] \in Call /\ InMethod(thread[w])
  BY <1>1, AtLemma
<1>3. /\ r \in Call /\ r.at = "lookup"
      /\ r.rpc = thread[w].rpc /\ r.user = thread[w].user
  BY <1>2 DEF Call, Lines, NoQueue
<1>4. InMethod(r)
  BY <1>1, <1>2, <1>3 DEF InMethod
<1>5. thread' = [thread EXCEPT ![w] = r]
  BY DEF LooksAgain
<1> HIDE DEF r
<1>6. ThreadTypes' /\ thread'[w] = r /\ \A v \in Workers : v # w => thread'[v] = thread[v]
  BY <1>2, <1>3, <1>4, <1>5, MovesLemma
<1> QED
  BY <1>3, <1>6

LEMMA TakeTimesOutStep ==
    ASSUME SInv, NEW w \in Workers, TakeTimesOut(w)
    PROVE  SInv'
<1>1. At(w, "take") /\ LooksAgain(w) /\ thread[w].at \in {"lookup", "take"}
  BY DEF TakeTimesOut, At
<1>2. UNCHANGED << listener, shared, engine, history >> /\ waiting' \in Seq(Calls)
  BY DEF TakeTimesOut, SInv, ServiceTypes
<1>3. /\ ThreadTypes'
      /\ thread'[w].at = "lookup" /\ thread'[w].user = thread[w].user
      /\ \A v \in Workers : v # w => thread'[v] = thread[v]
  BY <1>1, LooksAgainLemma
<1>4. thread[w].user \in DOMAIN user_queues /\ ~Listening(w)'
  BY <1>1, <1>3, LookingLemma DEF Listening, At
<1> QED
  BY <1>2, <1>3, <1>4, PlainStep

LEMMA LeaveExecutionsStep ==
    ASSUME SInv, NEW w \in Workers, LeaveExecutions(w)
    PROVE  SInv'
  BY EndsStep DEF LeaveExecutions

LEMMA GetEndsStep ==
    ASSUME SInv, NEW w \in Workers, GetEnds(w)
    PROVE  SInv'
<1>1. thread[w].at = "get" /\ thread[w].at # "idle" /\ Listening(w)
  BY DEF GetEnds, At, Listening
<1>2. ThreadTypes /\ Busy(w) /\ thread[w] \in Call /\ InMethod(thread[w])
  BY <1>1, AtLemma
<1>3. waiting' = waiting /\ UNCHANGED << listener, shared, engine, history >> /\ Goes(w, "finally")
  BY DEF GetEnds
<1>4. "finally" \in Lines \ {"store", "return"} /\ "finally" \in Lines
  BY DEF Lines
<1>5. InMethod([thread[w] EXCEPT !.at = "finally"])
  BY <1>1, <1>2, <1>4, LineLemma DEF InMethod
<1> QED
  BY <1>1, <1>2, <1>3, <1>4, <1>5, GoesStep

-----------------------------------------------------------------------------
(***************************************************************************)
(* get_order_id.                                                           *)
(***************************************************************************)
\* A step of a worker in get_order_id.
LEMMA CounterStep ==
    ASSUME SInv, NEW w \in Workers, ThreadTypes', waiting' = waiting,
           UNCHANGED << listener, queues, user_queues, md_streams, engine, replaced, yielded >>,
           order_id_counter' \in Nat, ids' \in Seq(Nat), raced' \/ CounterKept',
           \A v \in Workers : v # w => thread'[v] = thread[v],
           thread'[w].at \in {"store", "return", "send", "idle"},
           thread'[w].at = "send" => thread'[w].rpc # "RequestMarketDataSnapshot"
    PROVE  SInv'
<1>1. ServiceTypes'
  BY DEF SInv, ServiceTypes, QueueTypes, Made, engine
<1>2. ReportsNumbered' /\ \A user \in Users : Handed(user)' = Handed(user)
  BY SameTransit DEF engine
<1>3. \A v \in Workers : Listening(v)' => Listening(v) /\ thread[v].queue = thread'[v].queue
  BY DEF Listening, At
<1>4. \A v \in Workers : thread'[v].at \in {"lookup", "take"} =>
               thread'[v].user \in DOMAIN user_queues
  BY LookingLemma
<1>5. \A v \in Workers : thread'[v].at = "take" =>
               \/ thread'[v].queue = user_queues[thread'[v].user]
               \/ /\ thread[v].at = "take" /\ thread'[v].user = thread[v].user
                  /\ thread'[v].queue = thread[v].queue
  OBVIOUS
<1> QED
  BY <1>1, <1>2, <1>3, <1>4, <1>5, QuietStep

LEMMA LoadCounterStep ==
    ASSUME SInv, NEW w \in Workers, LoadCounter(w)
    PROVE  SInv'
<1> DEFINE r == [thread[w] EXCEPT !.at = "store", !.counter = order_id_counter]
<1>1. thread[w].at = "load" /\ thread[w].at # "idle" /\ order_id_counter \in Nat /\ ids \in Seq(Nat)
  BY DEF LoadCounter, At, SInv, ServiceTypes
<1>2. ThreadTypes /\ thread[w] \in Call /\ InMethod(thread[w])
  BY <1>1, AtLemma
<1>3. /\ r \in Call /\ r.at = "store" /\ r.counter = order_id_counter
      /\ r.rpc = thread[w].rpc
  BY <1>1, <1>2 DEF Call, Lines
<1>4. InMethod(r)
  BY <1>1, <1>2, <1>3 DEF InMethod
<1>5. thread' = [thread EXCEPT ![w] = r]
  BY DEF LoadCounter
<1> HIDE DEF r
<1>6. ThreadTypes' /\ thread'[w] = r /\ \A v \in Workers : v # w => thread'[v] = thread[v]
  BY <1>2, <1>3, <1>4, <1>5, MovesLemma
<1>7. /\ UNCHANGED << listener, queues, user_queues, md_streams, engine, replaced, yielded >>
      /\ waiting' = waiting /\ order_id_counter' = order_id_counter /\ ids' = ids
  BY DEF LoadCounter, shared
<1>8. ASSUME ~raced'
      PROVE  CounterKept'
  <2>1. ~raced /\ \A v \in Workers : thread[v].at \notin {"store", "return"}
    BY <1>8 DEF LoadCounter
  <2>2. CounterKept
    BY <2>1 DEF SInv
  <2>3. \A v \in Workers : thread'[v].at \in {"store", "return"} => v = w
    BY <1>6, <2>1
  <2>4. thread'[w].at = "store" /\ thread'[w].counter = order_id_counter
    BY <1>3, <1>6
  <2> QED
    BY <1>7, <2>2, <2>3, <2>4 DEF CounterKept, Counting, At
<1> QED
  BY <1>1, <1>3, <1>6, <1>7, <1>8, CounterStep

LEMMA StoreCounterStep ==
    ASSUME SInv, NEW w \in Workers, StoreCounter(w)
    PROVE  SInv'
<1> DEFINE r == [thread[w] EXCEPT !.at = "return", !.counter = 0]
<1>1. thread[w].at = "store" /\ thread[w].at # "idle" /\ order_id_counter \in Nat /\ ids \in Seq(Nat)
  BY DEF StoreCounter, At, SInv, ServiceTypes
<1>2. ThreadTypes /\ thread[w] \in Call /\ InMethod(thread[w])
  BY <1>1, AtLemma
<1>3. r \in Call /\ r.at = "return" /\ r.rpc = thread[w].rpc
  BY <1>2 DEF Call, Lines
<1>4. InMethod(r)
  BY <1>1, <1>2, <1>3 DEF InMethod
<1>5. thread' = [thread EXCEPT ![w] = r]
  BY DEF StoreCounter
<1> HIDE DEF r
<1>6. ThreadTypes' /\ thread'[w] = r /\ \A v \in Workers : v # w => thread'[v] = thread[v]
  BY <1>2, <1>3, <1>4, <1>5, MovesLemma
<1>7. /\ UNCHANGED << listener, queues, user_queues, md_streams, engine, replaced, yielded >>
      /\ waiting' = waiting /\ order_id_counter' = thread[w].counter + 1 /\ ids' = ids
      /\ raced' = raced
  BY DEF StoreCounter, history
<1>8. thread[w].counter \in Nat
  BY <1>2 DEF Call
<1>9. ASSUME ~raced'
      PROVE  CounterKept'
  <2>1. CounterKept
    BY <1>7, <1>9 DEF SInv
  <2>2. thread[w].counter = order_id_counter /\ Counting(w)
    BY <1>1, <2>1 DEF CounterKept, At, Counting
  <2>3. \A v \in Workers : thread'[v].at \in {"store", "return"} => v = w
    BY <1>6, <2>1, <2>2 DEF CounterKept, Counting
  <2>4. thread'[w].at = "return"
    BY <1>3, <1>6
  <2>5. \A i \in DOMAIN ids : ids[i] \in Nat
    BY <1>1
  <2>6. \A i \in DOMAIN ids : ids[i] <= order_id_counter
    BY <2>1 DEF CounterKept
  <2>7. \A i \in DOMAIN ids : ids[i] # order_id_counter + 1 /\ ids[i] <= order_id_counter + 1
    BY <1>1, <2>5, <2>6
  <2> QED
    BY <1>7, <2>1, <2>2, <2>3, <2>4, <2>7 DEF CounterKept, Counting, At
<1> QED
  BY <1>1, <1>3, <1>6, <1>7, <1>8, <1>9, CounterStep

LEMMA ReturnCounterStep ==
    ASSUME SInv, NEW w \in Workers, ReturnCounter(w)
    PROVE  SInv'
<1>1. thread[w].at = "return" /\ thread[w].at # "idle" /\ order_id_counter \in Nat /\ ids \in Seq(Nat)
  BY DEF ReturnCounter, At, SInv, ServiceTypes
<1>2. ThreadTypes /\ Busy(w) /\ thread[w] \in Call /\ thread[w].rpc = "PlaceOrder"
  BY <1>1, AtLemma DEF InMethod
<1>3. /\ ThreadTypes'
      /\ thread'[w].at = "idle" \/ (thread'[w].at = "send" /\ thread'[w].rpc = "PlaceOrder")
      /\ \A v \in Workers : v # w => thread'[v] = thread[v]
  <2>1. CASE Goes(w, "send")
    <3>1. "send" \in Lines
      BY DEF Lines
    <3>2. InMethod([thread[w] EXCEPT !.at = "send"])
      BY <1>2, <3>1, LineLemma
    <3> QED
      BY <1>2, <2>1, <3>1, <3>2, GoesLemma
  <2>2. CASE Ends(w)
    BY <1>2, <2>2, EndsLemma
  <2> QED
    BY <2>1, <2>2 DEF ReturnCounter
<1>4. /\ UNCHANGED << listener, queues, user_queues, md_streams, engine, replaced, yielded >>
      /\ waiting' = waiting /\ order_id_counter' = order_id_counter
      /\ ids' = Append(ids, order_id_counter) /\ raced' = raced
  BY DEF ReturnCounter, shared
<1>5. ids' \in Seq(Nat)
  BY <1>1, <1>4
<1>6. ASSUME ~raced'
      PROVE  CounterKept'
  <2>1. CounterKept
    BY <1>4, <1>6 DEF SInv
  <2>2. \A v \in Workers : thread[v].at \in {"store", "return"} => v = w
    BY <1>1, <2>1 DEF CounterKept, Counting
  <2>3. \A v \in Workers : thread'[v].at \notin {"store", "return"}
    BY <1>3, <2>2
  <2>4. /\ DOMAIN ids' = 1 .. Len(ids) + 1 /\ ids'[Len(ids) + 1] = order_id_counter
        /\ \A i \in 1 .. Len(ids) : ids'[i] = ids[i]
        /\ DOMAIN ids = 1 .. Len(ids) /\ Len(ids) \in Nat
    BY <1>1, <1>4
  <2>5. \A i \in 1 .. Len(ids) : ids[i] # order_id_counter /\ ids[i] <= order_id_counter
    BY <1>1, <2>1, <2>4 DEF CounterKept, At
  <2>6. \A i, j \in 1 .. Len(ids) : ids[i] = ids[j] => i = j
    BY <2>1, <2>4 DEF CounterKept, IsInjective
  <2>7. \A i \in 1 .. Len(ids) + 1 : i = Len(ids) + 1 \/ i \in 1 .. Len(ids)
    BY <2>4
  <2>8. IsInjective(ids')
    BY <2>4, <2>5, <2>6, <2>7 DEF IsInjective
  <2>9. \A i \in DOMAIN ids' : ids'[i] <= order_id_counter
    BY <1>1, <2>4, <2>5, <2>7
  <2> QED
    BY <1>4, <2>3, <2>8, <2>9 DEF CounterKept, Counting, At
<1> QED
  BY <1>1, <1>3, <1>4, <1>5, <1>6, CounterStep

-----------------------------------------------------------------------------
(***************************************************************************)
(* The matching engine.                                                    *)
(***************************************************************************)
\* Every message is one to a user or a snapshot.
LEMMA TransitTypes ==
    ASSUME SInv
    PROVE  /\ from_ome \in Seq(Messages) /\ reported \in [Users -> Nat]
           /\ \A i \in DOMAIN from_ome : from_ome[i].type = "REPORT" => from_ome[i] \in Report
<1>1. from_ome \in Seq(Messages) /\ reported \in [Users -> Nat]
  BY DEF SInv, ServiceTypes, Messages
<1>2. \A i \in DOMAIN from_ome : from_ome[i] \in Messages
  BY <1>1
<1> QED
  BY <1>1, <1>2 DEF Messages, Report, Shown

LEMMA ShownLemma ==
    ASSUME NEW t \in Seq(Shown)
    PROVE  t \in Seq(Messages) /\ \A k \in DOMAIN t : t[k].type = "SNAPSHOT"
<1>1. \A k \in 1 .. Len(t) : t[k] \in Shown
  OBVIOUS
<1>2. Shown \subseteq Messages
  BY DEF Messages
<1>3. t \in Seq(Messages)
  BY <1>2
<1>4. \A k \in DOMAIN t : t[k] \in Shown
  BY <1>1
<1>5. \A k \in DOMAIN t : t[k].type = "SNAPSHOT"
  BY <1>4 DEF Shown
<1> QED
  BY <1>3, <1>5

\* Snapshots are sent.
LEMMA ShowLemma ==
    ASSUME SInv, NEW t \in Seq(Shown), from_ome' = from_ome \o t,
           UNCHANGED << listener, reported >>
    PROVE  /\ from_ome' \in Seq(Messages) /\ ReportsNumbered'
           /\ \A user \in Users : Handed(user)' = Handed(user)
<1> DEFINE s == from_ome
           s2 == from_ome \o t
<1>1. s \in Seq(Messages) /\ reported \in [Users -> Nat] /\ s2 = from_ome'
  BY TransitTypes
<1>2. t \in Seq(Messages) /\ \A k \in DOMAIN t : t[k].type = "SNAPSHOT"
  BY ShownLemma
<1>3. s2 \in Seq(Messages)
  BY <1>1, <1>2
<1>4. \A user \in Users, i \in Nat : Behind(s2, user, i) = Behind(s, user, i)
  BY <1>1, <1>2, AppendOthers
<1>5. \A user \in Users : ReportsIn(s2, user) = ReportsIn(s, user)
  BY <1>1, <1>3, <1>4, ReportsBehind
<1>6. \A i \in DOMAIN s2 : s2[i].type = "REPORT" => i \in DOMAIN s /\ s2[i] = s[i]
  <2> TAKE i \in DOMAIN s2
  <2>1. i \in 1 .. Len(s) \/ (i - Len(s) \in DOMAIN t /\ s2[i] = t[i - Len(s)])
    BY <1>1, <1>2
  <2>2. \A k \in 1 .. Len(s) : s2[k] = s[k] /\ k \in DOMAIN s
    BY <1>1, <1>2
  <2> QED
    BY <1>2, <2>1, <2>2
<1> HIDE DEF s2, s
<1>7. \A user \in Users : Handed(user)' = Handed(user)
  BY <1>1, <1>5 DEF Handed, s
<1>8. \A user \in Users : Holds(user)' = Holds(user)
  BY DEF Holds
<1>9. \A i \in DOMAIN s2 : s2[i].type = "REPORT" =>
          s2[i].report + Cardinality(Behind(s2, s2[i].user, i)) = reported[s2[i].user]
  <2> SUFFICES ASSUME NEW i \in DOMAIN s2, s2[i].type = "REPORT"
               PROVE  s2[i].report + Cardinality(Behind(s2, s2[i].user, i)) = reported[s2[i].user]
    OBVIOUS
  <2>1. i \in DOMAIN s /\ s2[i] = s[i]
    BY <1>6
  <2>2. s[i] \in Report /\ i \in Nat
    BY <1>1, <2>1, TransitTypes DEF s
  <2>3. s[i].user \in Users
    BY <2>2 DEF Report
  <2>4. s[i].report + Cardinality(Behind(s, s[i].user, i)) = reported[s[i].user]
    BY <2>1 DEF SInv, ReportsNumbered, s
  <2> QED
    BY <2>1, <2>2, <2>3, <2>4, <1>4
<1>10. \A user \in Users : Holds(user)' => listener'.report + ReportsIn(s2, user) = reported'[user]
  BY <1>5, <1>8 DEF SInv, ReportsNumbered, s
<1>11. ReportsNumbered'
  BY <1>1, <1>7, <1>9, <1>10 DEF SInv, ReportsNumbered
<1> QED
  BY <1>1, <1>3, <1>7, <1>11

\* A report is sent, and perhaps a snapshot behind it.
LEMMA OmeReportsLemma ==
    ASSUME SInv, NEW u \in Users, NEW symbol \in STRING, OmeReports(u, symbol),
           UNCHANGED listener
    PROVE  /\ from_ome' \in Seq(Messages) /\ reported' \in [Users -> Nat]
           /\ ReportsNumbered'
           /\ \A user \in Users : Handed(user)' = Handed(user)
<1> DEFINE s == from_ome
           m == [type |-> "REPORT", user |-> u, report |-> reported[u] + 1]
           s1 == Append(s, m)
           t == Snapshots({symbol} \cap subscribed)
           s2 == s1 \o t
           n == Len(s)
<1>1. s \in Seq(Messages) /\ reported \in [Users -> Nat] /\ n \in Nat
  BY TransitTypes
<1>2. /\ reported' = [reported EXCEPT ![u] = @ + 1]
      /\ reported' \in [Users -> Nat] /\ reported'[u] = reported[u] + 1
      /\ \A v \in Users : v # u => reported'[v] = reported[v]
  BY <1>1 DEF OmeReports
<1>3. m \in Report /\ m \in Messages /\ m.user = u /\ m.report = reported[u] + 1
  BY <1>1 DEF Report, Messages
<1>4. t \in Seq(Messages) /\ \A k \in DOMAIN t : t[k].type = "SNAPSHOT"
  <2>1. t \in Seq(Shown)
    BY SnapshotsLemma
  <2> QED  BY <2>1, ShownLemma
<1> HIDE DEF t
<1>5. from_ome' = s2
  <2>1. from_ome' = from_ome \o << m >> \o t
    BY <1>2 DEF OmeReports, t
  <2> HIDE DEF m
  <2>2. from_ome \o << m >> = Append(from_ome, m)
    BY <1>1, <1>3
  <2> QED
    BY <2>1, <2>2
<1> HIDE DEF m
<1>6. /\ s1 \in Seq(Messages) /\ Len(s1) = n + 1 /\ s1[n + 1] = m
      /\ \A i \in 1 .. n : s1[i] = s[i]
  BY <1>1, <1>3
<1> HIDE DEF s1
<1>7. s2 \in Seq(Messages)
  BY <1>4, <1>6
<1>8. \A v \in Users, i \in Nat : Behind(s2, v, i) = Behind(s1, v, i)
  BY <1>4, <1>6, AppendOthers
<1>9. \A i \in 0 .. n : Cardinality(Behind(s2, u, i)) = Cardinality(Behind(s, u, i)) + 1
  <2> TAKE i \in 0 .. n
  <2>1. i \in Nat
    BY <1>1
  <2> QED
    BY <1>1, <1>3, <1>8, <2>1, AppendReport DEF s1
<1>10. Behind(s2, u, n + 1) = {}
  <2>1. 0 \in 0 .. n /\ n + 1 \in Nat
    BY <1>1
  <2> QED
    BY <1>1, <1>3, <1>8, <2>1, AppendReport DEF s1
<1>11. \A v \in Users : v # u => \A i \in Nat : Behind(s2, v, i) = Behind(s, v, i)
  <2> TAKE v \in Users
  <2> HAVE v # u
  <2> TAKE i \in Nat
  <2>1. << m >> \in Seq(Messages) /\ \A k \in DOMAIN << m >> : ~(<< m >>[k].type = "REPORT" /\ << m >>[k].user = v)
    BY <1>3
  <2>2. s1 = s \o << m >>
    BY <1>1, <1>3 DEF s1
  <2>3. Behind(s \o << m >>, v, i) = Behind(s, v, i)
    <3> DEFINE one == << m >>
    <3>1. one \in Seq(Messages) /\ \A k \in DOMAIN one : ~(one[k].type = "REPORT" /\ one[k].user = v)
      BY <2>1
    <3> HIDE DEF one
    <3>2. Behind(s \o one, v, i) = Behind(s, v, i)
      BY <1>1, <3>1, AppendOthers
    <3> QED
      BY <3>2 DEF one
  <2> QED
    BY <1>8, <2>2, <2>3
<1>12. \A i \in DOMAIN s2 : s2[i].type = "REPORT" =>
          \/ i \in DOMAIN s /\ s2[i] = s[i]
          \/ i = n + 1 /\ s2[i] = m
  <2> TAKE i \in DOMAIN s2
  <2>1. i \in 1 .. n \/ i = n + 1 \/ (i - Len(s1) \in DOMAIN t /\ s2[i] = t[i - Len(s1)])
    BY <1>1, <1>4, <1>6
  <2>2. \A k \in 1 .. n + 1 : s2[k] = s1[k]
    BY <1>1, <1>4, <1>6
  <2>3. \A k \in 1 .. n : k \in DOMAIN s /\ k \in 1 .. n + 1
    BY <1>1
  <2>4. n + 1 \in 1 .. n + 1
    BY <1>1
  <2> QED
    BY <1>4, <1>6, <2>1, <2>2, <2>3, <2>4
<1> HIDE DEF s2, s, n
<1>13. \A v \in Users, i \in Nat : Cardinality(Behind(s, v, i)) \in Nat
  BY <1>1, BehindFinite
<1>14. /\ \A v \in Users : ReportsIn(s2, v) = Cardinality(Behind(s2, v, 0))
       /\ \A v \in Users : ReportsIn(s, v) = Cardinality(Behind(s, v, 0))
  BY <1>1, <1>7, ReportsBehind
<1>15. /\ ReportsIn(s2, u) = ReportsIn(s, u) + 1 /\ ReportsIn(s, u) \in Nat
       /\ \A v \in Users : v # u => ReportsIn(s2, v) = ReportsIn(s, v)
  <2>1. 0 \in 0 .. n
    BY <1>1
  <2> QED
    BY <1>9, <1>11, <1>13, <1>14, <2>1
<1>16. \A v \in Users : Handed(v)' = Handed(v)
  <2> TAKE v \in Users
  <2>1. reported[v] \in Nat
    BY <1>1
  <2>2. Holds(v)' = Holds(v)
    BY DEF Holds
  <2>3. Handed(v)' = reported'[v] - ReportsIn(s2, v) - (IF Holds(v)' THEN 1 ELSE 0)
    BY <1>5 DEF Handed, Holds
  <2>4. Handed(v) = reported[v] - ReportsIn(s, v) - (IF Holds(v) THEN 1 ELSE 0)
    BY DEF Handed, Holds, s
  <2>5. CASE v = u
    BY <1>2, <1>15, <2>1, <2>2, <2>3, <2>4, <2>5
  <2>6. CASE v # u
    BY <1>2, <1>15, <2>2, <2>3, <2>4, <2>6
  <2> QED
    BY <2>5, <2>6
<1>17. \A v \in Users : Holds(v)' => listener'.report + ReportsIn(s2, v) = reported'[v]
  <2> SUFFICES ASSUME NEW v \in Users, Holds(v)
               PROVE  listener.report + ReportsIn(s2, v) = reported'[v]
    BY DEF Holds
  <2>1. listener.report + ReportsIn(s, v) = reported[v]
    BY DEF SInv, ReportsNumbered, s
  <2>2. listener.report \in Nat
    BY DEF SInv, ServiceTypes, Holds, AtRecv, Broadcast, Delivery, Put
  <2>3. CASE v = u
    BY <1>2, <1>15, <2>1, <2>2, <2>3
  <2>4. CASE v # u
    BY <1>2, <1>15, <2>1, <2>4
  <2> QED
    BY <2>3, <2>4
<1>18. \A i \in DOMAIN s2 : s2[i].type = "REPORT" =>
          s2[i].report + Cardinality(Behind(s2, s2[i].user, i)) = reported'[s2[i].user]
  <2> SUFFICES ASSUME NEW i \in DOMAIN s2, s2[i].type = "REPORT"
               PROVE  s2[i].report + Cardinality(Behind(s2, s2[i].user, i)) = reported'[s2[i].user]
    OBVIOUS
  <2>1. CASE i = n + 1 /\ s2[i] = m
    <3>1. Cardinality(Behind(s2, u, n + 1)) = 0
      BY <1>10, FS_EmptySet
    <3> QED
      BY <1>1, <1>2, <1>3, <2>1, <3>1
  <2>2. CASE i \in DOMAIN s /\ s2[i] = s[i]
    <3>1. s[i] \in Report
      BY <2>2, TransitTypes DEF s
    <3>2. s[i].user \in Users /\ s[i].report \in Nat /\ i \in 0 .. n /\ i \in Nat
      BY <1>1, <2>2, <3>1 DEF Report, n
    <3>3. s[i].report + Cardinality(Behind(s, s[i].user, i)) = reported[s[i].user]
      BY <2>2 DEF SInv, ReportsNumbered, s
    <3>4. CASE s[i].user = u
      <4> DEFINE c == Cardinality(Behind(s, u, i))
      <4>1. Cardinality(Behind(s2, u, i)) = c + 1 /\ c \in Nat
        BY <1>9, <1>13, <3>2
      <4>2. s[i].report + c = reported[u] /\ reported[u] \in Nat
        BY <1>1, <3>3, <3>4
      <4> HIDE DEF c
      <4>3. s[i].report + (c + 1) = reported[u] + 1
        BY <3>2, <4>1, <4>2
      <4> QED
        BY <1>2, <2>2, <3>4, <4>1, <4>3
    <3>5. CASE s[i].user # u
      BY <1>2, <1>11, <2>2, <3>2, <3>3, <3>5
    <3> QED
      BY <3>4, <3>5
  <2> QED
    BY <1>12, <2>1, <2>2
<1>19. \A v \in Users : Handed(v)' \in Nat
  BY <1>16 DEF SInv, ReportsNumbered
<1>20. ReportsNumbered'
  BY <1>5, <1>17, <1>18, <1>19 DEF ReportsNumbered
<1> QED
  BY <1>2, <1>5, <1>7, <1>16, <1>20

LEMMA SendStep ==
    ASSUME SInv, NEW w \in Workers, Send(w)
    PROVE  SInv'
<1>1. thread[w].at = "send" /\ thread[w].at # "idle"
  BY DEF Send, At
<1>2. ThreadTypes /\ Busy(w) /\ thread[w] \in Call /\ InMethod(thread[w])
  BY <1>1, AtLemma
<1>3. thread[w].user \in Users /\ thread[w].symbol \in STRING
  BY <1>2 DEF Call
<1>4. UNCHANGED << waiting, listener, shared, history >>
  BY DEF Send
<1>5. /\ ThreadTypes' /\ from_ome' \in Seq(Messages) /\ reported' \in [Users -> Nat]
      /\ subscribed' \subseteq STRING /\ booked' \subseteq STRING
      /\ ReportsNumbered' /\ \A user \in Users : Handed(user)' = Handed(user)
      /\ \A v \in Workers : v # w => thread'[v] = thread[v]
      /\ thread'[w].at \in {"idle", "append", "get"}
      /\ thread'[w].at = "get" => Listening(w) /\ thread'[w].queue = thread[w].queue
  <2>1. subscribed \subseteq STRING /\ booked \subseteq STRING
    BY DEF SInv, ServiceTypes
  <2>2. CASE SendOrder(w)
    <3>1. Ends(w) /\ OmeReports(thread[w].user, thread[w].symbol)
      BY <2>2 DEF SendOrder
    <3>2. ThreadTypes' /\ thread'[w].at = "idle" /\ \A v \in Workers : v # w => thread'[v] = thread[v]
      BY <1>2, <3>1, EndsLemma
    <3>3. subscribed' \subseteq STRING /\ booked' \subseteq STRING
      BY <1>3, <2>1, <3>1 DEF OmeReports
    <3> QED
      BY <1>3, <1>4, <3>1, <3>2, <3>3, OmeReportsLemma
  <2>3. CASE SendSubscription(w)
    <3>1. Goes(w, "append") /\ OmeSubscribes(thread[w].symbol) /\ thread[w].rpc = "StreamMarketData"
      BY <2>3 DEF SendSubscription
    <3>2. "append" \in Lines
      BY DEF Lines
    <3>3. InMethod([thread[w] EXCEPT !.at = "append"])
      BY <1>2, <3>1, <3>2, LineLemma
    <3>4. ThreadTypes' /\ thread'[w].at = "append" /\ \A v \in Workers : v # w => thread'[v] = thread[v]
      BY <1>2, <3>1, <3>2, <3>3, GoesLemma
    <3>5. subscribed' \subseteq STRING /\ booked' \subseteq STRING /\ from_ome' = from_ome /\ reported' = reported
      BY <1>3, <2>1, <3>1 DEF OmeSubscribes
    <3>6. from_ome \in Seq(Messages) /\ reported \in [Users -> Nat]
      BY TransitTypes
    <3>7. ReportsNumbered' /\ \A user \in Users : Handed(user)' = Handed(user)
      BY <1>4, <3>5, SameTransit
    <3> QED
      BY <3>4, <3>5, <3>6, <3>7
  <2>4. CASE SendQuery(w)
    <3>1. Goes(w, "get") /\ OmeAnswers(thread[w].symbol) /\ thread[w].rpc = "RequestMarketDataSnapshot"
      BY <2>4 DEF SendQuery
    <3>2. "get" \in Lines
      BY DEF Lines
    <3>3. InMethod([thread[w] EXCEPT !.at = "get"])
      BY <1>2, <3>1, <3>2, LineLemma
    <3>4. /\ ThreadTypes' /\ thread'[w].at = "get" /\ thread'[w].queue = thread[w].queue
          /\ \A v \in Workers : v # w => thread'[v] = thread[v]
      BY <1>2, <3>1, <3>2, <3>3, GoesLemma
    <3>5. Listening(w)
      BY <1>1, <3>1 DEF Listening, At
    <3>6. Snapshots({thread[w].symbol} \cap booked) \in Seq(Shown)
      BY <1>3, SnapshotsLemma
    <3>7. /\ from_ome' = from_ome \o Snapshots({thread[w].symbol} \cap booked)
          /\ UNCHANGED << subscribed, booked, reported >>
      BY <3>1 DEF OmeAnswers
    <3>8. from_ome' \in Seq(Messages) /\ ReportsNumbered' /\ \A user \in Users : Handed(user)' = Handed(user)
      BY <1>4, <3>6, <3>7, ShowLemma
    <3>9. reported \in [Users -> Nat]
      BY TransitTypes
    <3> QED
      BY <2>1, <3>4, <3>5, <3>7, <3>8, <3>9
  <2> QED
    BY <2>2, <2>3, <2>4 DEF Send
<1>6. ServiceTypes'
  BY <1>4, <1>5 DEF SInv, ServiceTypes, QueueTypes, Made, shared, history, Messages
<1>7. \A v \in Workers : thread'[v].at \in {"store", "return"} =>
               /\ thread[v].at = thread'[v].at
               /\ thread[v].counter = thread'[v].counter
  BY <1>5
<1>8. raced' \/ CounterKept'
  BY <1>4, <1>7, CounterFrame DEF SInv, shared, history
<1>9. \A v \in Workers : Listening(v)' => Listening(v) /\ thread[v].queue = thread'[v].queue
  BY <1>5 DEF Listening, At
<1>10. \A v \in Workers : thread'[v].at \in {"lookup", "take"} =>
               thread'[v].user \in DOMAIN user_queues
  BY <1>5, LookingLemma
<1>11. \A v \in Workers : thread'[v].at = "take" =>
               \/ thread'[v].queue = user_queues[thread'[v].user]
               \/ /\ thread[v].at = "take" /\ thread'[v].user = thread[v].user
                  /\ thread'[v].queue = thread[v].queue
  BY <1>5
<1> QED
  BY <1>4, <1>5, <1>6, <1>8, <1>9, <1>10, <1>11, QuietStep DEF shared, history

\* The engine sends a snapshot unasked.
LEMMA OmeBroadcastsStep ==
    ASSUME SInv, NEW symbol \in subscribed, OmeBroadcasts(symbol)
    PROVE  SInv'
<1>1. UNCHANGED << waiting, thread, listener, shared, subscribed, reported, history >>
  BY DEF OmeBroadcasts
<1>2. ThreadTypes /\ subscribed \subseteq STRING /\ booked \subseteq STRING /\ symbol \in STRING
  BY DEF SInv, ServiceTypes
<1>3. from_ome' = from_ome \o Snapshots({symbol} \cap subscribed) /\ booked' \subseteq STRING
  BY <1>2 DEF OmeBroadcasts
<1>4. Snapshots({symbol} \cap subscribed) \in Seq(Shown)
  BY <1>2, SnapshotsLemma
<1>5. from_ome' \in Seq(Messages) /\ ReportsNumbered' /\ \A user \in Users : Handed(user)' = Handed(user)
  BY <1>1, <1>3, <1>4, ShowLemma
<1>6. ThreadTypes'
  BY <1>1, <1>2 DEF ThreadTypes
<1>7. ServiceTypes'
  BY <1>1, <1>2, <1>3, <1>5, <1>6 DEF SInv, ServiceTypes, QueueTypes, Made, shared, history, Messages
<1>8. raced' \/ CounterKept'
  BY <1>1, CounterFrame DEF SInv, shared, history
<1>9. \A v \in Workers : Listening(v)' => Listening(v) /\ thread[v].queue = thread'[v].queue
  BY <1>1 DEF Listening, At
<1>10. \A v \in Workers : thread'[v].at \in {"lookup", "take"} => thread'[v].user \in DOMAIN user_queues
  BY <1>1, LookingLemma
<1> QED
  BY <1>1, <1>5, <1>7, <1>8, <1>9, <1>10, QuietStep DEF shared, history

\* The connection breaks: what is lost of the reports is the last of them.
LEMMA OmeGoesStep ==
    ASSUME SInv, OmeGoes
    PROVE  SInv'
<1>1. PICK n \in 0 .. Len(from_ome) :
          /\ from_ome' = SubSeq(from_ome, 1, n)
          /\ reported' = [user \in Users |->
                reported[user] - ReportsIn(SubSeq(from_ome, n + 1, Len(from_ome)), user)]
  BY DEF OmeGoes
<1> DEFINE s == from_ome
           a == SubSeq(from_ome, 1, n)
           b == SubSeq(from_ome, n + 1, Len(from_ome))
<1>2. s \in Seq(Messages) /\ reported \in [Users -> Nat] /\ Len(s) \in Nat /\ n \in Nat
  BY TransitTypes
<1>3. /\ a \in Seq(Messages) /\ b \in Seq(Messages) /\ DOMAIN a = 1 .. n
      /\ \A i \in 1 .. n : a[i] = s[i] /\ i \in DOMAIN s
  BY <1>2
<1>4. from_ome' = a /\ reported' = [user \in Users |-> reported[user] - ReportsIn(b, user)]
  BY <1>1
<1>5. ASSUME NEW user \in Users, NEW i \in 0 .. n
      PROVE  Cardinality(Behind(s, user, i)) = Cardinality(Behind(a, user, i)) + ReportsIn(b, user)
  <2>1. ReportsIn(b, user) = Cardinality(Behind(b, user, 0))
    BY <1>3, ReportsBehind
  <2>2. Cardinality(Behind(s, user, i)) =
            Cardinality(Behind(a, user, i)) + Cardinality(Behind(b, user, 0))
    BY <1>2, CutBehind
  <2> QED
    BY <2>1, <2>2
<1> HIDE DEF a, b
<1>6. ASSUME NEW user \in Users
      PROVE  /\ ReportsIn(s, user) = ReportsIn(a, user) + ReportsIn(b, user)
             /\ ReportsIn(s, user) \in Nat /\ ReportsIn(a, user) \in Nat /\ ReportsIn(b, user) \in Nat
  <2>1. /\ ReportsIn(b, user) = Cardinality(Behind(b, user, 0))
        /\ ReportsIn(a, user) = Cardinality(Behind(a, user, 0))
        /\ ReportsIn(s, user) = Cardinality(Behind(s, user, 0))
    BY <1>2, <1>3, ReportsBehind
  <2>2. /\ Cardinality(Behind(b, user, 0)) \in Nat
        /\ Cardinality(Behind(a, user, 0)) \in Nat
        /\ Cardinality(Behind(s, user, 0)) \in Nat
    BY <1>2, <1>3, BehindFinite
  <2>3. 0 \in 0 .. n
    BY <1>2
  <2> QED
    BY <1>5, <2>1, <2>2, <2>3
<1>7. UNCHANGED << waiting, thread, listener, shared, subscribed, booked, history >>
  BY DEF OmeGoes
<1>8. ASSUME NEW user \in Users
      PROVE  Handed(user)' = Handed(user) /\ Handed(user) \in Nat /\ reported'[user] \in Nat
             /\ reported'[user] = reported[user] - ReportsIn(b, user)
  <2> DEFINE x == IF Holds(user) THEN 1 ELSE 0
  <2>1. x \in Nat
    OBVIOUS
  <2>2. Handed(user) = reported[user] - ReportsIn(s, user) - x /\ Handed(user) \in Nat
    BY DEF Handed, Holds, SInv, ReportsNumbered
  <2>3. Handed(user)' = reported'[user] - ReportsIn(a, user) - x
    BY <1>4, <1>7 DEF Handed, Holds
  <2>4. reported'[user] = reported[user] - ReportsIn(b, user) /\ reported[user] \in Nat
    BY <1>2, <1>4
  <2> HIDE DEF x
  <2> QED
    BY <1>6, <2>1, <2>2, <2>3, <2>4
<1>9. \A user \in Users : Handed(user)' = Handed(user) /\ Handed(user)' \in Nat
  BY <1>8
<1>10. reported' \in [Users -> Nat]
  BY <1>4, <1>8
<1>11. \A user \in Users : Holds(user)' => listener'.report + ReportsIn(from_ome', user) = reported'[user]
  <2> SUFFICES ASSUME NEW user \in Users, Holds(user)
               PROVE  listener.report + ReportsIn(a, user) = reported'[user]
    BY <1>4, <1>7 DEF Holds
  <2>1. listener.report + ReportsIn(s, user) = reported[user]
    BY DEF SInv, ReportsNumbered
  <2>2. listener.report \in Nat /\ reported[user] \in Nat
    BY <1>2 DEF SInv, ServiceTypes, Holds, AtRecv, Broadcast, Delivery, Put
  <2> QED
    BY <1>6, <1>8, <2>1, <2>2
<1>12. \A i \in DOMAIN a : a[i].type = "REPORT" =>
          a[i].report + Cardinality(Behind(a, a[i].user, i)) = reported'[a[i].user]
  <2> SUFFICES ASSUME NEW i \in DOMAIN a, a[i].type = "REPORT"
               PROVE  a[i].report + Cardinality(Behind(a, a[i].user, i)) = reported'[a[i].user]
    OBVIOUS
  <2>1. i \in 0 .. n /\ i \in DOMAIN s /\ a[i] = s[i]
    BY <1>2, <1>3
  <2>2. s[i] \in Report
    BY <2>1, TransitTypes
  <2>3. s[i].user \in Users /\ s[i].report \in Nat
    BY <2>2 DEF Report
  <2> DEFINE u == s[i].user
             c == Cardinality(Behind(s, u, i))
             d == Cardinality(Behind(a, u, i))
  <2>4. s[i].report + c = reported[u]
    BY <2>1 DEF SInv, ReportsNumbered
  <2>5. c = d + ReportsIn(b, u)
    BY <1>5, <2>1, <2>3
  <2>6. c \in Nat /\ d \in Nat
    BY <1>2, <1>3, BehindFinite
  <2>7. ReportsIn(b, u) \in Nat /\ reported'[u] = reported[u] - ReportsIn(b, u) /\ reported[u] \in Nat
    BY <1>2, <1>6, <1>8, <2>3
  <2> HIDE DEF c, d, u
  <2>8. s[i].report + d = reported'[u]
    BY <2>3, <2>4, <2>5, <2>6, <2>7
  <2> QED
    BY <2>1, <2>8 DEF u, d
<1>13. ReportsNumbered'
  BY <1>4, <1>9, <1>11, <1>12 DEF ReportsNumbered
<1>14. ServiceTypes'
  BY <1>3, <1>4, <1>7, <1>10 DEF SInv, ServiceTypes, ThreadTypes, QueueTypes, Made, shared, history, Messages
<1>15. raced' \/ CounterKept'
  BY <1>7, CounterFrame DEF SInv, shared, history
<1>16. \A v \in Workers : Listening(v)' => Listening(v) /\ thread[v].queue = thread'[v].queue
  BY <1>7 DEF Listening, At
<1> QED
  BY <1>7, <1>9, <1>13, <1>14, <1>15, <1>16, QuietStep, LookingLemma DEF shared, history

-----------------------------------------------------------------------------
(***************************************************************************)
(* Market data.                                                            *)
(***************************************************************************)
Away == {"recv", "broadcast", "stopped"}

\* A queue of reports is none of the market data queues.
LEMMA ApartLemma ==
    ASSUME SInv, NEW user \in Users, NEW q \in Nat, Uses(user, q)
    PROVE  q \in Made /\ q \notin ToSet(md_streams)
  BY DEF SInv, QueuesAreOwned

\* Only market data queues change.
LEMMA MarketStep ==
    ASSUME SInv, UNCHANGED << user_queues, replaced, yielded, from_ome, reported >>,
           Made \subseteq Made',
           \A p \in Made : p \notin ToSet(md_streams) => queues'[p] = queues[p],
           \A p \in Made : p \in ToSet(md_streams') => p \in ToSet(md_streams),
           listener' = listener \/ (listener.at \in Away /\ listener'.at \in Away),
           \A v \in Workers : thread'[v].at \in {"lookup", "take"} => thread'[v] = thread[v]
    PROVE  /\ QueueIsThere' /\ QueueIsCurrent' /\ ReportsInOrder'
           /\ QueuesAreOwned' /\ ReportsNumbered'
<1>1. listener'.at \in {"test", "create", "lookup", "put"} => listener' = listener
  BY DEF Away
<1>2. \A user \in Users : Holds(user)' <=> Holds(user)
  BY DEF Away, Holds
<1>3. \A user \in Users : Holds(user) => listener'.report = listener.report
  BY DEF Away, Holds
<1>4. ReportsNumbered' /\ \A user \in Users : Handed(user)' = Handed(user)
  BY <1>2, <1>3, NumberedFrame DEF SInv
<1>5. \A q \in Nat : \A user \in Users : Uses(user, q)' => Uses(user, q)
  BY <1>1 DEF Uses, At
<1>6. QueuesAreOwned'
  BY <1>5, OwnedFrame DEF SInv
<1>7. \A user \in Users : Waits(user)' = Waits(user)
  <2> SUFFICES ASSUME NEW user \in Users, user \in DOMAIN user_queues
               PROVE  queues'[user_queues[user]] = queues[user_queues[user]]
    BY DEF Waits
  <2>1. user_queues[user] \in Nat /\ user_queues[user] \in Made
    BY DEF SInv, ServiceTypes, QueueTypes, Made
  <2>2. Uses(user, user_queues[user])
    BY DEF Uses
  <2> QED
    BY <2>1, <2>2, ApartLemma
<1>8. \A v \in Workers : thread[v].at = "take" => queues'[thread[v].queue] = queues[thread[v].queue]
  <2> SUFFICES ASSUME NEW v \in Workers, thread[v].at = "take"
               PROVE  queues'[thread[v].queue] = queues[thread[v].queue]
    OBVIOUS
  <2>1. thread[v] \in Call
    BY AtLemma
  <2>2. thread[v].user \in Users /\ thread[v].queue \in Nat
    BY <2>1 DEF Call
  <2>3. Uses(thread[v].user, thread[v].queue)
    BY DEF Uses, At
  <2> QED
    BY <2>2, <2>3, ApartLemma
<1>9. QueueIsThere'
  BY <1>1 DEF SInv, QueueIsThere
<1>10. ReportsInOrder'
  BY <1>4, <1>7 DEF SInv, ReportsInOrder
<1>11. QueueIsCurrent'
  <2>1. \A v \in Workers : thread'[v].at = "take" /\ thread'[v].user \notin replaced =>
          thread'[v].queue = user_queues[thread'[v].user] \/ queues'[thread'[v].queue] = << >>
    BY <1>8 DEF SInv, QueueIsCurrent, At
  <2>2. listener'.at = "put" /\ listener'.user \notin replaced =>
          listener'.queue = user_queues[listener'.user]
    BY <1>1 DEF SInv, QueueIsCurrent
  <2>3. ASSUME listener'.at = "create", listener'.user \notin replaced
        PROVE  Waits(listener.user)' = << >>
    <3>1. listener' = listener
      BY <1>1, <2>3
    <3>2. Waits(listener.user) = << >>
      BY <2>3, <3>1 DEF SInv, QueueIsCurrent
    <3>3. listener.user \in Users
      BY <2>3, <3>1 DEF SInv, ServiceTypes, AtRecv, Broadcast, Delivery, Put
    <3>4. \A user : user = listener.user => Waits(user)' = << >>
      BY <1>7, <3>2, <3>3
    <3> QED
      BY <3>1, <3>4 DEF Waits
  <2> QED
    BY <2>1, <2>2, <2>3 DEF QueueIsCurrent, At
<1> QED
  BY <1>4, <1>6, <1>9, <1>10, <1>11

\* All of S is in V but for one element.
AllButOne(S, V) == \E x : S \subseteq V \cup {x}

\* What remove does to a list without doubles, as a whole and from a place on.
LEMMA RemovedLemma ==
    ASSUME NEW T, NEW s \in Seq(T), IsInjective(s), NEW e, e \in ToSet(s),
           NEW r, r = RemoveFirst(s, e)
    PROVE  /\ r \in Seq(T) /\ IsInjective(r)
           /\ ToSet(r) = ToSet(s) \ {e}
           /\ \A n \in Nat :
                 /\ From(r, n) \subseteq From(s, n)
                 /\ AllButOne(From(s, n), From(r, n))
<1>1. /\ r \in Seq(T)
      /\ Len(r) = Len(s) - 1
      /\ \E p \in 1 .. Len(s) :
            /\ s[p] = e
            /\ \A i \in 1 .. p - 1 : r[i] = s[i]
            /\ \A i \in p .. Len(s) - 1 : r[i] = s[i + 1]
  BY RemoveLemma
<1>2. PICK p \in 1 .. Len(s) :
            /\ s[p] = e
            /\ \A i \in 1 .. p - 1 : r[i] = s[i]
            /\ \A i \in p .. Len(s) - 1 : r[i] = s[i + 1]
  BY <1>1
<1>3. /\ Len(s) \in Nat /\ DOMAIN s = 1 .. Len(s) /\ DOMAIN r = 1 .. Len(s) - 1
      /\ p \in Nat /\ 1 <= p /\ p <= Len(s)
  BY <1>1
<1>4. \A i, j \in 1 .. Len(s) : s[i] = s[j] => i = j
  BY <1>3 DEF IsInjective
<1> DEFINE From1(i) == IF i < p THEN i ELSE i + 1
<1>5. \A i \in 1 .. Len(s) - 1 :
          /\ From1(i) \in 1 .. Len(s) /\ From1(i) # p /\ From1(i) >= i
          /\ r[i] = s[From1(i)]
  <2> TAKE i \in 1 .. Len(s) - 1
  <2>1. CASE i < p
    BY <1>2, <1>3, <2>1
  <2>2. CASE ~(i < p)
    <3>1. i \in p .. Len(s) - 1 /\ i + 1 \in 1 .. Len(s) /\ i + 1 # p /\ i + 1 >= i
      BY <1>3, <2>2
    <3> QED
      BY <1>2, <2>2, <3>1
  <2> QED
    BY <2>1, <2>2
<1>6. \A i, j \in 1 .. Len(s) - 1 : From1(i) = From1(j) => i = j
  BY <1>3
<1>7. \A k \in 1 .. Len(s) : k # p =>
          \E i \in 1 .. Len(s) - 1 : From1(i) = k /\ (k < p => i = k) /\ (k > p => i = k - 1)
  <2> TAKE k \in 1 .. Len(s)
  <2>1. CASE k < p
    <3>1. k \in 1 .. Len(s) - 1 /\ From1(k) = k
      BY <1>3, <2>1
    <3> QED
      BY <1>3, <2>1, <3>1
  <2>2. CASE k > p
    <3>1. k - 1 \in 1 .. Len(s) - 1 /\ From1(k - 1) = k
      BY <1>3, <2>2
    <3> QED
      BY <1>3, <2>2, <3>1
  <2> QED
    BY <1>3, <2>1, <2>2
<1> HIDE DEF From1
<1>8. IsInjective(r)
  <2> SUFFICES ASSUME NEW i \in 1 .. Len(s) - 1, NEW j \in 1 .. Len(s) - 1, r[i] = r[j]
               PROVE  i = j
    BY <1>3 DEF IsInjective
  <2> QED
    BY <1>4, <1>5, <1>6
<1>9. ToSet(r) = ToSet(s) \ {e}
  <2>1. ASSUME NEW x \in ToSet(r)
        PROVE  x \in ToSet(s) \ {e}
    <3>1. PICK i \in 1 .. Len(s) - 1 : x = r[i]
      BY <1>3 DEF ToSet
    <3>2. x = s[From1(i)] /\ From1(i) \in 1 .. Len(s) /\ From1(i) # p
      BY <1>5, <3>1
    <3> QED
      BY <1>2, <1>3, <1>4, <3>2 DEF ToSet
  <2>2. ASSUME NEW x \in ToSet(s) \ {e}
        PROVE  x \in ToSet(r)
    <3>1. PICK k \in 1 .. Len(s) : x = s[k]
      BY <1>3 DEF ToSet
    <3>2. k # p
      BY <1>2, <3>1
    <3>3. PICK i \in 1 .. Len(s) - 1 : From1(i) = k
      BY <1>7, <3>2
    <3>4. x = r[i]
      BY <1>5, <3>1, <3>3
    <3> QED
      BY <1>3, <3>4 DEF ToSet
  <2> QED
    BY <2>1, <2>2
<1>10. ASSUME NEW n \in Nat
       PROVE  From(r, n) \subseteq From(s, n)
  <2> SUFFICES ASSUME NEW x \in From(r, n)
               PROVE  x \in From(s, n)
    OBVIOUS
  <2>1. PICK i \in 1 .. Len(s) - 1 : i >= n /\ x = r[i]
    BY <1>3 DEF From
  <2>2. From1(i) \in 1 .. Len(s) /\ From1(i) >= n /\ x = s[From1(i)]
    BY <1>3, <1>5, <2>1
  <2> QED
    BY <1>3, <2>2 DEF From
<1>11. ASSUME NEW n \in Nat
       PROVE  AllButOne(From(s, n), From(r, n))
  <2> DEFINE z == IF p >= n THEN e ELSE s[n]
  <2> SUFFICES ASSUME NEW y \in From(s, n), y # z
               PROVE  y \in From(r, n)
    BY DEF AllButOne
  <2>1. PICK k \in 1 .. Len(s) : k >= n /\ y = s[k]
    BY <1>3 DEF From
  <2>2. k # p
    BY <1>2, <2>1
  <2>3. PICK i \in 1 .. Len(s) - 1 : From1(i) = k /\ (k < p => i = k) /\ (k > p => i = k - 1)
    BY <1>7, <2>2
  <2>4. i >= n
    <3>1. CASE k < p
      BY <2>1, <2>3, <3>1
    <3>2. CASE k > p
      <4>1. CASE p >= n
        BY <1>3, <2>1, <2>3, <3>2, <4>1
      <4>2. CASE ~(p >= n)
        <5>1. k # n
          BY <2>1, <4>2
        <5> QED
          BY <1>3, <2>1, <2>3, <3>2, <5>1
      <4> QED
        BY <4>1, <4>2
    <3> QED
      BY <1>3, <2>1, <2>2, <3>1, <3>2
  <2>5. y = r[i]
    BY <1>5, <2>1, <2>3
  <2> QED
    BY <1>3, <2>4, <2>5 DEF From
<1> QED
  BY <1>1, <1>8, <1>9, <1>10, <1>11

\* A step of market data: what is left to show of it.
LEMMA MarketDone ==
    ASSUME SInv, UNCHANGED << waiting, order_id_counter, user_queues, from_ome, subscribed, booked,
                              reported, ids, raced, replaced, yielded >>,
           ThreadTypes', QueueTypes',
           listener' \in {AtRecv, [at |-> "stopped"]} \cup Broadcast \cup Delivery \cup Put,
           \A v \in Workers : thread'[v].at \in {"store", "return"} =>
               /\ thread[v].at = thread'[v].at
               /\ thread[v].counter = thread'[v].counter,
           Made \subseteq Made',
           \A p \in Made : p \notin ToSet(md_streams) => queues'[p] = queues[p],
           \A p \in Made : p \in ToSet(md_streams') => p \in ToSet(md_streams),
           listener' = listener \/ (listener.at \in Away /\ listener'.at \in Away),
           \A v \in Workers : thread'[v].at \in {"lookup", "take"} => thread'[v] = thread[v],
           StreamsListed', BroadcastKept'
    PROVE  SInv'
<1>1. QueueIsThere' /\ QueueIsCurrent' /\ ReportsInOrder' /\ QueuesAreOwned' /\ ReportsNumbered'
  BY MarketStep
<1>2. ServiceTypes'
  BY DEF SInv, ServiceTypes
<1>3. raced' \/ CounterKept'
  BY CounterFrame DEF SInv
<1> QED
  BY <1>1, <1>2, <1>3 DEF SInv

\* What the listener has in a broadcast.
LEMMA BroadcastLemma ==
    ASSUME SInv, listener.at = "broadcast"
    PROVE  listener \in Broadcast
  BY DEF SInv, ServiceTypes, AtRecv, Delivery, Put

\* No more is lost than before.
LEMMA LostLemma ==
    ASSUME NEW S, IsFiniteSet(S), NEW L \in SUBSET S, NEW V \in SUBSET S
    PROVE  /\ IsFiniteSet(L) /\ Cardinality(L) \in Nat
           /\ V \subseteq L => Cardinality(V) <= Cardinality(L)
           /\ \A x : V \subseteq L \cup {x} => Cardinality(V) <= Cardinality(L) + 1
<1>1. IsFiniteSet(L) /\ Cardinality(L) \in Nat
  BY FS_Subset, FS_CardinalityType
<1>2. V \subseteq L => Cardinality(V) <= Cardinality(L)
  BY <1>1, FS_Subset
<1>3. ASSUME NEW x, V \subseteq L \cup {x}
      PROVE  Cardinality(V) <= Cardinality(L) + 1
  <2>1. /\ IsFiniteSet(L \cup {x})
        /\ Cardinality(L \cup {x}) = IF x \in L THEN Cardinality(L) ELSE Cardinality(L) + 1
    BY <1>1, FS_AddElement
  <2>2. Cardinality(V) <= Cardinality(L \cup {x}) /\ Cardinality(V) \in Nat
    BY <1>3, <2>1, FS_Subset, FS_CardinalityType
  <2> QED
    BY <1>1, <2>1, <2>2
<1> QED
  BY <1>1, <1>2, <1>3

\* A list gets one element more.
LEMMA AppendedLemma ==
    ASSUME NEW T, NEW s \in Seq(T), NEW e, NEW r, r = Append(s, e)
    PROVE  /\ ToSet(r) = ToSet(s) \cup {e}
           /\ IsInjective(s) /\ e \notin ToSet(s) => IsInjective(r)
           /\ \A n : /\ From(s, n) \subseteq From(r, n)
                     /\ From(r, n) \subseteq From(s, n) \cup {e}
<1>1. /\ Len(s) \in Nat /\ DOMAIN s = 1 .. Len(s) /\ DOMAIN r = 1 .. Len(s) + 1
      /\ r[Len(s) + 1] = e /\ \A i \in 1 .. Len(s) : r[i] = s[i]
  OBVIOUS
<1>2. /\ \A i \in 1 .. Len(s) + 1 : i = Len(s) + 1 \/ i \in 1 .. Len(s)
      /\ \A i \in 1 .. Len(s) : i \in 1 .. Len(s) + 1
      /\ Len(s) + 1 \in 1 .. Len(s) + 1
  BY <1>1
<1>3. ToSet(r) = ToSet(s) \cup {e}
  BY <1>1, <1>2 DEF ToSet
<1>4. IsInjective(s) /\ e \notin ToSet(s) => IsInjective(r)
  BY <1>1, <1>2 DEF ToSet, IsInjective
<1>5. ASSUME NEW n
      PROVE  /\ From(s, n) \subseteq From(r, n)
             /\ From(r, n) \subseteq From(s, n) \cup {e}
  <2>1. From(s, n) \subseteq From(r, n)
    BY <1>1, <1>2 DEF From
  <2>2. From(r, n) \subseteq From(s, n) \cup {e}
    BY <1>1, <1>2 DEF From
  <2> QED
    BY <2>1, <2>2
<1> QED
  BY <1>3, <1>4, <1>5

LEMMA AppendStreamStep ==
    ASSUME SInv, NEW w \in Workers, AppendStream(w)
    PROVE  SInv'
<1> DEFINE n == Len(queues) + 1
           line == IF thread[w].rpc = "StreamMarketData" THEN "get" ELSE "send"
           r == [thread[w] EXCEPT !.queue = n, !.at = line]
<1>1. thread[w].at = "append" /\ thread[w].at # "idle"
  BY DEF AppendStream, At
<1>2. ThreadTypes /\ thread[w] \in Call /\ InMethod(thread[w])
  BY <1>1, AtLemma
<1>3. queues \in Seq(Seq(Nat \cup STRING)) /\ Len(queues) \in Nat /\ md_streams \in Seq(Made)
  BY DEF SInv, ServiceTypes, QueueTypes
<1>4. queues' = Append(queues, << >>) /\ md_streams' = Append(md_streams, Len(queues'))
      /\ thread' = [thread EXCEPT ![w].queue = Len(queues'), ![w].at = line]
  BY DEF AppendStream
<1>5. /\ Len(queues') = n /\ queues' \in Seq(Seq(Nat \cup STRING)) /\ n \in Nat
      /\ Made' = Made \cup {n} /\ n \notin Made
      /\ \A p \in Made : queues'[p] = queues[p]
  <2>1. << >> \in Seq(Nat \cup STRING)
    OBVIOUS
  <2>2. Len(queues') = n /\ queues' \in Seq(Seq(Nat \cup STRING)) /\ n \in Nat
    BY <1>3, <1>4, <2>1
  <2> QED
    BY <1>3, <1>4, <2>2 DEF Made
<1>6. UNCHANGED << waiting, listener, order_id_counter, user_queues, from_ome, subscribed, booked,
                   reported, ids, raced, replaced, yielded >>
  BY DEF AppendStream, engine, history
<1>7. /\ ToSet(md_streams') = ToSet(md_streams) \cup {n}
      /\ ToSet(md_streams) \subseteq Made
      /\ IsInjective(md_streams')
      /\ \A k : From(md_streams, k) \subseteq From(md_streams', k)
      /\ \A k : From(md_streams', k) \subseteq From(md_streams, k) \cup {n}
  <2>1. ToSet(md_streams) \subseteq Made
    BY <1>3 DEF ToSet
  <2>2. md_streams' = Append(md_streams, n)
    BY <1>4, <1>5
  <2>3. IsInjective(md_streams) /\ n \notin ToSet(md_streams)
    BY <1>5, <2>1 DEF SInv, StreamsListed
  <2> DEFINE md == md_streams'
  <2> HIDE DEF md
  <2>4. /\ ToSet(md) = ToSet(md_streams) \cup {n}
        /\ IsInjective(md_streams) /\ n \notin ToSet(md_streams) => IsInjective(md)
        /\ \A k : /\ From(md_streams, k) \subseteq From(md, k)
                  /\ From(md, k) \subseteq From(md_streams, k) \cup {n}
    <3>1. md = Append(md_streams, n)
      BY <2>2 DEF md
    <3> HIDE DEF n
    <3> QED
      BY <1>3, <3>1, AppendedLemma
  <2> QED
    BY <2>1, <2>3, <2>4 DEF md
<1>8. /\ r \in Call /\ r.at = line /\ r.queue = n /\ r.rpc = thread[w].rpc
      /\ InMethod(r)
  <2>1. r \in Call /\ r.at = line /\ r.queue = n /\ r.rpc = thread[w].rpc
    BY <1>2, <1>5 DEF Call, Lines
  <2>2. line = "get" \/ line = "send"
    OBVIOUS
  <2>3. thread[w].rpc \in {"StreamMarketData", "RequestMarketDataSnapshot"}
    BY <1>1, <1>2 DEF InMethod
  <2> HIDE DEF r, line
  <2>4. InMethod(r)
    BY <2>1, <2>2, <2>3 DEF InMethod
  <2> QED
    BY <2>1, <2>4
<1>9. thread' = [thread EXCEPT ![w] = r]
  BY <1>4, <1>5
<1>10. r.at \in {"get", "send"}
  BY <1>8
<1> HIDE DEF r, line, n
<1>11. ThreadTypes' /\ thread'[w] = r /\ \A v \in Workers : v # w => thread'[v] = thread[v]
  BY <1>2, <1>8, <1>9, MovesLemma
<1>12. QueueTypes'
  <2>1. md_streams' \in Seq(Made')
    <3>1. md_streams \in Seq(Made')
      BY <1>3, <1>5
    <3> QED
      BY <1>4, <1>5, <3>1
  <2>2. \A user \in DOMAIN user_queues : user_queues[user] \in Made'
    BY <1>5 DEF SInv, ServiceTypes, QueueTypes
  <2> QED
    BY <1>5, <1>6, <2>1, <2>2 DEF QueueTypes, SInv, ServiceTypes
<1>13. StreamsListed'
  <2>1. \A v \in Workers : v # w => (Listening(v)' <=> Listening(v))
    BY <1>11 DEF Listening, At
  <2>2. \A v \in Workers : v # w /\ Listening(v)' =>
            thread'[v].queue = thread[v].queue /\ thread[v].queue \in ToSet(md_streams)
    BY <1>11, <2>1 DEF SInv, StreamsListed
  <2>3. \A v \in Workers : v # w /\ Listening(v)' => thread'[v].queue \in Made
    BY <1>7, <2>2
  <2>4. thread'[w].queue = n
    BY <1>8, <1>11
  <2>5. \A v \in Workers : Listening(v)' => thread'[v].queue \in ToSet(md_streams')
    BY <1>7, <2>2, <2>4
  <2>6. \A u, v \in Workers : u # w /\ v # w /\ Listening(u)' /\ Listening(v)'
            /\ thread'[u].queue = thread'[v].queue => u = v
    BY <1>11, <2>1 DEF SInv, StreamsListed
  <2>7. \A u, v \in Workers : Listening(u)' /\ Listening(v)'
            /\ thread'[u].queue = thread'[v].queue => u = v
    BY <1>5, <2>3, <2>4, <2>6
  <2> QED
    BY <1>7, <2>5, <2>7 DEF StreamsListed
<1>14. BroadcastKept'
  <2> SUFFICES ASSUME listener.at = "broadcast"
               PROVE  BroadcastKept'
    BY <1>6 DEF BroadcastKept
  <2>1. listener \in Broadcast
    BY BroadcastLemma
  <2>2. /\ IsFiniteSet(listener.audience)
        /\ listener.audience \subseteq Made /\ ToSet(listener.served) \subseteq Made
        /\ IsInjective(listener.served)
        /\ ToSet(listener.served) \cap ToCome = {}
        /\ Cardinality(Lost) <= listener.left
    BY DEF SInv, BroadcastKept
  <2>3. ToCome \subseteq ToCome' /\ ToCome' \subseteq ToCome \cup {n}
    BY <1>6, <1>7 DEF ToCome
  <2>4. ToSet(listener.served) \cap ToCome' = {}
    BY <1>5, <2>2, <2>3
  <2>5. Lost' \subseteq Lost
    BY <1>6, <2>3 DEF Lost
  <2>6. Lost \in SUBSET listener.audience /\ Lost' \in SUBSET listener.audience
    BY <1>6 DEF Lost
  <2>7. Cardinality(Lost') <= listener.left
    <3>1. Cardinality(Lost') <= Cardinality(Lost) /\ Cardinality(Lost) \in Nat
      BY <2>2, <2>5, <2>6, LostLemma
    <3>2. Cardinality(Lost') \in Nat
      BY <2>2, <2>6, LostLemma
    <3>3. listener.left \in Nat
      BY <2>1 DEF Broadcast
    <3> QED
      BY <2>2, <3>1, <3>2, <3>3
  <2> QED
    BY <1>5, <1>6, <2>2, <2>4, <2>7 DEF BroadcastKept
<1>15. \A v \in Workers : thread'[v].at \in {"store", "return"} =>
               /\ thread[v].at = thread'[v].at
               /\ thread[v].counter = thread'[v].counter
  BY <1>10, <1>11
<1>16. \A v \in Workers : thread'[v].at \in {"lookup", "take"} => thread'[v] = thread[v]
  BY <1>10, <1>11
<1>17. \A p \in Made : p \in ToSet(md_streams') => p \in ToSet(md_streams)
  BY <1>5, <1>7
<1>18. listener' \in {AtRecv, [at |-> "stopped"]} \cup Broadcast \cup Delivery \cup Put
  BY <1>6 DEF SInv, ServiceTypes
<1> QED
  BY <1>5, <1>6, <1>11, <1>12, <1>13, <1>14, <1>15, <1>16, <1>17, <1>18, MarketDone

\* The contents of one market data queue change.
LEMMA ShownQueueLemma ==
    ASSUME SInv, NEW queue \in ToSet(md_streams), NEW contents \in Seq(Nat \cup STRING),
           queues' = [queues EXCEPT ![queue] = contents],
           UNCHANGED user_queues
    PROVE  /\ Made' = Made /\ queue \in Made
           /\ md_streams' = md_streams => QueueTypes'
           /\ md_streams' \in Seq(Made) => QueueTypes'
           /\ \A p \in Made : p \notin ToSet(md_streams) => queues'[p] = queues[p]
<1>1. QueueTypes
  BY DEF SInv, ServiceTypes
<1>2. queue \in Made
  BY <1>1 DEF QueueTypes, ToSet
<1>3. /\ Len(queues') = Len(queues)
      /\ queues' \in Seq(Seq(Nat \cup STRING))
      /\ queues'[queue] = contents
      /\ \A q \in Made : q # queue => queues'[q] = queues[q]
  BY <1>1, <1>2, ContentsLemma
<1>4. Made' = Made
  BY <1>3 DEF Made
<1>5. md_streams' \in Seq(Made) => QueueTypes'
  BY <1>1, <1>3, <1>4 DEF QueueTypes
<1>6. md_streams' = md_streams => QueueTypes'
  BY <1>1, <1>5 DEF QueueTypes
<1> QED
  BY <1>2, <1>3, <1>4, <1>5, <1>6

\* What a get or a put leaves in a queue.
LEMMA ItemsLemma ==
    ASSUME SInv, NEW queue \in Made
    PROVE  /\ queues[queue] \in Seq(Nat \cup STRING)
           /\ queues[queue] # << >> => Tail(queues[queue]) \in Seq(Nat \cup STRING)
           /\ queues[queue] # << >> => Head(queues[queue]) \in Nat \cup STRING
           /\ \A item \in Nat \cup STRING : Append(queues[queue], item) \in Seq(Nat \cup STRING)
<1> DEFINE Item == Nat \cup STRING
<1>1. queues \in Seq(Seq(Item)) /\ queue \in 1 .. Len(queues)
  BY DEF SInv, ServiceTypes, QueueTypes, Made
<1> HIDE DEF Item
<1>2. queues[queue] \in Seq(Item)
  BY <1>1
<1>3. /\ queues[queue] # << >> => Tail(queues[queue]) \in Seq(Item)
      /\ queues[queue] # << >> => Head(queues[queue]) \in Item
      /\ \A item \in Item : Append(queues[queue], item) \in Seq(Item)
  BY <1>2
<1> QED
  BY <1>2, <1>3 DEF Item

\* A worker that listens has a queue on the list.
LEMMA ListeningLemma ==
    ASSUME SInv, NEW w \in Workers, Listening(w)
    PROVE  thread[w].queue \in ToSet(md_streams) /\ thread[w].queue \in Made
<1>1. thread[w].queue \in ToSet(md_streams)
  BY DEF SInv, StreamsListed
<1>2. ToSet(md_streams) \subseteq Made
  BY DEF SInv, ServiceTypes, QueueTypes, ToSet
<1> QED
  BY <1>1, <1>2

LEMMA GetSnapshotStep ==
    ASSUME SInv, NEW w \in Workers, GetSnapshot(w)
    PROVE  SInv'
<1> DEFINE queue == thread[w].queue
<1>1. thread[w].at = "get" /\ thread[w].at # "idle" /\ Listening(w) /\ queues[queue] # << >>
  BY DEF GetSnapshot, At, Listening
<1>2. ThreadTypes /\ Busy(w) /\ thread[w] \in Call /\ InMethod(thread[w])
  BY <1>1, AtLemma
<1>3. queue \in ToSet(md_streams) /\ queue \in Made
  BY <1>1, ListeningLemma
<1>4. queues' = [queues EXCEPT ![queue] = Tail(queues[queue])]
  BY DEF GetSnapshot
<1>5. UNCHANGED << waiting, listener, order_id_counter, user_queues, md_streams, from_ome,
                   subscribed, booked, reported, ids, raced, replaced, yielded >>
  BY DEF GetSnapshot, engine, history
<1>6. Tail(queues[queue]) \in Seq(Nat \cup STRING)
  BY <1>1, <1>3, ItemsLemma
<1>7. /\ Made' = Made /\ QueueTypes'
      /\ \A p \in Made : p \notin ToSet(md_streams) => queues'[p] = queues[p]
  <2> DEFINE contents == Tail(queues[queue])
  <2>1. contents \in Seq(Nat \cup STRING) /\ queues' = [queues EXCEPT ![queue] = contents]
    BY <1>4, <1>6
  <2> HIDE DEF contents, queue
  <2> QED
    BY <1>3, <1>5, <2>1, ShownQueueLemma
<1>8. /\ ThreadTypes'
      /\ \A v \in Workers : v # w => thread'[v] = thread[v]
      /\ thread'[w].queue = thread[w].queue
      /\ thread'[w].at \in {"get", "finally"}
  <2>1. CASE thread' = thread
    BY <1>1, <1>2, <2>1 DEF ThreadTypes
  <2>2. CASE Goes(w, "finally")
    <3>1. "finally" \in Lines
      BY DEF Lines
    <3>2. InMethod([thread[w] EXCEPT !.at = "finally"])
      BY <1>1, <1>2, <3>1, LineLemma DEF InMethod
    <3> QED
      BY <1>2, <2>2, <3>1, <3>2, GoesLemma
  <2> QED
    BY <2>1, <2>2 DEF GetSnapshot
<1>9. StreamsListed'
  <2>1. \A v \in Workers : Listening(v)' => Listening(v) /\ thread[v].queue = thread'[v].queue
    BY <1>1, <1>8 DEF Listening, At
  <2> QED
    BY <1>5, <2>1, StreamsFrame DEF SInv
<1>10. BroadcastKept'
  BY <1>5, <1>7, BroadcastFrame DEF SInv
<1>11. \A v \in Workers : thread'[v].at \in {"store", "return"} =>
               /\ thread[v].at = thread'[v].at
               /\ thread[v].counter = thread'[v].counter
  BY <1>8
<1>12. \A v \in Workers : thread'[v].at \in {"lookup", "take"} => thread'[v] = thread[v]
  BY <1>8
<1>13. listener' \in {AtRecv, [at |-> "stopped"]} \cup Broadcast \cup Delivery \cup Put
  BY <1>5 DEF SInv, ServiceTypes
<1> QED
  BY <1>5, <1>7, <1>8, <1>9, <1>10, <1>11, <1>12, <1>13, MarketDone

\* Only the listener moves, between its broadcasts.
LEMMA ListenerOnly ==
    ASSUME SInv, UNCHANGED << waiting, thread, shared, from_ome, subscribed, booked, reported, history >>,
           listener' \in {AtRecv, [at |-> "stopped"]},
           listener.at \in Away
    PROVE  SInv'
<1>1. UNCHANGED << waiting, order_id_counter, queues, user_queues, md_streams, from_ome, subscribed, booked,
                   reported, ids, raced, replaced, yielded >>
  BY DEF shared, history
<1>2. Made' = Made
  BY <1>1 DEF Made
<1>3. ThreadTypes' /\ QueueTypes'
  BY <1>1, <1>2 DEF SInv, ServiceTypes, ThreadTypes, QueueTypes
<1>4. listener'.at \in {"recv", "stopped"}
  BY DEF AtRecv
<1>5. BroadcastKept'
  BY <1>4 DEF BroadcastKept
<1>6. \A v \in Workers : Listening(v)' <=> Listening(v)
  BY DEF Listening, At
<1>7. StreamsListed'
  BY <1>1, <1>6, StreamsFrame DEF SInv
<1>8. listener'.at \in Away
  BY <1>4 DEF Away
<1> QED
  BY <1>1, <1>2, <1>3, <1>5, <1>7, <1>8, MarketDone

LEMMA ListenerStopsStep ==
    ASSUME SInv, ListenerStops
    PROVE  SInv'
  BY ListenerOnly DEF ListenerStops, engine, Away

LEMMA EndBroadcastStep ==
    ASSUME SInv, EndBroadcast
    PROVE  SInv'
  BY ListenerOnly DEF EndBroadcast, engine, Away

LEMMA PutSnapshotStep ==
    ASSUME SInv, PutSnapshot
    PROVE  SInv'
<1> DEFINE next == listener.next
           queue == md_streams[next]
           contents == Append(queues[queue], listener.symbol)
<1>1. listener.at = "broadcast" /\ next <= Len(md_streams)
  BY DEF PutSnapshot
<1>2. listener \in Broadcast
  BY <1>1, BroadcastLemma
<1>3. next \in Nat /\ 1 <= next /\ listener.symbol \in STRING /\ listener.served \in Seq(Nat)
      /\ listener.audience \in SUBSET Nat /\ listener.left \in Nat
  BY <1>2 DEF Broadcast
<1>4. md_streams \in Seq(Made) /\ IsInjective(md_streams) /\ DOMAIN md_streams = 1 .. Len(md_streams)
  BY DEF SInv, ServiceTypes, QueueTypes, StreamsListed
<1>5. next \in 1 .. Len(md_streams)
  BY <1>1, <1>3, <1>4
<1>6. queue \in ToSet(md_streams) /\ queue \in Made /\ queue \in Nat
  BY <1>4, <1>5 DEF ToSet, Made
<1>7. /\ queues' = [queues EXCEPT ![queue] = contents]
      /\ listener' = [listener EXCEPT !.next = next + 1, !.served = Append(listener.served, queue)]
  BY DEF PutSnapshot
<1>8. UNCHANGED << waiting, thread, order_id_counter, user_queues, md_streams, from_ome,
                   subscribed, booked, reported, ids, raced, replaced, yielded >>
  BY DEF PutSnapshot, engine, history
<1>9. contents \in Seq(Nat \cup STRING)
  BY <1>3, <1>6, ItemsLemma
<1>10. /\ listener' \in Broadcast /\ listener'.at = "broadcast" /\ listener'.next = next + 1
       /\ listener'.audience = listener.audience /\ listener'.left = listener.left
       /\ listener'.served = Append(listener.served, queue)
  <2> DEFINE served == Append(listener.served, queue)
             after == next + 1
  <2>1. served \in Seq(Nat) /\ after \in Nat \ {0}
    BY <1>3, <1>6
  <2>2. listener' = [listener EXCEPT !.next = after, !.served = served]
    BY <1>7
  <2> HIDE DEF served, after
  <2>3. /\ listener' \in Broadcast /\ listener'.at = "broadcast" /\ listener'.next = after
        /\ listener'.audience = listener.audience /\ listener'.left = listener.left
        /\ listener'.served = served
    BY <1>2, <2>1, <2>2 DEF Broadcast
  <2> QED
    BY <2>3 DEF served, after
<1> HIDE DEF contents
<1>11. /\ Made' = Made /\ QueueTypes'
       /\ \A p \in Made : p \notin ToSet(md_streams) => queues'[p] = queues[p]
  <2> HIDE DEF queue
  <2> QED
    BY <1>6, <1>7, <1>8, <1>9, ShownQueueLemma
<1>12. ToCome = ToCome' \cup {queue} /\ queue \notin ToCome'
  <2>1. ToCome' = From(md_streams, next + 1)
    BY <1>8, <1>10 DEF ToCome
  <2>2. \A i \in 1 .. Len(md_streams) : i >= next <=> i = next \/ i >= next + 1
    BY <1>3, <1>4
  <2>3. ToCome = From(md_streams, next + 1) \cup {queue}
    BY <1>4, <1>5, <2>2 DEF ToCome, From
  <2>4. \A i \in 1 .. Len(md_streams) : i >= next + 1 => i # next
    BY <1>3
  <2>5. queue \notin From(md_streams, next + 1)
    BY <1>4, <1>5, <2>4 DEF From, IsInjective
  <2> QED
    BY <2>1, <2>3, <2>5
<1>13. BroadcastKept'
  <2>1. /\ IsFiniteSet(listener.audience)
        /\ listener.audience \subseteq Made /\ ToSet(listener.served) \subseteq Made
        /\ IsInjective(listener.served)
        /\ ToSet(listener.served) \cap ToCome = {}
        /\ Cardinality(Lost) <= listener.left
    BY <1>1 DEF SInv, BroadcastKept
  <2> DEFINE served == listener'.served
  <2> HIDE DEF served, queue
  <2>2. served = Append(listener.served, queue)
    BY <1>10 DEF served
  <2>3. /\ ToSet(served) = ToSet(listener.served) \cup {queue}
        /\ IsInjective(listener.served) /\ queue \notin ToSet(listener.served) => IsInjective(served)
        /\ \A n : /\ From(listener.served, n) \subseteq From(served, n)
                  /\ From(served, n) \subseteq From(listener.served, n) \cup {queue}
    BY <1>3, <2>2, AppendedLemma
  <2>4. IsInjective(served) /\ ToSet(served) \subseteq Made
    BY <1>6, <1>12, <2>1, <2>3
  <2>5. ToSet(served) \cap ToCome' = {}
    BY <1>12, <2>1, <2>3
  <2>6. Lost' = Lost
    BY <1>10, <1>12, <2>3 DEF Lost, served
  <2> QED
    BY <1>10, <1>11, <2>1, <2>4, <2>5, <2>6 DEF BroadcastKept, served
<1>14. \A v \in Workers : Listening(v)' <=> Listening(v)
  BY <1>8 DEF Listening, At
<1>15. StreamsListed' /\ ThreadTypes'
  BY <1>8, <1>14, StreamsFrame DEF SInv, ServiceTypes, ThreadTypes
<1>16. listener' \in {AtRecv, [at |-> "stopped"]} \cup Broadcast \cup Delivery \cup Put
  BY <1>10
<1>17. listener.at \in Away /\ listener'.at \in Away
  BY <1>1, <1>10 DEF Away
<1> QED
  BY <1>8, <1>11, <1>13, <1>15, <1>16, <1>17, MarketDone

LEMMA RemoveStreamStep ==
    ASSUME SInv, NEW w \in Workers, RemoveStream(w)
    PROVE  SInv'
<1> DEFINE queue == thread[w].queue
<1>1. thread[w].at = "finally" /\ thread[w].at # "idle" /\ Listening(w)
  BY DEF RemoveStream, At, Listening
<1>2. ThreadTypes
  BY <1>1, AtLemma
<1>3. queue \in ToSet(md_streams) /\ queue \in Made
  BY <1>1, ListeningLemma
<1>4. /\ md_streams' = RemoveFirst(md_streams, queue)
      /\ queues' = [queues EXCEPT ![queue] = << >>]
      /\ Ends(w) /\ listener' = Leaving
  BY DEF RemoveStream
<1>5. UNCHANGED << waiting, order_id_counter, user_queues, from_ome,
                   subscribed, booked, reported, ids, raced, replaced, yielded >>
  BY DEF RemoveStream, engine, history
<1>6. ThreadTypes' /\ thread'[w].at = "idle" /\ \A v \in Workers : v # w => thread'[v] = thread[v]
  BY <1>2, <1>4, EndsLemma
<1>7. /\ md_streams' \in Seq(Made) /\ IsInjective(md_streams')
      /\ ToSet(md_streams') = ToSet(md_streams) \ {queue}
      /\ \A n \in Nat :
            /\ From(md_streams', n) \subseteq From(md_streams, n)
            /\ AllButOne(From(md_streams, n), From(md_streams', n))
  <2>1. md_streams \in Seq(Made) /\ IsInjective(md_streams)
    BY DEF SInv, ServiceTypes, QueueTypes, StreamsListed
  <2> DEFINE md == md_streams'
  <2>2. md = RemoveFirst(md_streams, queue)
    BY <1>4
  <2> HIDE DEF md, queue
  <2>3. /\ md \in Seq(Made) /\ IsInjective(md)
        /\ ToSet(md) = ToSet(md_streams) \ {queue}
        /\ \A n \in Nat :
              /\ From(md, n) \subseteq From(md_streams, n)
              /\ AllButOne(From(md_streams, n), From(md, n))
    BY <1>3, <2>1, <2>2, RemovedLemma
  <2> QED
    BY <2>3 DEF md
<1>8. /\ Made' = Made /\ QueueTypes'
      /\ \A p \in Made : p \notin ToSet(md_streams) => queues'[p] = queues[p]
  <2>1. << >> \in Seq(Nat \cup STRING)
    OBVIOUS
  <2> HIDE DEF queue
  <2> QED
    BY <1>3, <1>4, <1>5, <1>7, <2>1, ShownQueueLemma
<1>9. StreamsListed'
  <2>1. ~Listening(w)' /\ \A v \in Workers : v # w => (Listening(v)' <=> Listening(v))
    BY <1>6 DEF Listening, At
  <2>2. \A v \in Workers : Listening(v)' =>
            Listening(v) /\ thread'[v].queue = thread[v].queue /\ v # w
    BY <1>6, <2>1
  <2>3. \A v \in Workers : Listening(v)' => thread[v].queue # queue
    BY <1>1, <2>2 DEF SInv, StreamsListed
  <2>4. \A v \in Workers : Listening(v)' => thread'[v].queue \in ToSet(md_streams')
    BY <1>7, <2>2, <2>3 DEF SInv, StreamsListed
  <2>5. \A u, v \in Workers :
            Listening(u)' /\ Listening(v)' /\ thread'[u].queue = thread'[v].queue => u = v
    BY <2>2 DEF SInv, StreamsListed
  <2> QED
    BY <1>7, <2>4, <2>5 DEF StreamsListed
<1>10. CASE listener.at # "broadcast"
  <2>1. listener' = listener
    BY <1>4, <1>10 DEF Leaving
  <2>2. BroadcastKept' /\ listener' \in {AtRecv, [at |-> "stopped"]} \cup Broadcast \cup Delivery \cup Put
    BY <1>10, <2>1 DEF BroadcastKept, SInv, ServiceTypes
  <2> QED
    BY <1>5, <1>6, <1>7, <1>8, <1>9, <2>1, <2>2, MarketDone
<1>11. CASE listener.at = "broadcast"
  <2>1. listener \in Broadcast
    BY <1>11, BroadcastLemma
  <2>2. /\ listener' \in Broadcast /\ listener'.at = "broadcast" /\ listener'.next = listener.next
        /\ listener'.audience = listener.audience /\ listener'.left = listener.left + 1
        /\ listener'.served = listener.served
        /\ listener.next \in Nat /\ listener.left \in Nat
    <3>1. listener' = [listener EXCEPT !.left = listener.left + 1]
      BY <1>4, <1>11 DEF Leaving
    <3>2. listener.next \in Nat /\ listener.left \in Nat /\ listener.left + 1 \in Nat
      BY <2>1 DEF Broadcast
    <3> QED
      BY <2>1, <3>1, <3>2 DEF Broadcast
  <2>3. /\ IsFiniteSet(listener.audience)
        /\ listener.audience \subseteq Made /\ ToSet(listener.served) \subseteq Made
        /\ IsInjective(listener.served)
        /\ ToSet(listener.served) \cap ToCome = {}
        /\ Cardinality(Lost) <= listener.left
    BY <1>11 DEF SInv, BroadcastKept
  <2>4. ToCome' \subseteq ToCome /\ AllButOne(ToCome, ToCome')
    BY <1>7, <2>2 DEF ToCome
  <2>5. PICK x : ToCome \subseteq ToCome' \cup {x}
    BY <2>4 DEF AllButOne
  <2>6. Lost' \subseteq Lost \cup {x}
    BY <2>2, <2>5 DEF Lost
  <2>7. Lost \in SUBSET listener.audience /\ Lost' \in SUBSET listener.audience
    BY <2>2 DEF Lost
  <2>8. Cardinality(Lost') <= listener'.left
    <3>1. Cardinality(Lost') <= Cardinality(Lost) + 1 /\ Cardinality(Lost) \in Nat
      BY <2>3, <2>6, <2>7, LostLemma
    <3>2. Cardinality(Lost') \in Nat
      BY <2>3, <2>7, LostLemma
    <3> QED
      BY <2>2, <2>3, <3>1, <3>2
  <2>9. BroadcastKept'
    BY <1>8, <2>2, <2>3, <2>4, <2>8 DEF BroadcastKept
  <2>10. listener' \in {AtRecv, [at |-> "stopped"]} \cup Broadcast \cup Delivery \cup Put
    BY <2>2
  <2>11. listener.at \in Away /\ listener'.at \in Away
    BY <1>11, <2>2 DEF Away
  <2> QED
    BY <1>5, <1>6, <1>7, <1>8, <1>9, <2>9, <2>10, <2>11, MarketDone
<1> QED
  BY <1>10, <1>11

-----------------------------------------------------------------------------
(***************************************************************************)
(* What the listener reads, and where it looks for a queue.                *)
(***************************************************************************)
ListenerTypes == {AtRecv, [at |-> "stopped"]} \cup Broadcast \cup Delivery \cup Put

\* The listener moves, and the queues stay.
LEMMA ListenerMoves ==
    ASSUME SInv, UNCHANGED << waiting, thread, shared, subscribed, booked, reported, history >>,
           from_ome' \in Seq(Messages), listener' \in ListenerTypes,
           ReportsNumbered', \A user \in Users : Handed(user)' = Handed(user), BroadcastKept',
           listener'.at \in {"lookup", "put"} => listener'.user \in DOMAIN user_queues,
           listener'.at = "put" => listener'.queue = user_queues[listener'.user],
           listener'.at = "create" => listener'.user \notin DOMAIN user_queues
    PROVE  SInv'
<1>1. UNCHANGED << waiting, order_id_counter, queues, user_queues, md_streams, subscribed, booked,
                   reported, ids, raced, replaced, yielded >>
  BY DEF shared, history
<1>2. Made' = Made
  BY <1>1 DEF Made
<1>3. ServiceTypes'
  BY <1>1, <1>2 DEF SInv, ServiceTypes, ThreadTypes, QueueTypes, ListenerTypes, Messages
<1>4. raced' \/ CounterKept'
  BY <1>1, CounterFrame DEF SInv
<1>5. \A v \in Workers : Listening(v)' <=> Listening(v)
  BY DEF Listening, At
<1>6. StreamsListed'
  BY <1>1, <1>5, StreamsFrame DEF SInv
<1>7. QueuesAreOwned'
  <2>1. \A q \in Nat : \A user \in Users : Uses(user, q)' => Uses(user, q)
    BY <1>1 DEF Uses, At
  <2> QED
    BY <1>1, <1>2, <2>1, OwnedFrame DEF SInv
<1>8. QueueIsThere'
  BY <1>1 DEF SInv, QueueIsThere
<1>9. QueueIsCurrent'
  BY <1>1 DEF SInv, QueueIsCurrent, At, Waits
<1>10. ReportsInOrder'
  BY <1>1 DEF SInv, ReportsInOrder, Waits
<1> QED
  BY <1>3, <1>4, <1>6, <1>7, <1>8, <1>9, <1>10 DEF SInv

\* The first message leaves the connection.
LEMMA TakenLemma ==
    ASSUME SInv, from_ome # << >>, from_ome' = Tail(from_ome), reported' = reported,
           \A user \in Users : ~Holds(user),
           \A user \in Users : Holds(user)' <=>
               Head(from_ome).type = "REPORT" /\ Head(from_ome).user = user,
           Head(from_ome).type = "REPORT" => listener'.report = Head(from_ome).report
    PROVE  /\ from_ome' \in Seq(Messages) /\ ReportsNumbered'
           /\ \A user \in Users : Handed(user)' = Handed(user)
<1> DEFINE s == from_ome
           t == Tail(from_ome)
<1>1. /\ s \in Seq(Messages) /\ reported \in [Users -> Nat]
      /\ \A i \in DOMAIN s : s[i].type = "REPORT" => s[i] \in Report
  BY TransitTypes
<1>2. /\ t \in Seq(Messages) /\ Len(s) \in Nat \ {0} /\ DOMAIN s = 1 .. Len(s)
      /\ DOMAIN t = 1 .. Len(s) - 1 /\ Head(s) = s[1] /\ 1 \in DOMAIN s
      /\ \A k \in 1 .. Len(s) - 1 : t[k] = s[k + 1] /\ k + 1 \in DOMAIN s /\ k \in Nat
  BY <1>1
<1>3. \A user : \A i \in Nat : Cardinality(Behind(t, user, i)) = Cardinality(Behind(s, user, i + 1))
  BY <1>1, TailBehind
<1>4. ASSUME NEW user \in Users
      PROVE  /\ ReportsIn(t, user) = Cardinality(Behind(s, user, 1))
             /\ ReportsIn(t, user) \in Nat
             /\ ReportsIn(s, user) = ReportsIn(t, user)
                  + (IF Head(s).type = "REPORT" /\ Head(s).user = user THEN 1 ELSE 0)
  <2>1. ReportsIn(t, user) = Cardinality(Behind(t, user, 0)) /\ ReportsIn(s, user) = Cardinality(Behind(s, user, 0))
    BY <1>1, <1>2, ReportsBehind
  <2>2. 0 + 1 = 1 /\ 0 \in Nat
    OBVIOUS
  <2>3. Cardinality(Behind(t, user, 0)) = Cardinality(Behind(s, user, 1))
    <3>1. Cardinality(Behind(t, user, 0)) = Cardinality(Behind(s, user, 0 + 1))
      BY <1>3, <2>2
    <3> QED
      BY <3>1
  <2>4. Cardinality(Behind(t, user, 0)) \in Nat
    BY <1>2, BehindFinite
  <2>5. Cardinality(Behind(s, user, 0)) = Cardinality(Behind(s, user, 1))
            + (IF Head(s).type = "REPORT" /\ Head(s).user = user THEN 1 ELSE 0)
    BY <1>1, HeadBehind
  <2> QED
    BY <2>1, <2>3, <2>4, <2>5
<1>5. from_ome' = t
  OBVIOUS
<1> HIDE DEF t
<1>6. ASSUME NEW user \in Users
      PROVE  Handed(user)' = Handed(user)
  <2>1. Handed(user) = reported[user] - ReportsIn(s, user)
    <3>1. ~Holds(user) /\ reported[user] \in Nat /\ ReportsIn(s, user) \in Int
      BY <1>1, <1>4
    <3> HIDE DEF s
    <3>2. Handed(user) = reported[user] - ReportsIn(s, user) - 0
      BY <3>1 DEF Handed, Holds, s
    <3> QED
      BY <3>1, <3>2
  <2>2. Handed(user)' = reported[user] - ReportsIn(t, user)
            - (IF Head(s).type = "REPORT" /\ Head(s).user = user THEN 1 ELSE 0)
    <3>1. Holds(user)' <=> Head(s).type = "REPORT" /\ Head(s).user = user
      OBVIOUS
    <3>2. Handed(user)' = reported[user] - ReportsIn(t, user) - (IF Holds(user)' THEN 1 ELSE 0)
      BY <1>5 DEF Handed, Holds
    <3> QED
      BY <3>1, <3>2
  <2>3. reported[user] \in Nat
    BY <1>1
  <2> HIDE DEF s
  <2> QED
    BY <1>4, <2>1, <2>2, <2>3
<1>7. ASSUME NEW user \in Users, Holds(user)'
      PROVE  listener'.report + ReportsIn(t, user) = reported[user]
  <2>1. Head(s).type = "REPORT" /\ Head(s).user = user /\ listener'.report = Head(s).report
    BY <1>7
  <2>2. s[1].report + Cardinality(Behind(s, s[1].user, 1)) = reported[s[1].user]
    BY <1>2, <2>1 DEF SInv, ReportsNumbered
  <2> QED
    BY <1>2, <1>4, <2>1, <2>2
<1>8. ASSUME NEW i \in DOMAIN t, t[i].type = "REPORT"
      PROVE  t[i].report + Cardinality(Behind(t, t[i].user, i)) = reported[t[i].user]
  <2>1. t[i] = s[i + 1] /\ i + 1 \in DOMAIN s /\ i \in Nat
    BY <1>2
  <2>2. s[i + 1].report + Cardinality(Behind(s, s[i + 1].user, i + 1)) = reported[s[i + 1].user]
    BY <1>8, <2>1 DEF SInv, ReportsNumbered
  <2> QED
    BY <1>3, <2>1, <2>2
<1>9. \A user \in Users : Handed(user)' \in Nat
  BY <1>6 DEF SInv, ReportsNumbered
<1>10. ReportsNumbered'
  BY <1>5, <1>7, <1>8, <1>9 DEF ReportsNumbered
<1> QED
  BY <1>2, <1>5, <1>6, <1>10

\* The calls that wait for market data have queues on the list.
LEMMA AudienceLemma ==
    ASSUME SInv
    PROVE  /\ Audience \subseteq ToSet(md_streams) /\ Audience \subseteq Made
           /\ IsFiniteSet(Audience) /\ From(md_streams, 1) = ToSet(md_streams)
<1>1. \A w \in Workers : At(w, "get") => Listening(w)
  BY DEF At, Listening
<1>2. Audience \subseteq ToSet(md_streams) /\ Audience \subseteq Made
  BY <1>1, ListeningLemma DEF Audience
<1>3. md_streams \in Seq(Made) /\ queues \in Seq(Seq(Nat \cup STRING))
  BY DEF SInv, ServiceTypes, QueueTypes
<1>4. IsFiniteSet(Made)
  <2>1. Len(queues) \in Int /\ 1 \in Int
    BY <1>3
  <2> QED
    BY <2>1, FS_Interval DEF Made
<1>5. IsFiniteSet(Audience)
  BY <1>2, <1>4, FS_Subset
<1>6. From(md_streams, 1) = ToSet(md_streams)
  <2>1. DOMAIN md_streams = 1 .. Len(md_streams) /\ \A i \in 1 .. Len(md_streams) : i >= 1
    BY <1>3
  <2> QED
    BY <2>1 DEF From, ToSet
<1> QED
  BY <1>2, <1>5, <1>6

LEMMA ReceiveStep ==
    ASSUME SInv, Receive
    PROVE  SInv'
<1> DEFINE message == Head(from_ome)
<1>1. /\ listener.at = "recv" /\ from_ome # << >> /\ from_ome' = Tail(from_ome)
      /\ UNCHANGED << waiting, thread, shared, subscribed, booked, reported, history >>
  BY DEF Receive
<1>2. message \in Messages
  <2>1. from_ome \in Seq(Messages)
    BY TransitTypes
  <2> QED
    BY <1>1, <2>1
<1>3. message \in Report \/ message \in Shown
  BY <1>2 DEF Messages
<1>4. \A user \in Users : ~Holds(user)
  BY <1>1 DEF Holds
<1>5. CASE message \in Shown
  <2>1. message.type = "SNAPSHOT" /\ message.symbol \in STRING
    BY <1>5 DEF Shown
  <2>2. listener' = [at |-> "broadcast", symbol |-> message.symbol, next |-> 1,
                     audience |-> Audience, served |-> << >>, left |-> 0]
    BY <2>1 DEF Receive
  <2>3. Audience \subseteq ToSet(md_streams) /\ Audience \subseteq Made
        /\ IsFiniteSet(Audience) /\ From(md_streams, 1) = ToSet(md_streams)
    BY AudienceLemma
  <2>4. Audience \in SUBSET Nat
    BY <2>3 DEF Made
  <2>5. /\ listener' \in Broadcast /\ listener'.at = "broadcast" /\ listener'.next = 1
        /\ listener'.audience = Audience /\ listener'.served = << >> /\ listener'.left = 0
    <3>1. << >> \in Seq(Nat) /\ 1 \in Nat \ {0} /\ 0 \in Nat
      OBVIOUS
    <3> QED
      BY <2>1, <2>2, <2>4, <3>1 DEF Broadcast
  <2>6. \A user \in Users : ~Holds(user)'
    BY <2>5 DEF Holds
  <2>7. from_ome' \in Seq(Messages) /\ ReportsNumbered'
        /\ \A user \in Users : Handed(user)' = Handed(user)
    BY <1>1, <1>4, <2>1, <2>6, TakenLemma
  <2>8. BroadcastKept'
    <3>1. ToSet(listener'.served) = {} /\ IsInjective(listener'.served)
      BY <2>5 DEF ToSet, IsInjective
    <3>2. md_streams' = md_streams /\ Made' = Made
      BY <1>1 DEF shared, Made
    <3>3. ToCome' = ToSet(md_streams)
      BY <2>3, <2>5, <3>2 DEF ToCome
    <3>4. Lost' = {}
      BY <2>3, <2>5, <3>3 DEF Lost
    <3>5. Cardinality(Lost') = 0
      BY <3>4, FS_EmptySet
    <3> QED
      BY <2>3, <2>5, <3>1, <3>2, <3>5 DEF BroadcastKept
  <2>9. listener' \in ListenerTypes /\ listener'.at = "broadcast"
    BY <2>5 DEF ListenerTypes
  <2> QED
    BY <1>1, <2>7, <2>8, <2>9, ListenerMoves
<1>6. CASE message \in Report
  <2>1. message.type = "REPORT" /\ message.user \in Users /\ message.report \in Nat
    BY <1>6 DEF Report
  <2>2. listener' = [at |-> "test", user |-> message.user, report |-> message.report]
    BY <2>1 DEF Receive
  <2>3. listener' \in ListenerTypes /\ listener'.at = "test"
    BY <2>1, <2>2 DEF ListenerTypes, Delivery
  <2>4. \A user \in Users : Holds(user)' <=> message.user = user
    BY <2>2 DEF Holds
  <2>5. from_ome' \in Seq(Messages) /\ ReportsNumbered'
        /\ \A user \in Users : Handed(user)' = Handed(user)
    <3>1. listener'.report = message.report
      BY <2>2
    <3> QED
      BY <1>1, <1>4, <2>1, <2>4, <3>1, TakenLemma
  <2>6. BroadcastKept'
    BY <2>3 DEF BroadcastKept
  <2> QED
    BY <1>1, <2>3, <2>5, <2>6, ListenerMoves
<1> QED
  BY <1>3, <1>5, <1>6

\* What the listener has in handle_execution.
LEMMA HoldsLemma ==
    ASSUME SInv, listener.at \in {"test", "create", "lookup", "put"}
    PROVE  /\ listener \in Delivery \cup Put
           /\ listener.user \in Users /\ listener.report \in Nat
           /\ listener.at = "put" => listener \in Put /\ listener.queue \in Nat
           /\ listener.at # "put" => listener \in Delivery
  BY DEF SInv, ServiceTypes, AtRecv, Broadcast, Delivery, Put

\* The listener goes on with the report it has.
LEMMA StillHolds ==
    ASSUME SInv, from_ome' = from_ome, reported' = reported,
           listener.at \in {"test", "create", "lookup", "put"},
           listener'.at \in {"test", "create", "lookup", "put"},
           listener'.user = listener.user, listener'.report = listener.report
    PROVE  ReportsNumbered' /\ \A user \in Users : Handed(user)' = Handed(user)
<1>1. \A user \in Users : Holds(user)' <=> Holds(user)
  BY DEF Holds
<1> QED
  BY <1>1, NumberedFrame DEF SInv

LEMMA ListenerTestsStep ==
    ASSUME SInv, ListenerTests
    PROVE  SInv'
<1> DEFINE line == IF listener.user \in DOMAIN user_queues THEN "lookup" ELSE "create"
<1>1. /\ listener.at = "test"
      /\ UNCHANGED << waiting, thread, shared, subscribed, booked, reported, history >>
      /\ from_ome' = from_ome /\ listener' = [listener EXCEPT !.at = line]
  BY DEF ListenerTests, engine
<1>2. listener \in Delivery
  BY <1>1, HoldsLemma
<1>3. /\ listener' \in Delivery /\ listener'.at = line /\ listener'.user = listener.user
      /\ listener'.report = listener.report
  BY <1>1, <1>2 DEF Delivery
<1>4. listener' \in ListenerTypes /\ from_ome' \in Seq(Messages)
  BY <1>1, <1>3, TransitTypes DEF ListenerTypes
<1>5. ReportsNumbered' /\ \A user \in Users : Handed(user)' = Handed(user)
  BY <1>1, <1>3, StillHolds
<1>6. BroadcastKept'
  BY <1>3 DEF BroadcastKept
<1> QED
  BY <1>1, <1>3, <1>4, <1>5, <1>6, ListenerMoves

LEMMA ListenerLooksUpStep ==
    ASSUME SInv, ListenerLooksUp
    PROVE  SInv'
<1> DEFINE queue == user_queues[listener.user]
<1>1. /\ listener.at = "lookup"
      /\ UNCHANGED << waiting, thread, shared, subscribed, booked, reported, history >>
      /\ from_ome' = from_ome
      /\ listener' = [at |-> "put", user |-> listener.user, report |-> listener.report,
                      queue |-> queue]
  BY DEF ListenerLooksUp, engine
<1>2. listener.user \in Users /\ listener.report \in Nat
  BY <1>1, HoldsLemma
<1>3. listener.user \in DOMAIN user_queues
  BY <1>1 DEF SInv, QueueIsThere
<1>4. queue \in Nat
  BY <1>3 DEF SInv, ServiceTypes, QueueTypes, Made
<1>5. /\ listener' \in Put /\ listener'.at = "put" /\ listener'.user = listener.user
      /\ listener'.report = listener.report /\ listener'.queue = queue
  BY <1>1, <1>2, <1>4 DEF Put
<1>6. listener' \in ListenerTypes /\ from_ome' \in Seq(Messages)
  BY <1>1, <1>5, TransitTypes DEF ListenerTypes
<1>7. ReportsNumbered' /\ \A user \in Users : Handed(user)' = Handed(user)
  BY <1>1, <1>5, StillHolds
<1>8. BroadcastKept'
  BY <1>5 DEF BroadcastKept
<1> QED
  BY <1>1, <1>3, <1>5, <1>6, <1>7, <1>8, ListenerMoves

-----------------------------------------------------------------------------
(***************************************************************************)
(* A user gets a queue.                                                    *)
(***************************************************************************)
\* The queue of a user that a thread looked up or finds in the dict.
LEMMA UsedLemma ==
    ASSUME SInv
    PROVE  /\ \A user \in DOMAIN user_queues :
                 /\ user \in Users /\ user_queues[user] \in Nat
                 /\ user_queues[user] \in Made /\ Uses(user, user_queues[user])
           /\ \A v \in Workers : thread[v].at = "take" =>
                 /\ thread[v].user \in Users /\ thread[v].queue \in Nat
                 /\ thread[v].queue \in Made /\ Uses(thread[v].user, thread[v].queue)
                 /\ thread[v].user \in DOMAIN user_queues
           /\ listener.at = "put" =>
                 /\ listener.user \in Users /\ listener.queue \in Nat
                 /\ listener.queue \in Made /\ Uses(listener.user, listener.queue)
                 /\ listener.user \in DOMAIN user_queues
<1>1. ASSUME NEW user \in DOMAIN user_queues
      PROVE  /\ user \in Users /\ user_queues[user] \in Nat
             /\ user_queues[user] \in Made /\ Uses(user, user_queues[user])
  <2>1. user \in Users /\ user_queues[user] \in Made
    BY DEF SInv, ServiceTypes, QueueTypes
  <2> QED
    BY <2>1 DEF Uses, Made
<1>2. ASSUME NEW v \in Workers, thread[v].at = "take"
      PROVE  /\ thread[v].user \in Users /\ thread[v].queue \in Nat
             /\ thread[v].queue \in Made /\ Uses(thread[v].user, thread[v].queue)
             /\ thread[v].user \in DOMAIN user_queues
  <2>1. thread[v] \in Call
    BY <1>2, AtLemma
  <2>2. thread[v].user \in Users /\ thread[v].queue \in Nat
    BY <2>1 DEF Call
  <2>3. Uses(thread[v].user, thread[v].queue)
    BY <1>2 DEF Uses, At
  <2>4. thread[v].queue \in Made
    BY <2>2, <2>3, ApartLemma
  <2>5. thread[v].user \in DOMAIN user_queues
    BY <1>2 DEF SInv, QueueIsThere
  <2> QED
    BY <2>2, <2>3, <2>4, <2>5
<1>3. ASSUME listener.at = "put"
      PROVE  /\ listener.user \in Users /\ listener.queue \in Nat
             /\ listener.queue \in Made /\ Uses(listener.user, listener.queue)
             /\ listener.user \in DOMAIN user_queues
  <2>1. listener.user \in Users /\ listener.queue \in Nat
    BY <1>3, HoldsLemma
  <2>2. Uses(listener.user, listener.queue)
    BY <1>3 DEF Uses
  <2>3. listener.queue \in Made
    BY <2>1, <2>2, ApartLemma
  <2>4. listener.user \in DOMAIN user_queues
    BY <1>3 DEF SInv, QueueIsThere
  <2> QED
    BY <2>1, <2>2, <2>3, <2>4
<1> QED
  BY <1>1, <1>2, <1>3

\* A new queue for a user that had none, or had no report in it, or is one of
\* those that lose reports.
LEMMA NewQueueStep ==
    ASSUME SInv, NEW user \in Users, NewUserQueue(user), replaced \subseteq replaced',
           ThreadTypes', listener' \in ListenerTypes,
           UNCHANGED << waiting, order_id_counter, md_streams, engine, ids, raced, yielded >>,
           user \notin replaced' => Waits(user) = << >>,
           ReportsNumbered', \A u \in Users : Handed(u)' = Handed(u), BroadcastKept',
           \A v \in Workers : thread'[v].at \notin {"lookup"} => thread'[v] = thread[v],
           \A v \in Workers : thread'[v].at = "lookup" =>
               thread'[v] = thread[v] \/ thread'[v].user = user,
           listener' = listener \/ (listener'.at = "lookup" /\ listener'.user = user),
           listener'.at = "put" /\ listener'.user = user => user \in replaced'
    PROVE  SInv'
<1> DEFINE n == Len(queues) + 1
<1>1. QueueTypes /\ Len(queues) \in Nat /\ md_streams \in Seq(Made)
  BY DEF SInv, ServiceTypes, QueueTypes
<1>2. /\ Len(queues') = n
      /\ queues' \in Seq(Seq(Nat \cup STRING))
      /\ queues'[n] = << >>
      /\ \A q \in Made : queues'[q] = queues[q]
      /\ DOMAIN user_queues' = DOMAIN user_queues \cup {user}
      /\ user_queues'[user] = n
      /\ \A other \in DOMAIN user_queues : other # user =>
             user_queues'[other] = user_queues[other]
  BY <1>1, NewQueueLemma
<1>3. n \in Nat /\ n \notin Made /\ Made' = Made \cup {n}
  BY <1>1, <1>2 DEF Made
<1>4. /\ \A u \in DOMAIN user_queues :
                 /\ u \in Users /\ user_queues[u] \in Nat
                 /\ user_queues[u] \in Made /\ Uses(u, user_queues[u])
      /\ \A v \in Workers : thread[v].at = "take" =>
                 /\ thread[v].user \in Users /\ thread[v].queue \in Nat
                 /\ thread[v].queue \in Made /\ Uses(thread[v].user, thread[v].queue)
                 /\ thread[v].user \in DOMAIN user_queues
      /\ listener.at = "put" =>
                 /\ listener.user \in Users /\ listener.queue \in Nat
                 /\ listener.queue \in Made /\ Uses(listener.user, listener.queue)
                 /\ listener.user \in DOMAIN user_queues
  BY UsedLemma
<1> HIDE DEF n
<1>5. QueueTypes'
  <2>1. DOMAIN user_queues' \subseteq Users
    BY <1>1, <1>2 DEF QueueTypes
  <2>2. \A u \in DOMAIN user_queues' : user_queues'[u] \in Made'
    BY <1>2, <1>3, <1>4
  <2>3. md_streams' \in Seq(Made')
    BY <1>1, <1>3
  <2> QED
    BY <1>2, <2>1, <2>2, <2>3 DEF QueueTypes
<1>6. ServiceTypes'
  BY <1>5 DEF SInv, ServiceTypes, ListenerTypes, engine
<1>7. raced' \/ CounterKept'
  BY CounterFrame DEF SInv
<1>8. StreamsListed'
  <2>1. \A v \in Workers : Listening(v)' => Listening(v) /\ thread[v].queue = thread'[v].queue
    BY DEF Listening, At
  <2> QED
    BY <2>1, StreamsFrame DEF SInv
<1>9. QueuesAreOwned'
  <2>1. ToSet(md_streams) \subseteq Made
    BY <1>1 DEF ToSet
  <2>2. ASSUME NEW q \in Nat, NEW u \in Users, Uses(u, q)'
        PROVE  Uses(u, q) \/ (u = user /\ q = n)
    <3>1. CASE u \in DOMAIN user_queues' /\ user_queues'[u] = q
      BY <1>2, <3>1 DEF Uses
    <3>2. CASE \E w \in Workers : thread'[w].at = "take" /\ thread'[w].user = u /\ thread'[w].queue = q
      BY <3>2 DEF Uses, At
    <3>3. CASE listener'.at = "put" /\ listener'.user = u /\ listener'.queue = q
      BY <3>3 DEF Uses
    <3> QED
      BY <2>2, <3>1, <3>2, <3>3 DEF Uses, At
  <2>3. \A u \in Users : ~Uses(u, n)
    BY <1>3, ApartLemma
  <2>4. ASSUME NEW q \in Nat
        PROVE  /\ \A u \in Users : Uses(u, q)' => q \in Made' /\ q \notin ToSet(md_streams')
               /\ \A u, other \in Users : Uses(u, q)' /\ Uses(other, q)' => u = other
    <3>1. \A u \in Users : Uses(u, q)' => q \in Made' /\ q \notin ToSet(md_streams')
      BY <1>3, <2>1, <2>2, ApartLemma
    <3>2. \A u, other \in Users : Uses(u, q) /\ Uses(other, q) => u = other
      BY DEF SInv, QueuesAreOwned
    <3>3. \A u, other \in Users : Uses(u, q)' /\ Uses(other, q)' => u = other
      BY <2>2, <2>3, <3>2
    <3> QED
      BY <3>1, <3>3
  <2> QED
    BY <2>4 DEF QueuesAreOwned
<1>10. QueueIsThere'
  <2>1. \A v \in Workers : thread'[v].at \in {"lookup", "take"} => thread'[v].user \in DOMAIN user_queues'
    BY <1>2, LookingLemma
  <2>2. listener'.at \in {"lookup", "put"} => listener'.user \in DOMAIN user_queues'
    BY <1>2 DEF SInv, QueueIsThere
  <2> QED
    BY <2>1, <2>2 DEF QueueIsThere
<1>11. /\ \A u \in Users : u # user => Waits(u)' = Waits(u)
       /\ Waits(user)' = << >>
  <2>1. Waits(user)' = << >>
    BY <1>2 DEF Waits
  <2>2. ASSUME NEW u \in Users, u # user
        PROVE  Waits(u)' = Waits(u)
    BY <1>2, <1>4, <2>2 DEF Waits
  <2> QED
    BY <2>1, <2>2
<1>12. ReportsInOrder'
  <2> SUFFICES ASSUME NEW u \in Users \ replaced'
               PROVE  yielded'[u] \o Waits(u)' = [i \in 1 .. Handed(u)' |-> i]
    BY DEF ReportsInOrder
  <2>1. Waits(u)' = Waits(u)
    BY <1>11
  <2>2. yielded'[u] = yielded[u] /\ Handed(u)' = Handed(u) /\ u \in Users \ replaced
    OBVIOUS
  <2> QED
    BY <2>1, <2>2 DEF SInv, ReportsInOrder
<1>13. QueueIsCurrent'
  <2>1. ASSUME NEW v \in Workers, thread'[v].at = "take", thread'[v].user \notin replaced'
        PROVE  \/ thread'[v].queue = user_queues'[thread'[v].user]
               \/ queues'[thread'[v].queue] = << >>
    <3>1. /\ thread'[v] = thread[v] /\ thread[v].user \notin replaced
          /\ thread[v].queue \in Made /\ thread[v].user \in DOMAIN user_queues
      BY <1>4, <2>1
    <3>2. thread[v].queue = user_queues[thread[v].user] \/ queues[thread[v].queue] = << >>
      BY <2>1, <3>1 DEF SInv, QueueIsCurrent, At
    <3>3. CASE thread[v].user # user
      BY <1>2, <3>1, <3>2, <3>3
    <3>4. CASE thread[v].user = user
      <4>1. queues[user_queues[user]] = << >>
        BY <2>1, <3>1, <3>4 DEF Waits
      <4> QED
        BY <1>2, <3>1, <3>2, <3>4, <4>1
    <3> QED
      BY <3>3, <3>4
  <2>2. ASSUME listener'.at = "put", listener'.user \notin replaced'
        PROVE  listener'.queue = user_queues'[listener'.user]
    <3>1. listener' = listener /\ listener.user # user /\ listener.user \notin replaced
      BY <2>2
    <3>2. listener.queue = user_queues[listener.user]
      BY <2>2, <3>1 DEF SInv, QueueIsCurrent
    <3> QED
      BY <1>2, <1>4, <2>2, <3>1, <3>2
  <2>3. ASSUME listener'.at = "create", listener'.user \notin replaced'
        PROVE  Waits(listener.user)' = << >>
    <3>1. listener' = listener /\ listener.user \notin replaced
      BY <2>3
    <3>2. Waits(listener.user) = << >>
      BY <2>3, <3>1 DEF SInv, QueueIsCurrent
    <3>3. listener.user \in Users
      BY <2>3, <3>1, HoldsLemma
    <3>4. \A u : u = listener.user => Waits(u)' = << >>
      BY <1>11, <3>2, <3>3
    <3> QED
      BY <3>1, <3>4 DEF Waits
  <2> QED
    BY <2>1, <2>2, <2>3 DEF QueueIsCurrent, At
<1> QED
  BY <1>6, <1>7, <1>8, <1>9, <1>10, <1>12, <1>13 DEF SInv

LEMMA CreateQueueStep ==
    ASSUME SInv, NEW w \in Workers, CreateQueue(w)
    PROVE  SInv'
<1> DEFINE user == thread[w].user
<1>1. thread[w].at = "create" /\ thread[w].at # "idle"
  BY DEF CreateQueue, At
<1>2. ThreadTypes /\ Busy(w) /\ thread[w] \in Call /\ InMethod(thread[w])
  BY <1>1, AtLemma
<1>3. user \in Users
  BY <1>2 DEF Call
<1>4. /\ NewUserQueue(user)
      /\ replaced' = IF user \in DOMAIN user_queues THEN replaced \cup {user} ELSE replaced
      /\ Goes(w, "lookup")
      /\ UNCHANGED << waiting, listener, order_id_counter, md_streams, engine, ids, raced, yielded >>
  BY DEF CreateQueue
<1>5. /\ ThreadTypes' /\ thread'[w].at = "lookup" /\ thread'[w].user = user
      /\ \A v \in Workers : v # w => thread'[v] = thread[v]
  <2>1. "lookup" \in Lines
    BY DEF Lines
  <2>2. InMethod([thread[w] EXCEPT !.at = "lookup"])
    BY <1>1, <1>2, <2>1, LineLemma DEF InMethod
  <2> QED
    BY <1>2, <1>4, <2>1, <2>2, GoesLemma
<1>6. user \notin replaced' => Waits(user) = << >>
  BY <1>4 DEF Waits
<1>7. ReportsNumbered' /\ \A u \in Users : Handed(u)' = Handed(u)
  BY <1>4, SameTransit DEF engine
<1>8. Made \subseteq Made'
  <2>1. QueueTypes
    BY DEF SInv, ServiceTypes
  <2>2. Len(queues') = Len(queues) + 1 /\ Len(queues) \in Nat
    BY <2>1, <1>4 DEF NewUserQueue, QueueTypes
  <2> QED
    BY <2>2 DEF Made
<1>9. BroadcastKept'
  BY <1>4, <1>8, BroadcastFrame DEF SInv
<1>10. listener.at = "put" /\ listener.user = user => user \in replaced'
  BY <1>4, UsedLemma
<1>11. listener' \in ListenerTypes
  BY <1>4 DEF SInv, ServiceTypes, ListenerTypes
<1>12. replaced \subseteq replaced'
  BY <1>4
<1>13. /\ \A v \in Workers : thread'[v].at \notin {"lookup"} => thread'[v] = thread[v]
       /\ \A v \in Workers : thread'[v].at = "lookup" => thread'[v] = thread[v] \/ thread'[v].user = user
  BY <1>5
<1> HIDE DEF user
<1> QED
  BY <1>3, <1>4, <1>5, <1>6, <1>7, <1>9, <1>10, <1>11, <1>12, <1>13, NewQueueStep

LEMMA ListenerCreatesStep ==
    ASSUME SInv, ListenerCreates
    PROVE  SInv'
<1> DEFINE user == listener.user
<1>1. /\ listener.at = "create" /\ NewUserQueue(user)
      /\ listener' = [listener EXCEPT !.at = "lookup"]
      /\ UNCHANGED << waiting, thread, order_id_counter, md_streams, engine, ids, raced, replaced, yielded >>
  BY DEF ListenerCreates, history
<1>2. listener \in Delivery /\ user \in Users
  BY <1>1, HoldsLemma
<1>3. /\ listener' \in Delivery /\ listener'.at = "lookup" /\ listener'.user = user
      /\ listener'.report = listener.report
  BY <1>1, <1>2 DEF Delivery
<1>4. ReportsNumbered' /\ \A u \in Users : Handed(u)' = Handed(u)
  BY <1>1, <1>3, StillHolds DEF engine
<1>5. BroadcastKept'
  BY <1>3 DEF BroadcastKept
<1>6. user \notin replaced' => Waits(user) = << >>
  BY <1>1 DEF SInv, QueueIsCurrent
<1>7. ThreadTypes'
  BY <1>1 DEF SInv, ServiceTypes, ThreadTypes
<1>8. listener' \in ListenerTypes
  BY <1>3 DEF ListenerTypes
<1>9. replaced \subseteq replaced' /\ \A v \in Workers : thread'[v] = thread[v]
  BY <1>1
<1> HIDE DEF user
<1> QED
  BY <1>1, <1>2, <1>3, <1>4, <1>5, <1>6, <1>7, <1>8, <1>9, NewQueueStep

-----------------------------------------------------------------------------
(***************************************************************************)
(* A report is taken or put.                                               *)
(***************************************************************************)
\* The contents of a queue of a user change.
LEMMA UserQueueStep ==
    ASSUME SInv, NEW user \in Users, NEW queue \in Nat, Uses(user, queue),
           NEW contents \in Seq(Nat \cup STRING),
           queues' = [queues EXCEPT ![queue] = contents],
           UNCHANGED << waiting, order_id_counter, user_queues, md_streams, engine, ids, raced, replaced >>,
           user \notin replaced => user \in DOMAIN user_queues /\ queue = user_queues[user],
           ThreadTypes', listener' \in ListenerTypes, yielded' \in [Users -> Seq(Nat \cup STRING)],
           \A v \in Workers : thread'[v].at # "lookup" => thread'[v] = thread[v],
           \A v \in Workers : thread'[v].at = "lookup" => thread'[v].user \in DOMAIN user_queues,
           listener' = listener \/ listener' = AtRecv,
           listener'.at = "create" /\ listener'.user = user => user \in replaced,
           ReportsNumbered',
           \A other \in Users : other # user =>
               yielded'[other] = yielded[other] /\ Handed(other)' = Handed(other),
           user \notin replaced => yielded'[user] \o contents = [i \in 1 .. Handed(user)' |-> i]
    PROVE  SInv'
<1>1. QueueTypes
  BY DEF SInv, ServiceTypes
<1>2. queue \in Made
  BY ApartLemma
<1>3. /\ Len(queues') = Len(queues)
      /\ queues' \in Seq(Seq(Nat \cup STRING))
      /\ queues'[queue] = contents
      /\ \A q \in Made : q # queue => queues'[q] = queues[q]
  BY <1>1, <1>2, ContentsLemma
<1>4. Made' = Made
  BY <1>3 DEF Made
<1>5. /\ \A u \in DOMAIN user_queues :
                 /\ u \in Users /\ user_queues[u] \in Nat
                 /\ user_queues[u] \in Made /\ Uses(u, user_queues[u])
      /\ \A v \in Workers : thread[v].at = "take" =>
                 /\ thread[v].user \in Users /\ thread[v].queue \in Nat
                 /\ thread[v].queue \in Made /\ Uses(thread[v].user, thread[v].queue)
                 /\ thread[v].user \in DOMAIN user_queues
      /\ listener.at = "put" =>
                 /\ listener.user \in Users /\ listener.queue \in Nat
                 /\ listener.queue \in Made /\ Uses(listener.user, listener.queue)
                 /\ listener.user \in DOMAIN user_queues
  BY UsedLemma
<1>6. \A other \in Users : Uses(other, queue) => other = user
  BY DEF SInv, QueuesAreOwned
<1>7. QueueTypes'
  BY <1>1, <1>3, <1>4 DEF QueueTypes
<1>8. ServiceTypes'
  BY <1>7 DEF SInv, ServiceTypes, ListenerTypes, engine
<1>9. raced' \/ CounterKept'
  BY CounterFrame DEF SInv
<1>10. StreamsListed'
  <2>1. \A v \in Workers : Listening(v)' => Listening(v) /\ thread[v].queue = thread'[v].queue
    BY DEF Listening, At
  <2> QED
    BY <2>1, StreamsFrame DEF SInv
<1>11. listener'.at # "recv" => listener' = listener
  BY DEF AtRecv
<1>12. QueuesAreOwned'
  <2>1. \A q \in Nat : \A u \in Users : Uses(u, q)' => Uses(u, q)
    BY <1>11 DEF Uses, At
  <2> QED
    BY <1>4, <2>1, OwnedFrame DEF SInv
<1>13. BroadcastKept'
  <2>1. CASE listener' = listener
    BY <1>4, <2>1, BroadcastFrame DEF SInv
  <2>2. CASE listener' = AtRecv
    BY <2>2 DEF BroadcastKept, AtRecv
  <2> QED
    BY <2>1, <2>2
<1>14. QueueIsThere'
  <2>1. \A v \in Workers : thread'[v].at \in {"lookup", "take"} => thread'[v].user \in DOMAIN user_queues
    BY LookingLemma
  <2>2. listener'.at \in {"lookup", "put"} => listener'.user \in DOMAIN user_queues
    BY <1>11 DEF SInv, QueueIsThere
  <2> QED
    BY <2>1, <2>2 DEF QueueIsThere
<1>15. \A other \in Users : other # user => Waits(other)' = Waits(other)
  BY <1>3, <1>5, <1>6 DEF Waits
<1>16. user \notin replaced => Waits(user)' = contents
  BY <1>3 DEF Waits
<1>17. ReportsInOrder'
  <2> SUFFICES ASSUME NEW u \in Users \ replaced
               PROVE  yielded'[u] \o Waits(u)' = [i \in 1 .. Handed(u)' |-> i]
    BY DEF ReportsInOrder
  <2>1. CASE u = user
    BY <1>16, <2>1
  <2>2. CASE u # user
    <3>1. yielded'[u] = yielded[u] /\ Handed(u)' = Handed(u) /\ Waits(u)' = Waits(u)
      BY <1>15, <2>2
    <3> QED
      BY <3>1 DEF SInv, ReportsInOrder
  <2> QED
    BY <2>1, <2>2
<1>18. QueueIsCurrent'
  <2>1. ASSUME NEW v \in Workers, thread'[v].at = "take", thread'[v].user \notin replaced
        PROVE  thread'[v].queue = user_queues[thread'[v].user] \/ queues'[thread'[v].queue] = << >>
    <3>1. thread'[v] = thread[v]
      BY <2>1
    <3>2. thread[v].queue = user_queues[thread[v].user] \/ queues[thread[v].queue] = << >>
      BY <2>1, <3>1 DEF SInv, QueueIsCurrent, At
    <3>3. CASE thread[v].queue = queue
      <4>1. thread[v].user = user
        BY <1>5, <1>6, <2>1, <3>1, <3>3
      <4> QED
        BY <2>1, <3>1, <3>3, <4>1
    <3>4. CASE thread[v].queue # queue
      BY <1>3, <1>5, <2>1, <3>1, <3>2, <3>4
    <3> QED
      BY <3>3, <3>4
  <2>2. listener'.at = "put" /\ listener'.user \notin replaced =>
            listener'.queue = user_queues[listener'.user]
    BY <1>11 DEF SInv, QueueIsCurrent
  <2>3. ASSUME listener'.at = "create", listener'.user \notin replaced
        PROVE  Waits(listener.user)' = << >>
    <3>1. listener' = listener /\ listener.user # user
      BY <1>11, <2>3
    <3>2. Waits(listener.user) = << >>
      BY <2>3, <3>1 DEF SInv, QueueIsCurrent
    <3>3. listener.user \in Users
      BY <2>3, <3>1, HoldsLemma
    <3>4. \A u : u = listener.user => Waits(u)' = << >>
      BY <1>15, <3>1, <3>2, <3>3
    <3> QED
      BY <3>1, <3>4 DEF Waits
  <2> QED
    BY <2>1, <2>2, <2>3 DEF QueueIsCurrent, At
<1> QED
  BY <1>8, <1>9, <1>10, <1>12, <1>13, <1>14, <1>17, <1>18 DEF SInv

LEMMA SameLemma ==
    ASSUME NEW T, NEW s \in Seq(T), NEW n \in Nat, Len(s) = n
    PROVE  s = [i \in 1 .. n |-> s[i]]
  OBVIOUS

LEMMA ConcatLemma ==
    ASSUME NEW T, NEW s \in Seq(T), NEW t \in Seq(T), NEW r, r = s \o t
    PROVE  /\ Len(s) \in Nat /\ Len(t) \in Nat
           /\ r \in Seq(T) /\ Len(r) = Len(s) + Len(t)
           /\ \A i \in 1 .. Len(s) : r[i] = s[i]
           /\ \A i \in Len(s) + 1 .. Len(s) + Len(t) : r[i] = t[i - Len(s)]
  OBVIOUS

\* What leaves the head of the second list is the end of the first.
LEMMA PassLemma ==
    ASSUME NEW T, NEW s \in Seq(T), NEW t \in Seq(T), t # << >>
    PROVE  Append(s, Head(t)) \o Tail(t) = s \o t
<1> DEFINE a == Append(s, Head(t))
           b == Tail(t)
           x == a \o b
           y == s \o t
<1>1. /\ Len(s) \in Nat /\ Len(t) \in Nat \ {0} /\ Head(t) \in T /\ Head(t) = t[1]
      /\ b \in Seq(T) /\ Len(b) = Len(t) - 1 /\ \A i \in 1 .. Len(t) - 1 : b[i] = t[i + 1]
  OBVIOUS
<1>2. /\ a \in Seq(T) /\ Len(a) = Len(s) + 1 /\ a[Len(s) + 1] = t[1]
      /\ \A i \in 1 .. Len(s) : a[i] = s[i]
  BY <1>1
<1> HIDE DEF a, b
<1>0. x = a \o b /\ y = s \o t
  OBVIOUS
<1> HIDE DEF x, y
<1>3. /\ Len(a) \in Nat /\ Len(b) \in Nat
      /\ x \in Seq(T) /\ Len(x) = Len(a) + Len(b)
      /\ \A i \in 1 .. Len(a) : x[i] = a[i]
      /\ \A i \in Len(a) + 1 .. Len(a) + Len(b) : x[i] = b[i - Len(a)]
  <2>1. a \in Seq(T) /\ b \in Seq(T) /\ x = a \o b
    BY <1>0, <1>1, <1>2
  <2> QED
    BY <2>1, ConcatLemma
<1>4. /\ Len(s) \in Nat /\ Len(t) \in Nat
      /\ y \in Seq(T) /\ Len(y) = Len(s) + Len(t)
      /\ \A i \in 1 .. Len(s) : y[i] = s[i]
      /\ \A i \in Len(s) + 1 .. Len(s) + Len(t) : y[i] = t[i - Len(s)]
  BY <1>0, ConcatLemma
<1>5. Len(x) = Len(s) + Len(t)
  BY <1>1, <1>2, <1>3
<1>6. ASSUME NEW i \in 1 .. Len(s) + Len(t)
      PROVE  x[i] = y[i]
  <2>1. CASE i <= Len(s)
    <3>1. i \in 1 .. Len(s) /\ i \in 1 .. Len(a)
      BY <1>1, <1>2, <2>1
    <3> QED
      BY <1>2, <1>3, <1>4, <3>1
  <2>2. CASE i = Len(s) + 1
    <3>1. i \in 1 .. Len(a) /\ i \in Len(s) + 1 .. Len(s) + Len(t) /\ i - Len(s) = 1
      BY <1>1, <1>2, <2>2
    <3> QED
      BY <1>2, <1>3, <1>4, <2>2, <3>1
  <2>3. CASE i > Len(s) + 1
    <3>1. i \in Len(a) + 1 .. Len(a) + Len(b) /\ i \in Len(s) + 1 .. Len(s) + Len(t)
      BY <1>1, <1>2, <2>3
    <3>2. i - Len(a) \in 1 .. Len(t) - 1 /\ (i - Len(a)) + 1 = i - Len(s)
      BY <1>1, <1>2, <2>3
    <3> QED
      BY <1>1, <1>3, <1>4, <3>1, <3>2
  <2> QED
    BY <1>1, <2>1, <2>2, <2>3
<1>7. x = y
  <2> DEFINE n == Len(s) + Len(t)
  <2>1. n \in Nat /\ Len(x) = n /\ Len(y) = n
    BY <1>1, <1>4, <1>5
  <2>2. \A i \in 1 .. n : x[i] = y[i]
    BY <1>6
  <2> HIDE DEF n
  <2>3. x = [i \in 1 .. n |-> x[i]] /\ y = [i \in 1 .. n |-> y[i]]
    BY <1>3, <1>4, <2>1, SameLemma
  <2>4. [i \in 1 .. n |-> x[i]] = [i \in 1 .. n |-> y[i]]
    BY <2>2
  <2> QED
    BY <2>3, <2>4
<1> QED
  BY <1>7 DEF x, y, a, b

UpTo(n) == [i \in 1 .. n |-> i]

\* The numbers from 1 to n.
Numbers(x, n) == Len(x) = n /\ \A i \in 1 .. n : x[i] = i

\* The next number is put at the end of the second list.
LEMMA NextLemma ==
    ASSUME NEW T, NEW s \in Seq(T), NEW t \in Seq(T), NEW n \in Nat, n + 1 \in T,
           NEW x \in Seq(T), x = s \o t, Numbers(x, n)
    PROVE  s \o Append(t, n + 1) = UpTo(n + 1)
<1> DEFINE u == Append(t, n + 1)
           r == s \o u
           a == Len(s)
           b == Len(t)
           m == n + 1
<1>1. /\ a \in Nat /\ b \in Nat /\ a + b = n
      /\ \A i \in 1 .. a : x[i] = s[i]
      /\ \A i \in a + 1 .. a + b : x[i] = t[i - a]
  BY ConcatLemma DEF Numbers
<1>2. u \in Seq(T) /\ Len(u) = b + 1 /\ u[b + 1] = m /\ \A i \in 1 .. b : u[i] = t[i]
  OBVIOUS
<1> HIDE DEF u
<1>3. /\ r \in Seq(T) /\ Len(r) = a + Len(u)
      /\ \A i \in 1 .. a : r[i] = s[i]
      /\ \A i \in a + 1 .. a + Len(u) : r[i] = u[i - a]
  BY <1>2, ConcatLemma
<1> HIDE DEF r, a, b
<1>4. \A i \in 1 .. n : x[i] = i
  BY DEF Numbers
<1> SUFFICES r = [i \in 1 .. m |-> i]
  BY DEF r, u, UpTo
<1>5. m \in Nat /\ Len(r) = m /\ m = a + b + 1
  BY <1>1, <1>2, <1>3
<1>6. \A i \in a + 1 .. m : r[i] = u[i - a]
  BY <1>1, <1>2, <1>3, <1>5
<1>7. ASSUME NEW i \in 1 .. m
      PROVE  r[i] = i
  <2>1. CASE i = m
    <3>1. i \in a + 1 .. m /\ i - a = b + 1
      BY <1>1, <1>5, <2>1
    <3> QED
      BY <1>2, <1>6, <2>1, <3>1
  <2>2. CASE i \in 1 .. a
    <3>1. i \in 1 .. n
      BY <1>1, <2>2
    <3> QED
      BY <1>1, <1>3, <1>4, <2>2, <3>1
  <2>3. CASE i \in a + 1 .. a + b
    <3>1. i \in a + 1 .. m /\ i - a \in 1 .. b /\ i \in 1 .. n
      BY <1>1, <1>5, <2>3
    <3> QED
      BY <1>1, <1>2, <1>4, <1>6, <2>3, <3>1
  <2>4. i = m \/ i \in 1 .. a \/ i \in a + 1 .. a + b
    BY <1>1, <1>5
  <2> QED
    BY <2>1, <2>2, <2>3, <2>4
<1> HIDE DEF m
<1>8. r = [i \in 1 .. m |-> r[i]]
  BY <1>3, <1>5, SameLemma
<1> QED
  BY <1>7, <1>8

LEMMA TakeReportStep ==
    ASSUME SInv, NEW w \in Workers, TakeReport(w)
    PROVE  SInv'
<1>a. At(w, "take") /\ thread[w].at = "take"
  BY DEF TakeReport, At
<1>b. PICK user \in Users : user = thread[w].user
  BY <1>a, UsedLemma
<1>c. PICK queue \in Nat : queue = thread[w].queue
  BY <1>a, UsedLemma
<1> DEFINE items == queues[queue]
           contents == Tail(items)
<1>1. At(w, "take") /\ thread[w].at = "take" /\ items # << >> /\ LooksAgain(w)
  BY <1>c DEF TakeReport, At
<1>2. /\ user \in Users /\ queue \in Nat /\ queue \in Made /\ Uses(user, queue)
      /\ user \in DOMAIN user_queues
  BY <1>1, <1>b, <1>c, UsedLemma
<1>3. /\ queues' = [queues EXCEPT ![queue] = contents]
      /\ yielded' = [yielded EXCEPT ![user] = Append(yielded[user], Head(items))]
      /\ UNCHANGED << waiting, listener, order_id_counter, user_queues, md_streams, engine,
                      ids, raced, replaced >>
  BY <1>b, <1>c DEF TakeReport
<1>4. /\ items \in Seq(Nat \cup STRING) /\ contents \in Seq(Nat \cup STRING)
      /\ Head(items) \in Nat \cup STRING
  BY <1>1, <1>2, ItemsLemma
<1>5. yielded \in [Users -> Seq(Nat \cup STRING)]
  BY DEF SInv, ServiceTypes
<1>6. yielded[user] \in Seq(Nat \cup STRING)
  BY <1>2, <1>5
<1>7. /\ yielded' \in [Users -> Seq(Nat \cup STRING)]
      /\ yielded'[user] = Append(yielded[user], Head(items))
      /\ \A other \in Users : other # user => yielded'[other] = yielded[other]
  <2> DEFINE more == Append(yielded[user], Head(items))
  <2>1. more \in Seq(Nat \cup STRING)
    BY <1>4, <1>6
  <2> HIDE DEF more
  <2>2. yielded' = [yielded EXCEPT ![user] = more]
    BY <1>3 DEF more
  <2>3. /\ yielded' \in [Users -> Seq(Nat \cup STRING)]
        /\ yielded'[user] = more
        /\ \A other \in Users : other # user => yielded'[other] = yielded[other]
    BY <1>2, <1>5, <2>1, <2>2
  <2> QED
    BY <2>3 DEF more
<1>8. /\ ThreadTypes'
      /\ thread'[w].at = "lookup" /\ thread'[w].user = user
      /\ \A v \in Workers : v # w => thread'[v] = thread[v]
  BY <1>1, <1>b, LooksAgainLemma
<1>9. ASSUME user \notin replaced
      PROVE  queue = user_queues[user] /\ Waits(user) = items
  <2>1. queue = user_queues[user]
    BY <1>1, <1>9, <1>b, <1>c DEF SInv, QueueIsCurrent
  <2> QED
    BY <1>2, <2>1 DEF Waits
<1>10. ReportsNumbered' /\ \A u \in Users : Handed(u)' = Handed(u)
  BY <1>3, SameTransit DEF engine
<1>11. ASSUME user \notin replaced
       PROVE  yielded'[user] \o contents = [i \in 1 .. Handed(user)' |-> i]
  <2>1. yielded[user] \o Waits(user) = [i \in 1 .. Handed(user) |-> i]
    BY <1>2, <1>11 DEF SInv, ReportsInOrder
  <2> DEFINE Item == Nat \cup STRING
             taken == yielded[user]
  <2>2. taken \in Seq(Item) /\ items \in Seq(Item) /\ items # << >>
    BY <1>1, <1>4, <1>6
  <2> HIDE DEF Item, taken, items
  <2>3. Append(taken, Head(items)) \o Tail(items) = taken \o items
    BY <2>2, PassLemma
  <2> QED
    BY <1>2, <1>7, <1>9, <1>10, <1>11, <2>1, <2>3 DEF taken
<1>12. listener'.at = "create" /\ listener'.user = user => user \in replaced
  <2> SUFFICES ASSUME listener.at = "create", listener.user = user, user \notin replaced
               PROVE  FALSE
    BY <1>3
  <2>1. Waits(listener.user) = << >>
    BY DEF SInv, QueueIsCurrent
  <2> QED
    BY <1>1, <1>9, <2>1
<1>13. listener' \in ListenerTypes /\ listener' = listener
  BY <1>3 DEF SInv, ServiceTypes, ListenerTypes
<1>14. /\ \A v \in Workers : thread'[v].at # "lookup" => thread'[v] = thread[v]
       /\ \A v \in Workers : thread'[v].at = "lookup" => thread'[v].user \in DOMAIN user_queues
  BY <1>2, <1>8, LookingLemma
<1> HIDE DEF contents, items
<1>15. user \notin replaced => user \in DOMAIN user_queues /\ queue = user_queues[user]
  BY <1>2, <1>9
<1>16. \A other \in Users : other # user =>
               yielded'[other] = yielded[other] /\ Handed(other)' = Handed(other)
  BY <1>7, <1>10
<1> QED
  BY <1>2, <1>3, <1>4, <1>7, <1>8, <1>10, <1>11, <1>12, <1>13, <1>14, <1>15, <1>16, UserQueueStep

LEMMA ListenerPutsStep ==
    ASSUME SInv, ListenerPuts
    PROVE  SInv'
<1>a. listener.at = "put"
  BY DEF ListenerPuts
<1>b. PICK user \in Users : user = listener.user
  BY <1>a, UsedLemma
<1>c. PICK queue \in Nat : queue = listener.queue
  BY <1>a, UsedLemma
<1>d. PICK report \in Nat : report = listener.report
  BY <1>a, HoldsLemma
<1> DEFINE items == queues[queue]
           contents == Append(items, report)
<1>1. /\ listener.at = "put" /\ queues' = [queues EXCEPT ![queue] = contents]
      /\ listener' = AtRecv
      /\ UNCHANGED << waiting, thread, order_id_counter, user_queues, md_streams, engine,
                      ids, raced, replaced, yielded >>
  BY <1>c, <1>d DEF ListenerPuts, history
<1>2. /\ user \in Users /\ queue \in Nat /\ queue \in Made /\ Uses(user, queue)
      /\ user \in DOMAIN user_queues /\ report \in Nat
  BY <1>1, <1>b, <1>c, UsedLemma
<1>3. items \in Seq(Nat \cup STRING) /\ contents \in Seq(Nat \cup STRING)
  BY <1>2, ItemsLemma
<1>4. yielded \in [Users -> Seq(Nat \cup STRING)] /\ reported \in [Users -> Nat]
      /\ from_ome' = from_ome /\ reported' = reported
  BY <1>1 DEF SInv, ServiceTypes, engine
<1>5. \A u \in Users : ~Holds(u)' /\ (Holds(u) <=> u = user)
  BY <1>1, <1>b DEF Holds, AtRecv
<1>6. ASSUME NEW u \in Users
      PROVE  ReportsIn(from_ome, u) \in Nat /\ reported[u] \in Nat
  <2>1. from_ome \in Seq(Messages)
    BY TransitTypes
  <2>2. ReportsIn(from_ome, u) = Cardinality(Behind(from_ome, u, 0))
    BY <2>1, ReportsBehind
  <2> QED
    BY <1>4, <2>1, <2>2, BehindFinite
<1>7. ASSUME NEW u \in Users
      PROVE  /\ Handed(u)' = reported[u] - ReportsIn(from_ome, u)
             /\ Handed(u) = reported[u] - ReportsIn(from_ome, u) - (IF u = user THEN 1 ELSE 0)
             /\ Handed(u) \in Nat
  <2>1. Handed(u)' = reported[u] - ReportsIn(from_ome, u) - (IF Holds(u)' THEN 1 ELSE 0)
    BY <1>4 DEF Handed, Holds
  <2>2. Handed(u) = reported[u] - ReportsIn(from_ome, u) - (IF Holds(u) THEN 1 ELSE 0)
    BY DEF Handed, Holds
  <2>3. Handed(u) \in Nat
    BY DEF SInv, ReportsNumbered
  <2>4. ~Holds(u)' /\ (Holds(u) <=> u = user)
    BY <1>5
  <2>5. reported[u] - ReportsIn(from_ome, u) - 0 = reported[u] - ReportsIn(from_ome, u)
    BY <1>6
  <2> QED
    BY <2>1, <2>2, <2>3, <2>4, <2>5
<1>8. report + ReportsIn(from_ome, user) = reported[user]
  BY <1>2, <1>5, <1>b, <1>d DEF SInv, ReportsNumbered
<1>9. report = Handed(user) + 1 /\ Handed(user)' = Handed(user) + 1 /\ Handed(user) \in Nat
  <2>1. /\ Handed(user)' = reported[user] - ReportsIn(from_ome, user)
        /\ Handed(user) = reported[user] - ReportsIn(from_ome, user) - 1
        /\ Handed(user) \in Nat
    BY <1>2, <1>7
  <2>2. ReportsIn(from_ome, user) \in Nat /\ reported[user] \in Nat
    BY <1>2, <1>6
  <2> QED
    BY <1>2, <1>8, <2>1, <2>2
<1>10. \A other \in Users : other # user => Handed(other)' = Handed(other)
  <2> SUFFICES ASSUME NEW other \in Users, other # user
               PROVE  Handed(other)' = Handed(other)
    OBVIOUS
  <2>1. /\ Handed(other)' = reported[other] - ReportsIn(from_ome, other)
        /\ Handed(other) = reported[other] - ReportsIn(from_ome, other) - 0
    BY <1>7
  <2>2. ReportsIn(from_ome, other) \in Nat /\ reported[other] \in Nat
    BY <1>6
  <2> QED
    BY <2>1, <2>2
<1>11. ReportsNumbered'
  <2>1. \A u \in Users : Handed(u)' \in Nat
    <3> TAKE u \in Users
    <3>1. CASE u = user
      BY <1>9, <3>1
    <3>2. CASE u # user
      BY <1>7, <1>10, <3>2
    <3> QED
      BY <3>1, <3>2
  <2> QED
    BY <1>4, <1>5, <2>1 DEF SInv, ReportsNumbered
<1>12. ASSUME user \notin replaced
       PROVE  /\ queue = user_queues[user]
              /\ yielded'[user] \o contents = [i \in 1 .. Handed(user)' |-> i]
  <2>1. queue = user_queues[user]
    BY <1>1, <1>12, <1>b, <1>c DEF SInv, QueueIsCurrent
  <2>2. Waits(user) = items
    BY <1>2, <2>1 DEF Waits
  <2> DEFINE Item == Nat \cup STRING
             taken == yielded[user]
             n == Handed(user)
             x == taken \o items
  <2>3. taken \in Seq(Item) /\ items \in Seq(Item) /\ n \in Nat /\ n + 1 \in Item
    BY <1>2, <1>3, <1>4, <1>9
  <2>4. x = [i \in 1 .. n |-> i]
    BY <1>2, <1>12, <2>2 DEF SInv, ReportsInOrder
  <2> HIDE DEF Item, taken, items, n
  <2>5. x \in Seq(Item)
    BY <2>3
  <2>6. x = taken \o items
    OBVIOUS
  <2> HIDE DEF x
  <2>7. Numbers(x, n)
    BY <2>3, <2>4, <2>5 DEF Numbers
  <2>8. taken \o Append(items, n + 1) = UpTo(n + 1)
    BY <2>3, <2>5, <2>6, <2>7, NextLemma
  <2> QED
    BY <1>1, <1>9, <2>1, <2>8 DEF taken, n, UpTo
<1>13. ThreadTypes' /\ listener' \in ListenerTypes
  BY <1>1 DEF SInv, ServiceTypes, ThreadTypes, ListenerTypes
<1>14. listener'.at # "create"
  BY <1>1 DEF AtRecv
<1>15. yielded' \in [Users -> Seq(Nat \cup STRING)]
  BY <1>1, <1>4
<1>16. \A v \in Workers : thread'[v] = thread[v]
  BY <1>1
<1>17. \A v \in Workers : thread'[v].at = "lookup" => thread'[v].user \in DOMAIN user_queues
  BY <1>16, LookingLemma
<1>18. \A other \in Users : other # user =>
               yielded'[other] = yielded[other] /\ Handed(other)' = Handed(other)
  BY <1>1, <1>10
<1> HIDE DEF contents, items
<1> QED
  BY <1>1, <1>2, <1>3, <1>11, <1>12, <1>13, <1>14, <1>15, <1>16, <1>17, <1>18, UserQueueStep

-----------------------------------------------------------------------------
(***************************************************************************)
(* The invariant holds.                                                    *)
(***************************************************************************)
LEMMA InitSInv == ServiceInit => SInv
<1> SUFFICES ASSUME ServiceInit
             PROVE  SInv
  OBVIOUS
<1>1. \A w \in Workers : thread[w] = IdleThread /\ thread[w].at = "idle"
  BY DEF ServiceInit, IdleThread
<1>2. /\ listener = AtRecv /\ listener.at = "recv" /\ queues = << >> /\ md_streams = << >>
      /\ DOMAIN user_queues = {} /\ from_ome = << >> /\ ids = << >>
      /\ order_id_counter = 0 /\ waiting = << >> /\ subscribed = {} /\ booked = {}
      /\ reported = [user \in Users |-> 0] /\ yielded = [user \in Users |-> << >>]
  BY DEF ServiceInit, AtRecv
<1>3. /\ << >> \in Seq(Calls) /\ << >> \in Seq(Seq(Nat \cup STRING)) /\ << >> \in Seq(Nat)
      /\ << >> \in Seq(Report \cup Shown) /\ << >> \in Seq(Nat \cup STRING) /\ << >> \in Seq(Made)
  OBVIOUS
<1>4. ServiceTypes
  <2>1. ThreadTypes
    BY <1>1 DEF ServiceInit, ThreadTypes
  <2>2. QueueTypes
    BY <1>2, <1>3 DEF QueueTypes
  <2> QED
    BY <1>2, <1>3, <2>1, <2>2 DEF ServiceTypes
<1>5. CounterKept
  BY <1>1, <1>2 DEF CounterKept, Counting, At, IsInjective
<1>6. StreamsListed
  BY <1>1, <1>2 DEF StreamsListed, Listening, At, IsInjective
<1>7. QueuesAreOwned
  BY <1>1, <1>2 DEF QueuesAreOwned, Uses, At
<1>8. \A user \in Users : ReportsIn(from_ome, user) = 0 /\ Handed(user) = 0 /\ ~Holds(user)
  <2> SUFFICES ASSUME NEW user \in Users
               PROVE  ReportsIn(from_ome, user) = 0 /\ Handed(user) = 0 /\ ~Holds(user)
    OBVIOUS
  <2>1. {i \in DOMAIN from_ome : from_ome[i].type = "REPORT" /\ from_ome[i].user = user} = {}
    BY <1>2
  <2>2. ReportsIn(from_ome, user) = 0
    BY <2>1, FS_EmptySet DEF ReportsIn
  <2>3. reported[user] = 0 /\ ~Holds(user)
    BY <1>2 DEF Holds
  <2>4. Handed(user) = reported[user] - ReportsIn(from_ome, user) - 0
    BY <2>3 DEF Handed, Holds
  <2>5. Handed(user) = 0
    BY <2>2, <2>3, <2>4
  <2> QED
    BY <2>2, <2>3, <2>5
<1>9. ReportsNumbered
  BY <1>2, <1>8 DEF ReportsNumbered
<1>10. QueueIsThere /\ QueueIsCurrent
  BY <1>1, <1>2 DEF QueueIsThere, QueueIsCurrent, At
<1>11. ReportsInOrder
  <2> SUFFICES ASSUME NEW user \in Users
               PROVE  yielded[user] \o Waits(user) = [i \in 1 .. Handed(user) |-> i]
    BY DEF ReportsInOrder
  <2>1. yielded[user] = << >> /\ Waits(user) = << >> /\ Handed(user) = 0
    BY <1>2, <1>8 DEF Waits
  <2>2. << >> \o << >> = << >> /\ [i \in 1 .. 0 |-> i] = << >>
    OBVIOUS
  <2> QED
    BY <2>1, <2>2
<1>12. BroadcastKept
  BY <1>2 DEF BroadcastKept
<1> QED
  BY <1>4, <1>5, <1>6, <1>7, <1>9, <1>10, <1>11, <1>12 DEF SInv

LEMMA WorkerStep ==
    ASSUME SInv, NEW w \in Workers, Worker(w)
    PROVE  SInv'
  BY TakeCallStep, SendStep, SendFailsStep, LoadCounterStep, StoreCounterStep, ReturnCounterStep,
     TestQueueStep, CreateQueueStep, LookupQueueStep, TakeReportStep, TakeTimesOutStep,
     LeaveExecutionsStep, AppendStreamStep, GetSnapshotStep, GetEndsStep, RemoveStreamStep
     DEF Worker

LEMMA ListenerStep ==
    ASSUME SInv, Listener
    PROVE  SInv'
  BY ReceiveStep, ListenerStopsStep, PutSnapshotStep, EndBroadcastStep, ListenerTestsStep,
     ListenerCreatesStep, ListenerLooksUpStep, ListenerPutsStep DEF Listener

LEMMA StutterStep ==
    ASSUME SInv, UNCHANGED serviceVars
    PROVE  SInv'
<1>1. waiting' = waiting /\ thread' = thread /\ UNCHANGED << listener, shared, engine, history >>
  BY DEF serviceVars
<1>2. ThreadTypes' /\ waiting' \in Seq(Calls)
  BY <1>1 DEF SInv, ServiceTypes, ThreadTypes
<1>3. \A v \in Workers : Listening(v)' <=> Listening(v)
  BY <1>1 DEF Listening, At
<1>4. \A v \in Workers : thread'[v].at \in {"lookup", "take"} => thread'[v].user \in DOMAIN user_queues
  BY <1>1, LookingLemma
<1> QED
  BY <1>1, <1>2, <1>3, <1>4, LocalStep

LEMMA NextSInv == SInv /\ [ServiceNext]_serviceVars => SInv'
<1> SUFFICES ASSUME SInv, [ServiceNext]_serviceVars
             PROVE  SInv'
  OBVIOUS
<1>1. CASE Traders
  BY <1>1, SubmitStep, HangUpStep DEF Traders
<1>2. CASE \E w \in Workers : Worker(w)
  BY <1>2, WorkerStep
<1>3. CASE Listener
  BY <1>3, ListenerStep
<1>4. CASE \E symbol \in subscribed : OmeBroadcasts(symbol)
  BY <1>4, OmeBroadcastsStep
<1>5. CASE OmeGoes
  BY <1>5, OmeGoesStep
<1>6. CASE UNCHANGED serviceVars
  BY <1>6, StutterStep
<1> QED
  BY <1>1, <1>2, <1>3, <1>4, <1>5, <1>6 DEF ServiceNext

\* In every interleaving of the workers and the listener the counter, the dict,
\* the lists and the queues are consistent with each other.
THEOREM ServiceInvariance == ServiceSpec => []SInv
<1>1. ServiceInit => SInv
  BY InitSInv
<1>2. SInv /\ [ServiceNext]_serviceVars => SInv'
  BY NextSInv
<1> QED
  BY <1>1, <1>2, PTL DEF ServiceSpec

\* get_order_id gives no id twice, unless two workers were in it at once.
THEOREM IdsUnlessRaced == ServiceSpec => []IdsAreUnique
<1>1. SInv => IdsAreUnique
  BY DEF SInv, CounterKept, IdsAreUnique
<1> QED
  BY <1>1, ServiceInvariance, PTL

\* What the streams of a user took and what waits for it are its reports, once
\* each and in order, unless a stream has replaced its queue.
THEOREM ReportsKeepTheirOrder == ServiceSpec => []ReportsInOrder
<1>1. SInv => ReportsInOrder
  BY DEF SInv
<1> QED
  BY <1>1, ServiceInvariance, PTL

\* A broadcast serves no queue twice, and misses at most as many of those that
\* waited for it as have left the list while it went on.
THEOREM BroadcastMissesOnlyLeavers == ServiceSpec => []BroadcastReachesAll
<1>1. SInv => BroadcastReachesAll
  <2> SUFFICES ASSUME SInv, listener.at = "broadcast"
               PROVE  /\ IsInjective(listener.served)
                      /\ listener.next > Len(md_streams) =>
                            Cardinality(listener.audience \ ToSet(listener.served)) <= listener.left
    BY DEF BroadcastReachesAll
  <2>1. IsInjective(listener.served) /\ Cardinality(Lost) <= listener.left
    BY DEF SInv, BroadcastKept
  <2>2. ASSUME listener.next > Len(md_streams)
        PROVE  Cardinality(listener.audience \ ToSet(listener.served)) <= listener.left
    <3>1. listener \in Broadcast
      BY BroadcastLemma
    <3>2. listener.next \in Nat /\ md_streams \in Seq(Made)
      BY <3>1 DEF Broadcast, SInv, ServiceTypes, QueueTypes
    <3>3. DOMAIN md_streams = 1 .. Len(md_streams) /\ Len(md_streams) \in Nat
      BY <3>2
    <3>4. \A j \in DOMAIN md_streams : ~(j >= listener.next)
      BY <2>2, <3>2, <3>3
    <3>5. ToCome = {}
      BY <3>4 DEF ToCome, From
    <3>6. Lost = listener.audience \ ToSet(listener.served)
      BY <3>5 DEF Lost
    <3> QED
      BY <2>1, <3>6
  <2> QED
    BY <2>1, <2>2
<1> QED
  BY <1>1, ServiceInvariance, PTL
=============================================================================
