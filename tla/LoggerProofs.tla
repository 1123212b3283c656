----------------------------- MODULE LoggerProofs -----------------------------
(***************************************************************************)
(* Proofs that the logger keeps its lines: for any number of threads and   *)
(* calls, whenever its threads are interrupted, notified or woken.         *)
(***************************************************************************)
EXTENDS Logger, SequenceTheorems, TLAPS

-----------------------------------------------------------------------------
(***************************************************************************)
(* The inductive invariant.                                                *)
(***************************************************************************)
PlacesOK ==
    /\ \A c \in Clients : pc[c] \in ClientPlaces
    /\ pc[Worker] \in WorkerPlaces

\* The worker has a line in hand only while it writes, without the mutex.
LineOK ==
    /\ pc[Worker] = "write" => Len(line) = 1
    /\ pc[Worker] # "write" => line = << >>

\* The worker ends with nothing left to write and nothing still to come, and
\* the destructor after the worker.
ExitOK ==
    /\ pc[Worker] = "done" => exit_flag /\ log_queue = << >>
    /\ pc[Main] = "destroyed" => pc[Worker] = "done"

LInv == TypeOK /\ PlacesOK /\ LineOK /\ ExitOK /\ EveryLineOnce

-----------------------------------------------------------------------------
(***************************************************************************)
(* The three places of a line are one sequence.                            *)
(***************************************************************************)
\* Concatenation is associative.
LEMMA Associative ==
    \A f, l, q \in Seq(Nat) : (f \o l) \o q = f \o (l \o q)
OBVIOUS

\* Pushing a line adds the next number at the end.
LEMMA PushLemma ==
    ASSUME NEW f \in Seq(Nat), NEW q \in Seq(Nat), NEW n \in Nat,
           f \o q = [i \in 1 .. n |-> i]
    PROVE  f \o Append(q, n + 1) = [i \in 1 .. n + 1 |-> i]
<1>1. f \o Append(q, n + 1) = Append(f \o q, n + 1)
  <2> DEFINE last == << n + 1 >>
  <2>1. Append(q, n + 1) = q \o last /\ last \in Seq(Nat)
    BY AppendIsConcat
  <2>2. Append(f \o q, n + 1) = (f \o q) \o last
    BY ConcatProperties, AppendIsConcat
  <2> HIDE DEF last
  <2>3. (f \o q) \o last = f \o (q \o last)
    BY <2>1, Associative
  <2> QED
    BY <2>1, <2>2, <2>3
<1>2. Append([i \in 1 .. n |-> i], n + 1) = [i \in 1 .. n + 1 |-> i]
  <2>1. Len(f \o q) = n /\ [i \in 1 .. n |-> i] \in Seq(Nat)
    BY ConcatProperties
  <2> QED
    BY <2>1
<1> QED
  BY <1>1, <1>2

\* Taking the first line off the queue moves it to the end of the others.
LEMMA PopLemma ==
    ASSUME NEW f \in Seq(Nat), NEW q \in Seq(Nat), q # << >>
    PROVE  /\ << Head(q) >> \in Seq(Nat) /\ Tail(q) \in Seq(Nat)
           /\ (f \o << Head(q) >>) \o Tail(q) = f \o q
<1> DEFINE first == << Head(q) >>
           rest  == Tail(q)
<1>1. first \in Seq(Nat) /\ rest \in Seq(Nat) /\ q = first \o rest
  BY HeadTailProperties
<1> HIDE DEF first, rest
<1>2. (f \o first) \o rest = f \o (first \o rest)
  BY <1>1, Associative
<1> QED
  BY <1>1, <1>2 DEF first, rest

\* Once the queue is empty, the file and the worker have every line.
LEMMA FileLemma ==
    ASSUME NEW f \in Seq(Nat), NEW l \in Seq(Nat), NEW n \in Nat,
           (f \o l) \o << >> = [i \in 1 .. n |-> i]
    PROVE  Len(f) + Len(l) = n
<1>1. (f \o l) \o << >> = f \o l /\ f \o l \in Seq(Nat)
  OBVIOUS
<1>2. Len(f \o l) = n
  BY <1>1
<1> QED
  BY <1>2

-----------------------------------------------------------------------------
(***************************************************************************)
(* The steps.  Four change what the queue, the worker and the file hold;   *)
(* the others only where the threads are, who holds the mutex and who is   *)
(* blocked.                                                                *)
(***************************************************************************)
\* What most steps leave alone.
Lines == << log_queue, line, file, logged >>

LEMMA PushStep ==
    ASSUME LInv, NEW c \in Clients, Push(c)
    PROVE  LInv'
<1>1. /\ log_queue' = Append(log_queue, logged + 1) /\ logged' = logged + 1
      /\ UNCHANGED << queue_mutex, cv, exit_flag, file, line, spurious >>
      /\ ~exit_flag /\ calls' = calls + 1 /\ pc[c] = "idle" /\ queue_mutex = Nobody
      /\ pc' = [pc EXCEPT ![c] = "notify"]
  BY DEF Push, Goto, Call
<1>2. c \in Threads /\ c # Worker
  BY LoggerAssumption DEF Threads, Worker
<1>3. TypeOK'
  BY <1>1, <1>2 DEF LInv, TypeOK, Threads, ClientPlaces, Locked
<1>4. PlacesOK' /\ LineOK' /\ ExitOK'
  BY <1>1, <1>2 DEF LInv, TypeOK, PlacesOK, ClientPlaces, LineOK, ExitOK
<1>5. file \o line \o Append(log_queue, logged + 1) = [n \in 1 .. logged + 1 |-> n]
  <2>1. /\ file \in Seq(Nat) /\ line \in Seq(Nat) /\ log_queue \in Seq(Nat) /\ logged \in Nat
        /\ file \o line \o log_queue = [n \in 1 .. logged |-> n]
    BY DEF LInv, TypeOK, EveryLineOnce
  <2>2. file \o line \in Seq(Nat)
    BY <2>1
  <2> QED
    BY <2>1, <2>2, PushLemma
<1> QED
  BY <1>1, <1>3, <1>4, <1>5 DEF LInv, EveryLineOnce

LEMMA ClientStep ==
    ASSUME LInv, NEW c \in Clients, Flush(c) \/ ClientContinues(c)
    PROVE  LInv'
<1>1. UNCHANGED Lines /\ UNCHANGED << exit_flag, spurious >> /\ calls' \in Nat
  BY DEF LInv, TypeOK, Lines, Flush, Call, ClientContinues, Notify, FlushReturn,
         FlushMustWait, FlushBlock, FlushWakes
<1>2. c \in Threads /\ c # Worker /\ c # Nobody /\ Worker # Nobody
  BY LoggerAssumption DEF Threads, Worker, Nobody
<1>3. TypeOK' /\ pc'[c] \in ClientPlaces \ {"destroyed"} /\ pc' = [pc EXCEPT ![c] = pc'[c]]
  <2> USE LoggerAssumption, <1>1, <1>2
          DEF LInv, TypeOK, Lines, Threads, ClientPlaces, Locked, Goto, Lock, Unlock, Nobody,
              Worker
  <2>1. CASE Flush(c)
    BY <2>1 DEF Flush
  <2>2. CASE Notify(c)
    BY <2>2 DEF Notify, NotifyOne
  <2>3. CASE FlushReturn(c)
    BY <2>3 DEF FlushReturn
  <2>4. CASE FlushMustWait(c)
    BY <2>4 DEF FlushMustWait
  <2>5. CASE FlushBlock(c)
    BY <2>5 DEF FlushBlock, Block
  <2>6. CASE FlushWakes(c)
    BY <2>6 DEF FlushWakes
  <2> QED
    BY <2>1, <2>2, <2>3, <2>4, <2>5, <2>6 DEF ClientContinues
<1>4. PlacesOK' /\ LineOK' /\ ExitOK'
  <2>1. \A t \in Threads : t # c => pc'[t] = pc[t]
    BY <1>3 DEF LInv, TypeOK
  <2>2. PlacesOK'
    BY <1>2, <1>3, <2>1 DEF LInv, PlacesOK, Threads
  <2>3. pc'[Worker] = pc[Worker]
    BY <1>2, <2>1 DEF Threads
  <2>4. pc'[Main] = "destroyed" => pc[Main] = "destroyed"
    BY <1>3, <2>1, LoggerAssumption DEF Threads
  <2> QED
    BY <1>1, <2>2, <2>3, <2>4 DEF LInv, LineOK, ExitOK, Lines
<1>5. EveryLineOnce'
  BY <1>1 DEF LInv, EveryLineOnce, Lines
<1> QED
  BY <1>3, <1>4, <1>5 DEF LInv

\* The destructor: exit_flag_ is set, and it is set for good.
LEMMA DestructorStep ==
    ASSUME LInv, Destroy \/ DestructorContinues
    PROVE  LInv'
<1>1. UNCHANGED Lines /\ UNCHANGED << queue_mutex, calls, spurious >>
  BY DEF Lines, Destroy, DestructorContinues, ExitNotify, Join
<1>2. Main \in Threads /\ Main # Worker
  BY LoggerAssumption DEF Threads, Worker
<1>3. /\ pc' = [pc EXCEPT ![Main] = pc'[Main]]
      /\ pc'[Main] \in ClientPlaces /\ pc[Main] \notin Locked /\ pc'[Main] \notin Locked
      /\ pc'[Main] = "destroyed" => pc[Worker] = "done"
      /\ cv' \in {cv, {}} /\ exit_flag' \in BOOLEAN
      /\ exit_flag => exit_flag'
  BY <1>2 DEF LInv, TypeOK, Destroy, DestructorContinues, ExitNotify, NotifyAll, Join, Goto,
              ClientPlaces, Locked
<1>4. \A t \in Threads : t # Main => pc'[t] = pc[t]
  BY <1>3 DEF LInv, TypeOK
<1>5. TypeOK'
  <2>1. \A t \in Threads : queue_mutex' = t <=> pc'[t] \in Locked
    BY <1>1, <1>2, <1>3, <1>4 DEF LInv, TypeOK
  <2> QED
    BY <1>1, <1>3, <2>1 DEF LInv, TypeOK, Lines
<1>6. PlacesOK' /\ LineOK' /\ ExitOK' /\ EveryLineOnce'
  <2>1. pc'[Worker] = pc[Worker]
    BY <1>2, <1>4 DEF Threads
  <2>2. PlacesOK'
    BY <1>2, <1>3, <1>4, <2>1 DEF LInv, PlacesOK, Threads
  <2>3. LineOK' /\ ExitOK'
    BY <1>1, <1>3, <2>1 DEF LInv, LineOK, ExitOK, Lines
  <2>4. EveryLineOnce'
    BY <1>1 DEF LInv, EveryLineOnce, Lines
  <2> QED
    BY <2>2, <2>3, <2>4
<1> QED
  BY <1>5, <1>6 DEF LInv

\* The worker takes the mutex, waits, wakes up, or ends its turn: then the
\* queue is empty, and if exit_flag_ was set there is nothing more to come.
LEMMA WorkerMoves ==
    ASSUME LInv,
           \/ WorkerLocks \/ WorkerHasWork \/ WorkerMustWait \/ WorkerBlocks
           \/ WorkerWakes \/ WorkerRelocks \/ WorkerDrained
    PROVE  LInv'
<1>1. UNCHANGED Lines /\ UNCHANGED << exit_flag, calls, spurious >>
  BY DEF Lines, WorkerLocks, WorkerHasWork, WorkerMustWait, WorkerBlocks, WorkerWakes,
         WorkerRelocks, WorkerDrained
<1>2. Worker \in Threads /\ Main \in Threads /\ Main # Worker /\ Worker # Nobody
      /\ Nobody \notin Threads
  BY LoggerAssumption DEF Threads, Worker, Nobody
<1>3. /\ pc' = [pc EXCEPT ![Worker] = pc'[Worker]]
      /\ pc[Worker] \notin {"write", "done"}
      /\ pc'[Worker] \in WorkerPlaces \ {"write"}
      /\ pc'[Worker] = "done" => exit_flag /\ log_queue = << >>
      /\ cv' \subseteq Threads
      /\ \/ pc'[Worker] \in Locked /\ queue_mutex' = Worker
         \/ pc'[Worker] \notin Locked /\ queue_mutex' = Nobody
      /\ queue_mutex \in {Worker, Nobody}
  <2> USE <1>2 DEF LInv, TypeOK, Goto, Lock, Unlock, WorkerPlaces, Locked
  <2>1. CASE WorkerLocks
    BY <2>1 DEF WorkerLocks
  <2>2. CASE WorkerHasWork
    BY <2>2 DEF WorkerHasWork
  <2>3. CASE WorkerMustWait
    BY <2>3 DEF WorkerMustWait
  <2>4. CASE WorkerBlocks
    BY <2>4 DEF WorkerBlocks, Block
  <2>5. CASE WorkerWakes
    BY <2>5 DEF WorkerWakes
  <2>6. CASE WorkerRelocks
    BY <2>6 DEF WorkerRelocks
  <2>7. CASE WorkerDrained
    BY <2>7 DEF WorkerDrained, NotifyAll
  <2> QED
    BY <2>1, <2>2, <2>3, <2>4, <2>5, <2>6, <2>7
<1>4. \A t \in Threads : t # Worker => pc'[t] = pc[t]
  BY <1>3 DEF LInv, TypeOK
<1>5. TypeOK'
  <2>1. \A t \in Threads : queue_mutex' = t <=> pc'[t] \in Locked
    BY <1>2, <1>3, <1>4 DEF LInv, TypeOK
  <2>2. queue_mutex' \in Threads \cup {Nobody}
    BY <1>2, <1>3
  <2> QED
    BY <1>1, <1>3, <2>1, <2>2 DEF LInv, TypeOK, Lines
<1>6. PlacesOK'
  BY <1>2, <1>3, <1>4, LoggerAssumption DEF LInv, PlacesOK, Threads, Worker
<1>7. LineOK' /\ ExitOK'
  BY <1>1, <1>2, <1>3, <1>4 DEF LInv, LineOK, ExitOK, Lines
<1>8. EveryLineOnce'
  BY <1>1 DEF LInv, EveryLineOnce, Lines
<1> QED
  BY <1>5, <1>6, <1>7, <1>8 DEF LInv

\* The worker takes a line off the queue and lets go of the mutex, or writes
\* it to the file.
LEMMA WorkerCarries ==
    ASSUME LInv, WorkerPops \/ WorkerWrites
    PROVE  LInv'
<1>1. Worker \in Threads /\ Main \in Threads /\ Main # Worker /\ Nobody \notin Threads
      /\ \A c \in Clients : c # Worker
  BY LoggerAssumption DEF Threads, Worker, Nobody
<1>2. file \in Seq(Nat) /\ line \in Seq(Nat) /\ log_queue \in Seq(Nat)
      /\ (file \o line) \o log_queue = [n \in 1 .. logged |-> n]
  BY DEF LInv, TypeOK, EveryLineOnce
<1>3. CASE WorkerPops
  <2>1. /\ pc[Worker] = "drain" /\ pc' = [pc EXCEPT ![Worker] = "write"]
        /\ line' = << Head(log_queue) >> /\ log_queue' = Tail(log_queue)
        /\ log_queue # << >> /\ queue_mutex' = Nobody
        /\ UNCHANGED << cv, exit_flag, file, logged, calls, spurious >>
    BY <1>3 DEF WorkerPops, Goto, Unlock
  <2>2. line' \in Seq(Nat) /\ log_queue' \in Seq(Nat) /\ Len(line') = 1
        /\ (file \o line') \o log_queue' = file \o log_queue
    BY <1>2, <2>1, PopLemma
  <2>3. file \o line = file
    BY <2>1, <1>2 DEF LInv, LineOK
  <2>4. EveryLineOnce'
    BY <1>2, <2>1, <2>2, <2>3 DEF EveryLineOnce
  <2>5. TypeOK'
    BY <1>1, <2>1, <2>2 DEF LInv, TypeOK, Locked, WorkerPlaces
  <2>6. PlacesOK' /\ LineOK' /\ ExitOK'
    BY <1>1, <2>1, <2>2 DEF LInv, TypeOK, PlacesOK, LineOK, ExitOK, WorkerPlaces
  <2> QED
    BY <2>4, <2>5, <2>6 DEF LInv
<1>4. CASE WorkerWrites
  <2>1. /\ pc[Worker] = "write" /\ pc' = [pc EXCEPT ![Worker] = "relock"]
        /\ line' = << >> /\ file' = file \o line
        /\ UNCHANGED << log_queue, queue_mutex, cv, exit_flag, logged, calls, spurious >>
    BY <1>4 DEF WorkerWrites, Goto
  <2>2. file' \in Seq(Nat) /\ line' \in Seq(Nat) /\ file' \o line' = file \o line
    BY <1>2, <2>1
  <2>3. EveryLineOnce'
    BY <1>2, <2>1, <2>2 DEF EveryLineOnce
  <2>4. TypeOK'
    BY <1>1, <2>1, <2>2 DEF LInv, TypeOK, Locked, WorkerPlaces
  <2>5. PlacesOK' /\ LineOK' /\ ExitOK'
    BY <1>1, <2>1, <2>2 DEF LInv, TypeOK, PlacesOK, LineOK, ExitOK, WorkerPlaces
  <2> QED
    BY <2>3, <2>4, <2>5 DEF LInv
<1> QED
  BY <1>3, <1>4

\* A thread that wakes up for no reason finds everything as it was.
LEMMA SpuriousStep ==
    ASSUME LInv, SpuriousWakeup
    PROVE  LInv'
<1>1. UNCHANGED Lines /\ UNCHANGED << queue_mutex, exit_flag, pc, calls >>
      /\ cv' \subseteq cv /\ spurious' = spurious + 1 /\ spurious < MaxSpurious
  BY DEF SpuriousWakeup, Lines
<1>2. TypeOK'
  BY <1>1, LoggerAssumption DEF LInv, TypeOK, Lines
<1>3. PlacesOK' /\ LineOK' /\ ExitOK' /\ EveryLineOnce'
  BY <1>1 DEF LInv, PlacesOK, LineOK, ExitOK, EveryLineOnce, Lines
<1> QED
  BY <1>2, <1>3 DEF LInv

-----------------------------------------------------------------------------
(***************************************************************************)
(* The invariant and the theorems.                                         *)
(***************************************************************************)
LEMMA LoggerInit == Init => LInv
<1> SUFFICES ASSUME Init PROVE LInv
  OBVIOUS
<1>1. Worker \in Threads /\ Main \in Threads /\ Main # Worker /\ Nobody \notin Threads
      /\ \A c \in Clients : c # Worker
  BY LoggerAssumption DEF Threads, Worker, Nobody
<1>2. TypeOK
  <2>1. \A t \in Threads : pc[t] \in {"start", "idle"} /\ t # Nobody
    BY <1>1 DEF Init
  <2>2. \A t \in Threads : queue_mutex = t <=> pc[t] \in Locked
    BY <2>1 DEF Init, Locked
  <2>3. pc \in [Threads -> ClientPlaces \cup WorkerPlaces]
    BY DEF Init, ClientPlaces, WorkerPlaces
  <2>4. /\ log_queue \in Seq(Nat) /\ file \in Seq(Nat) /\ line \in Seq(Nat)
        /\ logged \in Nat /\ calls \in Nat /\ spurious \in 0 .. MaxSpurious
        /\ queue_mutex \in Threads \cup {Nobody} /\ cv \subseteq Threads
        /\ exit_flag \in BOOLEAN
    <3>1. << >> \in Seq(Nat) /\ 0 \in Nat /\ 0 \in 0 .. MaxSpurious
      BY LoggerAssumption
    <3> QED
      BY <3>1 DEF Init
  <2> QED
    BY <2>2, <2>3, <2>4 DEF TypeOK
<1>3. PlacesOK /\ LineOK /\ ExitOK
  BY <1>1 DEF Init, PlacesOK, LineOK, ExitOK, ClientPlaces, WorkerPlaces, Threads
<1>4. EveryLineOnce
  BY DEF Init, EveryLineOnce
<1> QED
  BY <1>2, <1>3, <1>4 DEF LInv

LEMMA LoggerNext == LInv /\ [Next]_vars => LInv'
<1> SUFFICES ASSUME LInv, [Next]_vars PROVE LInv'
  OBVIOUS
<1>1. ASSUME NEW c \in Clients, Push(c) PROVE LInv'
  BY <1>1, PushStep
<1>2. ASSUME NEW c \in Clients, Flush(c) \/ ClientContinues(c) PROVE LInv'
  BY <1>2, ClientStep
<1>3. CASE Destroy \/ DestructorContinues
  BY <1>3, DestructorStep
<1>4. CASE WorkerContinues
  BY <1>4, WorkerMoves, WorkerCarries DEF WorkerContinues
<1>5. CASE SpuriousWakeup
  BY <1>5, SpuriousStep
<1>6. CASE UNCHANGED vars
  BY <1>6 DEF vars, LInv, TypeOK, PlacesOK, LineOK, ExitOK, EveryLineOnce
<1> QED
  BY <1>1, <1>2, <1>3, <1>4, <1>5, <1>6 DEF Next

\* The inductive invariant of logging/logger.cpp's queue, mutex and threads.
THEOREM LoggerInvariance == Spec => []LInv
BY LoggerInit, LoggerNext, PTL DEF Spec

\* The mutex is held exactly where the code of log_internal, flush and
\* processLogs says, by one thread, and every variable has its type.
THEOREM LoggerTypeCorrectness == Spec => []TypeOK
<1>1. LInv => TypeOK
  BY DEF LInv
<1> QED
  BY <1>1, LoggerInvariance, PTL

\* Every line that was pushed is once in the file, the worker's hands or the
\* queue, in the order of the pushes.
THEOREM NoLineIsLostOrDoubled == Spec => []EveryLineOnce
<1>1. LInv => EveryLineOnce
  BY DEF LInv
<1> QED
  BY <1>1, LoggerInvariance, PTL

\* When ~Logger has joined the worker, the file has every line.
THEOREM DestructorLosesNothing == Spec => []NothingLostAtExit
<1>1. LInv => NothingLostAtExit
  <2> SUFFICES ASSUME LInv, pc[Main] = "destroyed" PROVE Len(file) = logged
    BY DEF NothingLostAtExit
  <2>1. log_queue = << >> /\ line = << >>
    BY DEF LInv, ExitOK, LineOK
  <2>2. /\ file \in Seq(Nat) /\ line \in Seq(Nat) /\ logged \in Nat
        /\ (file \o line) \o << >> = [n \in 1 .. logged |-> n]
    BY <2>1 DEF LInv, TypeOK, EveryLineOnce
  <2>3. Len(file) + Len(line) = logged
    BY <2>2, FileLemma
  <2> QED
    BY <2>1, <2>2, <2>3
<1> QED
  BY <1>1, LoggerInvariance, PTL

\* When flush returns, at most one of the lines that were pushed is not in
\* the file.
THEOREM FlushWaitsForAllButOne == Spec => FlushLeavesAtMostOne
<1>1. ASSUME LInv, NEW c \in Clients, FlushReturn(c)
      PROVE  logged - Len(file) <= 1
  <2>1. log_queue = << >> /\ (line = << >> \/ Len(line) = 1)
    BY <1>1 DEF FlushReturn, LInv, LineOK
  <2>2. /\ file \in Seq(Nat) /\ line \in Seq(Nat) /\ logged \in Nat
        /\ (file \o line) \o << >> = [n \in 1 .. logged |-> n]
    BY <1>1, <2>1 DEF LInv, TypeOK, EveryLineOnce
  <2>3. Len(file) + Len(line) = logged
    BY <2>2, FileLemma
  <2>4. Len(file) \in Nat
    BY <2>2
  <2>5. Len(line) = 0 \/ Len(line) = 1
    BY <2>1
  <2>6. \A a, b, n \in Nat : a + b = n /\ (b = 0 \/ b = 1) => n - a <= 1
    OBVIOUS
  <2>7. Len(line) \in Nat /\ logged \in Nat
    BY <2>2
  <2> QED
    BY <2>3, <2>4, <2>5, <2>6, <2>7
<1>2. LInv => \A c \in Clients : FlushReturn(c) => logged - Len(file) <= 1
  BY <1>1
<1> QED
  BY <1>2, LoggerInvariance, PTL DEF FlushLeavesAtMostOne
=============================================================================
