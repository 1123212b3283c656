-------------------------------- MODULE Logger --------------------------------
(***************************************************************************)
(* The asynchronous logger (logging/logger.cpp, logging/logger.hpp): the   *)
(* threads that log push lines on a queue, a worker thread takes them off  *)
(* and writes them to the file, flush() waits for the queue to be empty,   *)
(* and the destructor asks the worker to finish and joins it.              *)
(*                                                                         *)
(* All of them share one mutex and one condition variable.  A wait on the  *)
(* condition variable is what the C++ standard makes of it:                *)
(*    while (!predicate()) { block and release the mutex; reacquire it }   *)
(* where the predicate is evaluated under the mutex and blocking releases  *)
(* it atomically.  notify_one and the destructor's notify_all are called   *)
(* without the mutex, so they may come between those two.                  *)
(*                                                                         *)
(* A line is the number of its push.  The minimum level, which decides     *)
(* whether a line is pushed at all, and the formatting are left out.       *)
(***************************************************************************)
EXTENDS Integers, Sequences

CONSTANTS
    Clients,    \* the threads that call log_internal and flush
    Main,       \* the one that runs the destructor of the singleton
    MaxCalls,   \* bound on the calls of log_internal and flush
    MaxSpurious \* bound on the wakeups for no reason

ASSUME LoggerAssumption ==
    /\ Main \in Clients
    /\ MaxCalls \in Nat
    /\ MaxSpurious \in Nat
    /\ {"worker", "nobody"} \cap Clients = {}

Worker == "worker"
Nobody == "nobody"
Threads == Clients \cup {Worker}

VARIABLES
    log_queue,      \* log_queue_
    queue_mutex,    \* the thread that holds queue_mutex_, or Nobody
    cv,             \* the threads that are blocked in cv_.wait
    exit_flag,      \* exit_flag_
    file,           \* the lines that were written to file_
    line,           \* the local variable of processLogs, as a sequence
    pc,             \* where each thread is
    logged,         \* how many lines were pushed
    calls,          \* how many calls were made
    spurious        \* how many threads woke up for no reason

vars == << log_queue, queue_mutex, cv, exit_flag, file, line, pc, logged, calls,
           spurious >>

Init ==
    /\ log_queue = << >>
    /\ queue_mutex = Nobody
    /\ cv = {}
    /\ exit_flag = FALSE
    /\ file = << >>
    /\ line = << >>
    /\ pc = [t \in Threads |-> IF t = Worker THEN "start" ELSE "idle"]
    /\ logged = 0
    /\ calls = 0
    /\ spurious = 0

-----------------------------------------------------------------------------
Goto(t, from, to) == pc[t] = from /\ pc' = [pc EXCEPT ![t] = to]

Lock(t) == queue_mutex = Nobody /\ queue_mutex' = t

Unlock == queue_mutex' = Nobody

\* Blocking in cv_.wait.
Block(t) == cv' = cv \cup {t} /\ Unlock

NotifyOne ==
    \/ \E t \in cv : cv' = cv \ {t}
    \/ cv = {} /\ UNCHANGED cv

NotifyAll == cv' = {}

\* A call begins: main has not returned yet.
Call ==
    /\ ~exit_flag
    /\ calls < MaxCalls
    /\ calls' = calls + 1

-----------------------------------------------------------------------------
(***************************************************************************)
(* log_internal: the push is under the mutex, the notification is not.     *)
(***************************************************************************)
Push(c) ==
    /\ Goto(c, "idle", "notify")
    /\ Call
    /\ queue_mutex = Nobody
    /\ logged' = logged + 1
    /\ log_queue' = Append(log_queue, logged + 1)
    /\ UNCHANGED << queue_mutex, cv, exit_flag, file, line, spurious >>

\* Variation: nobody is told.
NotifyNobody(c) ==
    /\ Goto(c, "notify", "idle")
    /\ UNCHANGED << log_queue, queue_mutex, cv, exit_flag, file,
                    line, logged, calls, spurious >>

Notify(c) ==
    /\ Goto(c, "notify", "idle")
    /\ NotifyOne
    /\ UNCHANGED << log_queue, queue_mutex, exit_flag, file, line,
                    logged, calls, spurious >>

(***************************************************************************)
(* flush                                                                   *)
(***************************************************************************)
Flush(c) ==
    /\ Goto(c, "idle", "flush_check")
    /\ Call
    /\ Lock(c)
    /\ UNCHANGED << log_queue, cv, exit_flag, file, line, logged, spurious >>

\* Variation: a wait without its predicate.
FlushReturnAnyway(c) ==
    /\ Goto(c, "flush_check", "idle")
    /\ Unlock
    /\ UNCHANGED << log_queue, cv, exit_flag, file, line,
                    logged, calls, spurious >>

FlushReturn(c) ==
    /\ Goto(c, "flush_check", "idle")
    /\ log_queue = << >>
    /\ Unlock
    /\ UNCHANGED << log_queue, cv, exit_flag, file, line,
                    logged, calls, spurious >>

FlushMustWait(c) ==
    /\ Goto(c, "flush_check", "flush_block")
    /\ log_queue # << >>
    /\ UNCHANGED << log_queue, queue_mutex, cv, exit_flag, file,
                    line, logged, calls, spurious >>

FlushBlock(c) ==
    /\ Goto(c, "flush_block", "flush_waiting")
    /\ Block(c)
    /\ UNCHANGED << log_queue, exit_flag, file, line, logged, calls, spurious >>

FlushWakes(c) ==
    /\ Goto(c, "flush_waiting", "flush_check")
    /\ c \notin cv
    /\ Lock(c)
    /\ UNCHANGED << log_queue, cv, exit_flag, file, line,
                    logged, calls, spurious >>

(***************************************************************************)
(* ~Logger: run when main has returned, when no other thread logs.         *)
(***************************************************************************)
Destroy ==
    /\ \A c \in Clients : pc[c] = "idle"
    /\ Goto(Main, "idle", "exit_notify")
    /\ exit_flag' = TRUE
    /\ UNCHANGED << log_queue, queue_mutex, cv, file, line,
                    logged, calls, spurious >>

ExitNotify ==
    /\ Goto(Main, "exit_notify", "join")
    /\ NotifyAll
    /\ UNCHANGED << log_queue, queue_mutex, exit_flag, file, line,
                    logged, calls, spurious >>

Join ==
    /\ Goto(Main, "join", "destroyed")
    /\ pc[Worker] = "done"
    /\ UNCHANGED << log_queue, queue_mutex, cv, exit_flag, file,
                    line, logged, calls, spurious >>

-----------------------------------------------------------------------------
(***************************************************************************)
(* processLogs                                                             *)
(***************************************************************************)
WorkerLocks ==
    /\ Goto(Worker, "start", "check")
    /\ Lock(Worker)
    /\ UNCHANGED << log_queue, cv, exit_flag, file, line,
                    logged, calls, spurious >>

\* Variation: a worker that is told to exit does not drain the queue.
ExitBeforeDraining ==
    /\ Goto(Worker, "check", IF exit_flag THEN "done" ELSE "drain")
    /\ log_queue # << >> \/ exit_flag
    /\ queue_mutex' = IF exit_flag THEN Nobody ELSE Worker
    /\ UNCHANGED << log_queue, cv, exit_flag, file, line,
                    logged, calls, spurious >>

WorkerHasWork ==
    /\ Goto(Worker, "check", "drain")
    /\ log_queue # << >> \/ exit_flag
    /\ UNCHANGED << log_queue, queue_mutex, cv, exit_flag, file,
                    line, logged, calls, spurious >>

WorkerMustWait ==
    /\ Goto(Worker, "check", "block")
    /\ log_queue = << >> /\ ~exit_flag
    /\ UNCHANGED << log_queue, queue_mutex, cv, exit_flag, file,
                    line, logged, calls, spurious >>

WorkerBlocks ==
    /\ Goto(Worker, "block", "waiting")
    /\ Block(Worker)
    /\ UNCHANGED << log_queue, exit_flag, file, line, logged, calls, spurious >>

WorkerWakes ==
    /\ Goto(Worker, "waiting", "check")
    /\ Worker \notin cv
    /\ Lock(Worker)
    /\ UNCHANGED << log_queue, cv, exit_flag, file, line,
                    logged, calls, spurious >>

WorkerPops ==
    /\ Goto(Worker, "drain", "write")
    /\ log_queue # << >>
    /\ line' = << Head(log_queue) >>
    /\ log_queue' = Tail(log_queue)
    /\ Unlock
    /\ UNCHANGED << cv, exit_flag, file, logged, calls, spurious >>

\* Variation: no line is written once the logger is being destroyed.
WriteUnlessExiting ==
    /\ Goto(Worker, "write", "relock")
    /\ file' = IF exit_flag THEN file ELSE file \o line
    /\ line' = << >>
    /\ UNCHANGED << log_queue, queue_mutex, cv, exit_flag,
                    logged, calls, spurious >>

WorkerWrites ==
    /\ Goto(Worker, "write", "relock")
    /\ file' = file \o line
    /\ line' = << >>
    /\ UNCHANGED << log_queue, queue_mutex, cv, exit_flag,
                    logged, calls, spurious >>

\* Variation: the mutex is not taken again after the write.
WorkerDoesNotRelock ==
    /\ Goto(Worker, "relock", "drain")
    /\ UNCHANGED << log_queue, queue_mutex, cv, exit_flag, file, line,
                    logged, calls, spurious >>

WorkerRelocks ==
    /\ Goto(Worker, "relock", "drain")
    /\ Lock(Worker)
    /\ UNCHANGED << log_queue, cv, exit_flag, file, line,
                    logged, calls, spurious >>

\* Variation: the queue is empty and flush() is not told.
DrainedSilently ==
    /\ Goto(Worker, "drain", IF exit_flag THEN "done" ELSE "start")
    /\ log_queue = << >>
    /\ Unlock
    /\ UNCHANGED << log_queue, cv, exit_flag, file, line,
                    logged, calls, spurious >>

\* The end of an iteration; leaving its scope releases the mutex.
WorkerDrained ==
    /\ Goto(Worker, "drain", IF exit_flag THEN "done" ELSE "start")
    /\ log_queue = << >>
    /\ NotifyAll
    /\ Unlock
    /\ UNCHANGED << log_queue, exit_flag, file, line, logged, calls, spurious >>

\* A blocked thread may also wake up for no reason.
SpuriousWakeup ==
    /\ spurious < MaxSpurious
    /\ spurious' = spurious + 1
    /\ \E t \in cv : cv' = cv \ {t}
    /\ UNCHANGED << log_queue, queue_mutex, exit_flag, file, line, pc, logged, calls >>

-----------------------------------------------------------------------------
ClientContinues(c) ==
    Notify(c) \/ FlushReturn(c) \/ FlushMustWait(c) \/ FlushBlock(c) \/ FlushWakes(c)

DestructorContinues == ExitNotify \/ Join

WorkerContinues ==
    \/ WorkerLocks
    \/ WorkerHasWork
    \/ WorkerMustWait
    \/ WorkerBlocks
    \/ WorkerWakes
    \/ WorkerPops
    \/ WorkerWrites
    \/ WorkerRelocks
    \/ WorkerDrained

Next ==
    \/ \E c \in Clients : Push(c) \/ Flush(c) \/ ClientContinues(c)
    \/ Destroy
    \/ DestructorContinues
    \/ WorkerContinues
    \/ SpuriousWakeup

Spec == Init /\ [][Next]_vars

\* A thread that can go on goes on; nobody need start a call, destroy the
\* logger or wake up for no reason (and nobody does so for ever).
FairSpec ==
    /\ Spec
    /\ \A c \in Clients : WF_vars(ClientContinues(c))
    /\ WF_vars(DestructorContinues)
    /\ WF_vars(WorkerContinues)

-----------------------------------------------------------------------------
(***************************************************************************)
(* Properties.                                                             *)
(***************************************************************************)
ClientPlaces ==
    {"idle", "notify", "flush_check", "flush_block", "flush_waiting",
     "exit_notify", "join", "destroyed"}

WorkerPlaces ==
    {"start", "check", "block", "waiting", "drain", "write", "relock", "done"}

\* Where a thread holds the mutex.
Locked == {"flush_check", "flush_block", "check", "block", "drain"}

\* Every variable has its type, and a thread holds the mutex exactly where
\* its code says so.
TypeOK ==
    /\ \A t \in Threads : queue_mutex = t <=> pc[t] \in Locked
    /\ log_queue \in Seq(Nat)
    /\ queue_mutex \in Threads \cup {Nobody}
    /\ cv \subseteq Threads
    /\ exit_flag \in BOOLEAN
    /\ file \in Seq(Nat)
    /\ line \in Seq(Nat)
    /\ pc \in [Threads -> ClientPlaces \cup WorkerPlaces]
    /\ logged \in Nat
    /\ calls \in Nat
    /\ spurious \in 0 .. MaxSpurious

\* Every line that was pushed is in exactly one place, and in the order of
\* the pushes: in the file, in the hands of the worker, which let go of the
\* mutex to write it, or in the queue.
EveryLineOnce == file \o line \o log_queue = [n \in 1 .. logged |-> n]

\* The destructor does not return before every line is in the file: the
\* worker drains the queue before it looks at exit_flag_.
NothingLostAtExit == pc[Main] = "destroyed" => Len(file) = logged

\* When flush() returns, at most one of the lines that were ever pushed is
\* not in the file yet, however many threads push: the one the worker took off
\* the queue and has not written.
FlushLeavesAtMostOne ==
    [][ \A c \in Clients : FlushReturn(c) => logged - Len(file) <= 1 ]_vars

\* A line that was pushed gets to the file, even if the logger is destroyed
\* in the meantime.
LinesAreWritten ==
    \A n \in 1 .. MaxCalls : logged >= n ~> Len(file) >= n

\* flush() returns.
FlushReturns == \A c \in Clients : pc[c] = "flush_check" ~> pc[c] = "idle"

-----------------------------------------------------------------------------
(***************************************************************************)
(* What a comment says and the code does not do.                           *)
(***************************************************************************)
\* logging/logger.cpp:25 "Wake up worker to finish remaining logs": the
\* destructor wakes the worker and returns when it has finished.  The flag is
\* set without the mutex, so the worker may have looked at it already and
\* block after it was notified; nobody notifies it again.
DestructorReturns == exit_flag ~> pc[Main] = "destroyed"
=============================================================================
