------------------------------ MODULE Backend ------------------------------
(***************************************************************************)
(* The singleton StaticLogBackend: the logging threads that register a     *)
(* staging buffer and log into it, the worker thread that runs ioPoll, and *)
(* the calls of the application that steer the worker (setLogFile, sync    *)
(* and, at the end of the program, the destructor).                        *)
(*                                                                         *)
(* A staging buffer is the first-in first-out stream of entries that       *)
(* LogStream specifies and StagingBuffer implements; its capacity counts   *)
(* entries here.  The application's calls are made one at a time, by one   *)
(* thread.                                                                 *)
(***************************************************************************)
EXTENDS Integers, Sequences, FiniteSets, SequencesExt

CONSTANTS
  Threads,       \* the threads that may log
  MayFail,       \* of these, those whose entries process_fmt may reject, at
                 \* any attempt, for lack of memory
  LateLoggers,   \* of these, those that log once more from the destructor of
                 \* a thread_local object that outlives destroyer_
  Capacity,      \* entries that fit into a staging buffer
  MaxEntries,    \* bound on the entries a thread logs
  MaxSetLogFile, \* bound on the calls of setLogFile
  OpenMayFail    \* whether open() of a new log file may fail

ASSUME ThreadsAssumption ==
  /\ IsFiniteSet(Threads)
  /\ MayFail \subseteq Threads
  /\ LateLoggers \subseteq Threads
ASSUME BoundsAssumption ==
  /\ Capacity \in Nat \ {0}
  /\ MaxEntries \in Nat
  /\ MaxSetLogFile \in Nat
  /\ OpenMayFail \in BOOLEAN

VARIABLES
  \* of each logging thread: its control state, the entry it is filling in,
  \* the number of entries it has published
  thread, stamp, published,
  \* of each thread's staging buffer: whether it exists, its entries, its flag
  buffer, queue, should_deallocate,
  \* the clock behind rdtsc, which all threads share
  clock,
  \* members of logger_
  next_buffer_id, thread_buffers, is_stop, is_exit, fdflush, outfd,
  \* of the worker: its control state and the locals of ioPoll
  worker, i, earliest,
  \* of the application: its control state, the number of calls of setLogFile
  app, calls,
  \* history: the entries handed to write(), of each thread; the first
  \* entries of the registered buffers when the round began; the file that
  \* setLogFile has returned from; what each thread had published when the
  \* destructor was entered
  written, visible, promised, at_exit

threadVars == <<thread, stamp, published>>
bufferVars == <<buffer, queue, should_deallocate>>
flagVars == <<is_stop, is_exit>>
workerVars == <<worker, i, earliest, visible>>
appVars == <<app, calls, promised, at_exit>>
vars == <<threadVars, bufferVars, clock, next_buffer_id, thread_buffers,
          flagVars, fdflush, outfd, workerVars, appVars, written>>

LOG_TXT == 0           \* outfd_ of the file the constructor opens
INVALID == -1          \* outfd_ without a file
NANOTIME == 999        \* get_nanotime(): later than every cycle count, and so
                       \* the bound on clock
UINT64_MAX == NANOTIME + Cardinality(Threads) + 1  \* later than every time

Nobody == [thread |-> "none", timestamp |-> UINT64_MAX]

NoStamp == [timestamp |-> 0, file |-> LOG_TXT]

\* The constructor, a static initialization, starts the worker.
Init ==
  /\ thread = [t \in Threads |-> "running"]
  /\ stamp = [t \in Threads |-> NoStamp]
  /\ published = [t \in Threads |-> 0]
  /\ buffer = [t \in Threads |-> "none"]
  /\ queue = [t \in Threads |-> <<>>]
  /\ should_deallocate = [t \in Threads |-> FALSE]
  /\ clock = 0
  /\ next_buffer_id = 0
  /\ thread_buffers = <<>>
  /\ is_stop = FALSE /\ is_exit = FALSE
  /\ fdflush = "joinable"
  /\ outfd = LOG_TXT
  /\ worker = "start" /\ i = 1 /\ earliest = Nobody /\ visible = {}
  /\ app = "running" /\ calls = 0 /\ promised = LOG_TXT
  /\ at_exit = [t \in Threads |-> 0]
  /\ written = [t \in Threads |-> <<>>]

\* The worker holds buffer_mutex_ from the moment it has locked it until it
\* unlocks it, waits or returns; everybody else locks and unlocks it within
\* one step.
BufferMutexFree == worker \notin {"loop", "scan", "process"}

-----------------------------------------------------------------------------
(* The logging threads. *)

\* Nothing runs after the destructor of logger_.
ProgramRuns == app # "destroyed"

\* ensureStagingBufferAllocated, up to the unlock.
NeedsBuffer(t) == buffer[t] = "none"

AllocateBufferId(t) ==
  /\ ProgramRuns
  /\ thread[t] = "running" /\ NeedsBuffer(t)
  /\ BufferMutexFree
  /\ next_buffer_id' = next_buffer_id + 1
  /\ thread' = [thread EXCEPT ![t] = "allocating"]
  /\ UNCHANGED <<stamp, published, bufferVars, clock, thread_buffers,
                 flagVars, fdflush, outfd, workerVars, appVars, written>>

\* The rest of ensureStagingBufferAllocated.
RegisterBuffer(t) ==
  /\ ProgramRuns
  /\ thread[t] = "allocating"
  /\ BufferMutexFree
  /\ buffer' = [buffer EXCEPT ![t] = "registered"]
  /\ thread_buffers' = Append(thread_buffers, t)
  /\ thread' = [thread EXCEPT ![t] = "running"]
  /\ UNCHANGED <<stamp, published, queue, should_deallocate, clock,
                 next_buffer_id, flagVars, fdflush, outfd, workerVars,
                 appVars, written>>

\* A thread logs while it runs, and again after its destroyer_ is gone when
\* one of its thread_local objects logs in its destructor.
MayLog(t) ==
  \/ thread[t] = "running"
  \/ thread[t] = "ended" /\ t \in LateLoggers

\* STATIC_LOG up to the timestamp: reserveAlloc blocks while there is no room.
\* The entry remembers the file its statement is promised to be in.
ReserveAlloc(t) ==
  /\ ProgramRuns
  /\ MayLog(t) /\ buffer[t] # "none"
  /\ published[t] < MaxEntries
  /\ Len(queue[t]) < Capacity
  /\ clock < NANOTIME
  /\ clock' = clock + 1
  /\ stamp' = [stamp EXCEPT ![t] = [timestamp |-> clock, file |-> promised]]
  /\ thread' = [thread EXCEPT ![t] = IF @ = "ended" THEN "logging late"
                                                    ELSE "logging"]
  /\ UNCHANGED <<published, bufferVars, next_buffer_id, thread_buffers,
                 flagVars, fdflush, outfd, workerVars, appVars, written>>

\* finishAlloc: the entry becomes visible to the worker.
FinishAlloc(t) ==
  /\ ProgramRuns
  /\ thread[t] \in {"logging", "logging late"}
  /\ published' = [published EXCEPT ![t] = @ + 1]
  /\ queue' = [queue EXCEPT ![t] =
       Append(@, [id |-> published'[t], timestamp |-> stamp[t].timestamp,
                  file |-> stamp[t].file])]
  /\ thread' = [thread EXCEPT ![t] = IF @ = "logging" THEN "running"
                                                      ELSE "ended"]
  /\ stamp' = [stamp EXCEPT ![t] = NoStamp]
  /\ UNCHANGED <<buffer, should_deallocate, clock, next_buffer_id,
                 thread_buffers, flagVars, fdflush, outfd, workerVars,
                 appVars, written>>

\* The thread ends.  ~StagingBufferDestroyer flags its buffer: destroyer_ is
\* constructed, and so destroyed, only in a thread that registered a buffer.
NeverFlagged(t) == FALSE              \* mutated: no call of createDestroyer
FlaggedAtEnd(t) == buffer[t] # "none"

EndThread(t) ==
  /\ ProgramRuns
  /\ thread[t] = "running"
  /\ thread' = [thread EXCEPT ![t] = "ended"]
  /\ should_deallocate' = [should_deallocate EXCEPT ![t] = FlaggedAtEnd(t)]
  /\ UNCHANGED <<stamp, published, buffer, queue, clock, next_buffer_id,
                 thread_buffers, flagVars, fdflush, outfd, workerVars,
                 appVars, written>>

-----------------------------------------------------------------------------
(* The worker: ioPoll and processLogBuffer. *)

\* The new thread locks buffer_mutex_.
StartPolling ==
  /\ worker = "start"
  /\ worker' = "loop"
  /\ UNCHANGED <<threadVars, bufferVars, clock, next_buffer_id,
                 thread_buffers, flagVars, fdflush, outfd, i, earliest,
                 visible, appVars, written>>

\* The condition of the loop and the test of is_exit_ behind it.
EndsWhenStopped == is_stop \/ is_exit          \* mutated: buffers not drained
EndsWhenDrained == is_stop /\ thread_buffers = <<>>     \* mutated: no is_exit_
PollingEnds == (is_stop /\ thread_buffers = <<>>) \/ is_exit

\* Head of the loop: ioPoll returns, or opens the window in which others may
\* lock the mutex.
Poll ==
  /\ worker = "loop"
  /\ worker' = IF PollingEnds THEN "returned" ELSE "unlocked"
  /\ UNCHANGED <<threadVars, bufferVars, clock, next_buffer_id,
                 thread_buffers, flagVars, fdflush, outfd, i, earliest,
                 visible, appVars, written>>

\* A round begins.
BeginRound ==
  /\ worker = "unlocked"
  /\ worker' = "scan" /\ i' = 1 /\ earliest' = Nobody
  /\ visible' = {[thread |-> t, timestamp |-> Head(queue[t]).timestamp] :
                   t \in {u \in Range(thread_buffers) : queue[u] # <<>>}}
  /\ UNCHANGED <<threadVars, bufferVars, clock, next_buffer_id,
                 thread_buffers, flagVars, fdflush, outfd, appVars, written>>

\* checkCanDelete
DrainedOnly(t) == queue[t] = <<>>                     \* mutated: no flag
CanDelete(t) == should_deallocate[t] /\ queue[t] = <<>>

\* The loop over thread_buffers_, one buffer a step: the earliest first entry
\* is remembered.
VisitBuffer ==
  /\ worker = "scan" /\ i <= Len(thread_buffers)
  /\ LET t == thread_buffers[i] IN
     /\ ~CanDelete(t)
     /\ earliest' =
          IF queue[t] # <<>> /\ Head(queue[t]).timestamp < earliest.timestamp
          THEN [thread |-> t, timestamp |-> Head(queue[t]).timestamp]
          ELSE earliest
  /\ i' = i + 1
  /\ UNCHANGED <<threadVars, bufferVars, clock, next_buffer_id,
                 thread_buffers, flagVars, fdflush, outfd, worker, visible,
                 appVars, written>>

\* After the erase, --i and the ++i of the loop: the next buffer has moved to
\* the same place.
SkipAfterErase(k) == k + 1                            \* mutated: no --i
BackAfterErase(k) == k - 1                            \* mutated: no ++i
AfterErase(k) == k
EraseLast(s, k) == RemoveAt(s, Len(s))                \* mutated: wrong place
Erase(s, k) == RemoveAt(s, k)

DeleteBuffer ==
  /\ worker = "scan" /\ i <= Len(thread_buffers)
  /\ CanDelete(thread_buffers[i])
  /\ buffer' = [buffer EXCEPT ![thread_buffers[i]] = "freed"]
  /\ thread_buffers' = Erase(thread_buffers, i)
  /\ i' = AfterErase(i)
  /\ UNCHANGED <<threadVars, queue, should_deallocate, clock, next_buffer_id,
                 flagVars, fdflush, outfd, worker, earliest, visible,
                 appVars, written>>

\* The round has found an entry to write, or the worker waits, with the mutex
\* released.
EndRound ==
  /\ worker = "scan" /\ i > Len(thread_buffers)
  /\ worker' = IF earliest.timestamp # UINT64_MAX THEN "process"
                                                  ELSE "waiting"
  /\ UNCHANGED <<threadVars, bufferVars, clock, next_buffer_id,
                 thread_buffers, flagVars, fdflush, outfd, i, earliest,
                 visible, appVars, written>>

\* The other threads whose first entry was tried before, and kept.
Tried(t) ==
  {u \in Threads \ {t} : /\ queue[u] # <<>>
                         /\ Head(queue[u]).timestamp >= NANOTIME}

\* Of these, all if u is t, or those tried before the one of u.
TriedEarlier(u, t) ==
  {v \in Tried(t) :
     u # t => Head(queue[v]).timestamp < Head(queue[u]).timestamp}

\* The times of the attempts grow.  Only their order matters: they are
\* numbered from NANOTIME on, with the one of t, which is now, the last.
SameTime(u, t) == NANOTIME                            \* mutated
AttemptTime(u, t) == NANOTIME + Cardinality(TriedEarlier(u, t))

Retimed(t) ==
  [u \in Threads |->
     IF u \in Tried(t) \cup {t}
     THEN [queue[u] EXCEPT ![1].timestamp = AttemptTime(u, t)]
     ELSE queue[u]]

Consumed(t) == [queue EXCEPT ![t] = Tail(@)]

\* What processLogBuffer leaves in the queues: an entry that was written is
\* consumed, another one stays with the time of this attempt.
ConsumeAlways(t, done) == Consumed(t)                         \* mutated
RetryAsEarliest(t, done) == IF done THEN Consumed(t) ELSE queue     \* mutated
Remaining(t, done) == IF done THEN Consumed(t) ELSE Retimed(t)

\* The locals of the loop's body go out of scope.
LocalsEnd == i' = 1 /\ earliest' = Nobody /\ visible' = {}

\* One attempt at the earliest entry; done says that process_fmt succeeds and
\* that there is a file.
Attempt(done) ==
  LET t == earliest.thread IN
  /\ queue' = Remaining(t, done)
  /\ written' = IF done
                THEN [written EXCEPT ![t] =
                        Append(@, [id |-> Head(queue[t]).id, file |-> outfd])]
                ELSE written

ProcessLogBuffer ==
  /\ worker = "process"
  /\ \/ outfd # INVALID /\ Attempt(TRUE)
     \/ (outfd = INVALID \/ earliest.thread \in MayFail) /\ Attempt(FALSE)
  /\ worker' = "loop"
  /\ LocalsEnd
  /\ UNCHANGED <<threadVars, buffer, should_deallocate, clock,
                 next_buffer_id, thread_buffers, flagVars, fdflush, outfd,
                 appVars>>

\* wait_for returns, after io_internal microseconds or notified by sync, and
\* has locked the mutex again.
Wake ==
  /\ worker \in {"waiting", "woken"}
  /\ worker' = "loop"
  /\ LocalsEnd
  /\ UNCHANGED <<threadVars, bufferVars, clock, next_buffer_id,
                 thread_buffers, flagVars, fdflush, outfd, appVars, written>>

Worker ==
  \/ StartPolling \/ Poll \/ BeginRound \/ VisitBuffer \/ DeleteBuffer
  \/ EndRound \/ ProcessLogBuffer \/ Wake

-----------------------------------------------------------------------------
(* The application. *)

\* sync(): notify_one under the mutex.  A worker that is not waiting has
\* nothing to be notified of, and the call then changes nothing.
Sync ==
  /\ app = "running"
  /\ worker = "waiting"
  /\ worker' = "woken"
  /\ UNCHANGED <<threadVars, bufferVars, clock, next_buffer_id,
                 thread_buffers, flagVars, fdflush, outfd, i, earliest,
                 visible, appVars, written>>

\* setLogFile, up to the unlock.
SetLogFile ==
  /\ app = "running"
  /\ calls < MaxSetLogFile
  /\ BufferMutexFree
  /\ is_stop' = TRUE /\ is_exit' = TRUE
  /\ calls' = calls + 1
  /\ app' = "joining"
  /\ UNCHANGED <<threadVars, bufferVars, clock, next_buffer_id,
                 thread_buffers, fdflush, outfd, workerVars, promised,
                 at_exit, written>>

\* fdflush_.join() waits for the worker.
JoinWorker ==
  /\ app = "joining"
  /\ fdflush = "joinable" /\ worker = "returned"
  /\ fdflush' = "joined"
  /\ app' = "reopening"
  /\ UNCHANGED <<threadVars, bufferVars, clock, next_buffer_id,
                 thread_buffers, flagVars, outfd, workerVars, calls,
                 promised, at_exit, written>>

\* fdflush_.join() without a thread throws std::system_error: setLogFile
\* ends here.
JoinThrows ==
  /\ app = "joining"
  /\ fdflush = "joined"
  /\ app' = "running"
  /\ UNCHANGED <<threadVars, bufferVars, clock, next_buffer_id,
                 thread_buffers, flagVars, fdflush, outfd, workerVars, calls,
                 promised, at_exit, written>>

\* The second critical section: the old file is closed, the new one opened.
\* Each call names a file of its own, numbered by the call.  If it cannot be
\* opened, setLogFile returns here.
ReopenFile ==
  /\ app = "reopening"
  /\ BufferMutexFree
  /\ is_exit' = FALSE
  /\ \/ outfd' = calls /\ app' = "starting"
     \/ OpenMayFail /\ outfd' = INVALID /\ app' = "running"
  /\ UNCHANGED <<threadVars, bufferVars, clock, next_buffer_id,
                 thread_buffers, is_stop, fdflush, workerVars, calls,
                 promised, at_exit, written>>

\* A new worker; setLogFile returns.
StartWorker ==
  /\ app = "starting"
  /\ worker' = "start"
  /\ fdflush' = "joinable"
  /\ promised' = outfd
  /\ app' = "running"
  /\ UNCHANGED <<threadVars, bufferVars, clock, next_buffer_id,
                 thread_buffers, flagVars, outfd, i, earliest, visible,
                 calls, at_exit, written>>

\* ~StaticLogBackend, at any time; up to the join.
Destroy ==
  /\ app = "running"
  /\ is_stop' = TRUE
  /\ app' = "destroying"
  /\ at_exit' = published
  /\ UNCHANGED <<threadVars, bufferVars, clock, next_buffer_id,
                 thread_buffers, is_exit, fdflush, outfd, workerVars, calls,
                 promised, written>>

\* The join, if there is a thread to join, and the rest.
EndDestroy ==
  /\ app = "destroying"
  /\ fdflush = "joinable" => worker = "returned"
  /\ fdflush' = "joined"
  /\ outfd' = INVALID
  /\ app' = "destroyed"
  /\ UNCHANGED <<threadVars, bufferVars, clock, next_buffer_id,
                 thread_buffers, flagVars, workerVars, calls, promised,
                 at_exit, written>>

InCall == JoinWorker \/ JoinThrows \/ ReopenFile \/ StartWorker \/ EndDestroy

-----------------------------------------------------------------------------
\* The program has ended.
Terminated == app = "destroyed" /\ UNCHANGED vars

LoggingThread(t) ==
  \/ AllocateBufferId(t) \/ RegisterBuffer(t)
  \/ ReserveAlloc(t) \/ FinishAlloc(t) \/ EndThread(t)

Next ==
  \/ \E t \in Threads : LoggingThread(t)
  \/ Worker
  \/ Sync \/ SetLogFile \/ Destroy \/ InCall
  \/ Terminated

Spec == Init /\ [][Next]_vars

(***************************************************************************)
(* The worker is never blocked for good: nobody else keeps buffer_mutex_   *)
(* from one step to the next, and wait_for has a timeout.  A thread that   *)
(* has reserved space goes on to finishAlloc, and a call of the            *)
(* application goes on once what it waits for has happened.  Nothing makes *)
(* a thread log, register a buffer or end, nor the application call.       *)
(***************************************************************************)
Fairness ==
  /\ WF_vars(Worker)
  /\ WF_vars(InCall)
  /\ \A t \in Threads : WF_vars(FinishAlloc(t))

FairSpec == Spec /\ Fairness

-----------------------------------------------------------------------------
(* Properties. *)

ThreadStates == {"running", "allocating", "logging", "logging late", "ended"}
WorkerStates == {"start", "loop", "unlocked", "scan", "process", "waiting",
                 "woken", "returned"}
AppStates == {"running", "joining", "reopening", "starting", "destroying",
              "destroyed"}
FileIds == LOG_TXT .. MaxSetLogFile
Timestamps == 0 .. UINT64_MAX - 1
QueuedEntries == [id : 1 .. MaxEntries, timestamp : Timestamps, file : FileIds]
WrittenEntries == [id : 1 .. MaxEntries, file : FileIds]

TypeOK ==
  /\ thread \in [Threads -> ThreadStates]
  /\ stamp \in [Threads -> [timestamp : Timestamps, file : FileIds]]
  /\ published \in [Threads -> 0 .. MaxEntries]
  /\ buffer \in [Threads -> {"none", "registered", "freed"}]
  /\ queue \in [Threads -> Seq(QueuedEntries)]
  /\ should_deallocate \in [Threads -> BOOLEAN]
  /\ clock \in Timestamps /\ next_buffer_id \in Nat
  /\ thread_buffers \in Seq(Threads)
  /\ is_stop \in BOOLEAN /\ is_exit \in BOOLEAN
  /\ fdflush \in {"joinable", "joined"}
  /\ outfd \in FileIds \cup {INVALID}
  /\ worker \in WorkerStates
  /\ i \in 1 .. Len(thread_buffers) + 1
  /\ earliest \in [thread : Threads, timestamp : Timestamps] \cup {Nobody}
  /\ visible \subseteq [thread : Threads, timestamp : Timestamps]
  /\ app \in AppStates /\ calls \in 0 .. MaxSetLogFile
  /\ promised \in FileIds
  /\ at_exit \in [Threads -> 0 .. MaxEntries]
  /\ written \in [Threads -> Seq(WrittenEntries)]

\* What a thread published is written out once and in its order, whatever
\* files and workers came in between; what is missing is still in its buffer.
EachEntryOnce ==
  \A t \in Threads :
    LET written_ids == [k \in DOMAIN written[t] |-> written[t][k].id]
        queued_ids == [k \in DOMAIN queue[t] |-> queue[t][k].id]
    IN written_ids \o queued_ids = [k \in 1 .. published[t] |-> k]

\* thread_buffers_ holds each live buffer once and no deleted one, so the
\* worker visits and deletes every buffer exactly once.
RegistryIsExact ==
  /\ IsInjective(thread_buffers)
  /\ Range(thread_buffers) = {t \in Threads : buffer[t] = "registered"}

\* Neither a logging thread nor the worker touches a buffer that was deleted:
\* "no more messages will be logged to it" once should_deallocate_ is set.
NoUseAfterFree ==
  /\ \A t \in Threads : thread[t] \in {"logging", "logging late"} =>
                          buffer[t] # "freed"
  /\ worker = "process" => buffer[earliest.thread] # "freed"

\* The entry that a round picks is the earliest of all that were visible when
\* the round began, though buffers were deleted under way and entries arrived;
\* and the worker waits only if there was none.
EarliestOfRound ==
  /\ worker = "process" =>
       \A e \in visible : earliest.timestamp <= e.timestamp
  /\ worker \in {"waiting", "woken"} => visible = {}

\* When the destructor ends, everything that was published before it was
\* entered has been written; provided setLogFile was never called (see
\* LogsReachPromisedFile) and the thread did not log late.
DestructorFlushes ==
  app = "destroyed" /\ calls = 0 =>
    \A t \in Threads \ LateLoggers : Len(written[t]) >= at_exit[t]

\* The buffer of a thread, with one byte to an entry.
Stream(t) == INSTANCE LogStream WITH
  Capacity <- Capacity + 1,
  Sizes <- {1},
  queue <- [k \in 1 .. Len(queue[t]) |->
              [id |-> queue[t][k].id - 1, len |-> 1]],
  held <- Len(queue[t]),
  sent <- published[t],
  owner <- IF buffer[t] = "freed" THEN "freed"
           ELSE IF should_deallocate[t] THEN "ended" ELSE "alive"

\* Threads, worker and application, all together, do to a buffer only what the
\* stream that StagingBuffer implements allows; unless its thread logs late.
BuffersAreStreams ==
  /\ \A t \in Threads : Stream(t)!Init
  /\ [][\A t \in Threads \ LateLoggers :
          [Stream(t)!Next]_(Stream(t)!streamVars)]_vars

\* static_log.h on setLogFile(): "All NANO_LOG statements invoked after this
\* function returns are guaranteed to be in the new file location"; unless
\* the program ends first.
LogsReachPromisedFile ==
  \A t \in Threads : \A n \in 1 .. MaxEntries, f \in 1 .. MaxSetLogFile :
    (\E e \in Range(queue[t]) : e.id = n /\ e.file = f)
      ~> \/ \E w \in Range(written[t]) : w.id = n /\ w.file >= f
         \/ app \in {"destroying", "destroyed"}

Writes(t) == ProcessLogBuffer /\ Len(written'[t]) > Len(written[t])

\* Attempts at the entries of t that are made again and again do not always
\* fail: process_fmt gets its memory at last.
SucceedsAtLast(t) == SF_vars(Writes(t))

\* An entry that is published into a registered buffer while a worker polls
\* is written at last, over a change of the log file as well, and even if
\* attempts at it fail for a while and those at the entries of other threads
\* for ever.
RegisteredIsWritten ==
  \A t \in Threads :
    SucceedsAtLast(t) =>
      \A n \in 1 .. MaxEntries :
        (worker # "returned" /\ t \in Range(thread_buffers) /\ published[t] >= n)
          ~> Len(written[t]) >= n

\* setLogFile returns, with the worker in any place and threads logging.
SetLogFileReturns == app = "joining" ~> app = "running"

\* The destructor returns once every thread has ended, unless attempts at the
\* entries of one of them fail again and again.
DestructorReturns ==
  (\A t \in Threads : SucceedsAtLast(t)) =>
    ((app = "destroying" /\ \A t \in Threads : thread[t] = "ended")
       ~> app = "destroyed")
=============================================================================
