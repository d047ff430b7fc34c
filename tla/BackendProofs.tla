--------------------------- MODULE BackendProofs ---------------------------
(***************************************************************************)
(* Proofs about Backend for any number of threads, entries, files and      *)
(* calls of setLogFile.                                                    *)
(*                                                                         *)
(* The properties are not inductive.  The invariant adds how the state of  *)
(* a thread, its buffer and the flag of the buffer go together, that the   *)
(* numbers of the entries continue from what is written to what is queued, *)
(* that the entry a round has in view stays the first of a registered      *)
(* buffer, that each entry visible at the beginning of a round is either   *)
(* not visited yet or no earlier than the one remembered, and what the     *)
(* application's calls have left in the flags of the worker.               *)
(***************************************************************************)
EXTENDS Backend, SequenceTheorems, FiniteSetTheorems, TLAPS

LoggingStates == {"logging", "logging late"}

\* The state of a thread, its buffer and the flag.
ThreadAndBuffer(t) ==
  /\ thread[t] = "allocating" => buffer[t] = "none"
  /\ thread[t] \in LoggingStates =>
       /\ buffer[t] # "none"
       /\ published[t] < MaxEntries
       /\ Len(queue[t]) < Capacity
  /\ thread[t] = "logging late" => t \in LateLoggers
  /\ should_deallocate[t] =>
       thread[t] \in {"ended", "logging late"} /\ buffer[t] # "none"
  /\ buffer[t] = "none" => published[t] = 0
  /\ buffer[t] = "freed" =>
       should_deallocate[t] /\ (t \notin LateLoggers => queue[t] = <<>>)

\* The numbers of the entries, written and queued.
Numbered(t) ==
  /\ Len(written[t]) + Len(queue[t]) = published[t]
  /\ \A k \in 1 .. Len(written[t]) : written[t][k].id = k
  /\ \A k \in 1 .. Len(queue[t]) : queue[t][k].id = Len(written[t]) + k

\* e is the first entry of a registered buffer.
FirstOfBuffer(e) ==
  /\ buffer[e.thread] = "registered"
  /\ queue[e.thread] # <<>>
  /\ Head(queue[e.thread]).timestamp = e.timestamp

\* What the worker remembers of a round.
EarliestIsFirst ==
  /\ worker = "process" => earliest # Nobody
  /\ earliest # Nobody => FirstOfBuffer(earliest)

\* What was visible when the round began is still there; the buffers before
\* thread_buffers[i] were compared.
Compared(e) ==
  \A k \in 1 .. i - 1 :
    thread_buffers[k] = e.thread => earliest.timestamp <= e.timestamp

VisibleIsCompared ==
  worker = "scan" => \A e \in visible : FirstOfBuffer(e) /\ Compared(e)

\* The calls of the application and the flags of the worker.
Flushed == \A t \in Threads \ LateLoggers : Len(written[t]) >= at_exit[t]

CallsAndFlags ==
  /\ app = "starting" => outfd # INVALID
  /\ \A t \in Threads : at_exit[t] <= published[t]
  /\ calls = 0 =>
       /\ app \in {"running", "destroying", "destroyed"}
       /\ ~is_exit
       /\ is_stop => app # "running"
       /\ app # "destroyed" => fdflush = "joinable"
       /\ worker = "returned" => app # "running" /\ Flushed
       /\ app = "destroyed" => Flushed

\* The inductive invariant.
IndInv ==
  /\ TypeOK
  /\ \A t \in Threads : ThreadAndBuffer(t)
  /\ \A t \in Threads : Numbered(t)
  /\ RegistryIsExact
  /\ EarliestIsFirst
  /\ VisibleIsCompared
  /\ EarliestOfRound
  /\ CallsAndFlags

-----------------------------------------------------------------------------
(* Lemmas on the list of buffers. *)

LEMMA InjectiveAppend ==
  ASSUME NEW S, NEW s \in Seq(S), NEW x \in S, IsInjective(s), x \notin Range(s)
  PROVE  /\ IsInjective(Append(s, x))
         /\ Range(Append(s, x)) = Range(s) \cup {x}
<1> DEFINE r == Append(s, x)
<1>1. /\ Len(s) \in Nat /\ DOMAIN s = 1 .. Len(s)
      /\ r \in Seq(S) /\ Len(r) = Len(s) + 1
      /\ \A k \in 1 .. Len(s) : r[k] = s[k]
      /\ r[Len(s) + 1] = x
  BY AppendProperties, LenProperties
<1>2. DOMAIN r = 1 .. Len(s) + 1
  BY <1>1, LenProperties
<1> HIDE DEF r
<1>3. IsInjective(r)
  BY <1>1, <1>2 DEF IsInjective, Range
<1>4. Range(r) = Range(s) \cup {x}
  BY <1>1, <1>2 DEF Range
<1> QED
  BY <1>3, <1>4 DEF r

\* The list without its k-th element.
LEMMA RemoveAtProperties ==
  ASSUME NEW S, NEW s \in Seq(S), NEW k \in 1 .. Len(s)
  PROVE  /\ RemoveAt(s, k) \in Seq(S)
         /\ Len(RemoveAt(s, k)) = Len(s) - 1
         /\ \A j \in 1 .. Len(s) - 1 :
              RemoveAt(s, k)[j] = IF j < k THEN s[j] ELSE s[j + 1]
<1> DEFINE front == SubSeq(s, 1, k - 1)
           back == SubSeq(s, k + 1, Len(s))
<1>1. Len(s) \in Nat /\ k \in Nat
  BY LenProperties
<1>2. /\ front \in Seq(S) /\ Len(front) = k - 1
      /\ \A j \in 1 .. k - 1 : front[j] = s[j]
  <2>1. \A j \in 1 .. k - 1 : s[j] \in S
    BY <1>1, ElementOfSeq
  <2>2. /\ front \in Seq(S)
        /\ Len(front) = IF 1 <= k - 1 THEN (k - 1) - 1 + 1 ELSE 0
        /\ \A j \in 1 .. (k - 1) - 1 + 1 : front[j] = s[1 + j - 1]
    BY <1>1, <2>1, SubSeqProperties
  <2> HIDE DEF front
  <2> QED
    BY <1>1, <2>2
<1>3. /\ back \in Seq(S) /\ Len(back) = Len(s) - k
      /\ \A j \in 1 .. Len(s) - k : back[j] = s[k + j]
  <2>1. \A j \in k + 1 .. Len(s) : s[j] \in S
    BY <1>1, ElementOfSeq
  <2>2. /\ back \in Seq(S)
        /\ Len(back) = IF k + 1 <= Len(s) THEN Len(s) - (k + 1) + 1 ELSE 0
        /\ \A j \in 1 .. Len(s) - (k + 1) + 1 : back[j] = s[(k + 1) + j - 1]
    BY <1>1, <2>1, SubSeqProperties
  <2> HIDE DEF back
  <2> QED
    BY <1>1, <2>2
<1>4. RemoveAt(s, k) = front \o back
  BY DEF RemoveAt
<1> HIDE DEF front, back
<1>5. /\ front \o back \in Seq(S)
      /\ Len(front \o back) = Len(front) + Len(back)
      /\ \A j \in 1 .. Len(front) + Len(back) :
           (front \o back)[j] = IF j <= Len(front) THEN front[j]
                                ELSE back[j - Len(front)]
  BY <1>2, <1>3, ConcatProperties
<1>6. Len(front \o back) = Len(s) - 1
  BY <1>1, <1>2, <1>3, <1>5
<1>7. ASSUME NEW j \in 1 .. Len(s) - 1
      PROVE  (front \o back)[j] = IF j < k THEN s[j] ELSE s[j + 1]
  <2>1. /\ j \in 1 .. Len(front) + Len(back)
        /\ Len(front) = k - 1 /\ Len(back) = Len(s) - k
    BY <1>1, <1>2, <1>3
  <2>2. CASE j < k
    <3>1. j \in 1 .. k - 1 /\ j <= Len(front)
      BY <1>1, <2>1, <2>2
    <3>2. (front \o back)[j] = front[j]
      BY <1>5, <2>1, <3>1
    <3> QED
      BY <1>2, <2>2, <3>1, <3>2
  <2>3. CASE ~(j < k)
    <3>1. /\ ~(j <= Len(front))
          /\ j - Len(front) = j - (k - 1)
          /\ j - (k - 1) \in 1 .. Len(s) - k
          /\ k + (j - (k - 1)) = j + 1
      BY <1>1, <2>1, <2>3
    <3>2. (front \o back)[j] = back[j - (k - 1)]
      BY <1>5, <2>1, <3>1
    <3>3. back[j - (k - 1)] = s[k + (j - (k - 1))]
      BY <1>3, <3>1
    <3> QED
      BY <2>3, <3>1, <3>2, <3>3
  <2> QED
    BY <2>2, <2>3
<1> QED
  BY <1>4, <1>5, <1>6, <1>7

LEMMA InjectiveRemoveAt ==
  ASSUME NEW S, NEW s \in Seq(S), NEW k \in 1 .. Len(s), IsInjective(s)
  PROVE  /\ IsInjective(RemoveAt(s, k))
         /\ Range(RemoveAt(s, k)) = Range(s) \ {s[k]}
<1> DEFINE r == RemoveAt(s, k)
<1>1. /\ Len(s) \in Nat /\ DOMAIN s = 1 .. Len(s)
      /\ r \in Seq(S) /\ Len(r) = Len(s) - 1
      /\ \A j \in 1 .. Len(s) - 1 : r[j] = IF j < k THEN s[j] ELSE s[j + 1]
  BY RemoveAtProperties, LenProperties
<1>2. DOMAIN r = 1 .. Len(s) - 1
  BY <1>1, LenProperties
<1> HIDE DEF r
<1>3. \A a, b \in 1 .. Len(s) : s[a] = s[b] => a = b
  BY <1>1 DEF IsInjective
<1>4. IsInjective(r)
  <2> SUFFICES ASSUME NEW a \in 1 .. Len(s) - 1, NEW b \in 1 .. Len(s) - 1,
                      r[a] = r[b]
               PROVE  a = b
    BY <1>2 DEF IsInjective
  <2> QED
    BY <1>1, <1>3
<1>5. ASSUME NEW j \in 1 .. Len(s) - 1
      PROVE  r[j] \in Range(s) \ {s[k]}
  <2>1. PICK a \in 1 .. Len(s) : r[j] = s[a] /\ a # k
    <3>1. CASE j < k
      BY <1>1, <3>1
    <3>2. CASE ~(j < k)
      <4>1. j + 1 \in 1 .. Len(s) /\ j + 1 # k
        BY <1>1, <3>2
      <4> QED
        BY <1>1, <3>2, <4>1
    <3> QED
      BY <3>1, <3>2
  <2>2. s[a] # s[k]
    BY <1>3, <2>1
  <2>3. s[a] \in Range(s)
    BY <1>1 DEF Range
  <2> QED
    BY <2>1, <2>2, <2>3
<1>6. \A j \in 1 .. Len(s) : j # k => \E a \in 1 .. Len(s) - 1 : r[a] = s[j]
  <2> SUFFICES ASSUME NEW j \in 1 .. Len(s), j # k
               PROVE  \E a \in 1 .. Len(s) - 1 : r[a] = s[j]
    OBVIOUS
  <2>1. CASE j < k
    <3>1. j \in 1 .. Len(s) - 1
      BY <1>1, <2>1
    <3> QED
      BY <1>1, <2>1, <3>1
  <2>2. CASE j > k
    <3>1. j - 1 \in 1 .. Len(s) - 1 /\ ~(j - 1 < k) /\ (j - 1) + 1 = j
      BY <1>1, <2>2
    <3> QED
      BY <1>1, <3>1
  <2> QED
    BY <1>1, <2>1, <2>2
<1>7. Range(r) = Range(s) \ {s[k]}
  <2>1. ASSUME NEW x \in Range(r)
        PROVE  x \in Range(s) \ {s[k]}
    BY <1>2, <1>5 DEF Range
  <2>2. ASSUME NEW x \in Range(s) \ {s[k]}
        PROVE  x \in Range(r)
    <3>1. PICK j \in 1 .. Len(s) : x = s[j]
      BY <1>1 DEF Range
    <3>2. PICK a \in 1 .. Len(s) - 1 : r[a] = s[j]
      BY <1>6, <3>1
    <3> QED
      BY <1>2, <3>1, <3>2 DEF Range
  <2> QED
    BY <2>1, <2>2
<1> QED
  BY <1>4, <1>7 DEF r
-----------------------------------------------------------------------------
(* Counting of time. *)

LEMMA Times ==
  /\ Cardinality(Threads) \in Nat
  /\ NANOTIME \in Nat /\ UINT64_MAX \in Nat /\ NANOTIME < UINT64_MAX
  /\ Timestamps \subseteq Nat
  /\ \A n \in Nat : n <= NANOTIME + Cardinality(Threads) <=> n \in Timestamps
  /\ UINT64_MAX \notin Timestamps
<1>1. Cardinality(Threads) \in Nat
  BY ThreadsAssumption, FS_CardinalityType
<1> QED
  BY <1>1 DEF NANOTIME, UINT64_MAX, Timestamps

\* Every cycle count below NANOTIME is a time.
LEMMA CyclesAreTimes ==
  ASSUME NEW n \in Nat, n <= NANOTIME
  PROVE  n \in Timestamps
<1>1. PICK c \in Nat : c = Cardinality(Threads)
  BY Times
<1>2. n <= NANOTIME + c
  BY <1>1, Times
<1> QED
  BY <1>1, <1>2, Times

-----------------------------------------------------------------------------
(* The invariant holds initially, and what it says of variables that a step
   leaves alone stays true. *)

LEMMA InitIndInv == Init => IndInv
<1> SUFFICES ASSUME Init
             PROVE  IndInv
  OBVIOUS
<1> USE DEF Init
<1>1. TypeOK
  <2>1. LOG_TXT \in FileIds /\ 0 \in Timestamps
    BY BoundsAssumption, Times, CyclesAreTimes DEF FileIds, LOG_TXT
  <2>2. <<>> \in Seq(Threads) /\ Len(<<>>) = 0
    OBVIOUS
  <2>3. LOG_TXT \in FileIds \cup {INVALID} /\ i \in 1 .. Len(thread_buffers) + 1
    BY <2>1, <2>2
  <2>4. /\ 0 \in 0 .. MaxEntries /\ 0 \in 0 .. MaxSetLogFile /\ 0 \in Nat
    BY BoundsAssumption
  <2>5. /\ stamp \in [Threads -> [timestamp : Timestamps, file : FileIds]]
        /\ queue \in [Threads -> Seq(QueuedEntries)]
        /\ written \in [Threads -> Seq(WrittenEntries)]
    BY <2>1 DEF NoStamp
  <2> QED
    BY <2>1, <2>2, <2>3, <2>4, <2>5
    DEF TypeOK, ThreadStates, WorkerStates, AppStates
<1>2. \A t \in Threads : ThreadAndBuffer(t)
  BY DEF ThreadAndBuffer, LoggingStates
<1>3. \A t \in Threads : Numbered(t)
  BY DEF Numbered
<1>4. RegistryIsExact
  BY DEF RegistryIsExact, IsInjective, Range
<1>5. EarliestIsFirst /\ VisibleIsCompared /\ EarliestOfRound
  BY DEF EarliestIsFirst, VisibleIsCompared, EarliestOfRound
<1>6. CallsAndFlags
  BY DEF CallsAndFlags, Flushed, LOG_TXT, INVALID
<1> QED
  BY <1>1, <1>2, <1>3, <1>4, <1>5, <1>6 DEF IndInv

LEMMA LeftAlone ==
  ASSUME IndInv
  PROVE  /\ UNCHANGED <<thread, buffer, published, queue, should_deallocate>>
              => \A t \in Threads : ThreadAndBuffer(t)'
         /\ UNCHANGED <<written, queue, published>>
              => \A t \in Threads : Numbered(t)'
         /\ UNCHANGED <<thread_buffers, buffer>> => RegistryIsExact'
         /\ UNCHANGED <<earliest, buffer, queue>>
            /\ (worker' = "process" => worker = "process")
              => EarliestIsFirst'
         /\ UNCHANGED <<visible, buffer, queue, i, thread_buffers, earliest>>
            /\ (worker' = "scan" => worker = "scan")
              => VisibleIsCompared'
         /\ UNCHANGED <<earliest, visible>>
            /\ (worker' = "process" => worker = "process")
            /\ (worker' \in {"waiting", "woken"} =>
                  worker \in {"waiting", "woken"})
              => EarliestOfRound'
         /\ UNCHANGED <<app, outfd, at_exit, published, calls, flagVars,
                        fdflush, written>>
            /\ (worker' = "returned" => worker = "returned")
              => CallsAndFlags'
<1>1. UNCHANGED <<thread, buffer, published, queue, should_deallocate>>
        => \A t \in Threads : ThreadAndBuffer(t)'
  BY DEF IndInv, ThreadAndBuffer
<1>2. UNCHANGED <<written, queue, published>>
        => \A t \in Threads : Numbered(t)'
  BY DEF IndInv, Numbered
<1>3. UNCHANGED <<thread_buffers, buffer>> => RegistryIsExact'
  BY DEF IndInv, RegistryIsExact
<1>4. UNCHANGED <<earliest, buffer, queue>>
      /\ (worker' = "process" => worker = "process")
        => EarliestIsFirst'
  BY DEF IndInv, EarliestIsFirst, FirstOfBuffer
<1>5. UNCHANGED <<visible, buffer, queue, i, thread_buffers, earliest>>
      /\ (worker' = "scan" => worker = "scan")
        => VisibleIsCompared'
  BY DEF IndInv, VisibleIsCompared, FirstOfBuffer, Compared
<1>6. UNCHANGED <<earliest, visible>>
      /\ (worker' = "process" => worker = "process")
      /\ (worker' \in {"waiting", "woken"} => worker \in {"waiting", "woken"})
        => EarliestOfRound'
  BY DEF IndInv, EarliestOfRound
<1>7. UNCHANGED <<app, outfd, at_exit, published, calls, flagVars,
                  fdflush, written>>
      /\ (worker' = "returned" => worker = "returned")
        => CallsAndFlags'
  BY DEF IndInv, CallsAndFlags, Flushed, flagVars
<1> QED
  BY <1>1, <1>2, <1>3, <1>4, <1>5, <1>6, <1>7

-----------------------------------------------------------------------------
(* The steps of the logging threads. *)

LEMMA AllocateBufferIdKeeps ==
  ASSUME IndInv, NEW t \in Threads, AllocateBufferId(t)
  PROVE  IndInv'
<1> USE DEF AllocateBufferId, bufferVars, flagVars, workerVars, appVars
<1>1. TypeOK'
  <2>1. next_buffer_id' \in Nat
    BY DEF IndInv, TypeOK
  <2>2. thread' \in [Threads -> ThreadStates]
    BY DEF IndInv, TypeOK, ThreadStates
  <2> QED
    BY <2>1, <2>2 DEF IndInv, TypeOK
<1>2. \A u \in Threads : ThreadAndBuffer(u)'
  BY DEF IndInv, TypeOK, ThreadAndBuffer, NeedsBuffer, LoggingStates
<1> QED
  BY <1>1, <1>2, LeftAlone DEF IndInv

LEMMA RegisterBufferKeeps ==
  ASSUME IndInv, NEW t \in Threads, RegisterBuffer(t)
  PROVE  IndInv'
<1> USE DEF RegisterBuffer, flagVars, workerVars, appVars
<1>1. buffer[t] = "none" /\ t \notin Range(thread_buffers)
  BY DEF IndInv, ThreadAndBuffer, RegistryIsExact
<1>2. /\ thread_buffers' \in Seq(Threads)
      /\ Len(thread_buffers') = Len(thread_buffers) + 1
      /\ \A k \in 1 .. Len(thread_buffers) :
           thread_buffers'[k] = thread_buffers[k]
  BY AppendProperties DEF IndInv, TypeOK
<1>3. TypeOK'
  <2>1. i \in 1 .. Len(thread_buffers') + 1
    BY <1>2, LenProperties DEF IndInv, TypeOK
  <2> QED
    BY <1>2, <2>1 DEF IndInv, TypeOK, ThreadStates
<1>4. \A u \in Threads : ThreadAndBuffer(u)'
  BY <1>1 DEF IndInv, TypeOK, ThreadAndBuffer, LoggingStates
<1>5. RegistryIsExact'
  <2>1. /\ IsInjective(thread_buffers')
        /\ Range(thread_buffers') = Range(thread_buffers) \cup {t}
    BY <1>1, InjectiveAppend DEF IndInv, TypeOK, RegistryIsExact
  <2> QED
    BY <2>1 DEF IndInv, TypeOK, RegistryIsExact
<1>6. EarliestIsFirst'
  BY <1>1 DEF IndInv, TypeOK, EarliestIsFirst, FirstOfBuffer, Nobody
<1>7. VisibleIsCompared'
  BY DEF BufferMutexFree, VisibleIsCompared
<1> QED
  BY <1>3, <1>4, <1>5, <1>6, <1>7, LeftAlone DEF IndInv

LEMMA ReserveAllocKeeps ==
  ASSUME IndInv, NEW t \in Threads, ReserveAlloc(t)
  PROVE  IndInv'
<1>1. clock \in Timestamps /\ clock + 1 \in Timestamps
  <2>1. clock \in Timestamps /\ clock < NANOTIME
    BY DEF IndInv, TypeOK, ReserveAlloc
  <2> QED
    BY <2>1, Times, CyclesAreTimes
<1> USE DEF ReserveAlloc, bufferVars, flagVars, workerVars, appVars
<1>2. TypeOK'
  <2>1. stamp' \in [Threads -> [timestamp : Timestamps, file : FileIds]]
    BY <1>1 DEF IndInv, TypeOK
  <2>2. thread' \in [Threads -> ThreadStates]
    BY DEF IndInv, TypeOK, ThreadStates
  <2> QED
    BY <1>1, <2>1, <2>2 DEF IndInv, TypeOK
<1>3. \A u \in Threads : ThreadAndBuffer(u)'
  BY DEF IndInv, TypeOK, ThreadAndBuffer, LoggingStates, MayLog
<1> QED
  BY <1>2, <1>3, LeftAlone DEF IndInv

LEMMA EndThreadKeeps ==
  ASSUME IndInv, NEW t \in Threads, EndThread(t)
  PROVE  IndInv'
<1> USE DEF EndThread, flagVars, workerVars, appVars
<1>1. TypeOK'
  BY DEF IndInv, TypeOK, ThreadStates, FlaggedAtEnd
<1>2. \A u \in Threads : ThreadAndBuffer(u)'
  BY DEF IndInv, TypeOK, ThreadAndBuffer, LoggingStates, FlaggedAtEnd
<1> QED
  BY <1>1, <1>2, LeftAlone DEF IndInv

\* What FinishAlloc appends to a queue.
LEMMA FinishAllocAppends ==
  ASSUME IndInv, NEW t \in Threads, FinishAlloc(t)
  PROVE  /\ published[t] + 1 \in 1 .. MaxEntries
         /\ queue'[t] \in Seq(QueuedEntries)
         /\ Len(queue'[t]) = Len(queue[t]) + 1
         /\ \A k \in 1 .. Len(queue[t]) : queue'[t][k] = queue[t][k]
         /\ queue'[t][Len(queue[t]) + 1].id = published[t] + 1
         /\ Head(queue'[t]) = queue'[t][1]
         /\ \A u \in Threads \ {t} : queue'[u] = queue[u]
<1> DEFINE entry == [id |-> published[t] + 1, timestamp |-> stamp[t].timestamp,
                     file |-> stamp[t].file]
           q == queue[t]
<1>1. published[t] \in 0 .. MaxEntries /\ published[t] < MaxEntries
  BY DEF IndInv, TypeOK, ThreadAndBuffer, FinishAlloc, LoggingStates
<1>2. published[t] + 1 \in 1 .. MaxEntries
  BY <1>1, BoundsAssumption
<1>3. entry \in QueuedEntries /\ entry.id = published[t] + 1
  BY <1>2 DEF IndInv, TypeOK, QueuedEntries
<1>4. published'[t] = published[t] + 1
  BY DEF IndInv, TypeOK, FinishAlloc
<1>5. q \in Seq(QueuedEntries) /\ queue \in [Threads -> Seq(QueuedEntries)]
  BY DEF IndInv, TypeOK
<1>6. /\ queue'[t] = Append(q, entry)
      /\ \A u \in Threads \ {t} : queue'[u] = queue[u]
  BY <1>4, <1>5 DEF FinishAlloc
<1> HIDE DEF entry, q
<1>7. /\ Append(q, entry) \in Seq(QueuedEntries)
      /\ Len(Append(q, entry)) = Len(q) + 1
      /\ \A k \in 1 .. Len(q) : Append(q, entry)[k] = q[k]
      /\ Append(q, entry)[Len(q) + 1] = entry
  BY <1>3, <1>5, AppendProperties
<1>8. Head(Append(q, entry)) = Append(q, entry)[1]
  BY <1>7, HeadTailProperties, LenProperties, <1>5
<1> QED
  BY <1>2, <1>3, <1>6, <1>7, <1>8 DEF q

LEMMA FinishAllocKeepsFirst ==
  ASSUME IndInv, NEW t \in Threads, FinishAlloc(t),
         NEW th \in Threads, buffer[th] = "registered", queue[th] # <<>>
  PROVE  /\ buffer'[th] = "registered" /\ queue'[th] # <<>>
         /\ Head(queue'[th]) = Head(queue[th])
<1>1. buffer'[th] = "registered"
  BY DEF FinishAlloc
<1>2. CASE th # t
  BY <1>1, <1>2, FinishAllocAppends
<1>3. CASE th = t
  <2>1. queue[t] \in Seq(QueuedEntries) /\ Len(queue[t]) \in Nat
    BY LenProperties DEF IndInv, TypeOK
  <2>2. Len(queue[t]) >= 1 /\ Head(queue[t]) = queue[t][1]
    BY <1>3, <2>1, EmptySeq, HeadTailProperties
  <2>3. Len(queue'[t]) >= 2 /\ queue'[t] # <<>>
    BY <2>1, <2>2, FinishAllocAppends, EmptySeq
  <2> QED
    BY <1>1, <1>3, <2>1, <2>2, <2>3, FinishAllocAppends
<1> QED
  BY <1>2, <1>3

LEMMA FinishAllocKeeps ==
  ASSUME IndInv, NEW t \in Threads, FinishAlloc(t)
  PROVE  IndInv'
<1>1. published' = [published EXCEPT ![t] = published[t] + 1]
  BY DEF FinishAlloc
<1>2. published \in [Threads -> 0 .. MaxEntries] /\ MaxEntries \in Nat
  BY BoundsAssumption DEF IndInv, TypeOK
<1>3. TypeOK'
  <2>1. published' \in [Threads -> 0 .. MaxEntries]
    BY <1>1, <1>2, FinishAllocAppends
  <2>2. queue' \in [Threads -> Seq(QueuedEntries)]
    <3>1. DOMAIN queue' = Threads /\ queue' = [u \in Threads |-> queue'[u]]
      BY DEF IndInv, TypeOK, FinishAlloc
    <3>2. \A u \in Threads : queue'[u] \in Seq(QueuedEntries)
      BY FinishAllocAppends DEF IndInv, TypeOK
    <3> QED
      BY <3>1, <3>2
  <2>3. stamp' \in [Threads -> [timestamp : Timestamps, file : FileIds]]
    <3>1. NoStamp \in [timestamp : Timestamps, file : FileIds]
      BY BoundsAssumption, Times, CyclesAreTimes
      DEF NoStamp, LOG_TXT, FileIds
    <3> QED
      BY <3>1 DEF IndInv, TypeOK, FinishAlloc
  <2>4. thread' \in [Threads -> ThreadStates]
    BY DEF IndInv, TypeOK, FinishAlloc, ThreadStates
  <2> QED
    BY <2>1, <2>2, <2>3, <2>4
    DEF IndInv, TypeOK, FinishAlloc, flagVars, workerVars, appVars
<1>4. \A u \in Threads : ThreadAndBuffer(u)'
  <2>1. ASSUME NEW u \in Threads, u # t
        PROVE  ThreadAndBuffer(u)'
    <3>1. /\ thread'[u] = thread[u] /\ buffer' = buffer
          /\ published'[u] = published[u]
          /\ should_deallocate' = should_deallocate
      BY <2>1 DEF FinishAlloc, IndInv, TypeOK
    <3>2. queue'[u] = queue[u]
      BY <2>1, FinishAllocAppends
    <3>3. ThreadAndBuffer(u)
      BY DEF IndInv
    <3> QED
      BY <3>1, <3>2, <3>3 DEF ThreadAndBuffer
  <2>2. ThreadAndBuffer(t)'
    BY DEF IndInv, TypeOK, ThreadAndBuffer, FinishAlloc, LoggingStates
  <2> QED
    BY <2>1, <2>2
<1>5. \A u \in Threads : Numbered(u)'
  <2>1. ASSUME NEW u \in Threads, u # t
        PROVE  Numbered(u)'
    <3>1. /\ written' = written /\ published'[u] = published[u]
          /\ queue'[u] = queue[u]
      BY <1>1, <1>2, <2>1, FinishAllocAppends DEF FinishAlloc
    <3>2. Numbered(u)
      BY DEF IndInv
    <3> QED
      BY <3>1, <3>2 DEF Numbered
  <2>2. Numbered(t)'
    <3>1. /\ Len(written[t]) \in Nat /\ Len(queue[t]) \in Nat
          /\ published'[t] = published[t] + 1
          /\ written' = written
      BY <1>1, <1>2, LenProperties DEF IndInv, TypeOK, FinishAlloc
    <3>2. Numbered(t)
      BY DEF IndInv
    <3>3. /\ Len(queue'[t]) = Len(queue[t]) + 1
          /\ \A k \in 1 .. Len(queue[t]) : queue'[t][k] = queue[t][k]
          /\ queue'[t][Len(queue[t]) + 1].id = published[t] + 1
      BY FinishAllocAppends
    <3>4. Len(written[t]) + (Len(queue[t]) + 1) = published[t] + 1
      <4>1. Len(written[t]) + Len(queue[t]) = published[t]
        BY <3>2 DEF Numbered
      <4>2. PICK a, b, c \in Nat :
              a = Len(written[t]) /\ b = Len(queue[t]) /\ c = published[t]
        BY <1>2, <3>1
      <4>3. a + b = c
        BY <4>1, <4>2
      <4>4. a + (b + 1) = c + 1
        BY <4>3
      <4> QED
        BY <4>2, <4>4
    <3>5. ASSUME NEW k \in 1 .. Len(queue[t]) + 1
          PROVE  queue'[t][k].id = Len(written[t]) + k
      <4>1. k \in 1 .. Len(queue[t]) \/ k = Len(queue[t]) + 1
        BY <3>1
      <4> QED
        BY <3>2, <3>3, <3>4, <4>1 DEF Numbered
    <3> QED
      BY <3>1, <3>2, <3>3, <3>4, <3>5 DEF Numbered
  <2> QED
    BY <2>1, <2>2
<1>6. EarliestIsFirst'
  <2>1. earliest' = earliest /\ worker' = worker
    BY DEF FinishAlloc, workerVars
  <2>2. earliest # Nobody => earliest.thread \in Threads
    BY DEF IndInv, TypeOK
  <2> QED
    BY <2>1, <2>2, FinishAllocKeepsFirst
    DEF IndInv, EarliestIsFirst, FirstOfBuffer
<1>7. VisibleIsCompared'
  <2>1. /\ UNCHANGED <<visible, worker, i, thread_buffers, earliest>>
        /\ \A e \in visible : e.thread \in Threads
    BY DEF IndInv, TypeOK, FinishAlloc, workerVars
  <2> QED
    BY <2>1, FinishAllocKeepsFirst
    DEF IndInv, VisibleIsCompared, FirstOfBuffer, Compared
<1>8. CallsAndFlags'
  <2>1. \A u \in Threads : at_exit[u] <= published'[u]
    BY <1>1, <1>2 DEF IndInv, TypeOK, CallsAndFlags
  <2> QED
    BY <2>1
    DEF IndInv, CallsAndFlags, Flushed, FinishAlloc, flagVars, workerVars,
        appVars
<1>9. RegistryIsExact' /\ EarliestOfRound'
  BY LeftAlone DEF FinishAlloc, workerVars
<1> QED
  BY <1>3, <1>4, <1>5, <1>6, <1>7, <1>8, <1>9 DEF IndInv

-----------------------------------------------------------------------------
(* The steps of the worker. *)

\* The first entry of a queue.
LEMMA FirstEntry ==
  ASSUME IndInv, NEW t \in Threads, queue[t] # <<>>
  PROVE  Head(queue[t]) \in QueuedEntries /\
         Head(queue[t]).timestamp \in Timestamps
<1>1. queue[t] \in Seq(QueuedEntries)
  BY DEF IndInv, TypeOK
<1>2. Head(queue[t]) \in QueuedEntries
  BY <1>1, HeadTailProperties
<1> QED
  BY <1>2 DEF QueuedEntries

\* The registered buffers are those of the list.
LEMMA Registered ==
  ASSUME IndInv
  PROVE  /\ Len(thread_buffers) \in Nat
         /\ \A k \in 1 .. Len(thread_buffers) :
              /\ thread_buffers[k] \in Threads
              /\ buffer[thread_buffers[k]] = "registered"
         /\ \A t \in Threads : buffer[t] = "registered" =>
              \E k \in 1 .. Len(thread_buffers) : thread_buffers[k] = t
<1>1. /\ thread_buffers \in Seq(Threads)
      /\ Len(thread_buffers) \in Nat
      /\ DOMAIN thread_buffers = 1 .. Len(thread_buffers)
  BY LenProperties DEF IndInv, TypeOK
<1>2. \A k \in 1 .. Len(thread_buffers) :
        thread_buffers[k] \in Range(thread_buffers)
  BY <1>1 DEF Range
<1>3. \A t \in Range(thread_buffers) :
        \E k \in 1 .. Len(thread_buffers) : thread_buffers[k] = t
  BY <1>1 DEF Range
<1> QED
  BY <1>1, <1>2, <1>3 DEF IndInv, RegistryIsExact

\* The worker's place in the list.
LEMMA Place ==
  ASSUME IndInv
  PROVE  i \in Nat /\ i >= 1 /\ i <= Len(thread_buffers) + 1
BY Registered DEF IndInv, TypeOK

LEMMA StartPollingKeeps ==
  ASSUME IndInv, StartPolling
  PROVE  IndInv'
<1> USE DEF StartPolling, threadVars, bufferVars, appVars
<1>1. TypeOK'
  BY DEF IndInv, TypeOK, WorkerStates, flagVars
<1> QED
  BY <1>1, LeftAlone DEF IndInv

LEMMA PollKeeps ==
  ASSUME IndInv, Poll
  PROVE  IndInv'
<1>1. UNCHANGED <<threadVars, bufferVars, thread_buffers, flagVars, fdflush,
                  outfd, i, earliest, visible, appVars, written>>
  BY DEF Poll
<1>2. worker' \in {"returned", "unlocked"}
  BY DEF Poll
<1>3. TypeOK'
  BY <1>1, <1>2
  DEF Poll, IndInv, TypeOK, WorkerStates, threadVars, bufferVars, flagVars,
      appVars
<1>4. CallsAndFlags'
  <2>1. CASE ~PollingEnds
    BY <1>1, <2>1, LeftAlone DEF Poll, appVars, threadVars
  <2>2. CASE PollingEnds /\ calls # 0
    BY <1>1, <2>2 DEF IndInv, CallsAndFlags, threadVars, appVars
  <2>3. CASE PollingEnds /\ calls = 0
    <3>1. app # "running" /\ thread_buffers = <<>>
      BY <2>3 DEF PollingEnds, IndInv, CallsAndFlags
    <3>2. ASSUME NEW t \in Threads \ LateLoggers
          PROVE  Len(written[t]) >= at_exit[t]
      <4>1. /\ Len(written[t]) \in Nat /\ at_exit[t] \in Nat
            /\ published[t] \in Nat
        BY LenProperties DEF IndInv, TypeOK
      <4>2. buffer[t] # "registered"
        BY <3>1, Registered
      <4>3. at_exit[t] <= published[t]
        BY DEF IndInv, CallsAndFlags
      <4>4. CASE buffer[t] = "none"
        <5>1. published[t] = 0
          BY <4>4 DEF IndInv, ThreadAndBuffer
        <5> QED
          BY <4>1, <4>3, <5>1
      <4>5. CASE buffer[t] = "freed"
        <5>1. queue[t] = <<>> /\ Len(<<>>) = 0
          BY <4>5 DEF IndInv, ThreadAndBuffer
        <5>2. Len(written[t]) + 0 = published[t]
          BY <5>1 DEF IndInv, Numbered
        <5> QED
          BY <4>1, <4>3, <5>2
      <4> QED
        BY <4>2, <4>4, <4>5 DEF IndInv, TypeOK
    <3>3. Flushed'
      BY <1>1, <3>2 DEF Flushed, appVars
    <3> QED
      BY <1>1, <3>1, <3>3
      DEF IndInv, CallsAndFlags, flagVars, threadVars, appVars
  <2> QED
    BY <2>1, <2>2, <2>3
<1> QED
  BY <1>1, <1>2, <1>3, <1>4, LeftAlone DEF IndInv, threadVars, bufferVars

LEMMA BeginRoundKeeps ==
  ASSUME IndInv, BeginRound
  PROVE  IndInv'
<1>1. /\ UNCHANGED <<threadVars, bufferVars, thread_buffers, flagVars,
                     fdflush, outfd, appVars, written>>
      /\ worker' = "scan" /\ i' = 1 /\ earliest' = Nobody
  BY DEF BeginRound
<1>2. ASSUME NEW e \in visible'
      PROVE  /\ e \in [thread : Threads, timestamp : Timestamps]
             /\ FirstOfBuffer(e)
  <2>1. PICK t \in {u \in Range(thread_buffers) : queue[u] # <<>>} :
          e = [thread |-> t, timestamp |-> Head(queue[t]).timestamp]
    BY DEF BeginRound
  <2>2. t \in Threads /\ buffer[t] = "registered"
    BY <2>1 DEF IndInv, RegistryIsExact
  <2> QED
    BY <2>1, <2>2, FirstEntry DEF FirstOfBuffer
<1>3. TypeOK'
  <2>1. 1 \in 1 .. Len(thread_buffers) + 1
    BY Registered
  <2>2. visible' \subseteq [thread : Threads, timestamp : Timestamps]
    BY <1>2
  <2> QED
    BY <1>1, <2>1, <2>2
    DEF BeginRound, IndInv, TypeOK, WorkerStates, threadVars, bufferVars,
        flagVars, appVars
<1>4. EarliestIsFirst' /\ EarliestOfRound'
  BY <1>1 DEF EarliestIsFirst, EarliestOfRound
<1>5. VisibleIsCompared'
  BY <1>1, <1>2
  DEF VisibleIsCompared, FirstOfBuffer, Compared, bufferVars
<1> QED
  BY <1>1, <1>3, <1>4, <1>5, LeftAlone
  DEF IndInv, threadVars, bufferVars, appVars

LEMMA VisitBufferKeeps ==
  ASSUME IndInv, VisitBuffer
  PROVE  IndInv'
<1> DEFINE t == thread_buffers[i]
<1>1. /\ UNCHANGED <<threadVars, bufferVars, thread_buffers, flagVars,
                     fdflush, outfd, worker, visible, appVars, written>>
      /\ worker = "scan" /\ i' = i + 1
  BY DEF VisitBuffer
<1>2. /\ i \in Nat /\ i >= 1 /\ i <= Len(thread_buffers)
      /\ Len(thread_buffers) \in Nat
  BY Place, Registered DEF VisitBuffer
<1>3. t \in Threads /\ buffer[t] = "registered"
  BY <1>2, Registered
<1>4. \/ /\ queue[t] # <<>>
         /\ Head(queue[t]).timestamp < earliest.timestamp
         /\ earliest' = [thread |-> t, timestamp |-> Head(queue[t]).timestamp]
      \/ /\ ~(queue[t] # <<>> /\
              Head(queue[t]).timestamp < earliest.timestamp)
         /\ earliest' = earliest
  BY DEF VisitBuffer
<1> HIDE DEF t
<1>5. earliest.timestamp \in Nat
  <2>1. earliest = Nobody \/ earliest.timestamp \in Timestamps
    BY DEF IndInv, TypeOK
  <2>2. UINT64_MAX \in Nat /\ Timestamps \subseteq Nat
    BY Times
  <2>3. Nobody.timestamp = UINT64_MAX
    BY DEF Nobody
  <2> QED
    BY <2>1, <2>2, <2>3
<1>6. /\ queue[t] # <<>> => Head(queue[t]).timestamp \in Timestamps
      /\ Timestamps \subseteq Nat
  <2>1. queue[t] # <<>> => Head(queue[t]).timestamp \in Timestamps
    BY <1>3, FirstEntry
  <2>2. Timestamps \subseteq Nat
    BY Times
  <2> QED
    BY <2>1, <2>2
<1>7. TypeOK'
  <2>1. i + 1 \in 1 .. Len(thread_buffers) + 1
    BY <1>2
  <2>2. earliest' \in [thread : Threads, timestamp : Timestamps] \cup {Nobody}
    BY <1>3, <1>4, <1>6 DEF IndInv, TypeOK
  <2> QED
    BY <1>1, <2>1, <2>2
    DEF VisitBuffer, IndInv, TypeOK, threadVars, bufferVars, flagVars, appVars
<1>8. EarliestIsFirst'
  BY <1>1, <1>3, <1>4
  DEF IndInv, EarliestIsFirst, FirstOfBuffer, bufferVars
<1>9. VisibleIsCompared'
  <2>1. ASSUME NEW e \in visible
        PROVE  FirstOfBuffer(e) /\ e.timestamp \in Nat /\ Compared(e)
    <3>1. FirstOfBuffer(e) /\ Compared(e)
      BY <1>1 DEF IndInv, VisibleIsCompared
    <3>2. e.timestamp \in Timestamps
      BY DEF IndInv, TypeOK
    <3> QED
      BY <1>6, <3>1, <3>2
  <2>2. ASSUME NEW e \in visible, NEW k \in 1 .. i, thread_buffers[k] = e.thread
        PROVE  earliest'.timestamp <= e.timestamp
    <3>1. e.timestamp \in Nat
      BY <2>1
    <3>2. CASE k # i
      <4>1. k \in 1 .. i - 1
        BY <1>2, <3>2
      <4>2. earliest.timestamp <= e.timestamp
        BY <2>1, <2>2, <4>1 DEF Compared
      <4>3. CASE earliest' = earliest
        BY <4>2, <4>3
      <4>4. CASE earliest' # earliest
        <5>1. /\ queue[t] # <<>>
              /\ Head(queue[t]).timestamp < earliest.timestamp
              /\ earliest'.timestamp = Head(queue[t]).timestamp
          BY <1>4, <4>4
        <5>2. Head(queue[t]).timestamp \in Nat
          BY <1>6, <5>1
        <5> QED
          BY <1>5, <3>1, <4>2, <5>1, <5>2
      <4> QED
        BY <4>3, <4>4
    <3>3. CASE k = i
      <4>1. queue[t] # <<>> /\ Head(queue[t]).timestamp = e.timestamp
        BY <2>1, <2>2, <3>3 DEF FirstOfBuffer, t
      <4> QED
        BY <1>4, <1>5, <3>1, <4>1
    <3> QED
      BY <3>2, <3>3
  <2>3. \A e \in visible : Compared(e)'
    <3>1. \A k \in 1 .. (i + 1) - 1 : k \in 1 .. i
      BY <1>2
    <3> QED
      BY <1>1, <2>2, <3>1 DEF Compared
  <2> QED
    BY <1>1, <2>1, <2>3 DEF VisibleIsCompared, FirstOfBuffer, bufferVars
<1>10. EarliestOfRound'
  BY <1>1 DEF EarliestOfRound
<1> QED
  BY <1>1, <1>7, <1>8, <1>9, <1>10, LeftAlone
  DEF IndInv, threadVars, bufferVars, appVars

LEMMA DeleteBufferKeeps ==
  ASSUME IndInv, DeleteBuffer
  PROVE  IndInv'
<1> DEFINE t == thread_buffers[i]
<1>1. /\ UNCHANGED <<threadVars, queue, should_deallocate, flagVars, fdflush,
                     outfd, worker, earliest, visible, appVars, written>>
      /\ worker = "scan" /\ i' = i
  BY DEF DeleteBuffer, AfterErase
<1>2. /\ i \in Nat /\ i >= 1 /\ i <= Len(thread_buffers)
      /\ Len(thread_buffers) \in Nat
  BY Place, Registered DEF DeleteBuffer
<1>3. t \in Threads /\ buffer[t] = "registered"
  BY <1>2, Registered
<1>4. should_deallocate[t] /\ queue[t] = <<>>
  BY DEF DeleteBuffer, CanDelete
<1>5. /\ buffer' = [buffer EXCEPT ![t] = "freed"]
      /\ thread_buffers' = RemoveAt(thread_buffers, i)
  BY DEF DeleteBuffer, Erase
<1>6. /\ thread_buffers' \in Seq(Threads)
      /\ Len(thread_buffers') = Len(thread_buffers) - 1
      /\ \A j \in 1 .. i - 1 : thread_buffers'[j] = thread_buffers[j]
  <2>1. i \in 1 .. Len(thread_buffers) /\ thread_buffers \in Seq(Threads)
    BY <1>2 DEF IndInv, TypeOK
  <2>2. /\ RemoveAt(thread_buffers, i) \in Seq(Threads)
        /\ Len(RemoveAt(thread_buffers, i)) = Len(thread_buffers) - 1
        /\ \A j \in 1 .. Len(thread_buffers) - 1 :
             RemoveAt(thread_buffers, i)[j] =
               IF j < i THEN thread_buffers[j] ELSE thread_buffers[j + 1]
    BY <2>1, RemoveAtProperties
  <2>3. \A j \in 1 .. i - 1 : j \in 1 .. Len(thread_buffers) - 1 /\ j < i
    BY <1>2
  <2> QED
    BY <1>5, <2>2, <2>3
<1>7. RegistryIsExact'
  <2>1. /\ IsInjective(thread_buffers')
        /\ Range(thread_buffers') = Range(thread_buffers) \ {t}
    BY <1>2, <1>5, InjectiveRemoveAt DEF IndInv, TypeOK, RegistryIsExact
  <2> QED
    BY <1>3, <1>5, <2>1 DEF IndInv, TypeOK, RegistryIsExact
<1> HIDE DEF t
<1>8. TypeOK'
  <2>1. i \in 1 .. Len(thread_buffers') + 1
    BY <1>2, <1>6
  <2>2. buffer' \in [Threads -> {"none", "registered", "freed"}]
    BY <1>5 DEF IndInv, TypeOK
  <2> QED
    BY <1>1, <1>6, <2>1, <2>2
    DEF DeleteBuffer, IndInv, TypeOK, threadVars, flagVars, appVars
<1>9. \A u \in Threads : ThreadAndBuffer(u)'
  BY <1>1, <1>3, <1>4, <1>5
  DEF IndInv, TypeOK, ThreadAndBuffer, threadVars, LoggingStates
<1>10. ASSUME NEW e \in [thread : Threads, timestamp : Timestamps],
              FirstOfBuffer(e)
       PROVE  FirstOfBuffer(e)'
  <2>1. e.thread # t
    BY <1>4, <1>10 DEF FirstOfBuffer
  <2> QED
    BY <1>1, <1>5, <1>10, <2>1 DEF IndInv, TypeOK, FirstOfBuffer
<1>11. EarliestIsFirst'
  BY <1>1, <1>10 DEF IndInv, TypeOK, EarliestIsFirst
<1>12. VisibleIsCompared'
  <2>1. \A e \in visible : Compared(e)'
    BY <1>1, <1>6 DEF IndInv, VisibleIsCompared, Compared
  <2> QED
    BY <1>1, <1>10, <2>1 DEF IndInv, TypeOK, VisibleIsCompared
<1> QED
  BY <1>1, <1>7, <1>8, <1>9, <1>11, <1>12, LeftAlone
  DEF IndInv, threadVars, appVars

LEMMA EndRoundKeeps ==
  ASSUME IndInv, EndRound
  PROVE  IndInv'
<1>1. /\ UNCHANGED <<threadVars, bufferVars, thread_buffers, flagVars,
                     fdflush, outfd, i, earliest, visible, appVars, written>>
      /\ worker = "scan"
  BY DEF EndRound
<1>2. i = Len(thread_buffers) + 1 /\ Len(thread_buffers) \in Nat
  BY Place, Registered DEF EndRound
<1>3. ASSUME NEW e \in visible
      PROVE  earliest.timestamp <= e.timestamp /\ e.timestamp \in Timestamps
  <2>1. /\ e.thread \in Threads /\ e.timestamp \in Timestamps
        /\ FirstOfBuffer(e) /\ Compared(e)
    BY <1>1 DEF IndInv, TypeOK, VisibleIsCompared
  <2>2. PICK k \in 1 .. Len(thread_buffers) : thread_buffers[k] = e.thread
    BY <2>1, Registered DEF FirstOfBuffer
  <2>3. k \in 1 .. i - 1
    BY <1>2
  <2> QED
    BY <2>1, <2>2, <2>3 DEF Compared
<1>4. \/ worker' = "process" /\ earliest.timestamp # UINT64_MAX
      \/ worker' = "waiting" /\ earliest.timestamp = UINT64_MAX
  BY DEF EndRound
<1>5. TypeOK'
  BY <1>1, <1>4
  DEF EndRound, IndInv, TypeOK, WorkerStates, threadVars, bufferVars,
      flagVars, appVars
<1>6. EarliestIsFirst'
  BY <1>1, <1>4
  DEF IndInv, EarliestIsFirst, FirstOfBuffer, Nobody, bufferVars
<1>7. VisibleIsCompared'
  BY <1>4 DEF VisibleIsCompared
<1>8. EarliestOfRound'
  <2>1. CASE worker' = "process"
    BY <1>1, <1>3, <2>1 DEF EarliestOfRound
  <2>2. CASE worker' = "waiting" /\ earliest.timestamp = UINT64_MAX
    <3>1. visible = {}
      <4>1. ASSUME NEW e \in visible
            PROVE  FALSE
        <5>1. /\ e.timestamp \in Timestamps
              /\ earliest.timestamp <= e.timestamp
          BY <1>3
        <5>2. PICK n \in Nat : n = e.timestamp /\ n < UINT64_MAX
          BY <5>1, Times DEF Timestamps
        <5> QED
          BY <2>2, <5>1, <5>2, Times
      <4> QED
        BY <4>1
    <3> QED
      BY <1>1, <2>2, <3>1 DEF EarliestOfRound
  <2> QED
    BY <1>4, <2>1, <2>2
<1> QED
  BY <1>1, <1>4, <1>5, <1>6, <1>7, <1>8, LeftAlone
  DEF IndInv, threadVars, bufferVars, appVars

\* What is left of a queue q when its first entry was retimed or nothing done.
SameEntries(r, q) ==
  /\ r \in Seq(QueuedEntries)
  /\ Len(r) = Len(q)
  /\ \A k \in 1 .. Len(q) : r[k].id = q[k].id

\* Attempts number the entries they keep with times.
LEMMA RetimedProperties ==
  ASSUME IndInv, NEW t \in Threads, queue[t] # <<>>, NEW u \in Threads
  PROVE  SameEntries(Retimed(t)[u], queue[u])
<1> DEFINE q == queue[u]
           time == AttemptTime(u, t)
           head == [q[1] EXCEPT !.timestamp = time]
<1>1. q \in Seq(QueuedEntries)
  BY DEF IndInv, TypeOK
<1>2. time \in Timestamps
  <2>1. TriedEarlier(u, t) \in SUBSET Threads
    BY DEF TriedEarlier, Tried
  <2>2. /\ Cardinality(TriedEarlier(u, t)) \in Nat
        /\ Cardinality(TriedEarlier(u, t)) <= Cardinality(Threads)
    BY <2>1, ThreadsAssumption, FS_Subset, FS_CardinalityType
  <2>3. PICK c, n \in Nat : /\ c = Cardinality(TriedEarlier(u, t))
                            /\ n = Cardinality(Threads)
                            /\ c <= n
    BY <2>2, Times
  <2>4. time \in Nat /\ time <= NANOTIME + n
    BY <2>3, Times DEF AttemptTime
  <2> QED
    BY <2>3, <2>4, Times
<1>3. CASE u \in Tried(t) \cup {t}
  <2>1. Retimed(t)[u] = [q EXCEPT ![1] = head]
    BY <1>3 DEF Retimed
  <2>2. q # <<>>
    BY <1>3 DEF Tried
  <2>3. Len(q) \in Nat /\ 1 \in 1 .. Len(q)
    BY <1>1, <2>2, EmptySeq
  <2>4. q[1] \in QueuedEntries
    BY <1>1, <2>3, ElementOfSeq
  <2> HIDE DEF time
  <2>5. head \in QueuedEntries /\ head.id = q[1].id
    BY <1>2, <2>4 DEF QueuedEntries
  <2> HIDE DEF head, q
  <2>6. /\ [q EXCEPT ![1] = head] \in Seq(QueuedEntries)
        /\ Len([q EXCEPT ![1] = head]) = Len(q)
        /\ \A j \in 1 .. Len(q) :
             [q EXCEPT ![1] = head][j] = IF j = 1 THEN head ELSE q[j]
    BY <1>1, <2>3, <2>5, ExceptSeq
  <2>7. SameEntries([q EXCEPT ![1] = head], q)
    BY <2>5, <2>6 DEF SameEntries
  <2> QED
    BY <2>1, <2>7 DEF q
<1>4. CASE u \notin Tried(t) \cup {t}
  <2>1. Retimed(t)[u] = q
    BY <1>4 DEF Retimed
  <2> QED
    BY <1>1, <2>1 DEF SameEntries
<1> QED
  BY <1>3, <1>4

\* One attempt at the first entry of t, of which the line was written or not.
Processed(t, done) ==
  /\ t \in Threads /\ buffer[t] = "registered" /\ queue[t] # <<>>
  /\ queue' \in [Threads -> Seq(QueuedEntries)]
  /\ written' \in [Threads -> Seq(WrittenEntries)]
  /\ \A u \in Threads \ {t} : /\ SameEntries(queue'[u], queue[u])
                              /\ written'[u] = written[u]
  /\ ~done => SameEntries(queue'[t], queue[t]) /\ written'[t] = written[t]
  /\ done =>
       /\ Len(queue'[t]) = Len(queue[t]) - 1
       /\ \A k \in 1 .. Len(queue[t]) - 1 : queue'[t][k] = queue[t][k + 1]
       /\ Len(written'[t]) = Len(written[t]) + 1
       /\ \A k \in 1 .. Len(written[t]) : written'[t][k] = written[t][k]
       /\ written'[t][Len(written[t]) + 1].id = queue[t][1].id

\* The line that is written and the entry that is left.
LEMMA ProcessLogBufferConsumes ==
  ASSUME IndInv, ProcessLogBuffer
  PROVE  \E done \in BOOLEAN : Processed(earliest.thread, done)
<1>1. PICK t \in Threads :
        /\ t = earliest.thread /\ buffer[t] = "registered" /\ queue[t] # <<>>
  BY DEF IndInv, TypeOK, EarliestIsFirst, FirstOfBuffer, ProcessLogBuffer
<1>2. /\ queue[t] \in Seq(QueuedEntries) /\ written[t] \in Seq(WrittenEntries)
      /\ queue \in [Threads -> Seq(QueuedEntries)]
      /\ written \in [Threads -> Seq(WrittenEntries)]
  BY DEF IndInv, TypeOK
<1>3. CASE Attempt(FALSE)
  <2>1. queue' = Retimed(t) /\ written' = written
    BY <1>1, <1>3 DEF Attempt, Remaining
  <2>2. \A u \in Threads : SameEntries(queue'[u], queue[u])
    BY <1>1, <2>1, RetimedProperties
  <2>3. queue' \in [Threads -> Seq(QueuedEntries)]
    <3>1. DOMAIN queue' = Threads /\ queue' = [u \in Threads |-> queue'[u]]
      BY <2>1 DEF Retimed
    <3>2. \A u \in Threads : queue'[u] \in Seq(QueuedEntries)
      BY <2>2 DEF SameEntries
    <3> QED
      BY <3>1, <3>2
  <2>4. Processed(t, FALSE)
    BY <1>1, <1>2, <2>1, <2>2, <2>3 DEF Processed
  <2> QED
    BY <1>1, <2>4
<1>4. CASE outfd # INVALID /\ Attempt(TRUE)
  <2> DEFINE line == [id |-> Head(queue[t]).id, file |-> outfd]
  <2>1. /\ queue' = [queue EXCEPT ![t] = Tail(queue[t])]
        /\ written' = [written EXCEPT ![t] = Append(written[t], line)]
    BY <1>1, <1>4 DEF Attempt, Remaining, Consumed
  <2>2. Head(queue[t]) = queue[t][1] /\ Head(queue[t]) \in QueuedEntries
    BY <1>1, <1>2, HeadTailProperties, EmptySeq
  <2>3. line \in WrittenEntries /\ line.id = queue[t][1].id
    BY <1>4, <2>2 DEF IndInv, TypeOK, WrittenEntries, QueuedEntries
  <2> HIDE DEF line
  <2>4. /\ Append(written[t], line) \in Seq(WrittenEntries)
        /\ Len(Append(written[t], line)) = Len(written[t]) + 1
        /\ \A k \in 1 .. Len(written[t]) :
             Append(written[t], line)[k] = written[t][k]
        /\ Append(written[t], line)[Len(written[t]) + 1] = line
    BY <1>2, <2>3, AppendProperties
  <2>5. /\ Tail(queue[t]) \in Seq(QueuedEntries)
        /\ Len(Tail(queue[t])) = Len(queue[t]) - 1
        /\ \A k \in 1 .. Len(queue[t]) - 1 :
             Tail(queue[t])[k] = queue[t][k + 1]
    BY <1>1, <1>2, HeadTailProperties
  <2>6. /\ queue'[t] = Tail(queue[t])
        /\ written'[t] = Append(written[t], line)
        /\ \A u \in Threads \ {t} : /\ queue'[u] = queue[u]
                                    /\ written'[u] = written[u]
    BY <1>2, <2>1
  <2>7. /\ queue' \in [Threads -> Seq(QueuedEntries)]
        /\ written' \in [Threads -> Seq(WrittenEntries)]
    BY <1>2, <2>1, <2>4, <2>5
  <2>8. \A u \in Threads \ {t} : SameEntries(queue'[u], queue[u])
    BY <1>2, <2>6 DEF SameEntries
  <2>9. Processed(t, TRUE)
    BY <1>1, <2>3, <2>4, <2>5, <2>6, <2>7, <2>8 DEF Processed
  <2> QED
    BY <1>1, <2>9
<1> QED
  BY <1>3, <1>4 DEF ProcessLogBuffer

LEMMA ProcessLogBufferKeeps ==
  ASSUME IndInv, ProcessLogBuffer
  PROVE  IndInv'
<1>1. /\ UNCHANGED <<threadVars, buffer, should_deallocate, thread_buffers,
                     flagVars, fdflush, outfd, appVars>>
      /\ worker' = "loop" /\ i' = 1 /\ earliest' = Nobody /\ visible' = {}
  BY DEF ProcessLogBuffer, LocalsEnd
<1>2. PICK done \in BOOLEAN : Processed(earliest.thread, done)
  BY ProcessLogBufferConsumes
<1>3. PICK t \in Threads : t = earliest.thread
  BY <1>2 DEF Processed
<1>4. /\ buffer[t] = "registered" /\ queue[t] # <<>>
      /\ \A u \in Threads \ {t} : /\ SameEntries(queue'[u], queue[u])
                                  /\ written'[u] = written[u]
      /\ ~done => written'[t] = written[t]
      /\ done =>
           /\ Len(written'[t]) = Len(written[t]) + 1
           /\ \A k \in 1 .. Len(written[t]) : written'[t][k] = written[t][k]
           /\ written'[t][Len(written[t]) + 1].id = queue[t][1].id
  BY <1>2, <1>3 DEF Processed
<1>5. /\ queue[t] \in Seq(QueuedEntries) /\ Len(queue[t]) \in Nat
      /\ Len(queue[t]) >= 1
      /\ Len(written[t]) \in Nat
  BY <1>4, EmptySeq, LenProperties DEF IndInv, TypeOK
<1>6. /\ done =>
           /\ Len(queue'[t]) = Len(queue[t]) - 1
           /\ \A k \in 1 .. Len(queue[t]) - 1 : queue'[t][k] = queue[t][k + 1]
      /\ ~done =>
           /\ Len(queue'[t]) = Len(queue[t])
           /\ \A k \in 1 .. Len(queue[t]) : queue'[t][k].id = queue[t][k].id
  BY <1>2, <1>3 DEF Processed, SameEntries
<1>7. TypeOK'
  <2>1. queue' \in [Threads -> Seq(QueuedEntries)]
    BY <1>2 DEF Processed
  <2>2. written' \in [Threads -> Seq(WrittenEntries)]
    BY <1>2 DEF Processed
  <2>3. 1 \in 1 .. Len(thread_buffers) + 1
    BY Registered
  <2> QED
    BY <1>1, <2>1, <2>2, <2>3
    DEF ProcessLogBuffer, IndInv, TypeOK, WorkerStates, threadVars, flagVars,
        appVars
<1>8. \A u \in Threads : ThreadAndBuffer(u)'
  <2>1. ASSUME NEW u \in Threads, u # t
        PROVE  ThreadAndBuffer(u)'
    <3>1. /\ UNCHANGED <<thread, buffer, published, should_deallocate>>
          /\ queue[u] \in Seq(QueuedEntries) /\ queue'[u] \in Seq(QueuedEntries)
          /\ Len(queue'[u]) = Len(queue[u])
      BY <1>1, <1>4, <2>1 DEF threadVars, SameEntries, IndInv, TypeOK
    <3>2. queue[u] = <<>> => queue'[u] = <<>>
      BY <3>1, EmptySeq
    <3> QED
      BY <3>1, <3>2 DEF IndInv, ThreadAndBuffer
  <2>2. ThreadAndBuffer(t)'
    <3>1. Len(queue[t]) < Capacity => Len(queue'[t]) < Capacity
      BY <1>5, <1>6, BoundsAssumption
    <3>2. UNCHANGED <<thread, buffer, published, should_deallocate>>
      BY <1>1 DEF threadVars
    <3> QED
      BY <1>4, <3>1, <3>2 DEF IndInv, ThreadAndBuffer
  <2> QED
    BY <2>1, <2>2
<1>9. \A u \in Threads : Numbered(u)'
  <2>1. ASSUME NEW u \in Threads, u # t
        PROVE  Numbered(u)'
    <3>1. /\ published' = published /\ written'[u] = written[u]
          /\ Len(queue'[u]) = Len(queue[u])
          /\ \A k \in 1 .. Len(queue[u]) : queue'[u][k].id = queue[u][k].id
      BY <1>1, <1>4, <2>1 DEF threadVars, SameEntries
    <3> QED
      BY <3>1 DEF IndInv, Numbered
  <2>2. /\ published'[t] = published[t] /\ Numbered(t)
    BY <1>1 DEF IndInv, threadVars
  <2>3. PICK m \in Nat, n \in Nat : m = Len(written[t]) /\ n = Len(queue[t])
    BY <1>5
  <2>4. /\ m + n = published[t] /\ n >= 1
        /\ \A k \in 1 .. m : written[t][k].id = k
        /\ \A k \in 1 .. n : queue[t][k].id = m + k
    BY <1>5, <2>2, <2>3 DEF Numbered
  <2>5. Numbered(t)'
    <3>1. CASE ~done
      BY <1>4, <1>6, <2>2, <2>3, <2>4, <3>1 DEF Numbered
    <3>2. CASE done
      <4>1. /\ Len(written'[t]) = m + 1 /\ Len(queue'[t]) = n - 1
            /\ \A k \in 1 .. m : written'[t][k] = written[t][k]
            /\ written'[t][m + 1].id = queue[t][1].id
            /\ \A k \in 1 .. n - 1 : queue'[t][k] = queue[t][k + 1]
        BY <1>4, <1>6, <2>3, <3>2
      <4>2. (m + 1) + (n - 1) = published[t]
        BY <2>4
      <4>3. ASSUME NEW k \in 1 .. m + 1
            PROVE  written'[t][k].id = k
        <5>1. k \in 1 .. m \/ k = m + 1
          OBVIOUS
        <5>2. queue[t][1].id = m + 1
          <6>1. 1 \in 1 .. n
            BY <2>4
          <6> QED
            BY <2>4, <6>1
        <5>3. CASE k \in 1 .. m
          BY <2>4, <4>1, <5>3
        <5>4. CASE k = m + 1
          BY <4>1, <5>2, <5>4
        <5> QED
          BY <5>1, <5>3, <5>4
      <4>4. ASSUME NEW k \in 1 .. n - 1
            PROVE  queue'[t][k].id = (m + 1) + k
        <5>1. k + 1 \in 1 .. n /\ m + (k + 1) = (m + 1) + k
          OBVIOUS
        <5> QED
          BY <2>4, <4>1, <5>1
      <4> QED
        BY <2>2, <4>1, <4>2, <4>3, <4>4 DEF Numbered
    <3> QED
      BY <3>1, <3>2
  <2> QED
    BY <2>1, <2>5
<1>10. CallsAndFlags'
  <2>1. ASSUME NEW u \in Threads
        PROVE  Len(written'[u]) \in Nat /\ Len(written[u]) \in Nat
               /\ Len(written'[u]) >= Len(written[u])
               /\ at_exit[u] \in Nat
    <3>1. written[u] \in Seq(WrittenEntries) /\ at_exit[u] \in Nat
      BY DEF IndInv, TypeOK
    <3>2. Len(written[u]) \in Nat
      BY <3>1, LenProperties
    <3>3. CASE u # t
      BY <1>4, <3>1, <3>2, <3>3
    <3>4. CASE u = t
      BY <1>5, <1>4, <3>1, <3>4
    <3> QED
      BY <3>3, <3>4
  <2>2. Flushed => Flushed'
    BY <1>1, <2>1 DEF Flushed, appVars
  <2> QED
    BY <1>1, <2>2
    DEF IndInv, CallsAndFlags, threadVars, flagVars, appVars
<1>11. EarliestIsFirst' /\ VisibleIsCompared' /\ EarliestOfRound'
  BY <1>1 DEF EarliestIsFirst, VisibleIsCompared, EarliestOfRound
<1> QED
  BY <1>1, <1>7, <1>8, <1>9, <1>10, <1>11, LeftAlone DEF IndInv

LEMMA WakeKeeps ==
  ASSUME IndInv, Wake
  PROVE  IndInv'
<1>1. /\ UNCHANGED <<threadVars, bufferVars, thread_buffers, flagVars,
                     fdflush, outfd, appVars, written>>
      /\ worker' = "loop" /\ i' = 1 /\ earliest' = Nobody /\ visible' = {}
  BY DEF Wake, LocalsEnd
<1>2. TypeOK'
  <2>1. 1 \in 1 .. Len(thread_buffers) + 1
    BY Registered
  <2> QED
    BY <1>1, <2>1
    DEF Wake, IndInv, TypeOK, WorkerStates, threadVars, bufferVars, flagVars,
        appVars
<1>3. EarliestIsFirst' /\ VisibleIsCompared' /\ EarliestOfRound'
  BY <1>1 DEF EarliestIsFirst, VisibleIsCompared, EarliestOfRound
<1> QED
  BY <1>1, <1>2, <1>3, LeftAlone DEF IndInv, threadVars, bufferVars, appVars

-----------------------------------------------------------------------------
(* The calls of the application. *)

LEMMA SyncKeeps ==
  ASSUME IndInv, Sync
  PROVE  IndInv'
<1> USE DEF Sync, threadVars, bufferVars, appVars
<1>1. TypeOK'
  BY DEF IndInv, TypeOK, WorkerStates, flagVars
<1> QED
  BY <1>1, LeftAlone DEF IndInv

LEMMA SetLogFileKeeps ==
  ASSUME IndInv, SetLogFile
  PROVE  IndInv'
<1>1. calls \in Nat /\ calls + 1 \in 0 .. MaxSetLogFile
  BY BoundsAssumption DEF IndInv, TypeOK, SetLogFile
<1>2. /\ UNCHANGED <<threadVars, bufferVars, thread_buffers, fdflush, outfd,
                     workerVars, promised, at_exit, written>>
      /\ is_stop' = TRUE /\ is_exit' = TRUE /\ app' = "joining"
      /\ calls' = calls + 1
  BY DEF SetLogFile
<1>3. TypeOK'
  BY <1>1, <1>2
  DEF SetLogFile, IndInv, TypeOK, AppStates, threadVars, bufferVars,
      workerVars
<1>4. CallsAndFlags'
  <2>1. calls' # 0
    BY <1>1, <1>2
  <2> QED
    BY <1>2, <2>1 DEF IndInv, CallsAndFlags, threadVars
<1> QED
  BY <1>2, <1>3, <1>4, LeftAlone DEF IndInv, threadVars, bufferVars, workerVars

LEMMA InCallKeeps ==
  ASSUME IndInv, InCall
  PROVE  IndInv'
<1>1. CASE JoinWorker
  <2> USE DEF JoinWorker, threadVars, bufferVars, workerVars, flagVars
  <2>1. TypeOK'
    BY <1>1 DEF IndInv, TypeOK, AppStates
  <2>2. CallsAndFlags'
    BY <1>1 DEF IndInv, CallsAndFlags
  <2> QED
    BY <1>1, <2>1, <2>2, LeftAlone DEF IndInv
<1>2. CASE JoinThrows
  <2> USE DEF JoinThrows, threadVars, bufferVars, workerVars, flagVars
  <2>1. TypeOK'
    BY <1>2 DEF IndInv, TypeOK, AppStates
  <2>2. CallsAndFlags'
    BY <1>2 DEF IndInv, CallsAndFlags
  <2> QED
    BY <1>2, <2>1, <2>2, LeftAlone DEF IndInv
<1>3. CASE ReopenFile
  <2> USE DEF ReopenFile, threadVars, bufferVars, workerVars
  <2>1. calls \in FileIds
    BY DEF IndInv, TypeOK, FileIds, LOG_TXT
  <2>2. TypeOK'
    BY <1>3, <2>1 DEF IndInv, TypeOK, AppStates
  <2>3. calls # INVALID
    BY DEF IndInv, TypeOK, INVALID
  <2>4. CallsAndFlags'
    BY <1>3, <2>3 DEF IndInv, CallsAndFlags
  <2> QED
    BY <1>3, <2>2, <2>4, LeftAlone DEF IndInv
<1>4. CASE StartWorker
  <2> USE DEF StartWorker, threadVars, bufferVars, flagVars
  <2>1. outfd \in FileIds
    BY <1>4 DEF IndInv, TypeOK, CallsAndFlags
  <2>2. TypeOK'
    BY <1>4, <2>1 DEF IndInv, TypeOK, AppStates, WorkerStates
  <2>3. CallsAndFlags'
    BY <1>4 DEF IndInv, CallsAndFlags
  <2> QED
    BY <1>4, <2>2, <2>3, LeftAlone DEF IndInv
<1>5. CASE EndDestroy
  <2> USE DEF EndDestroy, threadVars, bufferVars, workerVars, flagVars
  <2>1. TypeOK'
    BY <1>5 DEF IndInv, TypeOK, AppStates
  <2>2. CallsAndFlags'
    BY <1>5 DEF IndInv, CallsAndFlags, Flushed
  <2> QED
    BY <1>5, <2>1, <2>2, LeftAlone DEF IndInv
<1> QED
  BY <1>1, <1>2, <1>3, <1>4, <1>5 DEF InCall

LEMMA DestroyKeeps ==
  ASSUME IndInv, Destroy
  PROVE  IndInv'
<1>1. /\ UNCHANGED <<threadVars, bufferVars, thread_buffers, is_exit, fdflush,
                     outfd, workerVars, calls, promised, written>>
      /\ app = "running"
      /\ is_stop' = TRUE /\ app' = "destroying" /\ at_exit' = published
  BY DEF Destroy
<1>2. TypeOK'
  BY <1>1
  DEF Destroy, IndInv, TypeOK, AppStates, threadVars, bufferVars, workerVars
<1>3. CallsAndFlags'
  <2>1. \A t \in Threads : published[t] <= published[t]
    BY DEF IndInv, TypeOK
  <2> QED
    BY <1>1, <2>1 DEF IndInv, CallsAndFlags, threadVars, workerVars
<1> QED
  BY <1>1, <1>2, <1>3, LeftAlone DEF IndInv, threadVars, bufferVars, workerVars

-----------------------------------------------------------------------------
(* Every step keeps the invariant. *)

LEMMA NextIndInv == IndInv /\ [Next]_vars => IndInv'
<1> SUFFICES ASSUME IndInv, [Next]_vars
             PROVE  IndInv'
  OBVIOUS
<1>1. ASSUME NEW t \in Threads, LoggingThread(t)
      PROVE  IndInv'
  BY <1>1, AllocateBufferIdKeeps, RegisterBufferKeeps, ReserveAllocKeeps,
     FinishAllocKeeps, EndThreadKeeps DEF LoggingThread
<1>2. CASE Worker
  BY <1>2, StartPollingKeeps, PollKeeps, BeginRoundKeeps, VisitBufferKeeps,
     DeleteBufferKeeps, EndRoundKeeps, ProcessLogBufferKeeps, WakeKeeps
  DEF Worker
<1>3. CASE Sync \/ SetLogFile \/ Destroy \/ InCall
  BY <1>3, SyncKeeps, SetLogFileKeeps, DestroyKeeps, InCallKeeps
<1>4. CASE UNCHANGED vars
  <2>1. UNCHANGED <<threadVars, bufferVars, clock, next_buffer_id,
                    thread_buffers, flagVars, fdflush, outfd, workerVars,
                    appVars, written>>
    BY <1>4 DEF vars
  <2>2. TypeOK'
    BY <2>1
    DEF IndInv, TypeOK, threadVars, bufferVars, flagVars, workerVars, appVars
  <2> QED
    BY <2>1, <2>2, LeftAlone
    DEF IndInv, threadVars, bufferVars, workerVars, appVars
<1>5. CASE Terminated
  BY <1>4, <1>5 DEF Terminated
<1> QED
  BY <1>1, <1>2, <1>3, <1>4, <1>5 DEF Next

\* The inductive invariant holds in every reachable state.
THEOREM Invariance == Spec => []IndInv
BY InitIndInv, NextIndInv, PTL DEF Spec

-----------------------------------------------------------------------------
(* The invariants that the runs check. *)

\* Every variable keeps its type.
THEOREM TypeCorrect == Spec => []TypeOK
<1>1. IndInv => TypeOK
  BY DEF IndInv
<1> QED
  BY <1>1, Invariance, PTL

\* thread_buffers_ lists each live buffer once and no deleted one, though
\* ioPoll erases from it while it walks it.
THEOREM RegistryStaysExact == Spec => []RegistryIsExact
<1>1. IndInv => RegistryIsExact
  BY DEF IndInv
<1> QED
  BY <1>1, Invariance, PTL

\* A round of ioPoll picks the earliest of the entries that were visible when
\* it began, and waits only if there was none.
THEOREM PicksEarliest == Spec => []EarliestOfRound
<1>1. IndInv => EarliestOfRound
  BY DEF IndInv
<1> QED
  BY <1>1, Invariance, PTL

\* ~StaticLogBackend returns only when what had been published before it was
\* entered is written, if setLogFile was never called.
THEOREM DestructorHasFlushed == Spec => []DestructorFlushes
<1>1. IndInv => DestructorFlushes
  BY DEF IndInv, CallsAndFlags, Flushed, DestructorFlushes
<1> QED
  BY <1>1, Invariance, PTL

\* No thread writes into a deleted buffer and the worker reads from none,
\* provided no thread_local object logs after its thread's destroyer_ is gone.
THEOREM BuffersOutliveUse ==
  Spec => [](LateLoggers = {} => NoUseAfterFree)
<1>1. IndInv => (LateLoggers = {} => NoUseAfterFree)
  <2> SUFFICES ASSUME IndInv, LateLoggers = {}
               PROVE  NoUseAfterFree
    OBVIOUS
  <2>1. ASSUME NEW t \in Threads, thread[t] \in LoggingStates
        PROVE  buffer[t] # "freed"
    BY <2>1 DEF IndInv, ThreadAndBuffer, LoggingStates
  <2>2. worker = "process" => buffer[earliest.thread] # "freed"
    BY DEF IndInv, EarliestIsFirst, FirstOfBuffer
  <2> QED
    BY <2>1, <2>2 DEF NoUseAfterFree, LoggingStates
<1> QED
  BY <1>1, Invariance, PTL

\* What a thread logged is in the file or in its buffer, once each and in the
\* order in which it was logged.
THEOREM NothingLostOrRepeated == Spec => []EachEntryOnce
<1>1. IndInv => EachEntryOnce
  <2> SUFFICES ASSUME IndInv, NEW t \in Threads
               PROVE  [k \in DOMAIN written[t] |-> written[t][k].id]
                        \o [k \in DOMAIN queue[t] |-> queue[t][k].id]
                      = [k \in 1 .. published[t] |-> k]
    BY DEF EachEntryOnce
  <2>1. PICK m \in Nat, n \in Nat : m = Len(written[t]) /\ n = Len(queue[t])
    BY LenProperties DEF IndInv, TypeOK
  <2>2. /\ DOMAIN written[t] = 1 .. m /\ DOMAIN queue[t] = 1 .. n
        /\ published[t] = m + n
        /\ \A k \in 1 .. m : written[t][k].id = k
        /\ \A k \in 1 .. n : queue[t][k].id = m + k
    BY <2>1, LenProperties DEF IndInv, TypeOK, Numbered
  <2> DEFINE w == [k \in 1 .. m |-> written[t][k].id]
             q == [k \in 1 .. n |-> queue[t][k].id]
             all == [k \in 1 .. m + n |-> k]
  <2>3. /\ w \in [1 .. m -> Nat] /\ q \in [1 .. n -> Nat]
        /\ all \in [1 .. m + n -> Nat]
        /\ \A k \in 1 .. m : w[k] = k
        /\ \A k \in 1 .. n : q[k] = m + k
        /\ \A k \in 1 .. m + n : all[k] = k
    BY <2>2
  <2> HIDE DEF w, q, all
  <2>4. /\ w \in Seq(Nat) /\ q \in Seq(Nat) /\ all \in Seq(Nat)
        /\ Len(w) = m /\ Len(q) = n /\ Len(all) = m + n
    BY <2>3, LenProperties
  <2>5. /\ w \o q \in Seq(Nat)
        /\ Len(w \o q) = m + n
        /\ \A k \in 1 .. m + n :
             (w \o q)[k] = IF k <= m THEN w[k] ELSE q[k - m]
    BY <2>4, ConcatProperties
  <2>6. ASSUME NEW k \in 1 .. m + n
        PROVE  (w \o q)[k] = all[k]
    <3>1. CASE k <= m
      <4>1. k \in 1 .. m
        BY <3>1
      <4> QED
        BY <2>3, <2>5, <3>1, <4>1
    <3>2. CASE ~(k <= m)
      <4>1. k - m \in 1 .. n /\ m + (k - m) = k
        BY <3>2
      <4> QED
        BY <2>3, <2>5, <3>2, <4>1
    <3> QED
      BY <3>1, <3>2
  <2>7. w \o q = all
    BY <2>4, <2>5, <2>6, SeqEqual
  <2> QED
    BY <2>2, <2>7 DEF w, q, all
<1> QED
  BY <1>1, Invariance, PTL

-----------------------------------------------------------------------------
(* The buffer of a thread that does not log late is a stream. *)

StreamEntries == [id : Int, len : {1}]

\* What Stream(t) takes for its queue and its owner.
EntriesOf(q) == [k \in 1 .. Len(q) |-> [id |-> q[k].id - 1, len |-> 1]]
OwnerOf(t) == IF buffer[t] = "freed" THEN "freed"
              ELSE IF should_deallocate[t] THEN "ended" ELSE "alive"

LEMMA EntriesProperties ==
  ASSUME NEW q \in Seq(QueuedEntries)
  PROVE  /\ EntriesOf(q) \in Seq(StreamEntries)
         /\ Len(EntriesOf(q)) = Len(q) /\ Len(q) \in Nat
         /\ \A k \in 1 .. Len(q) :
              EntriesOf(q)[k] = [id |-> q[k].id - 1, len |-> 1]
<1>1. Len(q) \in Nat
  BY LenProperties
<1>2. \A k \in 1 .. Len(q) : q[k].id \in Int
  <2>1. \A k \in 1 .. Len(q) : q[k] \in QueuedEntries
    BY ElementOfSeq
  <2> QED
    BY <2>1 DEF QueuedEntries
<1>3. EntriesOf(q) \in [1 .. Len(q) -> StreamEntries]
  BY <1>2 DEF EntriesOf, StreamEntries
<1>4. EntriesOf(q) \in Seq(StreamEntries) /\ Len(EntriesOf(q)) = Len(q)
  BY <1>1, <1>3, LenProperties
<1>5. \A k \in 1 .. Len(q) :
        EntriesOf(q)[k] = [id |-> q[k].id - 1, len |-> 1]
  BY DEF EntriesOf
<1> QED
  BY <1>1, <1>4, <1>5

LEMMA StreamStutters ==
  ASSUME NEW t \in Threads,
         Len(queue'[t]) = Len(queue[t]),
         \A k \in 1 .. Len(queue[t]) : queue'[t][k].id = queue[t][k].id,
         published'[t] = published[t],
         OwnerOf(t)' = OwnerOf(t)
  PROVE  UNCHANGED Stream(t)!streamVars
BY DEF Stream!streamVars, OwnerOf

LEMMA FinishAllocPublishes ==
  ASSUME IndInv, NEW t \in Threads \ LateLoggers, FinishAlloc(t)
  PROVE  Stream(t)!Next
<1>1. /\ OwnerOf(t) = "alive" /\ OwnerOf(t)' = "alive"
      /\ published[t] < MaxEntries /\ Len(queue[t]) < Capacity
  BY DEF IndInv, ThreadAndBuffer, FinishAlloc, LoggingStates, OwnerOf
<1>2. PICK n \in Nat, p \in Nat : n = Len(queue[t]) /\ p = published[t]
  BY LenProperties DEF IndInv, TypeOK
<1>3. /\ Len(queue'[t]) = n + 1
      /\ \A k \in 1 .. n : queue'[t][k] = queue[t][k]
      /\ queue'[t][n + 1].id = p + 1
  BY <1>2, FinishAllocAppends
<1>4. published'[t] = p + 1
  BY <1>2 DEF IndInv, TypeOK, FinishAlloc
<1> DEFINE q == EntriesOf(queue[t])
           r == EntriesOf(queue'[t])
           e == [id |-> p, len |-> 1]
<1>5. /\ q \in Seq(StreamEntries) /\ Len(q) = n
      /\ \A k \in 1 .. n : q[k] = [id |-> queue[t][k].id - 1, len |-> 1]
  BY <1>2, EntriesProperties DEF IndInv, TypeOK
<1>6. /\ r \in Seq(StreamEntries) /\ Len(r) = n + 1
      /\ \A k \in 1 .. n + 1 : r[k] = [id |-> queue'[t][k].id - 1, len |-> 1]
  BY <1>3, EntriesProperties, FinishAllocAppends
<1>7. e \in StreamEntries
  BY DEF StreamEntries
<1> HIDE DEF q, r
<1>8. r = Append(q, e)
  <2>1. \A k \in 1 .. n : r[k] = q[k]
    BY <1>3, <1>5, <1>6
  <2>2. r[n + 1] = e
    <3>1. n + 1 \in 1 .. n + 1 /\ (p + 1) - 1 = p
      OBVIOUS
    <3> QED
      BY <1>3, <1>6, <3>1
  <2> HIDE DEF e
  <2>3. /\ Append(q, e) \in Seq(StreamEntries)
        /\ Len(Append(q, e)) = n + 1
        /\ \A k \in 1 .. n : Append(q, e)[k] = q[k]
        /\ Append(q, e)[n + 1] = e
    BY <1>5, <1>7, AppendProperties
  <2>4. \A k \in 1 .. n + 1 : r[k] = Append(q, e)[k]
    <3>1. \A k \in 1 .. n + 1 : k \in 1 .. n \/ k = n + 1
      OBVIOUS
    <3> QED
      BY <2>1, <2>2, <2>3, <3>1
  <2> QED
    BY <1>6, <2>3, <2>4, SeqEqual
<1>9. n + 1 < Capacity + 1
  BY <1>1, <1>2, BoundsAssumption
<1>10. Stream(t)!Publish(1)
  BY <1>1, <1>2, <1>3, <1>4, <1>8, <1>9
  DEF Stream!Publish, EntriesOf, OwnerOf, q, r
<1> QED
  BY <1>10 DEF Stream!Next

\* The entry that processLogBuffer has written is taken from its stream; one
\* that it could not format stays.
LEMMA ProcessLogBufferTakes ==
  ASSUME IndInv, ProcessLogBuffer, NEW t \in Threads
  PROVE  [Stream(t)!Next]_(Stream(t)!streamVars)
<1>1. /\ UNCHANGED <<published, buffer, should_deallocate>>
      /\ OwnerOf(t)' = OwnerOf(t)
  BY DEF ProcessLogBuffer, threadVars, OwnerOf
<1>2. PICK done \in BOOLEAN : Processed(earliest.thread, done)
  BY ProcessLogBufferConsumes
<1>3. CASE t # earliest.thread \/ ~done
  <2>1. SameEntries(queue'[t], queue[t])
    BY <1>2, <1>3 DEF Processed
  <2> QED
    BY <1>1, <2>1, StreamStutters DEF SameEntries
<1>4. CASE t = earliest.thread /\ done
  <2>1. /\ buffer[t] = "registered" /\ queue[t] # <<>>
        /\ queue[t] \in Seq(QueuedEntries) /\ queue'[t] \in Seq(QueuedEntries)
        /\ Len(queue'[t]) = Len(queue[t]) - 1
        /\ \A k \in 1 .. Len(queue[t]) - 1 : queue'[t][k] = queue[t][k + 1]
    BY <1>2, <1>4 DEF Processed, IndInv, TypeOK
  <2>2. Stream(t)!Take
    <3>1. PICK n \in Nat : n = Len(queue[t]) /\ n >= 1
      BY <2>1, EmptySeq
    <3>2. /\ Len(queue'[t]) = n - 1
          /\ \A k \in 1 .. n - 1 : queue'[t][k] = queue[t][k + 1]
      BY <2>1, <3>1
    <3> DEFINE q == EntriesOf(queue[t])
               r == EntriesOf(queue'[t])
    <3>3. /\ q \in Seq(StreamEntries) /\ Len(q) = n
          /\ \A k \in 1 .. n : q[k] = [id |-> queue[t][k].id - 1, len |-> 1]
      BY <2>1, <3>1, EntriesProperties
    <3>4. /\ r \in Seq(StreamEntries) /\ Len(r) = n - 1
          /\ \A k \in 1 .. n - 1 :
               r[k] = [id |-> queue'[t][k].id - 1, len |-> 1]
      BY <2>1, <3>2, EntriesProperties
    <3> HIDE DEF q, r
    <3>5. q # <<>> /\ Head(q) = q[1]
      BY <3>1, <3>3, EmptySeq, HeadTailProperties
    <3>6. /\ Tail(q) \in Seq(StreamEntries) /\ Len(Tail(q)) = n - 1
          /\ \A k \in 1 .. n - 1 : Tail(q)[k] = q[k + 1]
      BY <3>3, <3>5, HeadTailProperties
    <3>7. r = Tail(q)
      <4>1. ASSUME NEW k \in 1 .. n - 1
            PROVE  r[k] = Tail(q)[k]
        <5>1. k + 1 \in 1 .. n
          BY <3>1
        <5> QED
          BY <3>2, <3>3, <3>4, <3>6, <5>1
      <4> QED
        BY <3>4, <3>6, <4>1, SeqEqual
    <3>8. Head(q).len = 1
      <4>1. 1 \in 1 .. n
        BY <3>1
      <4> QED
        BY <3>3, <3>5, <4>1
    <3> QED
      BY <1>1, <2>1, <3>1, <3>2, <3>5, <3>7, <3>8
      DEF Stream!Take, EntriesOf, OwnerOf, q, r
  <2> QED
    BY <2>2 DEF Stream!Next
<1> QED
  BY <1>3, <1>4

\* A step of any thread or of the worker, seen by the stream of thread t.
LEMMA StreamStep ==
  ASSUME IndInv, [Next]_vars, NEW t \in Threads \ LateLoggers
  PROVE  [Stream(t)!Next]_(Stream(t)!streamVars)
<1>1. ASSUME UNCHANGED <<published, bufferVars>>
      PROVE  [Stream(t)!Next]_(Stream(t)!streamVars)
  BY <1>1, StreamStutters DEF bufferVars, OwnerOf
<1>2. ASSUME NEW u \in Threads, LoggingThread(u)
      PROVE  [Stream(t)!Next]_(Stream(t)!streamVars)
  <2>1. CASE AllocateBufferId(u) \/ ReserveAlloc(u)
    BY <1>1, <2>1 DEF AllocateBufferId, ReserveAlloc
  <2>2. CASE RegisterBuffer(u)
    <3>1. /\ UNCHANGED <<published, queue, should_deallocate>>
          /\ buffer' = [buffer EXCEPT ![u] = "registered"]
          /\ buffer[u] = "none"
      BY <2>2 DEF RegisterBuffer, IndInv, ThreadAndBuffer
    <3>2. OwnerOf(t)' = OwnerOf(t)
      BY <3>1 DEF OwnerOf, IndInv, TypeOK
    <3> QED
      BY <3>1, <3>2, StreamStutters
  <2>3. CASE FinishAlloc(u)
    <3>1. CASE u = t
      BY <2>3, <3>1, FinishAllocPublishes
    <3>2. CASE u # t
      <4>1. queue'[t] = queue[t] /\ published'[t] = published[t]
        BY <2>3, <3>2, FinishAllocAppends DEF FinishAlloc, IndInv, TypeOK
      <4>2. OwnerOf(t)' = OwnerOf(t)
        BY <2>3 DEF FinishAlloc, OwnerOf
      <4> QED
        BY <4>1, <4>2, StreamStutters
    <3> QED
      BY <3>1, <3>2
  <2>4. CASE EndThread(u)
    <3>1. /\ UNCHANGED <<published, queue, buffer>>
          /\ should_deallocate' =
               [should_deallocate EXCEPT ![u] = buffer[u] # "none"]
          /\ ~should_deallocate[u] /\ buffer[u] # "freed"
      BY <2>4 DEF EndThread, FlaggedAtEnd, IndInv, ThreadAndBuffer
    <3>2. CASE u # t \/ buffer[u] = "none"
      <4>1. OwnerOf(t)' = OwnerOf(t)
        BY <3>1, <3>2 DEF OwnerOf, IndInv, TypeOK
      <4> QED
        BY <3>1, <4>1, StreamStutters
    <3>3. CASE u = t /\ buffer[u] # "none"
      <4>1. OwnerOf(t) = "alive" /\ OwnerOf(t)' = "ended"
        BY <3>1, <3>3 DEF OwnerOf, IndInv, TypeOK
      <4>2. Stream(t)!End
        BY <3>1, <4>1 DEF Stream!End, OwnerOf
      <4> QED
        BY <4>2 DEF Stream!Next
    <3> QED
      BY <3>2, <3>3
  <2> QED
    BY <1>2, <2>1, <2>2, <2>3, <2>4 DEF LoggingThread
<1>3. CASE Worker
  <2>1. CASE StartPolling \/ Poll \/ BeginRound \/ VisitBuffer \/ EndRound
             \/ Wake
    BY <1>1, <2>1
    DEF StartPolling, Poll, BeginRound, VisitBuffer, EndRound, Wake, threadVars
  <2>2. CASE DeleteBuffer
    <3>1. PICK u \in Threads : u = thread_buffers[i]
      BY <2>2, Place, Registered DEF DeleteBuffer
    <3>2. /\ UNCHANGED <<published, queue, should_deallocate>>
          /\ buffer' = [buffer EXCEPT ![u] = "freed"]
          /\ buffer[u] = "registered"
          /\ should_deallocate[u] /\ queue[u] = <<>>
      BY <2>2, <3>1, Place, Registered DEF DeleteBuffer, CanDelete, threadVars
    <3>3. CASE u # t
      <4>1. OwnerOf(t)' = OwnerOf(t)
        BY <3>2, <3>3 DEF OwnerOf, IndInv, TypeOK
      <4> QED
        BY <3>2, <4>1, StreamStutters
    <3>4. CASE u = t
      <4>1. OwnerOf(t) = "ended" /\ OwnerOf(t)' = "freed"
        BY <3>2, <3>4 DEF OwnerOf, IndInv, TypeOK
      <4>2. EntriesOf(queue[t]) = <<>>
        BY <3>2, <3>4, EntriesProperties, EmptySeq
      <4>3. Stream(t)!Free
        BY <3>2, <4>1, <4>2 DEF Stream!Free, OwnerOf, EntriesOf
      <4> QED
        BY <4>3 DEF Stream!Next
    <3> QED
      BY <3>3, <3>4
  <2>3. CASE ProcessLogBuffer
    BY <2>3, ProcessLogBufferTakes
  <2> QED
    BY <1>3, <2>1, <2>2, <2>3 DEF Worker
<1>4. CASE Sync \/ SetLogFile \/ Destroy \/ InCall
  BY <1>1, <1>4
  DEF Sync, SetLogFile, Destroy, InCall, JoinWorker, JoinThrows, ReopenFile,
      StartWorker, EndDestroy, threadVars
<1>5. CASE UNCHANGED vars
  BY <1>1, <1>5 DEF vars, threadVars
<1>6. CASE Terminated
  BY <1>5, <1>6 DEF Terminated
<1> QED
  BY <1>2, <1>3, <1>4, <1>5, <1>6 DEF Next

\* Whatever the threads, the worker and the application do together, each
\* buffer behaves as the stream that StagingBuffer implements.
THEOREM BackendKeepsStreams == Spec => BuffersAreStreams
<1>1. Init => \A t \in Threads : Stream(t)!Init
  BY DEF Init, Stream!Init
<1>2. IndInv /\ [Next]_vars =>
        [\A t \in Threads \ LateLoggers :
           [Stream(t)!Next]_(Stream(t)!streamVars)]_vars
  BY StreamStep
<1> QED
  BY <1>1, <1>2, Invariance, PTL DEF Spec, BuffersAreStreams
=============================================================================
