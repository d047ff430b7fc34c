--------------------------- MODULE StagingBuffer ---------------------------
(***************************************************************************)
(* The per-thread circular byte queue of static_log: one logging thread    *)
(* (the producer) reserves contiguous bytes, fills them in and publishes   *)
(* them; the backend worker (the consumer) peeks at published bytes and    *)
(* gives them back.  Neither side takes a lock.  The two sides share       *)
(* producer_pos, end_of_recorded_space, consumer_pos, should_deallocate    *)
(* and the storage; every load or store of one of these is a step of its   *)
(* own, computations on private variables are folded into the step before  *)
(* them.  Positions are offsets into storage_, so storage_ itself is 0.    *)
(*                                                                         *)
(* Steps of one thread take effect in program order: the code has no       *)
(* fences and no atomics, and this is the order of the loads and stores    *)
(* that gcc emits for these functions on x86, the only target (the macro   *)
(* uses rdtsc), which does not reorder stores with stores or loads with    *)
(* loads.                                                                  *)
(***************************************************************************)
EXTENDS Integers, Sequences

CONSTANTS
  kSTAGING_BUFFER_SIZE,  \* bytes of storage_
  Sizes,                 \* the entry sizes nbytes that are ever reserved
  MaxEntries             \* bound on the number of entries reserved

ASSUME SizeAssumption == kSTAGING_BUFFER_SIZE \in Nat \ {0}
ASSUME SizesAssumption == Sizes \subseteq Nat \ {0}
ASSUME MaxEntriesAssumption == MaxEntries \in Nat

VARIABLES
  \* shared
  producer_pos, end_of_recorded_space, consumer_pos, should_deallocate,
  storage,
  \* of the producer: its control state, its argument, its locals
  producer, nbytes, min_free_space, cached_consumer_pos,
  \* of the consumer: its control state and its locals
  consumer, cached_producer_pos, bytes_available,
  \* history: how many entries were published and consumed so far
  published, consumed

producerVars == <<producer, nbytes, min_free_space, cached_consumer_pos>>
consumerVars == <<consumer, cached_producer_pos, bytes_available>>
vars == <<producer_pos, end_of_recorded_space, consumer_pos,
          should_deallocate, storage, producerVars, consumerVars,
          published, consumed>>

Storage == 0 .. kSTAGING_BUFFER_SIZE - 1

\* One byte of storage_: the off-th byte of the entry number id, which is
\* len bytes long.  The entry's own header holds len (entry_size).
Byte == [id : Nat, len : Nat, off : Nat]
Zero == [id |-> 0, len |-> 0, off |-> 0]

Init ==
  /\ producer_pos = 0
  /\ end_of_recorded_space = kSTAGING_BUFFER_SIZE
  /\ consumer_pos = 0
  /\ should_deallocate = FALSE
  /\ storage = [p \in Storage |-> Zero]
  /\ producer = "idle"
  /\ nbytes = 0
  /\ min_free_space = kSTAGING_BUFFER_SIZE
  /\ cached_consumer_pos = 0
  /\ consumer = "idle"
  /\ cached_producer_pos = 0
  /\ bytes_available = 0
  /\ published = 0
  /\ consumed = 0

-----------------------------------------------------------------------------
(* The producer: reserveProducerSpace, reserveSpaceInternal (every caller  *)
(* leaves its parameter blocking at true), finishReservation, and the end  *)
(* of its thread.                                                          *)

\* Fast path of reserveProducerSpace and the exit tests of the slow path.
FitsExactly(n, space) == n <= space              \* mutated: <= for <
Fits(n, space) == n < space

Reserve(n) ==
  /\ producer = "idle"
  /\ published < MaxEntries
  /\ nbytes' = n
  /\ producer' = IF Fits(n, min_free_space) THEN "reserved" ELSE "stalled"
  /\ UNCHANGED <<producer_pos, end_of_recorded_space, consumer_pos,
                 should_deallocate, storage, min_free_space,
                 cached_consumer_pos, consumerVars, published, consumed>>

\* The space in front of producer_pos, seen with the consumer at c.
SpaceIgnoringReader(c) == kSTAGING_BUFFER_SIZE - producer_pos   \* mutated
SpaceAhead(c) ==
  IF c <= producer_pos THEN kSTAGING_BUFFER_SIZE - producer_pos
                       ELSE c - producer_pos

\* One iteration of the loop: a consistent copy of consumer_pos, and what
\* follows from it.  Without enough room before the end of storage_ the
\* loop goes on to mark the end of the recorded space; behind a consumer
\* that still has the upper part to read it tries again.
LoadConsumerPos ==
  /\ producer = "stalled"
  /\ cached_consumer_pos' = consumer_pos
  /\ min_free_space' = SpaceAhead(consumer_pos)
  /\ producer' = IF Fits(nbytes, min_free_space') THEN "reserved"
                 ELSE IF consumer_pos <= producer_pos THEN "mark"
                 ELSE "stalled"
  /\ UNCHANGED <<producer_pos, end_of_recorded_space, consumer_pos,
                 should_deallocate, storage, nbytes, consumerVars,
                 published, consumed>>

\* The roll-over must not make the two positions meet.
AlwaysRollOver(c) == TRUE                         \* mutated: no test
RollOverIfItFits(c) == c > nbytes                 \* mutated: too strict
MayRollOver(c) == c # 0

MarkEndOfRecordedSpace ==
  /\ producer = "mark"
  /\ end_of_recorded_space' = producer_pos
  /\ producer' = IF MayRollOver(cached_consumer_pos) THEN "roll over"
                                                     ELSE "stalled"
  /\ UNCHANGED <<producer_pos, consumer_pos, should_deallocate, storage,
                 nbytes, min_free_space, cached_consumer_pos, consumerVars,
                 published, consumed>>

RollOver ==
  /\ producer = "roll over"
  /\ producer_pos' = 0
  /\ min_free_space' = cached_consumer_pos
  /\ producer' = IF Fits(nbytes, min_free_space') THEN "reserved"
                                                  ELSE "stalled"
  /\ UNCHANGED <<end_of_recorded_space, consumer_pos, should_deallocate,
                 storage, nbytes, cached_consumer_pos, consumerVars,
                 published, consumed>>

\* The body of STATIC_LOG between reserveAlloc and finishAlloc: the header
\* and the arguments fill the reserved bytes.
WriteEntry ==
  /\ producer = "reserved"
  /\ storage' = [p \in Storage |->
                   IF p \in producer_pos .. producer_pos + nbytes - 1
                   THEN [id |-> published, len |-> nbytes,
                         off |-> p - producer_pos]
                   ELSE storage[p]]
  /\ producer' = "written"
  /\ UNCHANGED <<producer_pos, end_of_recorded_space, consumer_pos,
                 should_deallocate, nbytes, min_free_space,
                 cached_consumer_pos, consumerVars, published, consumed>>

\* min_free_space after n bytes were published.
SpaceNotReduced(n) == min_free_space              \* mutated: no update
SpaceLeft(n) == min_free_space - n

FinishReservation ==
  /\ producer = "written"
  /\ min_free_space' = SpaceLeft(nbytes)
  /\ producer_pos' = producer_pos + nbytes
  /\ published' = published + 1
  /\ producer' = "idle"
  /\ UNCHANGED <<end_of_recorded_space, consumer_pos, should_deallocate,
                 storage, nbytes, cached_consumer_pos, consumerVars,
                 consumed>>

\* ~StagingBufferDestroyer at the end of the thread.
EndThread ==
  /\ producer = "idle"
  /\ should_deallocate' = TRUE
  /\ producer' = "ended"
  /\ UNCHANGED <<producer_pos, end_of_recorded_space, consumer_pos, storage,
                 nbytes, min_free_space, cached_consumer_pos, consumerVars,
                 published, consumed>>

-----------------------------------------------------------------------------
(* The consumer: ioPoll asks checkCanDelete and then peeks;                *)
(* processLogBuffer peeks again and consumes the entry it has written out. *)

\* checkCanDelete, first operand.
LoadShouldDeallocate ==
  /\ consumer = "idle"
  /\ consumer' = IF should_deallocate THEN "drained?" ELSE "peek"
  /\ UNCHANGED <<producer_pos, end_of_recorded_space, consumer_pos,
                 should_deallocate, storage, producerVars,
                 cached_producer_pos, bytes_available, published, consumed>>

\* checkCanDelete, second operand: everything published was consumed.
AlwaysDrained == TRUE                             \* mutated: no test
AtEndOfRecord == consumer_pos = end_of_recorded_space  \* mutated: wrong field
Drained == consumer_pos = producer_pos

\* The worker deletes the buffer or goes on to peek.
CompareAndDelete ==
  /\ consumer = "drained?"
  /\ consumer' = IF Drained THEN "deleted" ELSE "peek"
  /\ UNCHANGED <<producer_pos, end_of_recorded_space, consumer_pos,
                 should_deallocate, storage, producerVars,
                 cached_producer_pos, bytes_available, published, consumed>>

\* This buffer held the earliest entry of the round: processLogBuffer peeks
\* again, without asking checkCanDelete.
ProcessLogBuffer ==
  /\ consumer = "peeked"
  /\ consumer' = "peek"
  /\ UNCHANGED <<producer_pos, end_of_recorded_space, consumer_pos,
                 should_deallocate, storage, producerVars,
                 cached_producer_pos, bytes_available, published, consumed>>

\* How peek leaves its caller: with bytes to read or with none.
Peeked(bytes) == IF bytes > 0 THEN "peeked" ELSE "idle"

\* peek: a consistent copy of producer_pos.
LoadProducerPos ==
  /\ consumer = "peek"
  /\ cached_producer_pos' = producer_pos
  /\ IF producer_pos < consumer_pos
       THEN /\ consumer' = "upper part"
            /\ UNCHANGED bytes_available
       ELSE /\ bytes_available' = producer_pos - consumer_pos
            /\ consumer' = Peeked(bytes_available')
  /\ UNCHANGED <<producer_pos, end_of_recorded_space, consumer_pos,
                 should_deallocate, storage, producerVars, published,
                 consumed>>

\* The producer has rolled over: what is left in the upper part is read
\* first.
LoadEndOfRecordedSpace ==
  /\ consumer = "upper part"
  /\ bytes_available' = end_of_recorded_space - consumer_pos
  /\ consumer' = IF bytes_available' > 0 THEN "peeked" ELSE "roll over"
  /\ UNCHANGED <<producer_pos, end_of_recorded_space, consumer_pos,
                 should_deallocate, storage, producerVars,
                 cached_producer_pos, published, consumed>>

\* Where a reader that has emptied the upper part goes on.
RollOverToProducer == cached_producer_pos         \* mutated: wrong position
RollOverTo == 0

ConsumerRollOver ==
  /\ consumer = "roll over"
  /\ consumer_pos' = RollOverTo
  /\ bytes_available' = cached_producer_pos - consumer_pos'
  /\ consumer' = Peeked(bytes_available')
  /\ UNCHANGED <<producer_pos, end_of_recorded_space, should_deallocate,
                 storage, producerVars, cached_producer_pos, published,
                 consumed>>

\* ioPoll has only looked at the entry's timestamp, or processLogBuffer
\* could not format it: the entry stays.
Leave ==
  /\ consumer = "peeked"
  /\ consumer' = "idle"
  /\ UNCHANGED <<producer_pos, end_of_recorded_space, consumer_pos,
                 should_deallocate, storage, producerVars,
                 cached_producer_pos, bytes_available, published, consumed>>

\* consume(log_entry->entry_size), the size read from the header in storage.
AllBytes == bytes_available                       \* mutated: the whole peek
EntrySize == storage[consumer_pos].len

Consume ==
  /\ consumer = "peeked"
  /\ consumer_pos' = consumer_pos + EntrySize
  /\ consumed' = consumed + 1
  /\ consumer' = "idle"
  /\ UNCHANGED <<producer_pos, end_of_recorded_space, should_deallocate,
                 storage, producerVars, cached_producer_pos, bytes_available,
                 published>>

-----------------------------------------------------------------------------
Produce ==
  \/ LoadConsumerPos \/ MarkEndOfRecordedSpace \/ RollOver
  \/ WriteEntry \/ FinishReservation

Poll ==
  \/ LoadShouldDeallocate \/ CompareAndDelete \/ ProcessLogBuffer
  \/ LoadProducerPos \/ LoadEndOfRecordedSpace \/ ConsumerRollOver
  \/ Leave \/ Consume

\* The buffer is gone: nobody uses it any more.
Terminated == consumer = "deleted" /\ UNCHANGED vars

Next ==
  \/ \E n \in Sizes : Reserve(n)
  \/ Produce
  \/ EndThread
  \/ Poll
  \/ Terminated

Spec == Init /\ [][Next]_vars

(***************************************************************************)
(* A thread that has started to log goes on: STATIC_LOG has no way out     *)
(* before finishAlloc.  Whether it logs again or ends is the caller's      *)
(* choice.  The worker polls in an endless loop, and an entry it finds     *)
(* again and again is the earliest one of some round and is consumed.      *)
(***************************************************************************)
Fairness ==
  /\ WF_vars(Produce)
  /\ WF_vars(Poll)
  /\ SF_vars(Consume)

FairSpec == Spec /\ Fairness

-----------------------------------------------------------------------------
(* Properties. *)

ProducerStates ==
  {"idle", "stalled", "mark", "roll over", "reserved", "written", "ended"}
ConsumerStates ==
  {"idle", "drained?", "peek", "upper part", "roll over", "peeked", "deleted"}

\* Every position is an offset into storage_ and the producer's estimate of
\* its free space never reaches 0 between the steps of its code.
TypeOK ==
  /\ producer_pos \in Storage
  /\ end_of_recorded_space \in 0 .. kSTAGING_BUFFER_SIZE
  /\ consumer_pos \in Storage
  /\ should_deallocate \in BOOLEAN
  /\ storage \in [Storage -> Byte]
  /\ producer \in ProducerStates
  /\ nbytes \in Nat
  /\ min_free_space \in 1 .. kSTAGING_BUFFER_SIZE
  /\ cached_consumer_pos \in Storage
  /\ consumer \in ConsumerStates
  /\ cached_producer_pos \in Storage
  /\ bytes_available \in 0 .. kSTAGING_BUFFER_SIZE
  /\ published \in Nat
  /\ consumed \in Nat

Wrapped == producer_pos < consumer_pos
Holding == producer \in {"reserved", "written"}

\* The offsets that hold published bytes not consumed yet.
Unread ==
  IF Wrapped
  THEN (consumer_pos .. end_of_recorded_space - 1) \cup (0 .. producer_pos - 1)
  ELSE consumer_pos .. producer_pos - 1

\* What reserveProducerSpace hands out is nbytes of contiguous space inside
\* storage_ (the assertions of finishReservation hold), and it keeps clear of
\* every byte the worker has still to read.
ReservationIsFree ==
  Holding =>
    /\ nbytes < min_free_space
    /\ producer_pos + nbytes < kSTAGING_BUFFER_SIZE
    /\ (producer_pos .. producer_pos + nbytes - 1) \cap Unread = {}

\* "== means completely empty": the strict comparisons of the slow path keep
\* a full buffer from looking like an empty one.
EqualMeansEmpty == consumer_pos = producer_pos => published = consumed

\* min_free_space is a lower bound on what fits before the end of storage_
\* or before the reader, whatever the reader did since it was computed.
MinFreeIsLowerBound ==
  producer_pos + min_free_space <=
    IF Wrapped THEN consumer_pos ELSE kSTAGING_BUFFER_SIZE

\* What peek shows starts with one complete entry, the next one in the order
\* of publication, exactly as its thread wrote it, and stays so until the
\* worker consumes it.
PeekedEntryIsWhole ==
  consumer = "peeked" =>
    \E n \in 1 .. bytes_available :
      \A k \in 0 .. n - 1 :
        storage[consumer_pos + k] = [id |-> consumed, len |-> n, off |-> k]

\* The worker deletes a buffer only when its thread has ended and all that
\* the thread ever published was consumed.
DeletedOnlyWhenDrained ==
  consumer = "deleted" => producer = "ended" /\ published = consumed

\* The reader loads end_of_recorded_space some time after producer_pos and
\* without a lock: the mark stands from the roll-over of the producer to
\* that of the reader.
EndMarkIsStable == [][Wrapped /\ Wrapped' => UNCHANGED end_of_recorded_space]_vars

\* A reservation that can be granted at all is granted at last, however the
\* positions lie: the two sides never wait for each other.
ReservationIsGranted ==
  (producer = "stalled" /\ nbytes < kSTAGING_BUFFER_SIZE) ~> Holding

\* What was published is consumed at last.
PublishedIsConsumed ==
  \A id \in 0 .. MaxEntries - 1 : published > id ~> consumed > id

\* The buffer of a thread that has ended is deleted at last.
EndedIsDeleted == should_deallocate ~> consumer = "deleted"

-----------------------------------------------------------------------------
(* Implementation of the abstract stream. *)

\* The entries are read off the storage: the length of one is in its header,
\* the first of its bytes.
UnreadBytes == {storage[p] : p \in Unread}

LenOf(id) ==
  CHOOSE n \in 1 .. kSTAGING_BUFFER_SIZE :
    [id |-> id, len |-> n, off |-> 0] \in UnreadBytes

\* The number of bytes not consumed yet, from the positions.
UnreadCount ==
  IF Wrapped THEN (end_of_recorded_space - consumer_pos) + producer_pos
             ELSE producer_pos - consumer_pos

UnreadEntries ==
  [k \in 1 .. published - consumed |->
     [id |-> consumed + (k - 1), len |-> LenOf(consumed + (k - 1))]]

Owner ==
  IF consumer = "deleted" THEN "freed"
  ELSE IF should_deallocate THEN "ended" ELSE "alive"

Stream == INSTANCE LogStream WITH
  Capacity <- kSTAGING_BUFFER_SIZE,
  queue <- UnreadEntries,
  held <- UnreadCount,
  sent <- published,
  owner <- Owner

\* Every step of the buffer is a step of a first-in first-out stream of
\* whole entries that stays below its capacity, or changes nothing there.
ImplementsStream == Stream!Spec
=============================================================================
