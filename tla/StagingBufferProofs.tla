------------------------ MODULE StagingBufferProofs ------------------------
(***************************************************************************)
(* Proofs about StagingBuffer for every capacity, every set of entry sizes *)
(* and every bound on the number of entries.                               *)
(*                                                                         *)
(* The safety properties are not inductive: they say where the unread      *)
(* bytes lie, not that these bytes are whole entries, and so not where     *)
(* consume() will step to.  The inductive invariant adds that the storage  *)
(* is tiled by entries (Tiled), in one stretch or in two when the producer *)
(* has rolled over, and what each side knows of the other side's position  *)
(* in the middle of reserveSpaceInternal and of peek.                      *)
(***************************************************************************)
EXTENDS StagingBuffer, TLAPS

\* The n bytes from offset s on are the entry number id.
EntryAt(st, s, id, n) ==
  \A k \in 0 .. n - 1 : st[s + k] = [id |-> id, len |-> n, off |-> k]

\* The bytes lo .. hi - 1 are the entries a .. b - 1 one after the other;
\* first[i] is where entry i starts.
Tiling(st, lo, hi, a, b, first) ==
  /\ first[a] = lo
  /\ first[b] = hi
  /\ \A i, j \in a .. b : i < j => first[i] < first[j]
  /\ \A i \in a .. b - 1 :
       EntryAt(st, first[i], i, first[i + 1] - first[i])

Tiled(st, lo, hi, a, b) ==
  /\ a <= b
  /\ lo <= hi
  /\ \E first \in [a .. b -> lo .. hi] : Tiling(st, lo, hi, a, b, first)

\* The free space estimated covers the reservation, which is not empty.
ReservationFits ==
  /\ Holding => nbytes < min_free_space
  /\ producer \notin {"idle", "ended"} => nbytes >= 1

\* From the load of consumer_pos to the roll-over the consumer can only move
\* away from the start of the storage.
BeforeRollOver ==
  /\ producer \in {"mark", "roll over"} =>
       ~Wrapped /\ cached_consumer_pos <= consumer_pos
  /\ producer = "roll over" =>
       cached_consumer_pos # 0 /\ end_of_recorded_space = producer_pos

\* The entry about to be published is in the storage.
EntryIsWritten ==
  producer = "written" => EntryAt(storage, producer_pos, published, nbytes)

EndedIsFlagged == should_deallocate = (producer = "ended")

\* What peek knows after it has found the producer rolled over.
UpperPart == consumer \in {"upper part", "roll over"}

BeforeConsumerRollOver ==
  /\ UpperPart => Wrapped /\ cached_producer_pos <= producer_pos
  /\ consumer = "roll over" => consumer_pos = end_of_recorded_space

DeletionIsSafe ==
  /\ consumer = "drained?" => should_deallocate
  /\ DeletedOnlyWhenDrained

\* The bytes shown by peek are whole entries and all of them are recorded.
PeekIsTiled ==
  consumer = "peeked" =>
    /\ consumer_pos + bytes_available <=
         IF Wrapped THEN end_of_recorded_space ELSE producer_pos
    /\ \E j \in consumed + 1 .. published :
         Tiled(storage, consumer_pos, consumer_pos + bytes_available,
               consumed, j)

\* The unread bytes are whole entries.  split is the first entry of the lower
\* part; a peek that has found the producer rolled over stopped at an entry
\* of it.
SplitAt(split) ==
  /\ Tiled(storage, consumer_pos, end_of_recorded_space, consumed, split)
  /\ Tiled(storage, 0, producer_pos, split, published)
  /\ UpperPart => \E j \in split .. published :
                    Tiled(storage, 0, cached_producer_pos, split, j)

UnreadIsTiled ==
  IF Wrapped
  THEN /\ end_of_recorded_space < kSTAGING_BUFFER_SIZE
       /\ \E split \in consumed .. published : SplitAt(split)
  ELSE Tiled(storage, consumer_pos, producer_pos, consumed, published)

\* The inductive invariant.
IndInv ==
  /\ TypeOK
  /\ MinFreeIsLowerBound
  /\ ReservationFits
  /\ BeforeRollOver
  /\ EntryIsWritten
  /\ EndedIsFlagged
  /\ BeforeConsumerRollOver
  /\ DeletionIsSafe
  /\ PeekIsTiled
  /\ UnreadIsTiled

-----------------------------------------------------------------------------
(* Lemmas on tilings. *)

\* An empty stretch holds no entry.
LEMMA TiledEmpty ==
  ASSUME NEW st, NEW lo \in Nat, NEW a \in Nat
  PROVE  Tiled(st, lo, lo, a, a)
<1> DEFINE first == [i \in a .. a |-> lo]
<1>1. first \in [a .. a -> lo .. lo]
  OBVIOUS
<1>2. Tiling(st, lo, lo, a, a, first)
  BY DEF Tiling
<1> QED
  BY <1>1, <1>2 DEF Tiled

\* A stretch is empty exactly when it holds no entry.
LEMMA TiledEmptyIff ==
  ASSUME NEW st, NEW lo \in Nat, NEW hi \in Nat, NEW a \in Nat, NEW b \in Nat,
         Tiled(st, lo, hi, a, b)
  PROVE  lo = hi <=> a = b
<1>1. PICK first \in [a .. b -> lo .. hi] : Tiling(st, lo, hi, a, b, first)
  BY DEF Tiled
<1>2. a <= b
  BY DEF Tiled
<1>3. CASE a = b
  BY <1>1, <1>3 DEF Tiling
<1>4. CASE a < b
  BY <1>1, <1>4 DEF Tiling
<1> QED
  BY <1>2, <1>3, <1>4

\* What finishReservation publishes lengthens the stretch by one entry.
LEMMA TiledAppend ==
  ASSUME NEW st, NEW lo \in Nat, NEW hi \in Nat, NEW a \in Nat, NEW b \in Nat,
         NEW n \in Nat \ {0},
         Tiled(st, lo, hi, a, b), EntryAt(st, hi, b, n)
  PROVE  Tiled(st, lo, hi + n, a, b + 1)
<1>1. PICK first \in [a .. b -> lo .. hi] : Tiling(st, lo, hi, a, b, first)
  BY DEF Tiled
<1>2. a <= b /\ lo <= hi
  BY DEF Tiled
<1> DEFINE next == [i \in a .. b + 1 |-> IF i <= b THEN first[i] ELSE hi + n]
<1>3. next \in [a .. b + 1 -> lo .. hi + n]
  <2> SUFFICES ASSUME NEW i \in a .. b + 1
               PROVE  (IF i <= b THEN first[i] ELSE hi + n) \in lo .. hi + n
    OBVIOUS
  <2>1. CASE i <= b
    <3>1. first[i] \in lo .. hi
      BY <2>1, <1>1
    <3> QED
      BY <2>1, <3>1
  <2>2. CASE ~(i <= b)
    BY <2>2, <1>2
  <2> QED
    BY <2>1, <2>2
<1>4. \A i \in a .. b : next[i] = first[i]
  OBVIOUS
<1>5. next[b + 1] = hi + n
  BY <1>2
<1>6. Tiling(st, lo, hi + n, a, b + 1, next)
  <2>1. next[a] = lo
    BY <1>1, <1>2, <1>4 DEF Tiling
  <2>2. ASSUME NEW i \in a .. b + 1, NEW j \in a .. b + 1, i < j
        PROVE  next[i] < next[j]
    <3>1. i \in a .. b /\ next[i] = first[i] /\ first[i] \in lo .. hi
      BY <2>2, <1>1, <1>4
    <3>2. CASE j = b + 1
      BY <3>1, <3>2, <1>2, <1>5
    <3>3. CASE j # b + 1
      <4>1. j \in a .. b /\ next[j] = first[j]
        BY <3>3, <1>4
      <4> QED
        BY <2>2, <3>1, <4>1, <1>1 DEF Tiling
    <3> QED
      BY <3>2, <3>3
  <2>3. ASSUME NEW i \in a .. (b + 1) - 1
        PROVE  EntryAt(st, next[i], i, next[i + 1] - next[i])
    <3>1. CASE i = b
      <4>1. next[i] = hi /\ next[i + 1] = hi + n
        BY <1>1, <1>2, <1>4, <1>5, <3>1 DEF Tiling
      <4>2. next[i + 1] - next[i] = n
        BY <4>1
      <4> QED
        BY <4>1, <4>2, <3>1
    <3>2. CASE i # b
      <4>1. i \in a .. b - 1 /\ i \in a .. b /\ i + 1 \in a .. b
        BY <3>2
      <4>2. next[i] = first[i] /\ next[i + 1] = first[i + 1]
        BY <4>1, <1>4
      <4>3. EntryAt(st, first[i], i, first[i + 1] - first[i])
        BY <4>1, <1>1 DEF Tiling
      <4> QED
        BY <4>2, <4>3
    <3> QED
      BY <3>1, <3>2
  <2> HIDE DEF next
  <2> QED
    BY <2>1, <2>2, <2>3, <1>5 DEF Tiling
<1>7. a <= b + 1 /\ lo <= hi + n
  BY <1>2
<1> HIDE DEF next
<1> QED
  BY <1>3, <1>6, <1>7 DEF Tiled

\* What consume() gives back is exactly the first entry of the stretch, and
\* the rest is tiled by the other entries.
LEMMA TiledHead ==
  ASSUME NEW st, NEW lo \in Nat, NEW hi \in Nat, NEW a \in Nat, NEW b \in Nat,
         Tiled(st, lo, hi, a, b), a < b
  PROVE  /\ st[lo].len \in 1 .. hi - lo
         /\ EntryAt(st, lo, a, st[lo].len)
         /\ Tiled(st, lo + st[lo].len, hi, a + 1, b)
<1>1. PICK first \in [a .. b -> lo .. hi] : Tiling(st, lo, hi, a, b, first)
  BY DEF Tiled
<1> DEFINE n == first[a + 1] - lo
           rest == [i \in a + 1 .. b |-> first[i]]
<1>2. a \in a .. b - 1 /\ a \in a .. b /\ a + 1 \in a .. b
  OBVIOUS
<1>3. first[a] = lo /\ first[a + 1] \in lo .. hi
  BY <1>1, <1>2 DEF Tiling
<1>4. lo < first[a + 1] /\ EntryAt(st, lo, a, n)
  BY <1>1, <1>2, <1>3 DEF Tiling
<1>5. n \in 1 .. hi - lo /\ lo + n = first[a + 1]
  BY <1>3, <1>4
<1>6. st[lo].len = n
  <2>1. 0 \in 0 .. n - 1
    BY <1>5
  <2>2. st[lo + 0] = [id |-> a, len |-> n, off |-> 0]
    BY <1>4, <2>1 DEF EntryAt
  <2> QED
    BY <2>2
<1>7. Tiled(st, lo + n, hi, a + 1, b)
  <2>1. \A i \in a + 1 .. b : i \in a .. b /\ first[i] \in lo + n .. hi
    <3> SUFFICES ASSUME NEW i \in a + 1 .. b
                 PROVE  i \in a .. b /\ first[i] \in lo + n .. hi
      OBVIOUS
    <3>1. i \in a .. b /\ first[i] \in lo .. hi
      BY <1>1
    <3>2. CASE i = a + 1
      BY <3>1, <3>2, <1>5
    <3>3. CASE a + 1 < i
      BY <3>1, <3>3, <1>1, <1>2, <1>3, <1>5 DEF Tiling
    <3> QED
      BY <3>1, <3>2, <3>3
  <2>2. rest \in [a + 1 .. b -> lo + n .. hi]
    BY <2>1
  <2>3. \A i \in a + 1 .. b : rest[i] = first[i]
    OBVIOUS
  <2>4. a + 1 \in a + 1 .. b /\ b \in a + 1 .. b
    OBVIOUS
  <2>5. \A i \in a + 1 .. b - 1 :
          i \in a .. b - 1 /\ i \in a + 1 .. b /\ i + 1 \in a + 1 .. b
    OBVIOUS
  <2> HIDE DEF rest
  <2>6. \A i, j \in a + 1 .. b : i < j => rest[i] < rest[j]
    BY <1>1, <2>1, <2>3 DEF Tiling
  <2>7. ASSUME NEW i \in a + 1 .. b - 1
        PROVE  EntryAt(st, rest[i], i, rest[i + 1] - rest[i])
    <3>1. rest[i] = first[i] /\ rest[i + 1] = first[i + 1] /\ i \in a .. b - 1
      BY <2>3, <2>5
    <3> QED
      BY <3>1, <1>1 DEF Tiling
  <2>8. rest[a + 1] = lo + n /\ rest[b] = hi
    BY <1>1, <1>5, <2>3, <2>4 DEF Tiling
  <2>9. Tiling(st, lo + n, hi, a + 1, b, rest)
    BY <2>6, <2>7, <2>8 DEF Tiling
  <2>10. a + 1 <= b /\ lo + n <= hi
    BY <1>3, <1>5
  <2> QED
    BY <2>2, <2>9, <2>10 DEF Tiled
<1> HIDE DEF n
<1> QED
  BY <1>4, <1>5, <1>6, <1>7

\* Writing elsewhere does not touch the entries of the stretch.
LEMMA TiledFrame ==
  ASSUME NEW st, NEW st2,
         NEW lo \in Nat, NEW hi \in Nat, NEW a \in Nat, NEW b \in Nat,
         Tiled(st, lo, hi, a, b), \A p \in lo .. hi - 1 : st2[p] = st[p]
  PROVE  Tiled(st2, lo, hi, a, b)
<1>1. PICK first \in [a .. b -> lo .. hi] : Tiling(st, lo, hi, a, b, first)
  BY DEF Tiled
<1>2. ASSUME NEW i \in a .. b - 1
      PROVE  EntryAt(st2, first[i], i, first[i + 1] - first[i])
  <2>1. i \in a .. b /\ i + 1 \in a .. b
    OBVIOUS
  <2>2. first[i] \in lo .. hi /\ first[i + 1] \in lo .. hi
    BY <1>1, <2>1
  <2>3. \A k \in 0 .. first[i + 1] - first[i] - 1 :
          first[i] + k \in lo .. hi - 1
    BY <2>2
  <2>4. EntryAt(st, first[i], i, first[i + 1] - first[i])
    BY <1>1 DEF Tiling
  <2> QED
    BY <2>3, <2>4 DEF EntryAt
<1>3. Tiling(st2, lo, hi, a, b, first)
  BY <1>1, <1>2 DEF Tiling
<1> QED
  BY <1>1, <1>3 DEF Tiled

\* The type invariant as the arithmetic of the proofs below needs it.
LEMMA Positions ==
  ASSUME TypeOK
  PROVE  /\ kSTAGING_BUFFER_SIZE \in Nat
         /\ producer_pos \in Nat /\ producer_pos < kSTAGING_BUFFER_SIZE
         /\ consumer_pos \in Nat /\ consumer_pos < kSTAGING_BUFFER_SIZE
         /\ cached_consumer_pos \in Nat
         /\ cached_consumer_pos < kSTAGING_BUFFER_SIZE
         /\ cached_producer_pos \in Nat
         /\ cached_producer_pos < kSTAGING_BUFFER_SIZE
         /\ end_of_recorded_space \in Nat
         /\ end_of_recorded_space <= kSTAGING_BUFFER_SIZE
         /\ min_free_space \in Nat /\ min_free_space >= 1
         /\ bytes_available \in Nat
BY SizeAssumption DEF TypeOK, Storage

\* Where the stretch that the consumer reads first ends.
Stretch == IF Wrapped THEN end_of_recorded_space ELSE producer_pos

\* The next entry, when peek shows one, is whole; consume() goes to the
\* start of the entry behind it or to the end of the stretch.
LEMMA NextEntry ==
  ASSUME IndInv, consumer = "peeked"
  PROVE  /\ consumed < published
         /\ EntrySize \in 1 .. bytes_available
         /\ EntryAt(storage, consumer_pos, consumed, EntrySize)
         /\ consumer_pos + EntrySize <= Stretch
<1> USE DEF IndInv
<1>1. consumed \in Nat /\ published \in Nat
  BY DEF TypeOK
<1>2. PICK j \in consumed + 1 .. published :
        Tiled(storage, consumer_pos, consumer_pos + bytes_available,
              consumed, j)
  BY DEF PeekIsTiled
<1>3. j \in Nat /\ consumed < j /\ j <= published
  BY <1>1
<1>4. consumer_pos + bytes_available \in Nat /\ consumer_pos \in Nat
  BY Positions
<1>5. /\ storage[consumer_pos].len
             \in 1 .. (consumer_pos + bytes_available) - consumer_pos
      /\ EntryAt(storage, consumer_pos, consumed, storage[consumer_pos].len)
  BY <1>1, <1>2, <1>3, <1>4, TiledHead
<1>6. /\ EntrySize \in 1 .. bytes_available
      /\ EntryAt(storage, consumer_pos, consumed, EntrySize)
  BY <1>5, Positions DEF EntrySize
<1>7. consumer_pos + bytes_available <= Stretch
  BY DEF PeekIsTiled, Stretch
<1>8. Stretch \in Nat
  BY Positions DEF Stretch
<1>9. consumer_pos + EntrySize <= Stretch
  BY <1>6, <1>7, <1>8, Positions
<1> QED
  BY <1>1, <1>3, <1>6, <1>9

\* The unread entries in two stretches, with the split named.
LEMMA WrappedTiles ==
  ASSUME IndInv, Wrapped
  PROVE  /\ end_of_recorded_space < kSTAGING_BUFFER_SIZE
         /\ \E split \in Nat :
              split \in consumed .. published /\ SplitAt(split)
BY DEF IndInv, UnreadIsTiled, TypeOK
-----------------------------------------------------------------------------
(* The steps of the producer. *)

LEMMA ReserveInv ==
  ASSUME IndInv, NEW n \in Sizes, Reserve(n)
  PROVE  IndInv'
<1> USE DEF IndInv
<1>1. n \in Nat /\ n >= 1
  BY SizesAssumption
<1>2. TypeOK'
  BY <1>1 DEF Reserve, TypeOK, ProducerStates, consumerVars
<1>3. ReservationFits'
  <2>1. /\ nbytes' = n /\ min_free_space' = min_free_space
        /\ producer' = IF n < min_free_space THEN "reserved" ELSE "stalled"
    BY DEF Reserve, Fits
  <2> QED
    BY <1>1, <2>1 DEF ReservationFits, Holding
<1>4. EntryIsWritten' /\ EndedIsFlagged' /\ BeforeRollOver'
  BY DEF Reserve, EntryIsWritten, EndedIsFlagged, BeforeRollOver
<1>5. DeletionIsSafe'
  BY DEF Reserve, DeletionIsSafe, DeletedOnlyWhenDrained, EndedIsFlagged, consumerVars
<1>6. MinFreeIsLowerBound' /\ BeforeConsumerRollOver' /\ PeekIsTiled'
      /\ UnreadIsTiled'
  BY DEF Reserve, MinFreeIsLowerBound, BeforeConsumerRollOver, PeekIsTiled,
         UnreadIsTiled, SplitAt, Wrapped, UpperPart, consumerVars
<1> QED
  BY <1>2, <1>3, <1>4, <1>5, <1>6

LEMMA LoadConsumerPosInv ==
  ASSUME IndInv, LoadConsumerPos
  PROVE  IndInv'
<1> USE DEF IndInv
<1> USE Positions
<1>1. /\ producer = "stalled"
      /\ nbytes' = nbytes /\ nbytes >= 1
      /\ producer_pos' = producer_pos /\ consumer_pos' = consumer_pos
      /\ cached_consumer_pos' = consumer_pos
      /\ end_of_recorded_space' = end_of_recorded_space
      /\ storage' = storage
      /\ min_free_space' = IF consumer_pos <= producer_pos
                           THEN kSTAGING_BUFFER_SIZE - producer_pos
                           ELSE consumer_pos - producer_pos
      /\ producer' = IF nbytes < min_free_space' THEN "reserved"
                     ELSE IF consumer_pos <= producer_pos THEN "mark"
                     ELSE "stalled"
  BY DEF LoadConsumerPos, SpaceAhead, Fits, ReservationFits
<1>2. min_free_space' \in 1 .. kSTAGING_BUFFER_SIZE
  BY <1>1
<1>3. TypeOK'
  BY <1>1, <1>2 DEF LoadConsumerPos, TypeOK, ProducerStates, consumerVars
<1>4. MinFreeIsLowerBound'
  BY <1>1 DEF MinFreeIsLowerBound, Wrapped
<1>5. ReservationFits'
  BY <1>1 DEF ReservationFits, Holding
<1>6. BeforeRollOver'
  BY <1>1 DEF BeforeRollOver, Wrapped
<1>7. EntryIsWritten' /\ EndedIsFlagged' /\ DeletionIsSafe'
  BY <1>1 DEF LoadConsumerPos, EntryIsWritten, EndedIsFlagged, DeletionIsSafe,
              DeletedOnlyWhenDrained, consumerVars
<1>8. BeforeConsumerRollOver' /\ PeekIsTiled' /\ UnreadIsTiled'
  BY DEF LoadConsumerPos, BeforeConsumerRollOver, PeekIsTiled,
         UnreadIsTiled, SplitAt, Wrapped, UpperPart, consumerVars
<1> QED
  BY <1>3, <1>4, <1>5, <1>6, <1>7, <1>8

LEMMA MarkEndOfRecordedSpaceInv ==
  ASSUME IndInv, MarkEndOfRecordedSpace
  PROVE  IndInv'
<1> USE DEF IndInv
<1>1. ~Wrapped /\ cached_consumer_pos <= consumer_pos /\ nbytes >= 1
  BY DEF MarkEndOfRecordedSpace, BeforeRollOver, ReservationFits
<1>2. TypeOK'
  <2>1. end_of_recorded_space' = producer_pos
    BY DEF MarkEndOfRecordedSpace
  <2>2. end_of_recorded_space' \in 0 .. kSTAGING_BUFFER_SIZE
    BY <2>1, Positions
  <2> QED
    BY <2>2 DEF MarkEndOfRecordedSpace, TypeOK, ProducerStates, consumerVars
<1>3. MinFreeIsLowerBound' /\ ReservationFits' /\ EntryIsWritten'
      /\ EndedIsFlagged'
  BY <1>1 DEF MarkEndOfRecordedSpace, MinFreeIsLowerBound, Wrapped, Holding,
              ReservationFits, EntryIsWritten, EndedIsFlagged
<1>4. BeforeRollOver'
  BY <1>1 DEF MarkEndOfRecordedSpace, BeforeRollOver, Wrapped, MayRollOver
<1>5. BeforeConsumerRollOver'
  BY <1>1 DEF MarkEndOfRecordedSpace, BeforeConsumerRollOver, UpperPart,
              Wrapped, consumerVars
<1>6. DeletionIsSafe'
  BY DEF MarkEndOfRecordedSpace, DeletionIsSafe, DeletedOnlyWhenDrained,
         consumerVars
<1>7. PeekIsTiled'
  BY <1>1 DEF MarkEndOfRecordedSpace, PeekIsTiled, Wrapped, consumerVars
<1>8. UnreadIsTiled'
  BY <1>1 DEF MarkEndOfRecordedSpace, UnreadIsTiled, Wrapped, consumerVars
<1> QED
  BY <1>2, <1>3, <1>4, <1>5, <1>6, <1>7, <1>8

LEMMA RollOverInv ==
  ASSUME IndInv, RollOver
  PROVE  IndInv'
<1> USE DEF IndInv
<1>1. /\ ~Wrapped /\ nbytes >= 1
      /\ cached_consumer_pos <= consumer_pos /\ cached_consumer_pos # 0
      /\ end_of_recorded_space = producer_pos
  BY DEF RollOver, BeforeRollOver, ReservationFits
<1>2. /\ producer_pos' = 0 /\ min_free_space' = cached_consumer_pos
      /\ nbytes' = nbytes
      /\ producer' = IF nbytes < cached_consumer_pos THEN "reserved"
                     ELSE "stalled"
      /\ consumer_pos' = consumer_pos /\ storage' = storage
      /\ end_of_recorded_space' = end_of_recorded_space
      /\ consumer' = consumer /\ bytes_available' = bytes_available
      /\ published' = published /\ consumed' = consumed
  BY DEF RollOver, Fits, consumerVars
<1>3. Wrapped' /\ consumer_pos <= producer_pos
  BY <1>1, <1>2, Positions DEF Wrapped
<1>4. TypeOK'
  <2>1. 0 \in Storage /\ cached_consumer_pos \in 1 .. kSTAGING_BUFFER_SIZE
    BY <1>1, Positions, SizeAssumption DEF Storage
  <2> QED
    BY <2>1, <1>2 DEF RollOver, TypeOK, ProducerStates, consumerVars
<1>5. MinFreeIsLowerBound'
  BY <1>1, <1>2, <1>3, Positions DEF MinFreeIsLowerBound
<1>6. ReservationFits'
  BY <1>1, <1>2 DEF ReservationFits, Holding
<1>7. BeforeRollOver' /\ EntryIsWritten' /\ EndedIsFlagged' /\ DeletionIsSafe'
  BY <1>2 DEF RollOver, BeforeRollOver, EntryIsWritten, EndedIsFlagged,
              DeletionIsSafe, DeletedOnlyWhenDrained, consumerVars
<1>8. ~UpperPart /\ ~UpperPart'
  BY <1>1, <1>2 DEF BeforeConsumerRollOver, UpperPart
<1>9. BeforeConsumerRollOver'
  BY <1>8 DEF BeforeConsumerRollOver, UpperPart
<1>10. PeekIsTiled'
  BY <1>1, <1>2, <1>3 DEF PeekIsTiled
<1>11. UnreadIsTiled'
  <2>1. Tiled(storage, consumer_pos, producer_pos, consumed, published)
    BY <1>1 DEF UnreadIsTiled
  <2>2. Tiled(storage, 0, 0, published, published)
    BY TiledEmpty DEF TypeOK
  <2>3. SplitAt(published)'
    BY <2>1, <2>2, <1>1, <1>2, <1>8 DEF SplitAt
  <2>4. published' \in consumed' .. published'
    BY <2>1, <1>2 DEF Tiled, TypeOK
  <2>5. (end_of_recorded_space < kSTAGING_BUFFER_SIZE)'
    BY <1>1, <1>2, Positions
  <2> QED
    BY <2>3, <2>4, <2>5, <1>2, <1>3 DEF UnreadIsTiled
<1> QED
  BY <1>4, <1>5, <1>6, <1>7, <1>9, <1>10, <1>11

\* The reservation lies behind the lower part or behind the only part, and
\* before the upper part.
LEMMA ReservationIsClear ==
  ASSUME IndInv, Holding
  PROVE  /\ nbytes \in Nat /\ nbytes >= 1 /\ nbytes < min_free_space
         /\ producer_pos + nbytes < kSTAGING_BUFFER_SIZE
         /\ Wrapped => producer_pos + nbytes < consumer_pos
<1> USE DEF IndInv
<1>1. nbytes \in Nat /\ nbytes >= 1 /\ nbytes < min_free_space
  BY DEF ReservationFits, Holding, TypeOK
<1>2. producer_pos + min_free_space <=
        IF Wrapped THEN consumer_pos ELSE kSTAGING_BUFFER_SIZE
  BY DEF MinFreeIsLowerBound
<1> QED
  BY <1>1, <1>2, Positions

LEMMA WriteEntryInv ==
  ASSUME IndInv, WriteEntry
  PROVE  IndInv'
<1> USE DEF IndInv
<1> DEFINE entry == [p \in Storage |->
                       IF p \in producer_pos .. producer_pos + nbytes - 1
                       THEN [id |-> published, len |-> nbytes,
                             off |-> p - producer_pos]
                       ELSE storage[p]]
<1>1. /\ producer = "reserved" /\ producer' = "written"
      /\ storage' = entry
      /\ producer_pos' = producer_pos /\ consumer_pos' = consumer_pos
      /\ end_of_recorded_space' = end_of_recorded_space
      /\ nbytes' = nbytes /\ min_free_space' = min_free_space
      /\ cached_consumer_pos' = cached_consumer_pos
      /\ should_deallocate' = should_deallocate
      /\ consumer' = consumer /\ cached_producer_pos' = cached_producer_pos
      /\ bytes_available' = bytes_available
      /\ published' = published /\ consumed' = consumed
  BY DEF WriteEntry, consumerVars
<1>2. /\ nbytes \in Nat /\ nbytes >= 1 /\ nbytes < min_free_space
      /\ producer_pos + nbytes < kSTAGING_BUFFER_SIZE
      /\ Wrapped => producer_pos + nbytes < consumer_pos
  BY <1>1, ReservationIsClear DEF Holding
<1>3. \A p \in Storage : p < producer_pos \/ p >= producer_pos + nbytes =>
        storage'[p] = storage[p]
  BY <1>1, <1>2, Positions DEF Storage
<1>4. \A k \in 0 .. nbytes - 1 :
        storage'[producer_pos + k] =
          [id |-> published, len |-> nbytes, off |-> k]
  <2> SUFFICES ASSUME NEW k \in 0 .. nbytes - 1
               PROVE  storage'[producer_pos + k] =
                        [id |-> published, len |-> nbytes, off |-> k]
    OBVIOUS
  <2>1. /\ producer_pos + k \in Storage
        /\ producer_pos + k \in producer_pos .. producer_pos + nbytes - 1
        /\ (producer_pos + k) - producer_pos = k
    BY <1>2, Positions DEF Storage
  <2> QED
    BY <1>1, <2>1
<1>5. TypeOK'
  <2>1. ASSUME NEW p \in Storage PROVE entry[p] \in Byte
    <3>1. CASE p \in producer_pos .. producer_pos + nbytes - 1
      <4>1. p - producer_pos \in Nat
        BY <3>1, Positions
      <4> QED
        BY <3>1, <4>1, <1>2 DEF Byte, TypeOK
    <3>2. CASE p \notin producer_pos .. producer_pos + nbytes - 1
      BY <3>2 DEF TypeOK
    <3> QED
      BY <3>1, <3>2
  <2>2. entry \in [Storage -> Byte]
    BY <2>1
  <2> HIDE DEF entry
  <2> QED
    BY <2>2, <1>1 DEF TypeOK, ProducerStates
<1> HIDE DEF entry
<1>6. ASSUME NEW lo \in Nat, NEW hi \in Nat, NEW a \in Nat, NEW b \in Nat,
             Tiled(storage, lo, hi, a, b), hi <= kSTAGING_BUFFER_SIZE,
             hi <= producer_pos \/ lo >= producer_pos + nbytes
      PROVE  Tiled(storage', lo, hi, a, b)
  <2>1. \A p \in lo .. hi - 1 :
          p \in Storage /\ (p < producer_pos \/ p >= producer_pos + nbytes)
    BY <1>2, <1>6, Positions DEF Storage
  <2>2. \A p \in lo .. hi - 1 : storage'[p] = storage[p]
    BY <1>3, <2>1
  <2> QED
    BY <1>6, <2>2, TiledFrame
<1>7. MinFreeIsLowerBound' /\ ReservationFits' /\ BeforeRollOver'
      /\ EndedIsFlagged' /\ BeforeConsumerRollOver' /\ DeletionIsSafe'
  BY <1>1, <1>2 DEF MinFreeIsLowerBound, ReservationFits, BeforeRollOver,
         EndedIsFlagged, BeforeConsumerRollOver, DeletionIsSafe,
         DeletedOnlyWhenDrained, Holding, Wrapped, UpperPart
<1>8. EntryIsWritten'
  BY <1>1, <1>4 DEF EntryIsWritten, EntryAt
<1>9. PeekIsTiled'
  <2> SUFFICES ASSUME consumer = "peeked"
               PROVE  \E j \in consumed + 1 .. published :
                        Tiled(storage', consumer_pos,
                              consumer_pos + bytes_available, consumed, j)
    BY <1>1 DEF PeekIsTiled, Wrapped
  <2>1. PICK j \in consumed + 1 .. published :
          Tiled(storage, consumer_pos, consumer_pos + bytes_available,
                consumed, j)
    BY DEF PeekIsTiled
  <2>2. consumer_pos + bytes_available <=
          IF Wrapped THEN end_of_recorded_space ELSE producer_pos
    BY DEF PeekIsTiled
  <2>3. j \in Nat /\ consumed \in Nat
    BY DEF TypeOK
  <2>4. /\ consumer_pos + bytes_available \in Nat
        /\ consumer_pos + bytes_available <= kSTAGING_BUFFER_SIZE
        /\ \/ consumer_pos + bytes_available <= producer_pos
           \/ consumer_pos >= producer_pos + nbytes
    BY <1>2, <2>2, Positions
  <2>5. Tiled(storage', consumer_pos, consumer_pos + bytes_available,
              consumed, j)
    BY <1>6, <2>1, <2>3, <2>4, Positions
  <2> QED
    BY <2>5
<1>10. UnreadIsTiled'
  <2>1. CASE Wrapped
    <3>1. PICK split \in Nat :
            split \in consumed .. published /\ SplitAt(split)
      BY <2>1, WrappedTiles
    <3>2. consumed \in Nat /\ published \in Nat
      BY DEF TypeOK
    <3>3. Tiled(storage', consumer_pos, end_of_recorded_space, consumed, split)
      <4>1. consumer_pos >= producer_pos + nbytes
        BY <1>2, <2>1, Positions
      <4> QED
        BY <1>6, <3>1, <3>2, <4>1, Positions DEF SplitAt
    <3>4. Tiled(storage', 0, producer_pos, split, published)
      BY <1>6, <3>1, <3>2, Positions DEF SplitAt
    <3>5. ASSUME UpperPart
          PROVE  \E j \in split .. published :
                   Tiled(storage', 0, cached_producer_pos, split, j)
      <4>1. PICK j \in split .. published :
              Tiled(storage, 0, cached_producer_pos, split, j)
        BY <3>1, <3>5 DEF SplitAt
      <4>2. cached_producer_pos <= producer_pos
        BY <3>5 DEF BeforeConsumerRollOver
      <4>3. j \in Nat
        BY <3>2
      <4>4. Tiled(storage', 0, cached_producer_pos, split, j)
        BY <1>6, <4>1, <4>2, <4>3, Positions
      <4> QED
        BY <4>4
    <3>6. SplitAt(split)'
      BY <1>1, <3>3, <3>4, <3>5 DEF SplitAt, UpperPart
    <3> QED
      BY <1>1, <2>1, <3>1, <3>6, WrappedTiles DEF UnreadIsTiled, Wrapped
  <2>2. CASE ~Wrapped
    <3>1. Tiled(storage, consumer_pos, producer_pos, consumed, published)
      BY <2>2 DEF UnreadIsTiled
    <3>2. consumed \in Nat /\ published \in Nat
      BY DEF TypeOK
    <3>3. Tiled(storage', consumer_pos, producer_pos, consumed, published)
      BY <1>6, <3>1, <3>2, Positions
    <3> QED
      BY <1>1, <2>2, <3>3 DEF UnreadIsTiled, Wrapped
  <2> QED
    BY <2>1, <2>2
<1> QED
  BY <1>5, <1>7, <1>8, <1>9, <1>10

LEMMA FinishReservationInv ==
  ASSUME IndInv, FinishReservation
  PROVE  IndInv'
<1> USE DEF IndInv
<1>1. /\ producer = "written" /\ producer' = "idle"
      /\ min_free_space' = min_free_space - nbytes
      /\ producer_pos' = producer_pos + nbytes
      /\ published' = published + 1 /\ consumed' = consumed
      /\ storage' = storage /\ consumer_pos' = consumer_pos
      /\ end_of_recorded_space' = end_of_recorded_space
      /\ should_deallocate' = should_deallocate
      /\ consumer' = consumer /\ cached_producer_pos' = cached_producer_pos
      /\ bytes_available' = bytes_available
  BY DEF FinishReservation, SpaceLeft, consumerVars
<1>2. /\ nbytes \in Nat /\ nbytes >= 1 /\ nbytes < min_free_space
      /\ producer_pos + nbytes < kSTAGING_BUFFER_SIZE
      /\ Wrapped => producer_pos + nbytes < consumer_pos
  BY <1>1, ReservationIsClear DEF Holding
<1>3. published \in Nat /\ consumed \in Nat
  BY DEF TypeOK
<1>4. Wrapped' <=> Wrapped
  BY <1>1, <1>2, Positions DEF Wrapped
<1>5. EntryAt(storage, producer_pos, published, nbytes)
  BY <1>1 DEF EntryIsWritten
<1>6. TypeOK'
  <2>1. /\ producer_pos' \in Storage
        /\ min_free_space' \in 1 .. kSTAGING_BUFFER_SIZE
    <3>1. min_free_space <= kSTAGING_BUFFER_SIZE
      BY Positions DEF TypeOK
    <3> QED
      BY <1>1, <1>2, <3>1, Positions DEF Storage
  <2> QED
    BY <2>1, <1>1, <1>3 DEF FinishReservation, TypeOK, ProducerStates
<1>7. MinFreeIsLowerBound'
  <2>1. producer_pos' + min_free_space' = producer_pos + min_free_space
    BY <1>1, <1>2, Positions
  <2> QED
    BY <1>1, <1>4, <2>1 DEF MinFreeIsLowerBound
<1>8. ReservationFits' /\ BeforeRollOver' /\ EntryIsWritten' /\ EndedIsFlagged'
  BY <1>1 DEF ReservationFits, Holding, BeforeRollOver, EntryIsWritten,
              EndedIsFlagged
<1>9. DeletionIsSafe'
  BY <1>1 DEF DeletionIsSafe, DeletedOnlyWhenDrained
<1>10. BeforeConsumerRollOver'
  <2>1. cached_producer_pos <= producer_pos =>
          cached_producer_pos' <= producer_pos'
    BY <1>1, <1>2, Positions
  <2> QED
    BY <1>1, <1>4, <2>1 DEF BeforeConsumerRollOver, UpperPart
<1>11. PeekIsTiled'
  <2> SUFFICES ASSUME consumer = "peeked"
               PROVE  /\ consumer_pos + bytes_available <=
                           IF Wrapped THEN end_of_recorded_space
                                      ELSE producer_pos'
                      /\ \E j \in consumed + 1 .. published' :
                           Tiled(storage, consumer_pos,
                                 consumer_pos + bytes_available, consumed, j)
    BY <1>1, <1>4 DEF PeekIsTiled
  <2>1. PICK j \in consumed + 1 .. published :
          Tiled(storage, consumer_pos, consumer_pos + bytes_available,
                consumed, j)
    BY DEF PeekIsTiled
  <2>2. j \in consumed + 1 .. published'
    BY <1>1, <1>3
  <2>3. consumer_pos + bytes_available <=
          IF Wrapped THEN end_of_recorded_space ELSE producer_pos
    BY DEF PeekIsTiled
  <2>4. consumer_pos + bytes_available <=
          IF Wrapped THEN end_of_recorded_space ELSE producer_pos'
    BY <1>1, <1>2, <2>3, Positions
  <2> QED
    BY <2>1, <2>2, <2>4
<1>12. UnreadIsTiled'
  <2>1. CASE Wrapped
    <3>1. PICK split \in Nat :
            split \in consumed .. published /\ SplitAt(split)
      BY <2>1, WrappedTiles
    <3>2. Tiled(storage, 0, producer_pos + nbytes, split, published + 1)
      BY <1>2, <1>3, <1>5, <3>1, TiledAppend, Positions DEF SplitAt
    <3>3. \A j \in split .. published : j \in split .. published + 1
      BY <1>3
    <3>4. SplitAt(split)'
      BY <1>1, <3>1, <3>2, <3>3 DEF SplitAt, UpperPart
    <3>5. split \in consumed' .. published'
      BY <1>1, <1>3, <3>1
    <3>6. (end_of_recorded_space < kSTAGING_BUFFER_SIZE)'
      BY <1>1, <2>1, WrappedTiles
    <3> QED
      BY <1>4, <2>1, <3>4, <3>5, <3>6 DEF UnreadIsTiled
  <2>2. CASE ~Wrapped
    <3>1. Tiled(storage, consumer_pos, producer_pos, consumed, published)
      BY <2>2 DEF UnreadIsTiled
    <3>2. Tiled(storage, consumer_pos, producer_pos + nbytes,
                consumed, published + 1)
      BY <1>2, <1>3, <1>5, <3>1, TiledAppend, Positions
    <3> QED
      BY <1>1, <1>4, <2>2, <3>2 DEF UnreadIsTiled
  <2> QED
    BY <2>1, <2>2
<1> QED
  BY <1>6, <1>7, <1>8, <1>9, <1>10, <1>11, <1>12

LEMMA EndThreadInv ==
  ASSUME IndInv, EndThread
  PROVE  IndInv'
<1> USE DEF IndInv
<1>1. TypeOK'
  BY DEF EndThread, TypeOK, ProducerStates, consumerVars
<1>2. MinFreeIsLowerBound' /\ ReservationFits' /\ BeforeRollOver'
      /\ EntryIsWritten' /\ EndedIsFlagged' /\ BeforeConsumerRollOver'
      /\ DeletionIsSafe'
  BY DEF EndThread, MinFreeIsLowerBound, ReservationFits, BeforeRollOver,
         EntryIsWritten, EndedIsFlagged, BeforeConsumerRollOver,
         DeletionIsSafe, DeletedOnlyWhenDrained, Holding, Wrapped, UpperPart,
         consumerVars
<1>3. PeekIsTiled' /\ UnreadIsTiled'
  BY DEF EndThread, PeekIsTiled, UnreadIsTiled, SplitAt, Wrapped, UpperPart,
         consumerVars
<1> QED
  BY <1>1, <1>2, <1>3
-----------------------------------------------------------------------------
(* The steps of the consumer.  None of them changes what the producer       *)
(* knows, except that consumer_pos moves.                                   *)

LEMMA LoadShouldDeallocateInv ==
  ASSUME IndInv, LoadShouldDeallocate
  PROVE  IndInv'
<1> USE DEF IndInv
<1>1. TypeOK'
  BY DEF LoadShouldDeallocate, TypeOK, ConsumerStates, producerVars
<1>2. MinFreeIsLowerBound' /\ ReservationFits' /\ BeforeRollOver'
      /\ EntryIsWritten' /\ EndedIsFlagged' /\ BeforeConsumerRollOver'
  BY DEF LoadShouldDeallocate, MinFreeIsLowerBound, ReservationFits,
         BeforeRollOver, EntryIsWritten, EndedIsFlagged,
         BeforeConsumerRollOver, Holding, Wrapped, UpperPart, producerVars
<1>3. DeletionIsSafe'
  BY DEF LoadShouldDeallocate, DeletionIsSafe, DeletedOnlyWhenDrained
<1>4. PeekIsTiled' /\ UnreadIsTiled'
  BY DEF LoadShouldDeallocate, PeekIsTiled, UnreadIsTiled, SplitAt, Wrapped,
         UpperPart, producerVars
<1> QED
  BY <1>1, <1>2, <1>3, <1>4

LEMMA CompareAndDeleteInv ==
  ASSUME IndInv, CompareAndDelete
  PROVE  IndInv'
<1> USE DEF IndInv
<1>1. TypeOK'
  BY DEF CompareAndDelete, TypeOK, ConsumerStates, producerVars
<1>2. MinFreeIsLowerBound' /\ ReservationFits' /\ BeforeRollOver'
      /\ EntryIsWritten' /\ EndedIsFlagged' /\ BeforeConsumerRollOver'
  BY DEF CompareAndDelete, MinFreeIsLowerBound, ReservationFits,
         BeforeRollOver, EntryIsWritten, EndedIsFlagged,
         BeforeConsumerRollOver, Holding, Wrapped, UpperPart, producerVars
<1>3. DeletionIsSafe'
  <2>1. producer = "ended"
    BY DEF CompareAndDelete, DeletionIsSafe, EndedIsFlagged
  <2>2. ASSUME consumer_pos = producer_pos PROVE published = consumed
    <3>1. ~Wrapped
      BY <2>2, Positions DEF Wrapped
    <3>2. Tiled(storage, consumer_pos, producer_pos, consumed, published)
      BY <3>1 DEF UnreadIsTiled
    <3> QED
      BY <2>2, <3>2, TiledEmptyIff, Positions DEF TypeOK
  <2>3. /\ consumer' = IF consumer_pos = producer_pos THEN "deleted" ELSE "peek"
        /\ producer' = producer
        /\ published' = published /\ consumed' = consumed
    BY DEF CompareAndDelete, Drained, producerVars
  <2> QED
    BY <2>1, <2>2, <2>3 DEF DeletionIsSafe, DeletedOnlyWhenDrained
<1>4. PeekIsTiled' /\ UnreadIsTiled'
  BY DEF CompareAndDelete, PeekIsTiled, UnreadIsTiled, SplitAt, Wrapped,
         UpperPart, producerVars
<1> QED
  BY <1>1, <1>2, <1>3, <1>4

LEMMA ProcessOrLeaveInv ==
  ASSUME IndInv, ProcessLogBuffer \/ Leave
  PROVE  IndInv'
<1> USE DEF IndInv
<1>1. TypeOK'
  BY DEF ProcessLogBuffer, Leave, TypeOK, ConsumerStates, producerVars
<1>2. MinFreeIsLowerBound' /\ ReservationFits' /\ BeforeRollOver'
      /\ EntryIsWritten' /\ EndedIsFlagged' /\ BeforeConsumerRollOver'
      /\ DeletionIsSafe'
  BY DEF ProcessLogBuffer, Leave, MinFreeIsLowerBound, ReservationFits,
         BeforeRollOver, EntryIsWritten, EndedIsFlagged,
         BeforeConsumerRollOver, DeletionIsSafe, DeletedOnlyWhenDrained,
         Holding, Wrapped, UpperPart, producerVars
<1>3. PeekIsTiled' /\ UnreadIsTiled'
  BY DEF ProcessLogBuffer, Leave, PeekIsTiled, UnreadIsTiled, SplitAt,
         Wrapped, UpperPart, producerVars
<1> QED
  BY <1>1, <1>2, <1>3

LEMMA LoadProducerPosInv ==
  ASSUME IndInv, LoadProducerPos
  PROVE  IndInv'
<1> USE DEF IndInv
<1>1. /\ consumer = "peek"
      /\ cached_producer_pos' = producer_pos
      /\ producer_pos' = producer_pos /\ consumer_pos' = consumer_pos
      /\ end_of_recorded_space' = end_of_recorded_space
      /\ storage' = storage /\ producer' = producer
      /\ should_deallocate' = should_deallocate
      /\ published' = published /\ consumed' = consumed
      /\ nbytes' = nbytes /\ min_free_space' = min_free_space
      /\ cached_consumer_pos' = cached_consumer_pos
  BY DEF LoadProducerPos, producerVars
<1>2. Wrapped => consumer' = "upper part" /\ bytes_available' = bytes_available
  BY DEF LoadProducerPos, Wrapped
<1>3. ~Wrapped => /\ bytes_available' = producer_pos - consumer_pos
                  /\ consumer' = IF producer_pos - consumer_pos > 0
                                 THEN "peeked" ELSE "idle"
  BY DEF LoadProducerPos, Wrapped, Peeked
<1>4. Wrapped' <=> Wrapped
  BY <1>1 DEF Wrapped
<1>5. consumed \in Nat /\ published \in Nat
  BY DEF TypeOK
<1>6. TypeOK'
  <2>1. ~Wrapped => producer_pos - consumer_pos \in 0 .. kSTAGING_BUFFER_SIZE
    BY Positions DEF Wrapped
  <2>2. bytes_available' \in 0 .. kSTAGING_BUFFER_SIZE
    BY <1>2, <1>3, <2>1 DEF TypeOK
  <2>3. consumer' \in ConsumerStates
    BY <1>2, <1>3 DEF ConsumerStates
  <2> QED
    BY <1>1, <2>2, <2>3 DEF TypeOK
<1>7. MinFreeIsLowerBound' /\ ReservationFits' /\ BeforeRollOver'
      /\ EntryIsWritten' /\ EndedIsFlagged'
  BY <1>1 DEF MinFreeIsLowerBound, ReservationFits, BeforeRollOver,
              EntryIsWritten, EndedIsFlagged, Holding, Wrapped
<1>8. DeletionIsSafe'
  BY <1>2, <1>3 DEF DeletionIsSafe, DeletedOnlyWhenDrained
<1>9. BeforeConsumerRollOver'
  <2>1. producer_pos <= producer_pos
    BY Positions
  <2>2. cached_producer_pos' <= producer_pos'
    BY <1>1, <2>1
  <2>3. consumer' # "roll over" /\ (consumer' = "upper part" => Wrapped')
    BY <1>2, <1>3, <1>4
  <2> QED
    BY <2>2, <2>3 DEF BeforeConsumerRollOver, UpperPart
<1>10. PeekIsTiled'
  <2> SUFFICES ASSUME ~Wrapped, producer_pos - consumer_pos > 0
               PROVE  /\ consumer_pos + (producer_pos - consumer_pos)
                           <= producer_pos
                      /\ \E j \in consumed + 1 .. published :
                           Tiled(storage, consumer_pos,
                                 consumer_pos + (producer_pos - consumer_pos),
                                 consumed, j)
    BY <1>1, <1>2, <1>3, <1>4 DEF PeekIsTiled
  <2>1. consumer_pos + (producer_pos - consumer_pos) = producer_pos
    BY Positions
  <2>2. Tiled(storage, consumer_pos, producer_pos, consumed, published)
    BY DEF UnreadIsTiled
  <2>3. consumed # published
    BY <1>5, <2>2, TiledEmptyIff, Positions
  <2>4. consumed <= published
    BY <2>2 DEF Tiled
  <2>5. published \in consumed + 1 .. published
    BY <1>5, <2>3, <2>4
  <2> QED
    BY <2>1, <2>2, <2>5, Positions
<1>11. UnreadIsTiled'
  <2>1. CASE Wrapped
    <3>1. PICK split \in Nat :
            split \in consumed .. published /\ SplitAt(split)
      BY <2>1, WrappedTiles
    <3>2. published \in split .. published
      BY <1>5, <3>1
    <3>3. SplitAt(split)'
      BY <1>1, <3>1, <3>2 DEF SplitAt
    <3> QED
      BY <1>1, <1>4, <2>1, <3>1, <3>3, WrappedTiles DEF UnreadIsTiled
  <2>2. CASE ~Wrapped
    BY <1>1, <1>4, <2>2 DEF UnreadIsTiled
  <2> QED
    BY <2>1, <2>2
<1> QED
  BY <1>6, <1>7, <1>8, <1>9, <1>10, <1>11

LEMMA LoadEndOfRecordedSpaceInv ==
  ASSUME IndInv, LoadEndOfRecordedSpace
  PROVE  IndInv'
<1> USE DEF IndInv
<1>1. /\ consumer = "upper part"
      /\ bytes_available' = end_of_recorded_space - consumer_pos
      /\ consumer' = IF end_of_recorded_space - consumer_pos > 0
                     THEN "peeked" ELSE "roll over"
      /\ cached_producer_pos' = cached_producer_pos
      /\ producer_pos' = producer_pos /\ consumer_pos' = consumer_pos
      /\ end_of_recorded_space' = end_of_recorded_space
      /\ storage' = storage /\ producer' = producer
      /\ should_deallocate' = should_deallocate
      /\ published' = published /\ consumed' = consumed
      /\ nbytes' = nbytes /\ min_free_space' = min_free_space
      /\ cached_consumer_pos' = cached_consumer_pos
  BY DEF LoadEndOfRecordedSpace, producerVars
<1>2. UpperPart /\ Wrapped /\ cached_producer_pos <= producer_pos
  BY <1>1 DEF BeforeConsumerRollOver, UpperPart
<1>3. PICK split \in Nat : split \in consumed .. published /\ SplitAt(split)
  BY <1>2, WrappedTiles
<1>4. consumed \in Nat /\ published \in Nat
  BY DEF TypeOK
<1>5. Tiled(storage, consumer_pos, end_of_recorded_space, consumed, split)
  BY <1>3 DEF SplitAt
<1>6. consumer_pos <= end_of_recorded_space
  BY <1>5 DEF Tiled
<1>7. TypeOK'
  <2>1. end_of_recorded_space - consumer_pos \in 0 .. kSTAGING_BUFFER_SIZE
    BY <1>6, Positions
  <2> QED
    BY <1>1, <2>1 DEF TypeOK, ConsumerStates
<1>8. MinFreeIsLowerBound' /\ ReservationFits' /\ BeforeRollOver'
      /\ EntryIsWritten' /\ EndedIsFlagged'
  BY <1>1 DEF MinFreeIsLowerBound, ReservationFits, BeforeRollOver,
              EntryIsWritten, EndedIsFlagged, Holding, Wrapped
<1>9. DeletionIsSafe'
  BY <1>1 DEF DeletionIsSafe, DeletedOnlyWhenDrained
<1>10. BeforeConsumerRollOver'
  <2>1. ~(end_of_recorded_space - consumer_pos > 0) =>
          consumer_pos = end_of_recorded_space
    BY <1>6, Positions
  <2> QED
    BY <1>1, <1>2, <2>1 DEF BeforeConsumerRollOver, UpperPart, Wrapped
<1>11. PeekIsTiled'
  <2>1. CASE end_of_recorded_space - consumer_pos > 0
    <3>1. consumer_pos + (end_of_recorded_space - consumer_pos)
            = end_of_recorded_space
      BY Positions
    <3>2. consumed # split
      BY <1>3, <1>4, <1>5, <2>1, TiledEmptyIff, Positions
    <3>3. split \in consumed + 1 .. published
      BY <1>3, <1>4, <3>2
    <3>4. end_of_recorded_space <= end_of_recorded_space
      BY Positions
    <3>5. Wrapped'
      BY <1>1, <1>2 DEF Wrapped
    <3> QED
      BY <1>1, <1>5, <3>1, <3>3, <3>4, <3>5 DEF PeekIsTiled
  <2>2. CASE ~(end_of_recorded_space - consumer_pos > 0)
    BY <1>1, <2>2 DEF PeekIsTiled
  <2> QED
    BY <2>1, <2>2
<1>12. UnreadIsTiled'
  <2>1. SplitAt(split)'
    BY <1>1, <1>2, <1>3 DEF SplitAt
  <2> QED
    BY <1>1, <1>2, <1>3, <2>1, WrappedTiles DEF UnreadIsTiled, Wrapped
<1> QED
  BY <1>7, <1>8, <1>9, <1>10, <1>11, <1>12

LEMMA ConsumerRollOverInv ==
  ASSUME IndInv, ConsumerRollOver
  PROVE  IndInv'
<1> USE DEF IndInv
<1>1. /\ consumer = "roll over"
      /\ consumer_pos' = 0
      /\ cached_producer_pos' = cached_producer_pos
      /\ producer_pos' = producer_pos
      /\ end_of_recorded_space' = end_of_recorded_space
      /\ storage' = storage /\ producer' = producer
      /\ should_deallocate' = should_deallocate
      /\ published' = published /\ consumed' = consumed
      /\ nbytes' = nbytes /\ min_free_space' = min_free_space
      /\ cached_consumer_pos' = cached_consumer_pos
  BY DEF ConsumerRollOver, RollOverTo, producerVars
<1>2. /\ bytes_available' = cached_producer_pos
      /\ consumer' = IF cached_producer_pos > 0 THEN "peeked" ELSE "idle"
  <2>1. cached_producer_pos - 0 = cached_producer_pos
    BY Positions
  <2> QED
    BY <2>1 DEF ConsumerRollOver, RollOverTo, Peeked
<1>3. /\ UpperPart /\ Wrapped /\ cached_producer_pos <= producer_pos
      /\ consumer_pos = end_of_recorded_space
  BY <1>1 DEF BeforeConsumerRollOver, UpperPart
<1>4. ~Wrapped'
  <2>1. ~(producer_pos < 0)
    BY Positions
  <2> QED
    BY <1>1, <2>1 DEF Wrapped
<1>5. consumed \in Nat /\ published \in Nat
  BY DEF TypeOK
<1>6. /\ Tiled(storage, 0, producer_pos, consumed, published)
      /\ \E j \in consumed .. published :
           Tiled(storage, 0, cached_producer_pos, consumed, j)
  <2>1. PICK split \in Nat : split \in consumed .. published /\ SplitAt(split)
    BY <1>3, WrappedTiles
  <2>2. split = consumed
    BY <1>3, <1>5, <2>1, TiledEmptyIff, Positions DEF SplitAt
  <2> QED
    BY <1>3, <2>1, <2>2 DEF SplitAt
<1>7. TypeOK'
  <2>1. 0 \in Storage
    BY Positions DEF Storage
  <2>2. bytes_available' \in 0 .. kSTAGING_BUFFER_SIZE
    BY <1>2, Positions
  <2> QED
    BY <1>1, <1>2, <2>1, <2>2 DEF TypeOK, ConsumerStates
<1>8. MinFreeIsLowerBound'
  <2>1. producer_pos + min_free_space <= kSTAGING_BUFFER_SIZE
    BY <1>3, Positions DEF MinFreeIsLowerBound
  <2> QED
    BY <1>1, <1>4, <2>1 DEF MinFreeIsLowerBound
<1>9. BeforeRollOver'
  BY <1>1, <1>3 DEF BeforeRollOver
<1>10. ReservationFits' /\ EntryIsWritten' /\ EndedIsFlagged'
  BY <1>1 DEF ReservationFits, EntryIsWritten, EndedIsFlagged, Holding
<1>11. DeletionIsSafe' /\ BeforeConsumerRollOver'
  BY <1>2 DEF DeletionIsSafe, DeletedOnlyWhenDrained,
              BeforeConsumerRollOver, UpperPart
<1>12. PeekIsTiled'
  <2> SUFFICES ASSUME cached_producer_pos > 0
               PROVE  /\ 0 + cached_producer_pos <= producer_pos
                      /\ \E j \in consumed + 1 .. published :
                           Tiled(storage, 0, 0 + cached_producer_pos,
                                 consumed, j)
    BY <1>1, <1>2, <1>4 DEF PeekIsTiled
  <2>1. 0 + cached_producer_pos = cached_producer_pos
    BY Positions
  <2>2. PICK j \in consumed .. published :
          Tiled(storage, 0, cached_producer_pos, consumed, j)
    BY <1>6
  <2>3. j \in Nat /\ consumed # j
    BY <1>5, <2>2, TiledEmptyIff, Positions
  <2>4. j \in consumed + 1 .. published
    BY <1>5, <2>2, <2>3
  <2> QED
    BY <1>3, <2>1, <2>2, <2>4
<1>13. UnreadIsTiled'
  BY <1>1, <1>4, <1>6 DEF UnreadIsTiled
<1> QED
  BY <1>7, <1>8, <1>9, <1>10, <1>11, <1>12, <1>13

LEMMA ConsumeInv ==
  ASSUME IndInv, Consume
  PROVE  IndInv'
<1> USE DEF IndInv
<1> DEFINE n == EntrySize
<1>1. /\ consumer = "peeked" /\ consumer' = "idle"
      /\ consumer_pos' = consumer_pos + n
      /\ consumed' = consumed + 1 /\ published' = published
      /\ cached_producer_pos' = cached_producer_pos
      /\ bytes_available' = bytes_available
      /\ producer_pos' = producer_pos
      /\ end_of_recorded_space' = end_of_recorded_space
      /\ storage' = storage /\ producer' = producer
      /\ should_deallocate' = should_deallocate
      /\ nbytes' = nbytes /\ min_free_space' = min_free_space
      /\ cached_consumer_pos' = cached_consumer_pos
  BY DEF Consume, producerVars
<1>2. /\ consumed < published
      /\ n \in 1 .. bytes_available
      /\ consumer_pos + n <= Stretch
  BY <1>1, NextEntry
<1>3. consumed \in Nat /\ published \in Nat
  BY DEF TypeOK
<1>4. /\ n \in Nat /\ n >= 1
      /\ consumer_pos + n < kSTAGING_BUFFER_SIZE
  <2>1. n \in Nat /\ n >= 1
    BY <1>2, Positions
  <2>2. Stretch \in Nat /\ Stretch < kSTAGING_BUFFER_SIZE
    BY WrappedTiles, Positions DEF Stretch
  <2> QED
    BY <1>2, <2>1, <2>2, Positions
<1>5. n = storage[consumer_pos].len
  BY DEF EntrySize
<1> HIDE DEF n
<1>6. Wrapped' <=> Wrapped
  BY <1>1, <1>2, <1>4, Positions DEF Wrapped, Stretch
<1>7. TypeOK'
  <2>1. consumer_pos' \in Storage
    BY <1>1, <1>4, Positions DEF Storage
  <2> QED
    BY <1>1, <1>3, <2>1 DEF TypeOK, ConsumerStates
<1>8. MinFreeIsLowerBound'
  BY <1>1, <1>4, <1>6, Positions DEF MinFreeIsLowerBound
<1>9. BeforeRollOver'
  <2>1. cached_consumer_pos <= consumer_pos =>
          cached_consumer_pos' <= consumer_pos'
    BY <1>1, <1>4, Positions
  <2> QED
    BY <1>1, <1>6, <2>1 DEF BeforeRollOver
<1>10. ReservationFits' /\ EntryIsWritten' /\ EndedIsFlagged'
  BY <1>1 DEF ReservationFits, EntryIsWritten, EndedIsFlagged, Holding
<1>11. DeletionIsSafe' /\ BeforeConsumerRollOver' /\ PeekIsTiled'
  BY <1>1 DEF DeletionIsSafe, DeletedOnlyWhenDrained,
              BeforeConsumerRollOver, UpperPart, PeekIsTiled
<1>12. UnreadIsTiled'
  <2>1. CASE Wrapped
    <3>1. PICK split \in Nat :
            split \in consumed .. published /\ SplitAt(split)
      BY <2>1, WrappedTiles
    <3>2. Tiled(storage, consumer_pos, end_of_recorded_space, consumed, split)
      BY <3>1 DEF SplitAt
    <3>3. consumed # split
      <4>1. consumer_pos < end_of_recorded_space
        BY <1>2, <1>4, <2>1, Positions DEF Stretch
      <4> QED
        BY <1>3, <3>2, <4>1, TiledEmptyIff, Positions
    <3>4. consumed < split
      BY <1>3, <3>1, <3>3
    <3>5. Tiled(storage, consumer_pos + n, end_of_recorded_space,
                consumed + 1, split)
      BY <1>3, <1>5, <3>2, <3>4, TiledHead, Positions
    <3>6. SplitAt(split)'
      BY <1>1, <3>1, <3>5 DEF SplitAt, UpperPart
    <3>7. split \in consumed' .. published'
      BY <1>1, <1>3, <3>1, <3>4
    <3>8. (end_of_recorded_space < kSTAGING_BUFFER_SIZE)'
      BY <1>1, <2>1, WrappedTiles
    <3> QED
      BY <1>6, <2>1, <3>6, <3>7, <3>8 DEF UnreadIsTiled
  <2>2. CASE ~Wrapped
    <3>1. Tiled(storage, consumer_pos, producer_pos, consumed, published)
      BY <2>2 DEF UnreadIsTiled
    <3>2. Tiled(storage, consumer_pos + n, producer_pos,
                consumed + 1, published)
      BY <1>2, <1>3, <1>5, <3>1, TiledHead, Positions
    <3> QED
      BY <1>1, <1>6, <2>2, <3>2 DEF UnreadIsTiled
  <2> QED
    BY <2>1, <2>2
<1> QED
  BY <1>7, <1>8, <1>9, <1>10, <1>11, <1>12
-----------------------------------------------------------------------------
(* The invariant and what follows from it. *)

LEMMA InitIndInv == Init => IndInv
<1> SUFFICES ASSUME Init PROVE IndInv
  OBVIOUS
<1> USE SizeAssumption DEF Init
<1>1. TypeOK
  <2>1. 0 \in Storage /\ Zero \in Byte
    BY DEF Storage, Zero, Byte
  <2>2. storage \in [Storage -> Byte]
    BY <2>1
  <2>3. /\ kSTAGING_BUFFER_SIZE \in 1 .. kSTAGING_BUFFER_SIZE
        /\ kSTAGING_BUFFER_SIZE \in 0 .. kSTAGING_BUFFER_SIZE
        /\ 0 \in 0 .. kSTAGING_BUFFER_SIZE
    OBVIOUS
  <2> QED
    BY <2>1, <2>2, <2>3 DEF TypeOK, ProducerStates, ConsumerStates
<1>2. ~Wrapped
  BY DEF Wrapped
<1>3. MinFreeIsLowerBound /\ ReservationFits /\ BeforeRollOver
      /\ EntryIsWritten /\ EndedIsFlagged
  <2>1. 0 + kSTAGING_BUFFER_SIZE <= kSTAGING_BUFFER_SIZE
    OBVIOUS
  <2>2. MinFreeIsLowerBound
    BY <1>2, <2>1 DEF MinFreeIsLowerBound
  <2>3. EndedIsFlagged
    BY DEF EndedIsFlagged
  <2> QED
    BY <2>2, <2>3 DEF ReservationFits, BeforeRollOver, EntryIsWritten, Holding
<1>4. BeforeConsumerRollOver /\ DeletionIsSafe /\ PeekIsTiled
  BY DEF BeforeConsumerRollOver, UpperPart, DeletionIsSafe,
         DeletedOnlyWhenDrained, PeekIsTiled
<1>5. UnreadIsTiled
  BY <1>2, TiledEmpty DEF UnreadIsTiled
<1> QED
  BY <1>1, <1>3, <1>4, <1>5 DEF IndInv

LEMMA NextIndInv == IndInv /\ [Next]_vars => IndInv'
<1> SUFFICES ASSUME IndInv, [Next]_vars PROVE IndInv'
  OBVIOUS
<1>1. ASSUME NEW n \in Sizes, Reserve(n) PROVE IndInv'
  BY <1>1, ReserveInv
<1>2. CASE Produce
  BY <1>2, LoadConsumerPosInv, MarkEndOfRecordedSpaceInv, RollOverInv,
     WriteEntryInv, FinishReservationInv DEF Produce
<1>3. CASE EndThread
  BY <1>3, EndThreadInv
<1>4. CASE Poll
  BY <1>4, LoadShouldDeallocateInv, CompareAndDeleteInv, ProcessOrLeaveInv,
     LoadProducerPosInv, LoadEndOfRecordedSpaceInv, ConsumerRollOverInv,
     ConsumeInv DEF Poll
<1>5. CASE UNCHANGED vars
  <2> USE <1>5 DEF vars, producerVars, consumerVars, IndInv
  <2>1. TypeOK'
    BY DEF TypeOK
  <2>2. MinFreeIsLowerBound' /\ ReservationFits' /\ BeforeRollOver'
        /\ EntryIsWritten' /\ EndedIsFlagged'
    BY DEF MinFreeIsLowerBound, ReservationFits, BeforeRollOver,
           EntryIsWritten, EndedIsFlagged, Holding, Wrapped
  <2>3. BeforeConsumerRollOver' /\ DeletionIsSafe' /\ PeekIsTiled'
    BY DEF BeforeConsumerRollOver, UpperPart, DeletionIsSafe,
           DeletedOnlyWhenDrained, PeekIsTiled, Wrapped
  <2>4. UnreadIsTiled'
    BY DEF UnreadIsTiled, SplitAt, UpperPart, Wrapped
  <2> QED
    BY <2>1, <2>2, <2>3, <2>4
<1> QED
  BY <1>1, <1>2, <1>3, <1>4, <1>5 DEF Next, Terminated

\* The inductive invariant holds in every reachable state.
THEOREM Invariance == Spec => []IndInv
<1>1. Init => IndInv
  BY InitIndInv
<1>2. IndInv /\ [Next]_vars => IndInv'
  BY NextIndInv
<1> QED
  BY <1>1, <1>2, PTL DEF Spec

\* Positions never leave storage_, and the free-space estimate of the
\* producer never reaches 0: no step of the two threads indexes outside the
\* buffer or underflows an unsigned difference.
THEOREM TypeCorrect == Spec => []TypeOK
<1>1. IndInv => TypeOK
  BY DEF IndInv
<1> QED
  BY <1>1, Invariance, PTL

\* reserveProducerSpace never hands out a byte that the worker has still to
\* read, nor one behind the end of storage_, and the assertions of
\* finishReservation hold.
THEOREM ReservationSafe == Spec => []ReservationIsFree
<1>1. IndInv => ReservationIsFree
  <2> SUFFICES ASSUME IndInv, Holding
               PROVE  /\ nbytes < min_free_space
                      /\ producer_pos + nbytes < kSTAGING_BUFFER_SIZE
                      /\ (producer_pos .. producer_pos + nbytes - 1)
                           \cap Unread = {}
    BY DEF ReservationIsFree
  <2>1. /\ nbytes \in Nat /\ nbytes < min_free_space
        /\ producer_pos + nbytes < kSTAGING_BUFFER_SIZE
        /\ Wrapped => producer_pos + nbytes < consumer_pos
    BY ReservationIsClear
  <2>2. (producer_pos .. producer_pos + nbytes - 1) \cap Unread = {}
    BY <2>1, Positions DEF IndInv, Unread
  <2> QED
    BY <2>1, <2>2
<1> QED
  BY <1>1, Invariance, PTL

\* Equal positions mean that nothing is left to read.
THEOREM EqualSafe == Spec => []EqualMeansEmpty
<1>1. IndInv => EqualMeansEmpty
  <2> SUFFICES ASSUME IndInv, consumer_pos = producer_pos
               PROVE  published = consumed
    BY DEF EqualMeansEmpty
  <2> USE DEF IndInv
  <2>1. ~Wrapped
    BY Positions DEF Wrapped
  <2>2. Tiled(storage, consumer_pos, producer_pos, consumed, published)
    BY <2>1 DEF UnreadIsTiled
  <2> QED
    BY <2>2, TiledEmptyIff, Positions DEF TypeOK
<1> QED
  BY <1>1, Invariance, PTL

\* min_free_space stays a lower bound whatever the reader does.
THEOREM MinFreeSafe == Spec => []MinFreeIsLowerBound
<1>1. IndInv => MinFreeIsLowerBound
  BY DEF IndInv
<1> QED
  BY <1>1, Invariance, PTL

\* Entries come out whole, uncorrupted and in the order of publication, none
\* of them lost and none twice.
THEOREM PeekSafe == Spec => []PeekedEntryIsWhole
<1>1. IndInv => PeekedEntryIsWhole
  <2> SUFFICES ASSUME IndInv, consumer = "peeked"
               PROVE  \E n \in 1 .. bytes_available : \A k \in 0 .. n - 1 :
                        storage[consumer_pos + k] =
                          [id |-> consumed, len |-> n, off |-> k]
    BY DEF PeekedEntryIsWhole
  <2>1. /\ EntrySize \in 1 .. bytes_available
        /\ EntryAt(storage, consumer_pos, consumed, EntrySize)
    BY NextEntry
  <2> QED
    BY <2>1 DEF EntryAt
<1> QED
  BY <1>1, Invariance, PTL

\* checkCanDelete lets the worker delete a buffer only when nothing can be
\* lost with it.
THEOREM DeletionSafe == Spec => []DeletedOnlyWhenDrained
<1>1. IndInv => DeletedOnlyWhenDrained
  BY DEF IndInv, DeletionIsSafe
<1> QED
  BY <1>1, Invariance, PTL

\* Between the producer's roll-over and the consumer's no step moves the end
\* mark, which the consumer loads without a lock.
THEOREM EndMarkSafe == Spec => EndMarkIsStable
<1>1. IndInv /\ [Next]_vars =>
        (Wrapped /\ Wrapped' => UNCHANGED end_of_recorded_space)
  <2> SUFFICES ASSUME IndInv, [Next]_vars, Wrapped
               PROVE  UNCHANGED end_of_recorded_space
    OBVIOUS
  <2>1. ~MarkEndOfRecordedSpace
    BY DEF IndInv, BeforeRollOver, MarkEndOfRecordedSpace
  <2>2. ASSUME NEW n \in Sizes, Reserve(n)
        PROVE  UNCHANGED end_of_recorded_space
    BY <2>2 DEF Reserve
  <2>3. CASE Produce
    BY <2>1, <2>3 DEF Produce, LoadConsumerPos, RollOver, WriteEntry,
                      FinishReservation
  <2>4. CASE EndThread
    BY <2>4 DEF EndThread
  <2>5. CASE Poll
    BY <2>5 DEF Poll, LoadShouldDeallocate, CompareAndDelete,
                ProcessLogBuffer, LoadProducerPos, LoadEndOfRecordedSpace,
                ConsumerRollOver, Leave, Consume
  <2>6. CASE UNCHANGED vars
    BY <2>6 DEF vars
  <2> QED
    BY <2>2, <2>3, <2>4, <2>5, <2>6 DEF Next, Terminated
<1>2. [Next]_vars /\ IndInv =>
        [Wrapped /\ Wrapped' => UNCHANGED end_of_recorded_space]_vars
  BY <1>1
<1> QED
  BY <1>2, Invariance, PTL DEF Spec, EndMarkIsStable
=============================================================================
