---------------------- MODULE StagingBufferRefinement ----------------------
(***************************************************************************)
(* The proof that StagingBuffer implements LogStream, for every capacity,  *)
(* every set of entry sizes and every bound on the number of entries.      *)
(*                                                                         *)
(* From the inductive invariant of StagingBufferProofs it follows that the *)
(* unread bytes hold one header of each unread entry and no other          *)
(* (HeadersOfUnread), so that the lengths read off the storage are well    *)
(* defined, and that a step which only adds unread bytes, or only takes    *)
(* some away, keeps the lengths of the entries that are unread before and  *)
(* after it (LengthsKept).                                                 *)
(***************************************************************************)
EXTENDS StagingBufferProofs, SequenceTheorems, WellFoundedInduction

Header(id, n) == [id |-> id, len |-> n, off |-> 0]

\* LenOf is the length of every unread entry, and there is no other header of
\* it among the unread bytes.
HeadersOfUnread ==
  \A id \in consumed .. published - 1 :
    /\ LenOf(id) \in 1 .. kSTAGING_BUFFER_SIZE
    /\ Header(id, LenOf(id)) \in UnreadBytes
    /\ \A n \in 1 .. kSTAGING_BUFFER_SIZE :
         Header(id, n) \in UnreadBytes => n = LenOf(id)

\* A reservation that has begun is one of the MaxEntries and of an allowed size.
Asked ==
  producer \notin {"idle", "ended"} => published < MaxEntries /\ nbytes \in Sizes

-----------------------------------------------------------------------------
(* Lemmas on tilings. *)

\* Every byte of the stretch belongs to a tile.
Covers(lo, hi, a, b, first) ==
  \A p \in lo .. hi - 1 :
    \E i \in a .. b - 1 : first[i] <= p /\ p < first[i + 1]

LEMMA TileOf ==
  ASSUME NEW st, NEW lo \in Nat, NEW hi \in Nat, NEW a \in Nat, NEW b \in Nat,
         a <= b, NEW first \in [a .. b -> lo .. hi],
         Tiling(st, lo, hi, a, b, first)
  PROVE  Covers(lo, hi, a, b, first)
<1> SUFFICES ASSUME NEW p \in lo .. hi - 1
             PROVE  \E i \in a .. b - 1 : first[i] <= p /\ p < first[i + 1]
  BY DEF Covers
<1> DEFINE T == {i \in a .. b : p < first[i]}
<1>1. T \subseteq Nat
  OBVIOUS
<1>2. b \in T
  BY DEF Tiling
<1>3. PICK m \in T : \A y \in T : ~ (<<y, m>> \in OpToRel(<, Nat))
  BY <1>1, <1>2, NatLessThanWellFounded, WFMin
<1>4. \A y \in T : ~ (y < m)
  BY <1>1, <1>3 DEF OpToRel
<1>5. m \in a .. b /\ p < first[m] /\ m # a
  BY DEF Tiling
<1>6. m - 1 \in a .. b - 1 /\ m - 1 \in a .. b /\ (m - 1) + 1 = m /\ m - 1 < m
  BY <1>5
<1>7. m - 1 \notin T
  BY <1>4, <1>6
<1>8. first[m - 1] \in lo .. hi
  BY <1>6
<1>9. first[m - 1] <= p
  BY <1>6, <1>7, <1>8
<1> QED
  BY <1>5, <1>6, <1>9

\* len gives the lengths of the entries whose headers lie in the stretch.
Headed(st, lo, hi, a, b, len) ==
  /\ \A i \in a .. b - 1 : \E p \in lo .. hi - 1 : st[p] = Header(i, len[i])
  /\ \A p \in lo .. hi - 1 : \A i, n \in Nat :
       st[p] = Header(i, n) => i \in a .. b - 1 /\ n = len[i]

\* The header of each entry of the stretch lies in it, and the headers that lie
\* in it are those of its entries.
LEMMA TiledHeaders ==
  ASSUME NEW st, NEW lo \in Nat, NEW hi \in Nat, NEW a \in Nat, NEW b \in Nat,
         Tiled(st, lo, hi, a, b)
  PROVE  \E len \in [a .. b - 1 -> 1 .. hi - lo] :
           Headed(st, lo, hi, a, b, len)
<1>1. PICK first \in [a .. b -> lo .. hi] : Tiling(st, lo, hi, a, b, first)
  BY DEF Tiled
<1>2. Covers(lo, hi, a, b, first)
  <2>1. a <= b
    BY DEF Tiled
  <2> QED
    BY <1>1, <2>1, TileOf
<1> DEFINE len == [i \in a .. b - 1 |-> first[i + 1] - first[i]]
<1>3. ASSUME NEW i \in a .. b - 1
      PROVE  /\ first[i] \in lo .. hi /\ first[i + 1] \in lo .. hi
             /\ first[i] < first[i + 1]
             /\ len[i] = first[i + 1] - first[i]
             /\ EntryAt(st, first[i], i, len[i])
  <2>1. i \in a .. b /\ i + 1 \in a .. b /\ i < i + 1
    OBVIOUS
  <2> QED
    BY <1>1, <2>1 DEF Tiling
<1>4. ASSUME NEW i \in a .. b - 1
      PROVE  len[i] \in 1 .. hi - lo
  BY <1>3
<1>5. len \in [a .. b - 1 -> 1 .. hi - lo]
  BY <1>4
<1>6. ASSUME NEW i \in a .. b - 1
      PROVE  \E p \in lo .. hi - 1 : st[p] = Header(i, len[i])
  <2>1. first[i] \in lo .. hi - 1 /\ 0 \in 0 .. len[i] - 1
        /\ first[i] + 0 = first[i]
    BY <1>3, <1>4
  <2>2. st[first[i]] = Header(i, len[i])
    BY <1>3, <2>1 DEF EntryAt, Header
  <2> QED
    BY <2>1, <2>2
<1>7. ASSUME NEW p \in lo .. hi - 1, NEW i \in Nat, NEW n \in Nat,
             st[p] = Header(i, n)
      PROVE  i \in a .. b - 1 /\ n = len[i]
  <2>1. PICK j \in a .. b - 1 : first[j] <= p /\ p < first[j + 1]
    BY <1>2 DEF Covers
  <2>2. p - first[j] \in 0 .. len[j] - 1 /\ first[j] + (p - first[j]) = p
    BY <1>3, <2>1
  <2>3. st[p] = [id |-> j, len |-> len[j], off |-> p - first[j]]
    BY <1>3, <2>2 DEF EntryAt
  <2> HIDE DEF len
  <2> QED
    BY <1>7, <2>3 DEF Header
<1> HIDE DEF len
<1> QED
  BY <1>5, <1>6, <1>7 DEF Headed

-----------------------------------------------------------------------------
(* The lengths read off the storage. *)

LEMMA Headers == IndInv => HeadersOfUnread
<1> SUFFICES ASSUME IndInv, NEW id \in consumed .. published - 1
             PROVE  \E len \in 1 .. kSTAGING_BUFFER_SIZE :
                      /\ Header(id, len) \in UnreadBytes
                      /\ \A n \in 1 .. kSTAGING_BUFFER_SIZE :
                           Header(id, n) \in UnreadBytes => n = len
  <2>1. ASSUME NEW id \in consumed .. published - 1,
               NEW len \in 1 .. kSTAGING_BUFFER_SIZE,
               Header(id, len) \in UnreadBytes,
               \A n \in 1 .. kSTAGING_BUFFER_SIZE :
                 Header(id, n) \in UnreadBytes => n = len
        PROVE  LenOf(id) = len
    BY <2>1 DEF LenOf, Header
  <2> QED
    BY <2>1 DEF HeadersOfUnread
<1> USE DEF IndInv
<1>1. consumed \in Nat /\ published \in Nat /\ id \in Nat
  BY DEF TypeOK
<1>2. CASE Wrapped
  <2>1. PICK split \in Nat : split \in consumed .. published /\ SplitAt(split)
    BY <1>2, WrappedTiles
  <2> DEFINE upper == consumer_pos .. end_of_recorded_space - 1
             lower == 0 .. producer_pos - 1
  <2>2. UnreadBytes = {storage[p] : p \in upper \cup lower}
    BY <1>2 DEF UnreadBytes, Unread
  <2>3. PICK len1 \in [consumed .. split - 1 ->
                         1 .. end_of_recorded_space - consumer_pos] :
          Headed(storage, consumer_pos, end_of_recorded_space, consumed, split,
                 len1)
    BY <1>1, <2>1, TiledHeaders, Positions DEF SplitAt
  <2>4. PICK len2 \in [split .. published - 1 -> 1 .. producer_pos - 0] :
          Headed(storage, 0, producer_pos, split, published, len2)
    BY <1>1, <2>1, TiledHeaders, Positions DEF SplitAt
  <2>5. \A p \in upper : p \in upper \cup lower
    OBVIOUS
  <2>6. \A p \in lower : p \in upper \cup lower
    OBVIOUS
  <2> HIDE DEF upper, lower
  <2>7. ASSUME NEW n \in 1 .. kSTAGING_BUFFER_SIZE,
               Header(id, n) \in UnreadBytes
        PROVE  \/ id \in consumed .. split - 1 /\ n = len1[id]
               \/ id \in split .. published - 1 /\ n = len2[id]
    <3>1. PICK p \in upper \cup lower : storage[p] = Header(id, n)
      BY <2>2, <2>7
    <3>2. n \in Nat
      BY Positions
    <3> QED
      BY <1>1, <2>3, <2>4, <3>1, <3>2 DEF Headed, upper, lower
  <2>8. CASE id < split
    <3>1. id \in consumed .. split - 1 /\ id \notin split .. published - 1
      BY <1>1, <2>8
    <3>2. len1[id] \in 1 .. kSTAGING_BUFFER_SIZE
      <4>1. len1[id] \in 1 .. end_of_recorded_space - consumer_pos
        BY <3>1
      <4> QED
        BY <4>1, Positions
    <3>3. Header(id, len1[id]) \in UnreadBytes
      BY <2>2, <2>3, <2>5, <3>1 DEF Headed, upper
    <3> QED
      BY <2>7, <3>1, <3>2, <3>3
  <2>9. CASE ~(id < split)
    <3>1. id \in split .. published - 1 /\ id \notin consumed .. split - 1
      BY <1>1, <2>9
    <3>2. len2[id] \in 1 .. kSTAGING_BUFFER_SIZE
      <4>1. len2[id] \in 1 .. producer_pos - 0
        BY <3>1
      <4> QED
        BY <4>1, Positions
    <3>3. Header(id, len2[id]) \in UnreadBytes
      BY <2>2, <2>4, <2>6, <3>1 DEF Headed, lower
    <3> QED
      BY <2>7, <3>1, <3>2, <3>3
  <2> QED
    BY <2>8, <2>9
<1>3. CASE ~Wrapped
  <2> DEFINE all == consumer_pos .. producer_pos - 1
  <2>1. UnreadBytes = {storage[p] : p \in all}
    BY <1>3 DEF UnreadBytes, Unread
  <2>2. Tiled(storage, consumer_pos, producer_pos, consumed, published)
    BY <1>3 DEF UnreadIsTiled
  <2>3. PICK len \in [consumed .. published - 1 ->
                        1 .. producer_pos - consumer_pos] :
          Headed(storage, consumer_pos, producer_pos, consumed, published, len)
    BY <1>1, <2>2, TiledHeaders, Positions
  <2> HIDE DEF all
  <2>4. len[id] \in 1 .. kSTAGING_BUFFER_SIZE
    <3>1. len[id] \in 1 .. producer_pos - consumer_pos
      OBVIOUS
    <3> QED
      BY <3>1, Positions
  <2>5. Header(id, len[id]) \in UnreadBytes
    BY <2>1, <2>3 DEF Headed, all
  <2>6. ASSUME NEW n \in 1 .. kSTAGING_BUFFER_SIZE,
               Header(id, n) \in UnreadBytes
        PROVE  n = len[id]
    <3>1. PICK p \in all : storage[p] = Header(id, n)
      BY <2>1, <2>6
    <3>2. n \in Nat
      BY Positions
    <3> QED
      BY <1>1, <2>3, <3>1, <3>2 DEF Headed, all
  <2> QED
    BY <2>4, <2>5, <2>6
<1> QED
  BY <1>2, <1>3

\* A step that only adds unread bytes, or only takes some away, keeps the
\* lengths of the entries that stay.
LEMMA LengthsKept ==
  ASSUME HeadersOfUnread, HeadersOfUnread',
         UnreadBytes \subseteq UnreadBytes' \/ UnreadBytes' \subseteq UnreadBytes,
         NEW id \in consumed .. published - 1, id \in consumed' .. published' - 1
  PROVE  LenOf(id)' = LenOf(id)
<1>1. /\ LenOf(id) \in 1 .. kSTAGING_BUFFER_SIZE
      /\ Header(id, LenOf(id)) \in UnreadBytes
      /\ \A n \in 1 .. kSTAGING_BUFFER_SIZE :
           Header(id, n) \in UnreadBytes => n = LenOf(id)
  BY DEF HeadersOfUnread
<1>2. /\ LenOf(id)' \in 1 .. kSTAGING_BUFFER_SIZE
      /\ Header(id, LenOf(id)') \in UnreadBytes'
      /\ \A n \in 1 .. kSTAGING_BUFFER_SIZE :
           Header(id, n) \in UnreadBytes' => n = LenOf(id)'
  BY DEF HeadersOfUnread
<1> QED
  BY <1>1, <1>2

\* A function on 1 .. n is a sequence of length n.
LEMMA FunctionIsSequence ==
  ASSUME NEW S, NEW n \in Nat, NEW f \in [1 .. n -> S]
  PROVE  f \in Seq(S) /\ Len(f) = n
<1>1. f \in Seq(S)
  <2>1. [1 .. n -> S] \subseteq UNION {[1 .. m -> S] : m \in Nat}
    OBVIOUS
  <2> QED
    BY <2>1, SeqDef
<1>2. PICK m \in Nat : m = Len(f) /\ DOMAIN f = 1 .. m
  BY <1>1, LenProperties
<1>3. 1 .. m = 1 .. n
  BY <1>2
<1>4. m = n
  BY <1>3
<1> QED
  BY <1>1, <1>2, <1>4

\* The unread entries are a sequence, the oldest first.
LEMMA EntriesAreSequence ==
  ASSUME TypeOK, HeadersOfUnread, consumed <= published
  PROVE  /\ UnreadEntries \in Seq([id : Nat, len : Nat])
         /\ Len(UnreadEntries) = published - consumed
         /\ \A k \in 1 .. published - consumed :
              UnreadEntries[k] = [id |-> consumed + (k - 1),
                                  len |-> LenOf(consumed + (k - 1))]
<1>1. consumed \in Nat /\ published \in Nat /\ published - consumed \in Nat
  BY DEF TypeOK
<1>2. ASSUME NEW k \in 1 .. published - consumed
      PROVE  [id |-> consumed + (k - 1), len |-> LenOf(consumed + (k - 1))]
               \in [id : Nat, len : Nat]
  <2>1. consumed + (k - 1) \in consumed .. published - 1
    BY <1>1
  <2>2. LenOf(consumed + (k - 1)) \in Nat
    BY <2>1, Positions DEF HeadersOfUnread
  <2> QED
    BY <1>1, <2>1, <2>2
<1>3. UnreadEntries \in [1 .. published - consumed -> [id : Nat, len : Nat]]
  BY <1>2 DEF UnreadEntries
<1>4. /\ UnreadEntries \in Seq([id : Nat, len : Nat])
      /\ Len(UnreadEntries) = published - consumed
  BY <1>1, <1>3, FunctionIsSequence
<1> QED
  BY <1>4 DEF UnreadEntries

LEMMA ConsumedFirst == IndInv => consumed <= published
<1> SUFFICES ASSUME IndInv PROVE consumed <= published
  OBVIOUS
<1>1. consumed \in Nat /\ published \in Nat
  BY DEF IndInv, TypeOK
<1>2. CASE Wrapped
  BY <1>1, <1>2, WrappedTiles
<1>3. CASE ~Wrapped
  BY <1>3 DEF IndInv, UnreadIsTiled, Tiled
<1> QED
  BY <1>2, <1>3

-----------------------------------------------------------------------------
(* The steps. *)

\* Nothing changes in the stream.
Quiet ==
  /\ UnreadBytes' = UnreadBytes /\ UnreadCount' = UnreadCount
  /\ published' = published /\ consumed' = consumed
  /\ Owner' = Owner

LEMMA QuietStutters == Quiet => UNCHANGED Stream!streamVars
<1> SUFFICES ASSUME Quiet PROVE UNCHANGED Stream!streamVars
  OBVIOUS
<1>1. \A id : LenOf(id)' = LenOf(id)
  BY DEF Quiet, LenOf
<1>2. UnreadEntries' = UnreadEntries
  BY <1>1 DEF Quiet, UnreadEntries
<1> QED
  BY <1>2 DEF Quiet, Stream!streamVars

\* finishReservation publishes.
LEMMA PublishStep ==
  ASSUME IndInv, IndInv', Asked, HeadersOfUnread, HeadersOfUnread',
         FinishReservation
  PROVE  Stream!Publish(nbytes)
<1>1. /\ producer = "written"
      /\ producer_pos' = producer_pos + nbytes
      /\ published' = published + 1 /\ consumed' = consumed
      /\ storage' = storage /\ consumer_pos' = consumer_pos
      /\ end_of_recorded_space' = end_of_recorded_space
      /\ should_deallocate' = should_deallocate /\ consumer' = consumer
  BY DEF FinishReservation, consumerVars
<1>2. /\ nbytes \in Nat /\ nbytes >= 1
      /\ producer_pos + nbytes < kSTAGING_BUFFER_SIZE
      /\ Wrapped => producer_pos + nbytes < consumer_pos
  BY <1>1, ReservationIsClear DEF Holding
<1>3. published \in Nat /\ consumed \in Nat /\ consumed <= published
  BY ConsumedFirst DEF IndInv, TypeOK
<1>4. Wrapped' <=> Wrapped
  BY <1>1, <1>2, Positions DEF Wrapped, IndInv
<1>5. Owner = "alive" /\ Owner' = Owner
  <2>1. ~should_deallocate /\ consumer # "deleted"
    BY <1>1 DEF IndInv, EndedIsFlagged, DeletionIsSafe, DeletedOnlyWhenDrained
  <2> QED
    BY <1>1, <2>1 DEF Owner
<1>6. published < MaxEntries /\ nbytes \in Sizes
  BY <1>1 DEF Asked
<1>7. UnreadCount + nbytes < kSTAGING_BUFFER_SIZE
      /\ UnreadCount' = UnreadCount + nbytes
  <2>1. CASE Wrapped
    <3>1. end_of_recorded_space < kSTAGING_BUFFER_SIZE
      BY <2>1, WrappedTiles
    <3>2. UnreadCount = (end_of_recorded_space - consumer_pos) + producer_pos
          /\ UnreadCount' =
               (end_of_recorded_space - consumer_pos) + (producer_pos + nbytes)
      BY <1>1, <1>4, <2>1 DEF UnreadCount
    <3> QED
      BY <1>2, <2>1, <3>1, <3>2, Positions DEF IndInv
  <2>2. CASE ~Wrapped
    <3>1. UnreadCount = producer_pos - consumer_pos
          /\ UnreadCount' = (producer_pos + nbytes) - consumer_pos
      BY <1>1, <1>4, <2>2 DEF UnreadCount
    <3> QED
      BY <1>2, <2>2, <3>1, Positions DEF IndInv
  <2> QED
    BY <2>1, <2>2
<1>8. UnreadBytes \subseteq UnreadBytes'
      /\ Header(published, nbytes) \in UnreadBytes'
  <2>1. Unread \subseteq Unread' /\ producer_pos \in Unread'
    BY <1>1, <1>2, <1>4, Positions DEF Unread, Wrapped, IndInv
  <2>2. storage[producer_pos] = Header(published, nbytes)
    <3>1. 0 \in 0 .. nbytes - 1 /\ producer_pos + 0 = producer_pos
      BY <1>2, Positions DEF IndInv
    <3>2. EntryAt(storage, producer_pos, published, nbytes)
      BY <1>1 DEF IndInv, EntryIsWritten
    <3> QED
      BY <3>1, <3>2 DEF EntryAt, Header
  <2> QED
    BY <1>1, <2>1, <2>2 DEF UnreadBytes
<1>9. ASSUME NEW id, id = published
      PROVE  LenOf(id)' = nbytes
  <2>1. id \in consumed' .. published' - 1
    BY <1>1, <1>3, <1>9
  <2>2. nbytes \in 1 .. kSTAGING_BUFFER_SIZE
    BY <1>2, Positions DEF IndInv
  <2>3. Header(id, nbytes) \in UnreadBytes'
    BY <1>8, <1>9
  <2> QED
    BY <2>1, <2>2, <2>3 DEF HeadersOfUnread
<1>10. UnreadEntries' =
         Append(UnreadEntries, [id |-> published, len |-> nbytes])
  <2> DEFINE E == [id : Nat, len : Nat]
             new == [id |-> published, len |-> nbytes]
             len == published - consumed
  <2>1. new \in E /\ len \in Nat
    BY <1>2, <1>3
  <2>2. /\ UnreadEntries \in Seq(E) /\ Len(UnreadEntries) = len
        /\ \A k \in 1 .. len :
             UnreadEntries[k] = [id |-> consumed + (k - 1),
                                 len |-> LenOf(consumed + (k - 1))]
    BY <1>3, EntriesAreSequence DEF IndInv
  <2>3. published' - consumed' = len + 1
    BY <1>1, <1>3
  <2>4. UnreadEntries' = [k \in 1 .. len + 1 |->
                            [id |-> consumed + (k - 1),
                             len |-> LenOf(consumed + (k - 1))']]
    BY <1>1, <2>3 DEF UnreadEntries
  <2>5. ASSUME NEW k \in 1 .. len
        PROVE  UnreadEntries'[k] = UnreadEntries[k]
    <3>1. consumed + (k - 1) \in consumed .. published - 1
          /\ consumed + (k - 1) \in consumed' .. published' - 1
      BY <1>1, <1>3
    <3>2. \A id : id = consumed + (k - 1) => LenOf(id)' = LenOf(id)
      BY <1>8, <3>1, LengthsKept
    <3>3. LenOf(consumed + (k - 1))' = LenOf(consumed + (k - 1))
      BY <1>1, <3>2
    <3>4. k \in 1 .. len + 1
      BY <2>1
    <3> QED
      BY <2>2, <2>4, <3>3, <3>4
  <2>6. UnreadEntries'[len + 1] = new
    <3> SUFFICES ASSUME NEW k, k = len + 1 PROVE UnreadEntries'[k] = new
      OBVIOUS
    <3>1. k \in 1 .. len + 1 /\ consumed + (k - 1) = published
      BY <1>3, <2>1
    <3>2. \A id : id = consumed + (k - 1) => LenOf(id)' = nbytes
      BY <1>9, <3>1
    <3>3. LenOf(consumed + (k - 1))' = nbytes
      BY <1>1, <3>2
    <3> QED
      BY <2>4, <3>1, <3>3
  <2> HIDE DEF len, new, E
  <2>7. DOMAIN UnreadEntries' = 1 .. len + 1
    BY <2>4
  <2>8. UnreadEntries' \in Seq(E)
    <3>1. ASSUME NEW k \in 1 .. len + 1
          PROVE  UnreadEntries'[k] \in E
      BY <2>1, <2>2, <2>5, <2>6, ElementOfSeq
    <3>2. UnreadEntries' \in [1 .. len + 1 -> E]
      BY <2>4, <3>1
    <3> QED
      BY <2>1, <3>2, SeqDef
  <2>9. Len(UnreadEntries') = len + 1
    BY <2>1, <2>7, <2>8, LenProperties
  <2>10. /\ Append(UnreadEntries, new) \in Seq(E)
         /\ Len(Append(UnreadEntries, new)) = len + 1
         /\ \A k \in 1 .. len : Append(UnreadEntries, new)[k] = UnreadEntries[k]
         /\ Append(UnreadEntries, new)[len + 1] = new
    BY <2>1, <2>2, AppendProperties
  <2>11. \A k \in 1 .. len + 1 :
           UnreadEntries'[k] = Append(UnreadEntries, new)[k]
    BY <2>1, <2>5, <2>6, <2>10
  <2>12. UnreadEntries' = Append(UnreadEntries, new)
    BY <2>8, <2>9, <2>10, <2>11, SeqEqual
  <2> QED
    BY <2>12 DEF new
<1> QED
  BY <1>1, <1>5, <1>6, <1>7, <1>10 DEF Stream!Publish

\* consume takes the oldest entry.
LEMMA TakeStep ==
  ASSUME IndInv, IndInv', HeadersOfUnread, HeadersOfUnread', Consume
  PROVE  Stream!Take
<1> DEFINE n == EntrySize
<1>1. /\ consumer = "peeked" /\ consumer' = "idle"
      /\ consumer_pos' = consumer_pos + n
      /\ consumed' = consumed + 1 /\ published' = published
      /\ producer_pos' = producer_pos
      /\ end_of_recorded_space' = end_of_recorded_space
      /\ storage' = storage
      /\ should_deallocate' = should_deallocate
  BY DEF Consume
<1>2. /\ consumed < published
      /\ n \in 1 .. bytes_available
      /\ EntryAt(storage, consumer_pos, consumed, n)
      /\ consumer_pos + n <= Stretch
  BY <1>1, NextEntry
<1>3. consumed \in Nat /\ published \in Nat
  BY DEF IndInv, TypeOK
<1>4. n \in Nat /\ n >= 1 /\ Stretch \in Nat
  BY <1>2, Positions DEF IndInv, Stretch
<1> HIDE DEF n
<1>5. Wrapped' <=> Wrapped
  BY <1>1, <1>2, <1>4, Positions DEF Wrapped, Stretch, IndInv
<1>6. Owner # "freed" /\ Owner' = Owner
  BY <1>1 DEF Owner
<1>7. UnreadCount' = UnreadCount - n
  <2>1. CASE Wrapped
    BY <1>1, <1>4, <1>5, <2>1, Positions DEF UnreadCount, IndInv
  <2>2. CASE ~Wrapped
    BY <1>1, <1>4, <1>5, <2>2, Positions DEF UnreadCount, IndInv
  <2> QED
    BY <2>1, <2>2
<1>8. UnreadBytes' \subseteq UnreadBytes
      /\ Header(consumed, n) \in UnreadBytes
  <2>1. Unread' \subseteq Unread /\ consumer_pos \in Unread
    BY <1>1, <1>2, <1>4, <1>5, Positions DEF Unread, Wrapped, Stretch, IndInv
  <2>2. storage[consumer_pos] = Header(consumed, n)
    <3>1. 0 \in 0 .. n - 1 /\ consumer_pos + 0 = consumer_pos
      BY <1>4, Positions DEF IndInv
    <3> QED
      BY <1>2, <3>1 DEF EntryAt, Header
  <2> QED
    BY <1>1, <2>1, <2>2 DEF UnreadBytes
<1>9. LenOf(consumed) = n
  <2>1. consumed \in consumed .. published - 1
    BY <1>2, <1>3
  <2>2. n \in 1 .. kSTAGING_BUFFER_SIZE
    <3>1. bytes_available <= kSTAGING_BUFFER_SIZE
      BY Positions DEF IndInv, TypeOK
    <3> QED
      BY <1>2, <1>4, <3>1, Positions DEF IndInv
  <2> QED
    BY <1>8, <2>1, <2>2 DEF HeadersOfUnread
<1> DEFINE E == [id : Nat, len : Nat]
           len == published - consumed
<1>10. /\ UnreadEntries \in Seq(E) /\ Len(UnreadEntries) = len
       /\ \A k \in 1 .. len :
            UnreadEntries[k] = [id |-> consumed + (k - 1),
                                len |-> LenOf(consumed + (k - 1))]
  BY <1>2, <1>3, EntriesAreSequence DEF IndInv
<1>11. len \in Nat /\ len >= 1 /\ published' - consumed' = len - 1
  BY <1>1, <1>2, <1>3
<1>12. UnreadEntries # <<>>
  BY <1>10, <1>11, EmptySeq
<1>13. Head(UnreadEntries).len = n
  <2>1. Head(UnreadEntries) = UnreadEntries[1]
    BY <1>10, <1>12
  <2>2. 1 \in 1 .. len /\ consumed + (1 - 1) = consumed
    BY <1>3, <1>11
  <2> QED
    BY <1>9, <1>10, <2>1, <2>2
<1>14. UnreadEntries' = Tail(UnreadEntries)
  <2>1. UnreadEntries' = [k \in 1 .. len - 1 |->
                            [id |-> consumed' + (k - 1),
                             len |-> LenOf(consumed + (k - 1))']]
    BY <1>11 DEF UnreadEntries
  <2>2. ASSUME NEW k \in 1 .. len - 1
        PROVE  UnreadEntries'[k] = UnreadEntries[k + 1]
    <3>1. /\ k + 1 \in 1 .. len
          /\ consumed + ((k + 1) - 1) = consumed + k
          /\ consumed' + (k - 1) = consumed + k
          /\ consumed + k \in consumed .. published - 1
          /\ consumed + k \in consumed' .. published' - 1
      BY <1>1, <1>2, <1>3
    <3>2. \A id : id = consumed + k => LenOf(id)' = LenOf(id)
      BY <1>8, <3>1, LengthsKept
    <3>3. LenOf(consumed + (k - 1))' = LenOf(consumed + k)
      BY <3>1, <3>2
    <3>4. UnreadEntries'[k] = [id |-> consumed + k,
                               len |-> LenOf(consumed + k)]
      BY <2>1, <3>1, <3>3
    <3>5. UnreadEntries[k + 1] = [id |-> consumed + k,
                                  len |-> LenOf(consumed + k)]
      BY <1>10, <3>1
    <3> QED
      BY <3>4, <3>5
  <2>3. DOMAIN UnreadEntries' = 1 .. len - 1
    BY <2>1
  <2> HIDE DEF len, E
  <2>4. UnreadEntries' \in Seq(E)
    <3>1. ASSUME NEW k \in 1 .. len - 1
          PROVE  UnreadEntries'[k] \in E
      <4>1. k + 1 \in 1 .. Len(UnreadEntries)
        BY <1>10, <1>11
      <4> QED
        BY <1>10, <2>2, <4>1, ElementOfSeq
    <3>2. UnreadEntries' \in [1 .. len - 1 -> E]
      BY <2>1, <3>1
    <3> QED
      BY <1>11, <3>2, SeqDef
  <2>5. Len(UnreadEntries') = len - 1
    BY <1>11, <2>3, <2>4, LenProperties
  <2>6. /\ Tail(UnreadEntries) \in Seq(E)
        /\ Len(Tail(UnreadEntries)) = len - 1
        /\ \A k \in 1 .. len - 1 :
             Tail(UnreadEntries)[k] = UnreadEntries[k + 1]
    BY <1>10, <1>12, HeadTailProperties
  <2>7. \A k \in 1 .. len - 1 : UnreadEntries'[k] = Tail(UnreadEntries)[k]
    BY <2>2, <2>6
  <2> QED
    BY <2>4, <2>5, <2>6, <2>7, SeqEqual
<1> QED
  BY <1>1, <1>6, <1>7, <1>12, <1>13, <1>14 DEF Stream!Take

\* A step that leaves the positions, the storage and the owner alone.
LEMMA Unmoved ==
  ASSUME UNCHANGED <<producer_pos, end_of_recorded_space, consumer_pos,
                     storage, published, consumed>>,
         Owner' = Owner
  PROVE  UNCHANGED Stream!streamVars
<1>1. Quiet
  BY DEF Quiet, UnreadBytes, Unread, UnreadCount, Wrapped
<1> QED
  BY <1>1, QuietStutters

\* An entry is written to bytes that hold nothing unread.
LEMMA WriteEntryStutters ==
  ASSUME IndInv, WriteEntry
  PROVE  UNCHANGED Stream!streamVars
<1>1. /\ producer = "reserved"
      /\ storage' = [p \in Storage |->
                       IF p \in producer_pos .. producer_pos + nbytes - 1
                       THEN [id |-> published, len |-> nbytes,
                             off |-> p - producer_pos]
                       ELSE storage[p]]
      /\ UNCHANGED <<producer_pos, end_of_recorded_space, consumer_pos,
                     should_deallocate, consumer, published, consumed>>
  BY DEF WriteEntry, consumerVars
<1>2. /\ nbytes \in Nat /\ producer_pos + nbytes < kSTAGING_BUFFER_SIZE
      /\ Wrapped => producer_pos + nbytes < consumer_pos
  BY <1>1, ReservationIsClear DEF Holding
<1>3. Unread \subseteq Storage
      /\ (producer_pos .. producer_pos + nbytes - 1) \cap Unread = {}
  <2>1. Wrapped => end_of_recorded_space < kSTAGING_BUFFER_SIZE
    BY WrappedTiles
  <2> QED
    BY <1>2, <2>1, Positions DEF IndInv, Unread, Storage, Wrapped
<1>4. \A p \in Unread : storage'[p] = storage[p]
  BY <1>1, <1>3
<1>5. Unread' = Unread /\ UnreadCount' = UnreadCount /\ Owner' = Owner
  BY <1>1 DEF Unread, UnreadCount, Wrapped, Owner
<1>6. UnreadBytes' = UnreadBytes
  BY <1>4, <1>5 DEF UnreadBytes
<1> QED
  BY <1>1, <1>5, <1>6, QuietStutters DEF Quiet

\* The end mark matters only after a roll-over.
LEMMA MarkStutters ==
  ASSUME IndInv, MarkEndOfRecordedSpace
  PROVE  UNCHANGED Stream!streamVars
<1>1. ~Wrapped /\ ~Wrapped'
  BY DEF MarkEndOfRecordedSpace, IndInv, BeforeRollOver, Wrapped
<1>2. Quiet
  BY <1>1 DEF MarkEndOfRecordedSpace, consumerVars, Quiet, UnreadBytes, Unread,
              UnreadCount, Owner
<1> QED
  BY <1>2, QuietStutters

\* The unread bytes, up to the mark, stay the same when the producer rolls over.
LEMMA RollOverStutters ==
  ASSUME IndInv, RollOver
  PROVE  UNCHANGED Stream!streamVars
<1>1. /\ producer = "roll over" /\ producer_pos' = 0
      /\ UNCHANGED <<end_of_recorded_space, consumer_pos, storage,
                     should_deallocate, consumer, published, consumed>>
  BY DEF RollOver, consumerVars
<1>2. /\ ~Wrapped /\ cached_consumer_pos <= consumer_pos
      /\ cached_consumer_pos # 0 /\ end_of_recorded_space = producer_pos
  BY <1>1 DEF IndInv, BeforeRollOver
<1>3. Wrapped'
  <2>1. 0 < consumer_pos
    BY <1>2, Positions DEF IndInv
  <2> QED
    BY <1>1, <2>1 DEF Wrapped
<1>4. 0 .. 0 - 1 = {}
  OBVIOUS
<1>5. Unread' = Unread
  BY <1>1, <1>2, <1>3, <1>4 DEF Unread
<1>6. UnreadCount' = UnreadCount
  <2>1. (producer_pos - consumer_pos) + 0 = producer_pos - consumer_pos
    BY Positions DEF IndInv
  <2> QED
    BY <1>1, <1>2, <1>3, <2>1 DEF UnreadCount
<1> QED
  BY <1>1, <1>5, <1>6, QuietStutters DEF Quiet, UnreadBytes, Owner

\* So they do when the consumer follows, who has read the upper part.
LEMMA ConsumerRollOverStutters ==
  ASSUME IndInv, ConsumerRollOver
  PROVE  UNCHANGED Stream!streamVars
<1>1. /\ consumer = "roll over" /\ consumer_pos' = 0
      /\ UNCHANGED <<producer_pos, end_of_recorded_space, storage,
                     should_deallocate, published, consumed>>
      /\ consumer' \in {"peeked", "idle"}
  BY DEF ConsumerRollOver, RollOverTo, Peeked
<1>2. Wrapped /\ consumer_pos = end_of_recorded_space
  BY <1>1 DEF IndInv, BeforeConsumerRollOver, UpperPart
<1>3. ~Wrapped'
  <2>1. ~(producer_pos < 0)
    BY Positions DEF IndInv
  <2> QED
    BY <1>1, <2>1 DEF Wrapped
<1>4. consumer_pos .. consumer_pos - 1 = {}
  BY Positions DEF IndInv
<1>5. Unread' = Unread
  BY <1>1, <1>2, <1>3, <1>4 DEF Unread
<1>6. UnreadCount' = UnreadCount
  <2>1. (consumer_pos - consumer_pos) + producer_pos = producer_pos - 0
    BY Positions DEF IndInv
  <2> QED
    BY <1>1, <1>2, <1>3, <2>1 DEF UnreadCount
<1>7. Owner' = Owner
  BY <1>1 DEF Owner
<1> QED
  BY <1>1, <1>5, <1>6, <1>7, QuietStutters DEF Quiet, UnreadBytes

\* The positions meet exactly when every entry was taken.
LEMMA DrainedIsEmpty ==
  ASSUME IndInv, consumer_pos = producer_pos
  PROVE  UnreadEntries = <<>>
<1>1. consumed \in Nat /\ published \in Nat
  BY DEF IndInv, TypeOK
<1>2. ~Wrapped
  BY Positions DEF IndInv, Wrapped
<1>3. published = consumed
  BY <1>1, <1>2, TiledEmptyIff, Positions DEF IndInv, UnreadIsTiled
<1>4. Len(UnreadEntries) = 0 /\ UnreadEntries \in Seq([id : Nat, len : Nat])
  BY <1>1, <1>3, Headers, EntriesAreSequence DEF IndInv
<1> QED
  BY <1>4, EmptySeq

-----------------------------------------------------------------------------
(* The refinement. *)

LEMMA InitRefines == Init => Stream!Init
<1> SUFFICES ASSUME Init PROVE Stream!Init
  OBVIOUS
<1>1. published - consumed = 0 /\ consumer_pos = producer_pos
  BY DEF Init
<1>2. UnreadEntries = <<>>
  BY <1>1, InitIndInv, DrainedIsEmpty
<1>3. UnreadCount = 0 /\ Owner = "alive" /\ published = 0
  BY DEF Init, UnreadCount, Wrapped, Owner
<1> QED
  BY <1>2, <1>3 DEF Stream!Init

LEMMA StepRefines ==
  ASSUME IndInv, IndInv', HeadersOfUnread, HeadersOfUnread', Asked, [Next]_vars
  PROVE  [Stream!Next]_(Stream!streamVars)
<1>1. ASSUME NEW n \in Sizes, Reserve(n)
      PROVE  UNCHANGED Stream!streamVars
  BY <1>1, Unmoved DEF Reserve, consumerVars, Owner
<1>2. CASE LoadConsumerPos
  BY <1>2, Unmoved DEF LoadConsumerPos, consumerVars, Owner
<1>3. CASE FinishReservation
  <2>1. nbytes \in Sizes
    BY <1>3 DEF FinishReservation, Asked
  <2> QED
    BY <1>3, <2>1, PublishStep DEF Stream!Next
<1>4. CASE Produce
  BY <1>2, <1>3, <1>4, MarkStutters, RollOverStutters, WriteEntryStutters
     DEF Produce
<1>5. CASE EndThread
  <2>1. /\ ~should_deallocate /\ should_deallocate'
        /\ consumer # "deleted" /\ consumer' = consumer
        /\ UNCHANGED <<producer_pos, end_of_recorded_space, consumer_pos,
                       storage, published, consumed>>
    BY <1>5 DEF EndThread, consumerVars, IndInv, EndedIsFlagged,
                DeletionIsSafe, DeletedOnlyWhenDrained
  <2>2. Owner = "alive" /\ Owner' = "ended"
    BY <2>1 DEF Owner
  <2>3. UNCHANGED <<UnreadEntries, UnreadCount, published>>
    BY <2>1 DEF UnreadEntries, LenOf, UnreadBytes, Unread, UnreadCount, Wrapped
  <2> QED
    BY <2>2, <2>3 DEF Stream!End, Stream!Next
<1>6. CASE CompareAndDelete
  <2>1. /\ consumer = "drained?" /\ should_deallocate
        /\ UNCHANGED <<producer_pos, end_of_recorded_space, consumer_pos,
                       storage, should_deallocate, published, consumed>>
        /\ consumer' = IF consumer_pos = producer_pos THEN "deleted" ELSE "peek"
    BY <1>6 DEF CompareAndDelete, Drained, IndInv, DeletionIsSafe
  <2>2. CASE consumer_pos = producer_pos
    <3>1. UnreadEntries = <<>>
      BY <2>2, DrainedIsEmpty
    <3>2. UNCHANGED <<UnreadEntries, UnreadCount, published>>
      BY <2>1 DEF UnreadEntries, LenOf, UnreadBytes, Unread, UnreadCount,
                  Wrapped
    <3>3. Owner = "ended" /\ Owner' = "freed"
      BY <2>1, <2>2 DEF Owner
    <3> QED
      BY <3>1, <3>2, <3>3 DEF Stream!Free, Stream!Next
  <2>3. CASE consumer_pos # producer_pos
    BY <2>1, <2>3, Unmoved DEF Owner
  <2> QED
    BY <2>2, <2>3
<1>7. CASE Consume
  BY <1>7, TakeStep DEF Stream!Next
<1>8. CASE LoadShouldDeallocate
  BY <1>8, Unmoved DEF LoadShouldDeallocate, Owner
<1>9. CASE LoadProducerPos
  <2>1. consumer = "peek" /\ consumer' # "deleted"
    BY <1>9 DEF LoadProducerPos, Peeked
  <2> QED
    BY <1>9, <2>1, Unmoved DEF LoadProducerPos, Owner
<1>10. CASE LoadEndOfRecordedSpace
  <2>1. consumer = "upper part" /\ consumer' # "deleted"
    BY <1>10 DEF LoadEndOfRecordedSpace
  <2> QED
    BY <1>10, <2>1, Unmoved DEF LoadEndOfRecordedSpace, Owner
<1>11. CASE ProcessLogBuffer \/ Leave
  BY <1>11, Unmoved DEF ProcessLogBuffer, Leave, Owner
<1>12. CASE Poll
  BY <1>6, <1>7, <1>8, <1>9, <1>10, <1>11, <1>12, ConsumerRollOverStutters
     DEF Poll
<1>13. CASE UNCHANGED vars
  BY <1>13, Unmoved DEF vars, consumerVars, Owner
<1> QED
  BY <1>1, <1>4, <1>5, <1>12, <1>13 DEF Next, Terminated

LEMMA AskedInvariant == Spec => []Asked
<1>1. Init => Asked
  BY DEF Init, Asked
<1>2. Asked /\ [Next]_vars => Asked'
  <2> SUFFICES ASSUME Asked, [Next]_vars PROVE Asked'
    OBVIOUS
  <2>1. ASSUME NEW n \in Sizes, Reserve(n) PROVE Asked'
    BY <2>1 DEF Asked, Reserve
  <2>2. CASE Produce
    BY <2>2 DEF Asked, Produce, LoadConsumerPos, MarkEndOfRecordedSpace,
                RollOver, WriteEntry, FinishReservation
  <2>3. CASE EndThread
    BY <2>3 DEF Asked, EndThread
  <2>4. CASE Poll
    BY <2>4 DEF Asked, Poll, producerVars, LoadShouldDeallocate,
                CompareAndDelete, ProcessLogBuffer, LoadProducerPos,
                LoadEndOfRecordedSpace, ConsumerRollOver, Leave, Consume
  <2>5. CASE UNCHANGED vars
    BY <2>5 DEF Asked, vars, producerVars
  <2> QED
    BY <2>1, <2>2, <2>3, <2>4, <2>5 DEF Next, Terminated
<1> QED
  BY <1>1, <1>2, PTL DEF Spec

\* The byte queue, with its two threads that share no lock, is the first-in
\* first-out stream that its users are promised.
THEOREM Refinement == Spec => ImplementsStream
<1>1. Init => Stream!Init
  BY InitRefines
<1>2. IndInv /\ IndInv' /\ HeadersOfUnread /\ HeadersOfUnread' /\ Asked
        /\ [Next]_vars => [Stream!Next]_(Stream!streamVars)
  BY StepRefines
<1>3. Spec => []HeadersOfUnread
  BY Headers, Invariance, PTL
<1> QED
  BY <1>1, <1>2, <1>3, Invariance, AskedInvariant, PTL
     DEF Spec, ImplementsStream, Stream!Spec
=============================================================================
