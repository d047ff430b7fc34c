--------------------------- MODULE LogBufferProofs ---------------------------
(***************************************************************************)
(* Proofs about LogBuffer for any formats, prefixes and sizes.             *)
(*                                                                         *)
(* The inductive invariant ties the position of process_fmt, the text that *)
(* is due and the length of the buffer together: they differ only after a  *)
(* string was dropped, or after undefined behaviour.                       *)
(***************************************************************************)
EXTENDS LogBuffer, SequenceTheorems, TLAPS

\* What FormatsAssumption says of a piece.
Pieces ==
  {q \in [kind : Kinds, len : Nat] : /\ q.kind = "text" => q.len = 1
                                     /\ q.kind = "unsupported" => q.len = 0}

\* log_buffer_ points to bufflen_ bytes, and never to fewer than at first.
Allocated ==
  /\ log_buffer \in [0 .. bufflen - 1 -> Cell]
  /\ bufflen >= DEFALT_CACHE_SIZE

\* reserved is what is left behind log_pos.
Accounting == worker # "idle" => log_pos + reserved = bufflen

\* The text that is due ends at log_pos.
InStep == worker # "undefined" /\ ~dropped => log_pos = due

\* log_pos dangles as soon as the buffer was replaced.
NotReplaced == ~stale => bufflen = had

\* A number that does not fit.
Growing ==
  /\ worker = "format" => growths = 0
  /\ worker \in {"grow", "retry"} => pieces # <<>>
  /\ worker = "grow" => /\ Piece.len >= reserved
                        /\ growths = 0 \/ Piece.len = 0
                        /\ stale => Piece.len = 0
  /\ worker = "retry" => stale /\ reserved = 2 * Piece.len

\* What goes wrong goes wrong in a long line.
LongLine ==
  ~dropped =>
    /\ clipped => entry.prefix + due >= had
    /\ stale \/ worker = "grow" => entry.prefix + LineSoFar >= had
    /\ worker = "undefined" => entry.prefix + due >= had

\* The text is in its place.
TextInPlace ==
  worker # "undefined" /\ ~clipped /\ ~dropped =>
    \A p \in 0 .. due - 1 : log_buffer[p] = p

\* The inductive invariant.
IndInv ==
  /\ TypeOK /\ pieces \in Seq(Pieces)
  /\ Allocated /\ Accounting /\ InStep /\ NotReplaced
  /\ Growing /\ LongLine /\ TextInPlace

-----------------------------------------------------------------------------
(* What snprintf and memcpy leave in a buffer. *)

\* after holds, from pos on, n characters of the text due, if they fit in size,
\* and what before held in front of pos; m is the number of cells of both.
HoldsText(after, before, m, pos, size, n) ==
  /\ after \in [0 .. m - 1 -> Cell]
  /\ \A p \in 0 .. m - 1 : p < pos => after[p] = before[p]
  /\ n < size =>
       \A p \in 0 .. m - 1 :
         p \in pos .. pos + n - 1 => after[p] = due + (p - pos)

LEMMA PrintedProperties ==
  ASSUME due \in Nat, NEW m \in Nat, NEW buffer \in [0 .. m - 1 -> Cell],
         NEW pos \in Nat, NEW size \in Nat, NEW n \in Nat
  PROVE  HoldsText(Printed(buffer, pos, size, n), buffer, m, pos, size, n)
<1> USE DEF HoldsText
<1> DEFINE chars == IF n < size THEN n ELSE size - 1
           r == [p \in 0 .. m - 1 |->
                   IF p \in pos .. pos + chars - 1 THEN due + (p - pos)
                   ELSE IF p = pos + chars THEN NUL ELSE buffer[p]]
<1>1. CASE size = 0
  BY <1>1 DEF Printed
<1>2. CASE size # 0
  <2>1. Printed(buffer, pos, size, n) = r
    BY <1>2 DEF Printed
  <2>2. chars \in Nat
    BY <1>2
  <2> HIDE DEF chars
  <2>3. ASSUME NEW p \in 0 .. m - 1
        PROVE  r[p] \in Cell
    <3>1. CASE p \in pos .. pos + chars - 1
      <4>1. due + (p - pos) \in Nat
        BY <2>2, <3>1
      <4> QED
        BY <3>1, <4>1 DEF Cell
    <3>2. CASE ~(p \in pos .. pos + chars - 1)
      BY <3>2 DEF Cell
    <3> QED
      BY <3>1, <3>2
  <2>4. \A p \in 0 .. m - 1 : p < pos => r[p] = buffer[p]
    <3>1. \A p \in 0 .. m - 1 :
            p < pos => p \notin pos .. pos + chars - 1 /\ p # pos + chars
      BY <2>2
    <3> QED
      BY <3>1
  <2>5. n < size => chars = n
    BY DEF chars
  <2>6. n < size =>
          \A p \in 0 .. m - 1 :
            p \in pos .. pos + n - 1 => r[p] = due + (p - pos)
    BY <2>5
  <2> HIDE DEF r
  <2>7. r \in [0 .. m - 1 -> Cell]
    BY <2>3 DEF r
  <2> QED
    BY <2>1, <2>4, <2>6, <2>7
<1> QED
  BY <1>1, <1>2

LEMMA CopiedProperties ==
  ASSUME Allocated, bufflen \in Nat,
         NEW size \in Nat, NEW bytes \in Nat, bytes <= bufflen
  PROVE  /\ Copied(size, bytes) \in [0 .. size - 1 -> Cell]
         /\ \A p \in 0 .. size - 1 :
              p < bytes => Copied(size, bytes)[p] = log_buffer[p]
<1>1. \A p \in 0 .. size - 1 : p < bytes => p \in 0 .. bufflen - 1
  OBVIOUS
<1> QED
  BY <1>1 DEF Copied, Allocated, Cell

-----------------------------------------------------------------------------
(* The types of what the steps compute with. *)

LEMMA Numbers ==
  ASSUME IndInv
  PROVE  /\ bufflen \in Nat /\ reserved \in Nat /\ log_pos \in Nat
         /\ due \in Nat /\ had \in Nat /\ entry.prefix \in Nat
<1>1. /\ bufflen \in Nat /\ reserved \in Nat /\ log_pos \in Nat
      /\ due \in Nat /\ had \in Nat
      /\ entry \in Entries \cup {NoEntry}
  BY DEF IndInv, TypeOK
<1>2. Prefixes \subseteq Nat
  BY PrefixesAssumption, SizesAssumption
<1>3. CASE entry = NoEntry
  BY <1>1, <1>3 DEF NoEntry
<1>4. CASE entry \in Entries
  <2>1. entry.prefix \in Prefixes
    BY <1>4 DEF Entries
  <2> QED
    BY <1>1, <1>2, <2>1
<1> QED
  BY <1>1, <1>3, <1>4

LEMMA WellFormed ==
  ASSUME NEW f \in Seq(Pieces)
  PROVE  f \in Seq([kind : Kinds, len : Nat])
<1> DEFINE S == [kind : Kinds, len : Nat]
<1>1. PICK n \in Nat : f \in [1 .. n -> Pieces]
  BY LenProperties
<1>2. f \in [1 .. n -> S]
  BY <1>1 DEF Pieces
<1> HIDE DEF S
<1>3. f \in Seq(S)
  BY <1>2
<1> QED
  BY <1>3 DEF S

LEMMA PieceType ==
  ASSUME IndInv, pieces # <<>>
  PROVE  /\ Piece.len \in Nat /\ Piece.kind \in Kinds
         /\ Piece.kind = "text" => Piece.len = 1
         /\ Piece.kind = "unsupported" => Piece.len = 0
         /\ Tail(pieces) \in Seq(Pieces)
<1>1. pieces \in Seq(Pieces)
  BY DEF IndInv
<1>2. Head(pieces) \in Pieces /\ Tail(pieces) \in Seq(Pieces)
  BY <1>1, HeadTailProperties
<1> QED
  BY <1>2 DEF Piece, Pieces

-----------------------------------------------------------------------------
(* What a decoder that returns must have done, what undefined behaviour must
   have come from, and how a line ends. *)

\* A decoder that returns k has done this: Piece.len characters, unless a
\* string was dropped.
Buffer ==
  /\ bufflen' \in Nat /\ bufflen' >= bufflen
  /\ log_buffer' \in [0 .. bufflen' - 1 -> Cell]
  /\ stale' \in BOOLEAN /\ clipped' \in BOOLEAN /\ dropped' \in BOOLEAN
  /\ ~stale' => ~stale /\ bufflen' = bufflen
  /\ UNCHANGED <<entry, had>>

Long(d) == entry.prefix + d >= had

Advanced(k, n) ==
  /\ Advance(k)
  /\ Buffer
  /\ log_pos + k \in Nat /\ reserved' \in Nat
  /\ (log_pos + k) + reserved' = bufflen'
  /\ ~dropped' => ~dropped /\ k = n
  /\ stale' /\ ~dropped' => stale \/ Long(due + n)
  /\ clipped' /\ ~dropped' => clipped \/ Long(due + n)
  /\ ~dropped' /\ ~clipped' =>
       \A p \in 0 .. due + n - 1 : log_buffer'[p] = p

LEMMA LongStays ==
  ASSUME IndInv, NEW d \in Nat, NEW n \in Nat, Long(d)
  PROVE  Long(d + n)
<1>1. PICK x \in Nat, h \in Nat : x = entry.prefix /\ h = had
  BY Numbers
<1>2. x + d >= h
  BY <1>1 DEF Long
<1>3. x + (d + n) >= h
  BY <1>2
<1> QED
  BY <1>1, <1>3 DEF Long

LEMMA AdvanceKeeps ==
  ASSUME IndInv, pieces # <<>>, worker \in {"format", "retry"},
         NEW k \in Int, NEW n \in Nat, n = Piece.len, Advanced(k, n)
  PROVE  IndInv'
<1>1. /\ log_pos' = log_pos + k /\ due' = due + n /\ pieces' = Tail(pieces)
      /\ growths' = 0 /\ worker' = "format"
  BY DEF Advanced, Advance
<1>2. PICK d \in Nat, b \in Nat : d = due /\ b = bufflen'
  BY Numbers DEF Advanced, Buffer
<1>3. log_buffer' \in [0 .. b - 1 -> Cell]
  BY <1>2 DEF Advanced, Buffer
<1>4. TypeOK' /\ pieces' \in Seq(Pieces)
  <2>1. /\ Tail(pieces) \in Seq([kind : Kinds, len : Nat])
        /\ Tail(pieces) \in Seq(Pieces)
    BY PieceType, WellFormed
  <2>2. /\ DOMAIN log_buffer' \subseteq Nat
        /\ \A p \in DOMAIN log_buffer' : log_buffer'[p] \in Cell
    BY <1>3
  <2>3. d + n \in Nat /\ 0 \in 0 .. 2 /\ due' = d + n
    BY <1>1, <1>2
  <2>4. /\ log_pos' \in Nat /\ reserved' \in Nat /\ bufflen' \in Nat
        /\ stale' \in BOOLEAN /\ clipped' \in BOOLEAN /\ dropped' \in BOOLEAN
        /\ had' \in Nat /\ entry' \in Entries \cup {NoEntry}
    BY <1>1, Numbers DEF Advanced, Buffer, IndInv, TypeOK
  <2>5. worker' \in WorkerStates
    BY <1>1 DEF WorkerStates
  <2> QED
    BY <1>1, <2>1, <2>2, <2>3, <2>4, <2>5 DEF TypeOK
<1>5. Allocated'
  <2>1. PICK c \in Nat : c = bufflen /\ c >= DEFALT_CACHE_SIZE
    BY Numbers DEF IndInv, Allocated
  <2>2. b >= c
    BY <1>2, <2>1 DEF Advanced, Buffer
  <2>3. b >= DEFALT_CACHE_SIZE
    BY <2>1, <2>2, SizesAssumption
  <2> QED
    BY <1>2, <1>3, <2>3 DEF Allocated
<1>6. Accounting'
  BY <1>1 DEF Advanced, Accounting
<1>7. InStep'
  BY <1>1 DEF Advanced, IndInv, InStep
<1>8. NotReplaced'
  BY DEF Advanced, Buffer, IndInv, NotReplaced
<1>9. Growing'
  BY <1>1 DEF Growing
<1>10. LongLine'
  <2>1. /\ LineSoFar' = due' /\ due' = due + n /\ worker' = "format"
        /\ entry' = entry /\ had' = had
    <3>1. d + n + 0 = d + n
      BY <1>2
    <3> QED
      BY <1>1, <1>2, <3>1 DEF LineSoFar, Advanced, Buffer
  <2>2. stale /\ ~dropped => Long(due + n)
    <3>1. stale /\ ~dropped => Long(LineSoFar)
      BY DEF IndInv, LongLine, Long
    <3>2. CASE worker = "format"
      <4>1. LineSoFar = d
        BY <1>2, <3>2 DEF LineSoFar
      <4> QED
        BY <1>2, <3>1, <4>1, LongStays
    <3>3. CASE worker = "retry"
      BY <3>1, <3>3 DEF LineSoFar
    <3> QED
      BY <3>2, <3>3
  <2>3. clipped /\ ~dropped => Long(due + n)
    BY <1>2, LongStays DEF IndInv, LongLine, Long
  <2>4. ~dropped' => ~dropped
    BY DEF Advanced
  <2>5. (stale' \/ clipped') /\ ~dropped' => Long(due + n)
    BY <2>2, <2>3, <2>4 DEF Advanced
  <2> QED
    BY <2>1, <2>5 DEF LongLine, Long
<1>11. TextInPlace'
  <2>1. ~dropped' /\ ~clipped' =>
          \A p \in 0 .. (d + n) - 1 : log_buffer'[p] = p
    BY <1>2 DEF Advanced
  <2>2. due' = d + n
    BY <1>1, <1>2
  <2> QED
    BY <2>1, <2>2 DEF TextInPlace
<1> QED
  BY <1>4, <1>5, <1>6, <1>7, <1>8, <1>9, <1>10, <1>11 DEF IndInv

\* Undefined behaviour, in a long line or after a string was dropped.
Failed ==
  /\ Fails
  /\ UNCHANGED <<log_buffer, bufflen, entry, pieces, reserved, log_pos, stale,
                 had, growths, clipped>>
  /\ due' \in Nat
  /\ dropped' \in BOOLEAN
  /\ ~dropped' => ~dropped /\ Long(due')

LEMMA FailsKeeps ==
  ASSUME IndInv, worker # "idle", Failed
  PROVE  IndInv'
<1>1. /\ worker' = "undefined"
      /\ UNCHANGED <<log_buffer, bufflen, entry, pieces, reserved, log_pos,
                     stale, had, growths, clipped>>
      /\ due' \in Nat /\ dropped' \in BOOLEAN
      /\ ~dropped' => ~dropped /\ Long(due')
  BY DEF Failed, Fails
<1>2. TypeOK' /\ pieces' \in Seq(Pieces)
  BY <1>1 DEF IndInv, TypeOK, WorkerStates
<1>3. Allocated' /\ Accounting' /\ InStep' /\ NotReplaced'
  BY <1>1 DEF IndInv, Allocated, Accounting, InStep, NotReplaced
<1>4. Growing' /\ TextInPlace'
  BY <1>1 DEF Growing, TextInPlace
<1>5. LongLine'
  <2>1. LineSoFar' = due'
    <3>1. PICK d \in Nat : d = due'
      BY <1>1
    <3>2. d + 0 = d
      OBVIOUS
    <3> QED
      BY <1>1, <3>1, <3>2 DEF LineSoFar
  <2> QED
    BY <1>1, <2>1 DEF LongLine, Long
<1> QED
  BY <1>2, <1>3, <1>4, <1>5 DEF IndInv

\* The assertion stops the program with everything as it is.
LEMMA AssertionFailsKeeps ==
  ASSUME IndInv, AssertionFails
  PROVE  IndInv'
<1>1. /\ worker = "format" /\ worker' = "aborted"
      /\ UNCHANGED <<log_buffer, bufflen, entry, pieces, reserved, log_pos,
                     stale, due, had, growths, clipped, dropped>>
  BY DEF AssertionFails, AtString, At, lineVars
<1>2. TypeOK' /\ pieces' \in Seq(Pieces)
  BY <1>1 DEF IndInv, TypeOK, WorkerStates
<1>3. Allocated' /\ Accounting' /\ InStep' /\ NotReplaced'
  BY <1>1 DEF IndInv, Allocated, Accounting, InStep, NotReplaced
<1>4. Growing' /\ TextInPlace'
  BY <1>1 DEF IndInv, Growing, TextInPlace
<1>5. LongLine'
  BY <1>1 DEF IndInv, LongLine, LineSoFar
<1> QED
  BY <1>2, <1>3, <1>4, <1>5 DEF IndInv

LEMMA DoneKeeps ==
  ASSUME IndInv, Done
  PROVE  IndInv'
<1>1. /\ worker' = "idle" /\ entry' = NoEntry
      /\ pieces' = <<>> /\ bufflen' = bufflen
      /\ reserved' = 0 /\ log_pos' = 0 /\ stale' = FALSE
      /\ due' = 0 /\ had' = bufflen /\ growths' = 0
      /\ clipped' = FALSE /\ dropped' = FALSE
  BY DEF Done
<1>2. log_buffer' \in [0 .. bufflen - 1 -> Cell]
  BY DEF Done, IndInv, Allocated, Cell
<1>3. TypeOK' /\ pieces' \in Seq(Pieces)
  <2>1. <<>> \in Seq([kind : Kinds, len : Nat]) /\ <<>> \in Seq(Pieces)
    OBVIOUS
  <2>2. /\ DOMAIN log_buffer' \subseteq Nat
        /\ \A p \in DOMAIN log_buffer' : log_buffer'[p] \in Cell
    BY <1>2, Numbers
  <2>3. entry' \in Entries \cup {NoEntry} /\ bufflen \in Nat
    BY <1>1, Numbers
  <2>4. worker' \in WorkerStates /\ growths' \in 0 .. 2
    BY <1>1 DEF WorkerStates
  <2>5. /\ bufflen' \in Nat /\ had' \in Nat /\ reserved' \in Nat
        /\ log_pos' \in Nat /\ due' \in Nat
        /\ stale' \in BOOLEAN /\ clipped' \in BOOLEAN /\ dropped' \in BOOLEAN
    BY <1>1, Numbers
  <2> QED
    BY <1>1, <2>1, <2>2, <2>3, <2>4, <2>5 DEF TypeOK
<1>4. Allocated' /\ Accounting' /\ InStep' /\ NotReplaced'
  BY <1>1, <1>2 DEF IndInv, Allocated, Accounting, InStep, NotReplaced
<1>5. Growing' /\ LongLine' /\ TextInPlace'
  BY <1>1 DEF Growing, LongLine, TextInPlace
<1> QED
  BY <1>3, <1>4, <1>5 DEF IndInv

-----------------------------------------------------------------------------
(* The invariant holds initially and in every step. *)

LEMMA InitIndInv == Init => IndInv
<1> SUFFICES ASSUME Init
             PROVE  IndInv
  OBVIOUS
<1>1. log_buffer \in [0 .. bufflen - 1 -> Cell]
  BY DEF Init, Cell
<1>2. /\ DOMAIN log_buffer \subseteq Nat
      /\ \A p \in DOMAIN log_buffer : log_buffer[p] \in Cell
  BY <1>1, SizesAssumption DEF Init
<1>3. <<>> \in Seq([kind : Kinds, len : Nat]) /\ <<>> \in Seq(Pieces)
  OBVIOUS
<1>4. TypeOK /\ pieces \in Seq(Pieces)
  <2>1. bufflen \in Nat /\ had \in Nat /\ entry \in Entries \cup {NoEntry}
    BY SizesAssumption DEF Init
  <2>2. worker \in WorkerStates /\ growths \in 0 .. 2
    BY DEF Init, WorkerStates
  <2>3. /\ reserved \in Nat /\ log_pos \in Nat /\ due \in Nat
        /\ stale \in BOOLEAN /\ clipped \in BOOLEAN /\ dropped \in BOOLEAN
    BY DEF Init
  <2>4. pieces = <<>>
    BY DEF Init
  <2> QED
    BY <1>2, <1>3, <2>1, <2>2, <2>3, <2>4 DEF TypeOK
<1>5. Allocated
  BY <1>1, SizesAssumption DEF Init, Allocated
<1>6. /\ Accounting /\ InStep /\ NotReplaced
      /\ Growing /\ LongLine /\ TextInPlace
  BY DEF Init, Accounting, InStep, NotReplaced, Growing, LongLine, TextInPlace
<1> QED
  BY <1>4, <1>5, <1>6 DEF IndInv

LEMMA FormatTypes ==
  ASSUME NEW f \in Formats
  PROVE  f \in Seq([kind : Kinds, len : Nat]) /\ f \in Seq(Pieces)
<1>1. /\ f \in Seq([kind : Kinds, len : Nat])
      /\ \A k \in DOMAIN f : /\ f[k].kind = "text" => f[k].len = 1
                             /\ f[k].kind = "unsupported" => f[k].len = 0
  BY FormatsAssumption
<1>2. /\ Len(f) \in Nat /\ DOMAIN f = 1 .. Len(f)
      /\ f \in [1 .. Len(f) -> [kind : Kinds, len : Nat]]
  BY <1>1, LenProperties
<1>3. f \in [1 .. Len(f) -> Pieces]
  BY <1>1, <1>2 DEF Pieces
<1>4. f \in Seq(Pieces)
  BY <1>2, <1>3
<1> QED
  BY <1>1, <1>4

LEMMA ProcessLogBufferKeeps ==
  ASSUME IndInv, NEW e \in Entries, ProcessLogBuffer(e)
  PROVE  IndInv'
<1>1. PICK b \in Nat, n \in Nat :
        b = bufflen /\ n = e.prefix /\ n < DEFALT_CACHE_SIZE /\ n <= b
  <2>1. e.prefix \in Nat /\ e.prefix < DEFALT_CACHE_SIZE
    <3>1. e.prefix \in 1 .. DEFALT_CACHE_SIZE - 1
      BY PrefixesAssumption DEF Entries
    <3> QED
      BY <3>1, SizesAssumption
  <2>2. bufflen \in Nat /\ bufflen >= DEFALT_CACHE_SIZE
    BY Numbers DEF IndInv, Allocated
  <2> QED
    BY <2>1, <2>2, SizesAssumption
<1>2. /\ worker' = "format" /\ entry' = e /\ bufflen' = b
      /\ log_pos' = n /\ due' = n /\ reserved' = b - n /\ had' = b
      /\ pieces' = e.format /\ growths' = 0
      /\ stale' = FALSE /\ clipped' = FALSE /\ dropped' = FALSE
  BY <1>1 DEF ProcessLogBuffer, Reserved
<1>3. /\ log_buffer' \in [0 .. b - 1 -> Cell]
      /\ \A p \in 0 .. n - 1 : log_buffer'[p] = p
  <2>1. log_buffer' = [p \in 0 .. b - 1 |-> IF p < n THEN p ELSE OLD]
    BY <1>1 DEF ProcessLogBuffer, WithPrefix, IndInv, Allocated
  <2>2. \A p \in 0 .. n - 1 : p \in 0 .. b - 1 /\ p < n
    BY <1>1
  <2> QED
    BY <2>1, <2>2 DEF Cell
<1>4. b - n \in Nat /\ n + (b - n) = b
  BY <1>1
<1>5. TypeOK' /\ pieces' \in Seq(Pieces)
  <2>1. /\ DOMAIN log_buffer' \subseteq Nat
        /\ \A p \in DOMAIN log_buffer' : log_buffer'[p] \in Cell
    BY <1>3
  <2>2. /\ e.format \in Seq([kind : Kinds, len : Nat])
        /\ e.format \in Seq(Pieces)
    BY FormatTypes DEF Entries
  <2>3. worker' \in WorkerStates /\ growths' \in 0 .. 2
    BY <1>2 DEF WorkerStates
  <2>4. /\ bufflen' \in Nat /\ had' \in Nat /\ reserved' \in Nat
        /\ log_pos' \in Nat /\ due' \in Nat
        /\ stale' \in BOOLEAN /\ clipped' \in BOOLEAN /\ dropped' \in BOOLEAN
    BY <1>2, <1>4
  <2> QED
    BY <1>2, <2>1, <2>2, <2>3, <2>4 DEF TypeOK
<1>6. Allocated'
  BY <1>1, <1>2, <1>3 DEF IndInv, Allocated
<1>7. Accounting' /\ InStep' /\ NotReplaced'
  BY <1>2, <1>4 DEF Accounting, InStep, NotReplaced
<1>8. Growing' /\ LongLine'
  BY <1>2 DEF Growing, LongLine
<1>9. TextInPlace'
  BY <1>2, <1>3 DEF TextInPlace
<1> QED
  BY <1>5, <1>6, <1>7, <1>8, <1>9 DEF IndInv

\* Where a step begins, in numbers that do not change.
LEMMA Here ==
  ASSUME IndInv, worker # "idle"
  PROVE  \E b, r, l, d \in Nat :
           /\ b = bufflen /\ r = reserved /\ l = log_pos /\ d = due
           /\ l + r = b
           /\ log_buffer \in [0 .. b - 1 -> Cell]
           /\ worker # "undefined" /\ ~dropped => l = d
BY Numbers DEF IndInv, Accounting, InStep, Allocated

\* In a buffer that was not replaced, a line that reaches its end is long.
LEMMA ReachesEnd ==
  ASSUME IndInv, ~stale, NEW d \in Nat, d >= bufflen
  PROVE  Long(d)
<1>1. PICK x \in Nat, b \in Nat : x = entry.prefix /\ b = bufflen /\ had = b
  BY Numbers DEF IndInv, NotReplaced
<1>2. x + d >= b
  BY <1>1
<1> QED
  BY <1>1, <1>2 DEF Long

\* A long line so far.
LEMMA LongSoFar ==
  ASSUME IndInv, ~dropped
  PROVE  /\ clipped => Long(due)
         /\ stale /\ worker = "format" => Long(due)
         /\ (stale \/ worker = "grow") /\ worker \in {"grow", "retry"} =>
              Long(due + Piece.len)
<1>1. due + 0 = due
  BY Numbers
<1> QED
  BY <1>1 DEF IndInv, LongLine, LineSoFar, Long

LEMMA PutCharKeeps ==
  ASSUME IndInv, PutChar
  PROVE  IndInv'
<1>1. /\ worker = "format" /\ pieces # <<>>
      /\ Piece.kind = "text" /\ log_pos < bufflen
      /\ log_buffer' = [log_buffer EXCEPT ![log_pos] = due]
      /\ reserved' = reserved - 1 /\ Advance(1)
      /\ UNCHANGED <<bufflen, entry, stale, had, clipped, dropped>>
  BY DEF PutChar, At
<1>2. Piece.len = 1
  BY <1>1, PieceType
<1>3. PICK b, r, l, d \in Nat :
        /\ b = bufflen /\ r = reserved /\ l = log_pos /\ d = due
        /\ l + r = b
        /\ log_buffer \in [0 .. b - 1 -> Cell]
        /\ worker # "undefined" /\ ~dropped => l = d
  BY <1>1, Here
<1>4. /\ l < b /\ r - 1 \in Nat /\ (l + 1) + (r - 1) = b /\ l + 1 \in Nat
  BY <1>1, <1>3
<1>5. log_buffer' = [log_buffer EXCEPT ![l] = d]
  BY <1>1, <1>3
<1>6. Buffer
  <2>1. log_buffer' \in [0 .. b - 1 -> Cell]
    BY <1>3, <1>5 DEF Cell
  <2> QED
    BY <1>1, <1>3, <2>1 DEF IndInv, TypeOK, Buffer
<1>7. ~dropped /\ ~clipped => \A p \in 0 .. (d + 1) - 1 : log_buffer'[p] = p
  <2>1. ~dropped /\ ~clipped => l = d /\ \A p \in 0 .. d - 1 : log_buffer[p] = p
    BY <1>1, <1>3 DEF IndInv, TextInPlace
  <2>2. \A p \in 0 .. (d + 1) - 1 : p = d \/ p \in 0 .. d - 1
    OBVIOUS
  <2>3. l = d => \A p \in 0 .. (d + 1) - 1 : p \in 0 .. b - 1
    BY <1>4
  <2> QED
    BY <1>3, <1>5, <2>1, <2>2, <2>3
<1>8. Advanced(1, 1)
  BY <1>1, <1>3, <1>4, <1>6, <1>7 DEF Advanced
<1> QED
  BY <1>1, <1>2, <1>8, AdvanceKeeps

\* Reading or writing outside: in a long line.
LEMMA PutCharOutsideKeeps ==
  ASSUME IndInv, PutCharOutside
  PROVE  IndInv'
<1>1. /\ worker = "format" /\ due' = due + 1 /\ Fails
      /\ stale \/ log_pos >= bufflen
      /\ UNCHANGED <<log_buffer, bufflen, entry, pieces, reserved, log_pos,
                     stale, had, growths, clipped, dropped>>
  BY DEF PutCharOutside, At
<1>2. PICK b, r, l, d \in Nat :
        /\ b = bufflen /\ r = reserved /\ l = log_pos /\ d = due
        /\ l + r = b
        /\ log_buffer \in [0 .. b - 1 -> Cell]
        /\ worker # "undefined" /\ ~dropped => l = d
  BY <1>1, Here
<1>3. ~dropped => Long(due')
  <2>1. CASE stale
    BY <1>1, <1>2, <2>1, LongSoFar, LongStays
  <2>2. CASE ~stale /\ ~dropped
    <3>1. d + 1 >= b
      BY <1>1, <1>2, <2>2
    <3> QED
      BY <1>1, <1>2, <2>2, <3>1, ReachesEnd
  <2> QED
    BY <2>1, <2>2
<1>4. Failed
  BY <1>1, <1>2, <1>3 DEF Failed, IndInv, TypeOK
<1> QED
  BY <1>1, <1>4, FailsKeeps

LEMMA StaleParamKeeps ==
  ASSUME IndInv, StaleParam
  PROVE  IndInv'
<1>1. /\ worker = "format" /\ stale /\ Fails
      /\ UNCHANGED <<log_buffer, bufflen, entry, pieces, reserved, log_pos,
                     stale, due, had, growths, clipped, dropped>>
  BY DEF StaleParam, At, lineVars
<1>2. Failed
  BY <1>1, LongSoFar, Numbers DEF Failed, IndInv, TypeOK
<1> QED
  BY <1>1, <1>2, FailsKeeps

LEMMA NewlineOutsideKeeps ==
  ASSUME IndInv, NewlineOutside
  PROVE  IndInv'
<1>1. /\ worker = "format" /\ Fails /\ EndOfLine >= bufflen
      /\ UNCHANGED <<log_buffer, bufflen, entry, pieces, reserved, log_pos,
                     stale, due, had, growths, clipped, dropped>>
  BY DEF NewlineOutside, lineVars
<1>2. PICK b, r, l, d \in Nat :
        /\ b = bufflen /\ r = reserved /\ l = log_pos /\ d = due
        /\ l + r = b
        /\ log_buffer \in [0 .. b - 1 -> Cell]
        /\ worker # "undefined" /\ ~dropped => l = d
  BY <1>1, Here
<1>3. ~dropped => Long(due)
  <2>1. CASE stale
    BY <1>1, <2>1, LongSoFar
  <2>2. CASE ~stale /\ ~dropped
    <3>1. PICK x \in Nat : x = entry.prefix /\ had = b
      BY <1>2, <2>2, Numbers DEF IndInv, NotReplaced
    <3>2. x + (b - r) >= b
      BY <1>1, <1>2, <3>1 DEF EndOfLine, ReturnedLength
    <3>3. x + d >= b
      BY <1>1, <1>2, <2>2, <3>2
    <3> QED
      BY <1>2, <3>1, <3>3 DEF Long
  <2> QED
    BY <2>1, <2>2
<1>4. Failed
  BY <1>1, <1>3, Numbers DEF Failed, IndInv, TypeOK
<1> QED
  BY <1>1, <1>4, FailsKeeps

-----------------------------------------------------------------------------
(* The decoders that return. *)

LEMMA NumberFitsKeeps ==
  ASSUME IndInv, NumberFits
  PROVE  IndInv'
<1>1. /\ worker \in {"format", "retry"} /\ pieces # <<>>
      /\ Piece.len < reserved
      /\ log_buffer' = Printed(log_buffer, log_pos, Limit, Piece.len)
      /\ reserved' = reserved - Piece.len /\ Advance(Piece.len)
      /\ UNCHANGED <<bufflen, entry, stale, had, clipped, dropped>>
  BY DEF NumberFits, AtNumber, At, IndInv, Growing
<1>2. PICK b, r, l, d \in Nat :
        /\ b = bufflen /\ r = reserved /\ l = log_pos /\ d = due
        /\ l + r = b
        /\ log_buffer \in [0 .. b - 1 -> Cell]
        /\ worker # "undefined" /\ ~dropped => l = d
  BY <1>1, Here
<1>3. PICK n \in Nat, m \in Nat : n = Piece.len /\ m = Limit /\ n < r /\ n < m
  BY <1>1, <1>2, PieceType DEF Limit
<1>4. /\ log_buffer' \in [0 .. b - 1 -> Cell]
      /\ \A p \in 0 .. b - 1 : p < l => log_buffer'[p] = log_buffer[p]
      /\ \A p \in 0 .. b - 1 :
           p \in l .. l + n - 1 => log_buffer'[p] = d + (p - l)
  <2>1. log_buffer' = Printed(log_buffer, l, m, n)
    BY <1>1, <1>2, <1>3
  <2>2. /\ Printed(log_buffer, l, m, n) \in [0 .. b - 1 -> Cell]
        /\ \A p \in 0 .. b - 1 :
             p < l => Printed(log_buffer, l, m, n)[p] = log_buffer[p]
        /\ \A p \in 0 .. b - 1 :
             p \in l .. l + n - 1 =>
               Printed(log_buffer, l, m, n)[p] = due + (p - l)
    <3>1. due \in Nat /\ log_buffer \in [0 .. b - 1 -> Cell] /\ n < m
      BY <1>2, <1>3
    <3>2. HoldsText(Printed(log_buffer, l, m, n), log_buffer, b, l, m, n)
      BY <3>1, PrintedProperties
    <3> QED
      BY <3>1, <3>2 DEF HoldsText
  <2> QED
    BY <1>2, <2>1, <2>2
<1>5. Buffer
  BY <1>1, <1>2, <1>4 DEF IndInv, TypeOK, Buffer
<1>6. ~dropped /\ ~clipped => \A p \in 0 .. (d + n) - 1 : log_buffer'[p] = p
  <2>1. ~dropped /\ ~clipped => l = d /\ \A p \in 0 .. d - 1 : log_buffer[p] = p
    BY <1>1, <1>2 DEF IndInv, TextInPlace
  <2>2. l = d => \A p \in 0 .. (d + n) - 1 :
          /\ p \in 0 .. b - 1
          /\ \/ p < l /\ p \in 0 .. d - 1
             \/ p \in l .. l + n - 1 /\ d + (p - l) = p
    BY <1>2, <1>3
  <2> QED
    BY <1>4, <2>1, <2>2
<1>7. l + n \in Nat /\ r - n \in Nat /\ (l + n) + (r - n) = b
  <2>1. l + r = b /\ n < r
    BY <1>2, <1>3
  <2> QED
    BY <2>1
<1>8. Advanced(n, n)
  BY <1>1, <1>2, <1>3, <1>5, <1>6, <1>7 DEF Advanced
<1> QED
  BY <1>1, <1>3, <1>8, AdvanceKeeps

LEMMA UnsupportedKeeps ==
  ASSUME IndInv, Unsupported
  PROVE  IndInv'
<1>1. /\ worker = "format" /\ pieces # <<>> /\ Piece.kind = "unsupported"
      /\ Advance(0)
      /\ UNCHANGED <<log_buffer, bufflen, entry, reserved, stale, had, clipped,
                     dropped>>
  BY DEF Unsupported, At
<1>2. Piece.len = 0
  BY <1>1, PieceType
<1>3. PICK b, r, l, d \in Nat :
        /\ b = bufflen /\ r = reserved /\ l = log_pos /\ d = due
        /\ l + r = b
        /\ log_buffer \in [0 .. b - 1 -> Cell]
        /\ worker # "undefined" /\ ~dropped => l = d
  BY <1>1, Here
<1>4. Buffer
  BY <1>1, <1>3 DEF IndInv, TypeOK, Buffer
<1>5. ~dropped /\ ~clipped => \A p \in 0 .. (d + 0) - 1 : log_buffer'[p] = p
  BY <1>1, <1>3 DEF IndInv, TextInPlace
<1>6. l + 0 \in Nat /\ (l + 0) + r = b
  BY <1>3
<1>7. Advanced(0, 0)
  BY <1>1, <1>3, <1>4, <1>5, <1>6 DEF Advanced
<1> QED
  BY <1>1, <1>2, <1>7, AdvanceKeeps

\* A string of exactly reserved characters is clipped, in a long line.
LEMMA StringFitsKeeps ==
  ASSUME IndInv, StringFits
  PROVE  IndInv'
<1>1. /\ worker = "format" /\ pieces # <<>> /\ ~stale
      /\ Piece.len <= reserved
      /\ log_buffer' = Printed(log_buffer, log_pos, reserved, Piece.len)
      /\ clipped' = (clipped \/ (Piece.len = reserved /\ reserved # 0))
      /\ reserved' = reserved - Piece.len /\ Advance(Piece.len)
      /\ UNCHANGED <<bufflen, entry, stale, had, dropped>>
  BY DEF StringFits, AtString, At
<1>2. PICK b, r, l, d \in Nat :
        /\ b = bufflen /\ r = reserved /\ l = log_pos /\ d = due
        /\ l + r = b
        /\ log_buffer \in [0 .. b - 1 -> Cell]
        /\ worker # "undefined" /\ ~dropped => l = d
  BY <1>1, Here
<1>3. PICK n \in Nat : n = Piece.len /\ n <= r
  BY <1>1, <1>2, PieceType
<1>4. /\ log_buffer' \in [0 .. b - 1 -> Cell]
      /\ \A p \in 0 .. b - 1 : p < l => log_buffer'[p] = log_buffer[p]
      /\ n < r => \A p \in 0 .. b - 1 :
           p \in l .. l + n - 1 => log_buffer'[p] = d + (p - l)
  <2>1. log_buffer' = Printed(log_buffer, l, r, n)
    BY <1>1, <1>2, <1>3
  <2>2. /\ Printed(log_buffer, l, r, n) \in [0 .. b - 1 -> Cell]
        /\ \A p \in 0 .. b - 1 :
             p < l => Printed(log_buffer, l, r, n)[p] = log_buffer[p]
        /\ n < r => \A p \in 0 .. b - 1 :
             p \in l .. l + n - 1 =>
               Printed(log_buffer, l, r, n)[p] = due + (p - l)
    <3>1. due \in Nat /\ log_buffer \in [0 .. b - 1 -> Cell]
      BY <1>2
    <3>2. HoldsText(Printed(log_buffer, l, r, n), log_buffer, b, l, r, n)
      BY <3>1, PrintedProperties
    <3> QED
      BY <3>2 DEF HoldsText
  <2> QED
    BY <1>2, <2>1, <2>2
<1>5. Buffer
  BY <1>1, <1>2, <1>4 DEF IndInv, TypeOK, Buffer
<1>6. ~dropped /\ ~clipped' => \A p \in 0 .. (d + n) - 1 : log_buffer'[p] = p
  <2>1. ~dropped /\ ~clipped => l = d /\ \A p \in 0 .. d - 1 : log_buffer[p] = p
    BY <1>1, <1>2 DEF IndInv, TextInPlace
  <2>2. ~clipped' => ~clipped /\ (n < r \/ n = 0)
    <3>1. n < r \/ n = r
      BY <1>3
    <3>2. clipped' = (clipped \/ (n = r /\ r # 0))
      BY <1>1, <1>2, <1>3
    <3> QED
      BY <3>1, <3>2
  <2>3. l = d => \A p \in 0 .. (d + n) - 1 :
          /\ p \in 0 .. b - 1
          /\ \/ p < l /\ p \in 0 .. d - 1
             \/ p \in l .. l + n - 1 /\ d + (p - l) = p /\ n # 0
    BY <1>2, <1>3
  <2> QED
    BY <1>4, <2>1, <2>2, <2>3
<1>7. clipped' /\ ~dropped => clipped \/ Long(d + n)
  <2>1. clipped' /\ ~clipped => n = r
    BY <1>1, <1>2, <1>3
  <2>2. n = r /\ ~dropped => d + n \in Nat /\ d + n >= b
    BY <1>1, <1>2
  <2> QED
    BY <1>1, <1>2, <2>1, <2>2, ReachesEnd
<1>8. l + n \in Nat /\ r - n \in Nat /\ (l + n) + (r - n) = b
  <2>1. l + r = b /\ n <= r
    BY <1>2, <1>3
  <2> QED
    BY <2>1
<1>9. Advanced(n, n)
  BY <1>1, <1>2, <1>3, <1>5, <1>6, <1>7, <1>8 DEF Advanced
<1> QED
  BY <1>1, <1>3, <1>9, AdvanceKeeps

\* The new buffer ends right behind the string and its terminator.
LEMMA GrowForStringKeeps ==
  ASSUME IndInv, GrowForString
  PROVE  IndInv'
<1>1. /\ worker = "format" /\ pieces # <<>> /\ ~stale
      /\ Piece.len > reserved
      /\ bufflen' = StringSize(Piece.len)
      /\ log_buffer' = Printed(Copied(bufflen', log_pos), log_pos,
                               Piece.len + 1, Piece.len)
      /\ reserved' = (bufflen' - bufflen + reserved) - Piece.len
      /\ stale' = TRUE /\ Advance(Piece.len)
      /\ UNCHANGED <<entry, had, clipped, dropped>>
  BY DEF GrowForString, AtString, At
<1>2. PICK b, r, l, d \in Nat :
        /\ b = bufflen /\ r = reserved /\ l = log_pos /\ d = due
        /\ l + r = b
        /\ log_buffer \in [0 .. b - 1 -> Cell]
        /\ worker # "undefined" /\ ~dropped => l = d
  BY <1>1, Here
<1>3. PICK n \in Nat : n = Piece.len /\ n > r
  BY <1>1, <1>2, PieceType
<1>4. PICK s \in Nat : s = bufflen' /\ s = l + n + 1 /\ s >= b /\ l <= b
  <2>1. l + r = b /\ n > r
    BY <1>2, <1>3
  <2>2. n + 1 + b - r = l + n + 1 /\ l + n + 1 >= b /\ l <= b
    BY <2>1
  <2>3. bufflen' = n + 1 + b - r
    BY <1>1, <1>2, <1>3 DEF StringSize
  <2> QED
    BY <2>2, <2>3
<1>5. reserved' = 1
  <2>1. l + r = b
    BY <1>2
  <2>2. (l + n + 1 - b + r) - n = 1
    BY <2>1
  <2>3. reserved' = (s - b + r) - n
    BY <1>1, <1>2, <1>3, <1>4
  <2>4. s = l + n + 1
    BY <1>4
  <2> QED
    BY <2>2, <2>3, <2>4
<1>6. PICK c \in [0 .. s - 1 -> Cell] :
        /\ c = Copied(s, l)
        /\ \A p \in 0 .. s - 1 : p < l => c[p] = log_buffer[p]
  BY <1>2, <1>4, CopiedProperties DEF IndInv
<1>7. /\ log_buffer' \in [0 .. s - 1 -> Cell]
      /\ \A p \in 0 .. s - 1 : p < l => log_buffer'[p] = c[p]
      /\ \A p \in 0 .. s - 1 :
           p \in l .. l + n - 1 => log_buffer'[p] = d + (p - l)
  <2>1. log_buffer' = Printed(c, l, n + 1, n)
    BY <1>1, <1>2, <1>3, <1>4, <1>6
  <2>2. n + 1 \in Nat /\ n < n + 1
    OBVIOUS
  <2>3. /\ Printed(c, l, n + 1, n) \in [0 .. s - 1 -> Cell]
        /\ \A p \in 0 .. s - 1 : p < l => Printed(c, l, n + 1, n)[p] = c[p]
        /\ \A p \in 0 .. s - 1 :
             p \in l .. l + n - 1 => Printed(c, l, n + 1, n)[p] = due + (p - l)
    <3>1. due \in Nat
      BY <1>2
    <3>2. PICK z \in Nat : z = n + 1 /\ n < z
      BY <2>2
    <3>3. /\ Printed(c, l, z, n) \in [0 .. s - 1 -> Cell]
          /\ \A p \in 0 .. s - 1 : p < l => Printed(c, l, z, n)[p] = c[p]
          /\ \A p \in 0 .. s - 1 :
               p \in l .. l + n - 1 => Printed(c, l, z, n)[p] = due + (p - l)
      <4>1. n < z
        BY <3>2
      <4>2. HoldsText(Printed(c, l, z, n), c, s, l, z, n)
        BY <3>1, PrintedProperties
      <4> QED
        BY <4>1, <4>2 DEF HoldsText
    <3> QED
      BY <3>2, <3>3
  <2> QED
    BY <1>2, <2>1, <2>3
<1>8. Buffer
  BY <1>1, <1>2, <1>4, <1>7 DEF IndInv, TypeOK, Buffer
<1>9. ~dropped /\ ~clipped => \A p \in 0 .. (d + n) - 1 : log_buffer'[p] = p
  <2>1. ~dropped /\ ~clipped => l = d /\ \A p \in 0 .. d - 1 : log_buffer[p] = p
    BY <1>1, <1>2 DEF IndInv, TextInPlace
  <2>2. l = d => \A p \in 0 .. (d + n) - 1 :
          /\ p \in 0 .. s - 1
          /\ \/ p < l /\ p \in 0 .. d - 1
             \/ p \in l .. l + n - 1 /\ d + (p - l) = p
    BY <1>4
  <2> QED
    BY <1>6, <1>7, <2>1, <2>2
<1>10. ~dropped => Long(d + n)
  <2>1. ~dropped => d + n \in Nat /\ d + n >= b
    BY <1>1, <1>2, <1>3
  <2> QED
    BY <1>1, <1>2, <2>1, ReachesEnd
<1>11. l + n \in Nat /\ (l + n) + 1 = s
  BY <1>4
<1>12. Advanced(n, n)
  <2>1. /\ l = log_pos /\ d = due /\ n = Piece.len /\ s = bufflen'
    BY <1>2, <1>3, <1>4
  <2>2. 1 \in Nat
    OBVIOUS
  <2> QED
    BY <1>1, <1>5, <1>8, <1>9, <1>10, <1>11, <2>1, <2>2 DEF Advanced
<1> QED
  BY <1>1, <1>3, <1>12, AdvanceKeeps

LEMMA DropStringKeeps ==
  ASSUME IndInv, DropString
  PROVE  IndInv'
<1>1. /\ worker = "format" /\ pieces # <<>> /\ log_pos > 0
      /\ \/ UNCHANGED log_buffer
         \/ log_buffer' = Printed(log_buffer, log_pos, reserved, Piece.len)
      /\ reserved' = reserved + 1 /\ dropped' = TRUE /\ Advance(-1)
      /\ UNCHANGED <<bufflen, entry, stale, had, clipped>>
  BY DEF DropString, AtString, At
<1>2. PICK b, r, l, d \in Nat :
        /\ b = bufflen /\ r = reserved /\ l = log_pos /\ d = due
        /\ l + r = b
        /\ log_buffer \in [0 .. b - 1 -> Cell]
        /\ worker # "undefined" /\ ~dropped => l = d
  BY <1>1, Here
<1>3. PICK n \in Nat : n = Piece.len
  BY <1>1, PieceType
<1>4. log_buffer' \in [0 .. b - 1 -> Cell]
  <2>1. Printed(log_buffer, l, r, n) \in [0 .. b - 1 -> Cell]
    BY <1>2, PrintedProperties DEF HoldsText
  <2> QED
    BY <1>1, <1>2, <1>3, <2>1
<1>5. Buffer
  BY <1>1, <1>2, <1>4 DEF IndInv, TypeOK, Buffer
<1>6. l + (-1) \in Nat /\ r + 1 \in Nat /\ (l + (-1)) + (r + 1) = b
  BY <1>1, <1>2
<1>7. Advanced(-1, n)
  BY <1>1, <1>2, <1>5, <1>6 DEF Advanced
<1> QED
  BY <1>1, <1>3, <1>7, AdvanceKeeps

LEMMA DropBeforeBufferKeeps ==
  ASSUME IndInv, DropBeforeBuffer
  PROVE  IndInv'
<1>1. /\ worker = "format" /\ Fails /\ dropped' = TRUE
      /\ UNCHANGED <<log_buffer, bufflen, entry, pieces, reserved, log_pos,
                     stale, due, had, growths, clipped>>
  BY DEF DropBeforeBuffer, AtString, At
<1>2. Failed
  BY <1>1, Numbers DEF Failed
<1> QED
  BY <1>1, <1>2, FailsKeeps

-----------------------------------------------------------------------------
(* The steps within a piece, and the newline. *)

\* The position and the text that is due stay where they are.
Held ==
  /\ UNCHANGED <<entry, pieces, log_pos, due, had, clipped, dropped>>
  /\ worker' \in {"grow", "retry", "failed", "line"}
  /\ bufflen' \in Nat /\ bufflen' >= bufflen
  /\ log_buffer' \in [0 .. bufflen' - 1 -> Cell]
  /\ reserved' \in Nat /\ log_pos + reserved' = bufflen'
  /\ stale' \in BOOLEAN /\ growths' \in 0 .. 2
  /\ ~stale' => ~stale /\ bufflen' = bufflen
  /\ ~dropped /\ ~clipped => \A p \in 0 .. due - 1 : log_buffer'[p] = p

LEMMA HeldKeeps ==
  ASSUME IndInv, worker \notin {"idle", "undefined"}, Held, Growing', LongLine'
  PROVE  IndInv'
<1>1. TypeOK' /\ pieces' \in Seq(Pieces)
  <2>1. /\ DOMAIN log_buffer' \subseteq Nat
        /\ \A p \in DOMAIN log_buffer' : log_buffer'[p] \in Cell
    <3>1. PICK b \in Nat : b = bufflen'
      BY DEF Held
    <3>2. log_buffer' \in [0 .. b - 1 -> Cell]
      BY <3>1 DEF Held
    <3> QED
      BY <3>2
  <2>2. /\ bufflen' \in Nat /\ reserved' \in Nat /\ stale' \in BOOLEAN
        /\ growths' \in 0 .. 2 /\ worker' \in WorkerStates
    BY DEF Held, WorkerStates
  <2>3. UNCHANGED <<entry, pieces, log_pos, due, had, clipped, dropped>>
    BY DEF Held
  <2> QED
    BY <2>1, <2>2, <2>3 DEF IndInv, TypeOK
<1>2. Allocated'
  <2>1. PICK b \in Nat, c \in Nat : b = bufflen' /\ c = bufflen
    BY Numbers DEF Held
  <2>2. b >= c /\ c >= DEFALT_CACHE_SIZE
    BY <2>1 DEF Held, IndInv, Allocated
  <2>3. b >= DEFALT_CACHE_SIZE
    BY <2>1, <2>2, SizesAssumption
  <2> QED
    BY <2>1, <2>3 DEF Held, Allocated
<1>3. Accounting' /\ InStep' /\ NotReplaced'
  BY DEF Held, IndInv, Accounting, InStep, NotReplaced
<1>4. TextInPlace'
  BY DEF Held, TextInPlace
<1> QED
  BY <1>1, <1>2, <1>3, <1>4 DEF IndInv

\* After a retry only an empty text does not fit; before it, the line reaches
\* the end of the buffer that it began in.
LEMMA NumberDoesNotFitKeeps ==
  ASSUME IndInv, NumberDoesNotFit
  PROVE  IndInv'
<1>1. /\ (worker = "format" /\ ~stale) \/ worker = "retry"
      /\ pieces # <<>>
      /\ Piece.len >= reserved
      /\ \/ /\ log_buffer' = Printed(log_buffer, log_pos, Limit, Piece.len)
            /\ worker' = "grow" /\ due' = due
         \/ /\ due' = due + Piece.len /\ Fails
            /\ log_buffer' = log_buffer
      /\ UNCHANGED <<bufflen, entry, pieces, reserved, log_pos, stale, had,
                     growths, clipped, dropped>>
  BY DEF NumberDoesNotFit, AtNumber, At, IndInv, Growing
<1>2. PICK b, r, l, d \in Nat :
        /\ b = bufflen /\ r = reserved /\ l = log_pos /\ d = due
        /\ l + r = b
        /\ log_buffer \in [0 .. b - 1 -> Cell]
        /\ worker # "undefined" /\ ~dropped => l = d
  BY <1>1, Here
<1>3. PICK n \in Nat : n = Piece.len /\ n >= r
  BY <1>1, <1>2, PieceType
<1>4. PICK m \in Nat : m = Limit
  BY <1>2 DEF Limit
<1>5. ~dropped => Long(d + n)
  <2>1. CASE worker = "retry"
    BY <1>2, <1>3, <2>1, LongSoFar DEF IndInv, Growing
  <2>2. CASE worker = "format" /\ ~stale
    <3>1. ~dropped => d + n \in Nat /\ d + n >= b
      BY <1>2, <1>3, <2>2
    <3> QED
      BY <1>2, <2>2, <3>1, ReachesEnd
  <2> QED
    BY <1>1, <2>1, <2>2
<1>6. worker = "retry" => n = 0
  <2>1. worker = "retry" => r = 2 * n
    BY <1>2, <1>3 DEF IndInv, Growing
  <2> QED
    BY <1>3, <2>1
<1>7. CASE worker' = "grow"
  <2>1. log_buffer' = Printed(log_buffer, l, m, n) /\ due' = due
    BY <1>1, <1>2, <1>3, <1>4, <1>7 DEF Fails
  <2>2. /\ log_buffer' \in [0 .. b - 1 -> Cell]
        /\ \A p \in 0 .. b - 1 : p < l => log_buffer'[p] = log_buffer[p]
    <3>1. due \in Nat /\ log_buffer \in [0 .. b - 1 -> Cell]
      BY <1>2
    <3>2. HoldsText(Printed(log_buffer, l, m, n), log_buffer, b, l, m, n)
      BY <3>1, PrintedProperties
    <3> QED
      BY <2>1, <3>2 DEF HoldsText
  <2>3. ~dropped /\ ~clipped => \A p \in 0 .. d - 1 : log_buffer'[p] = p
    <3>1. ~dropped /\ ~clipped =>
            l = d /\ \A p \in 0 .. d - 1 : log_buffer[p] = p
      BY <1>1, <1>2 DEF IndInv, TextInPlace
    <3>2. l = d => \A p \in 0 .. d - 1 : p \in 0 .. b - 1 /\ p < l
      BY <1>2
    <3> QED
      BY <2>2, <3>1, <3>2
  <2>4. Held
    BY <1>1, <1>2, <1>7, <2>1, <2>2, <2>3 DEF Held, IndInv, TypeOK
  <2>5. Growing'
    <3>1. growths = 0 \/ n = 0
      BY <1>1, <1>6 DEF IndInv, Growing
    <3>2. stale => n = 0
      BY <1>1, <1>6
    <3>3. Piece' = Piece
      BY <1>1 DEF Piece
    <3> QED
      BY <1>1, <1>3, <1>7, <3>1, <3>2, <3>3 DEF Growing
  <2>6. LongLine'
    <3>1. ~dropped => (clipped => Long(d))
      BY <1>2, LongSoFar
    <3>2. LineSoFar' = d + n
      BY <1>1, <1>2, <1>3, <1>7, <2>1 DEF LineSoFar, Piece
    <3> QED
      BY <1>1, <1>2, <1>5, <1>7, <2>1, <3>1, <3>2 DEF LongLine, Long
  <2> QED
    BY <1>1, <2>4, <2>5, <2>6, HeldKeeps
<1>8. CASE worker' # "grow"
  <2>1. due' = d + n /\ Fails /\ log_buffer' = log_buffer
    BY <1>1, <1>2, <1>3, <1>8
  <2>2. Failed
    BY <1>1, <1>2, <1>5, <2>1 DEF Failed, IndInv, TypeOK
  <2> QED
    BY <1>1, <2>2, FailsKeeps
<1> QED
  BY <1>7, <1>8

\* Twice the text behind log_pos.
LEMMA ResizeLogBufferKeeps ==
  ASSUME IndInv, ResizeLogBuffer
  PROVE  IndInv'
<1>1. /\ worker = "grow"
      /\ bufflen' = NewSize(Piece.len)
      /\ log_buffer' = Copied(bufflen', bufflen)
      /\ reserved' = bufflen' - log_pos
      /\ stale' = TRUE
      /\ growths' = IF growths < 2 THEN growths + 1 ELSE growths
      /\ worker' = "retry"
      /\ UNCHANGED <<entry, pieces, log_pos, due, had, clipped, dropped>>
  BY DEF ResizeLogBuffer
<1>2. PICK b, r, l, d \in Nat :
        /\ b = bufflen /\ r = reserved /\ l = log_pos /\ d = due
        /\ l + r = b
        /\ log_buffer \in [0 .. b - 1 -> Cell]
        /\ worker # "undefined" /\ ~dropped => l = d
  BY <1>1, Here
<1>3. pieces # <<>>
  BY <1>1 DEF IndInv, Growing
<1>4. PICK n \in Nat : n = Piece.len /\ n >= r
  BY <1>1, <1>2, <1>3, PieceType DEF IndInv, Growing
<1>5. PICK s \in Nat : s = bufflen' /\ s = 2 * n + l /\ s >= b /\ reserved' = 2 * n
  <2>1. l + r = b /\ n >= r
    BY <1>2, <1>4
  <2>2. /\ 2 * n + b - r = 2 * n + l /\ 2 * n + l >= b
        /\ 2 * n + l \in Nat /\ (2 * n + l) - l = 2 * n
    BY <2>1
  <2>3. bufflen' = 2 * n + b - r
    BY <1>1, <1>2, <1>4 DEF NewSize
  <2> QED
    BY <1>1, <1>2, <2>2, <2>3
<1>6. /\ log_buffer' \in [0 .. s - 1 -> Cell]
      /\ \A p \in 0 .. s - 1 : p < b => log_buffer'[p] = log_buffer[p]
  <2>1. log_buffer' = Copied(s, b)
    BY <1>1, <1>2, <1>5
  <2>2. /\ Copied(s, b) \in [0 .. s - 1 -> Cell]
        /\ \A p \in 0 .. s - 1 : p < b => Copied(s, b)[p] = log_buffer[p]
    <3>1. b <= b /\ b <= bufflen /\ bufflen \in Nat
      BY <1>2
    <3> QED
      BY <3>1, CopiedProperties DEF IndInv
  <2> QED
    BY <2>1, <2>2
<1>7. ~dropped /\ ~clipped => \A p \in 0 .. d - 1 : log_buffer'[p] = p
  <2>1. ~dropped /\ ~clipped => l = d /\ \A p \in 0 .. d - 1 : log_buffer[p] = p
    BY <1>1, <1>2 DEF IndInv, TextInPlace
  <2>2. l = d => \A p \in 0 .. d - 1 : p \in 0 .. s - 1 /\ p < b
    BY <1>2, <1>5
  <2> QED
    BY <1>6, <2>1, <2>2
<1>8. growths' \in 0 .. 2
  BY <1>1 DEF IndInv, TypeOK
<1>9. 2 * n \in Nat /\ l + 2 * n = s
  BY <1>5
<1>10. Held
  BY <1>1, <1>2, <1>5, <1>6, <1>7, <1>8, <1>9 DEF Held
<1>11. Growing'
  <2>1. Piece' = Piece
    BY <1>1 DEF Piece
  <2> QED
    BY <1>1, <1>3, <1>4, <1>5, <2>1 DEF Growing
<1>12. LongLine'
  <2>1. ~dropped => (clipped => Long(d)) /\ Long(d + n)
    BY <1>1, <1>2, <1>4, LongSoFar
  <2>2. LineSoFar' = d + n
    BY <1>1, <1>2, <1>4 DEF LineSoFar, Piece
  <2> QED
    BY <1>1, <1>2, <2>1, <2>2 DEF LongLine, Long
<1> QED
  BY <1>1, <1>10, <1>11, <1>12, HeldKeeps

LEMMA ResizeFailsKeeps ==
  ASSUME IndInv, ResizeFails
  PROVE  IndInv'
<1>1. /\ worker = "grow" /\ worker' = "failed"
      /\ UNCHANGED <<log_buffer, bufflen, entry, pieces, reserved, log_pos,
                     stale, due, had, growths, clipped, dropped>>
  BY DEF ResizeFails, lineVars
<1>2. PICK b, r, l, d \in Nat :
        /\ b = bufflen /\ r = reserved /\ l = log_pos /\ d = due
        /\ l + r = b
        /\ log_buffer \in [0 .. b - 1 -> Cell]
        /\ worker # "undefined" /\ ~dropped => l = d
  BY <1>1, Here
<1>3. Held
  BY <1>1, <1>2 DEF Held, IndInv, TypeOK, TextInPlace
<1>4. Growing'
  BY <1>1 DEF Growing
<1>5. LongLine'
  <2>1. ~dropped => (clipped => Long(d)) /\ (stale => Long(d))
    <3>1. stale => Piece.len = 0
      BY <1>1 DEF IndInv, Growing
    <3>2. d + 0 = d
      BY <1>2
    <3> QED
      BY <1>1, <1>2, <3>1, <3>2, LongSoFar
  <2>2. LineSoFar' = d
    BY <1>1, <1>2 DEF LineSoFar
  <2> QED
    BY <1>1, <1>2, <2>1, <2>2 DEF LongLine, Long
<1> QED
  BY <1>1, <1>3, <1>4, <1>5, HeldKeeps

\* The newline is not before the end of the text.
LEMMA PutNewlineKeeps ==
  ASSUME IndInv, PutNewline
  PROVE  IndInv'
<1>1. /\ worker = "format" /\ EndOfLine < bufflen
      /\ log_buffer' = [log_buffer EXCEPT ![EndOfLine] = NEWLINE]
      /\ worker' = "line"
      /\ UNCHANGED <<bufflen, entry, pieces, reserved, log_pos, stale, due, had,
                     growths, clipped, dropped>>
  BY DEF PutNewline, lineVars
<1>2. PICK b, r, l, d \in Nat :
        /\ b = bufflen /\ r = reserved /\ l = log_pos /\ d = due
        /\ l + r = b
        /\ log_buffer \in [0 .. b - 1 -> Cell]
        /\ worker # "undefined" /\ ~dropped => l = d
  BY <1>1, Here
<1>3. PICK x \in Nat, e \in Nat : x = entry.prefix /\ e = EndOfLine /\ e = x + l
  BY <1>2, Numbers DEF EndOfLine, ReturnedLength
<1>4. log_buffer' = [log_buffer EXCEPT ![e] = NEWLINE]
  BY <1>1, <1>3
<1>5. ~dropped /\ ~clipped => \A p \in 0 .. d - 1 : log_buffer'[p] = p
  <2>1. ~dropped /\ ~clipped => l = d /\ \A p \in 0 .. d - 1 : log_buffer[p] = p
    BY <1>1, <1>2 DEF IndInv, TextInPlace
  <2>2. l = d => \A p \in 0 .. d - 1 : p \in 0 .. b - 1 /\ p # e
    BY <1>2, <1>3
  <2> QED
    BY <1>2, <1>4, <2>1, <2>2
<1>6. log_buffer' \in [0 .. b - 1 -> Cell]
  BY <1>2, <1>4 DEF Cell
<1>7. Held
  BY <1>1, <1>2, <1>5, <1>6 DEF Held, IndInv, TypeOK
<1>8. Growing'
  BY <1>1 DEF Growing
<1>9. LongLine'
  <2>1. ~dropped => (clipped => Long(d)) /\ (stale => Long(d))
    BY <1>1, <1>2, LongSoFar
  <2>2. LineSoFar' = d
    BY <1>1, <1>2 DEF LineSoFar
  <2> QED
    BY <1>1, <1>2, <2>1, <2>2 DEF LongLine, Long
<1> QED
  BY <1>1, <1>7, <1>8, <1>9, HeldKeeps

LEMMA NextIndInv ==
  ASSUME IndInv, [Next]_vars
  PROVE  IndInv'
<1>1. CASE UNCHANGED vars
  <2>1. UNCHANGED <<log_buffer, bufflen, worker, entry, pieces, reserved,
                    log_pos, stale, due, had, growths, clipped, dropped>>
    BY <1>1 DEF vars, lineVars
  <2>2. TypeOK' /\ pieces' \in Seq(Pieces)
    BY <2>1 DEF IndInv, TypeOK
  <2>3. Allocated' /\ Accounting' /\ InStep' /\ NotReplaced'
    BY <2>1 DEF IndInv, Allocated, Accounting, InStep, NotReplaced
  <2>4. Growing' /\ LongLine' /\ TextInPlace'
    <3>1. Piece' = Piece /\ LineSoFar' = LineSoFar
      BY <2>1 DEF Piece, LineSoFar
    <3> QED
      BY <2>1, <3>1 DEF IndInv, Growing, LongLine, TextInPlace
  <2> QED
    BY <2>2, <2>3, <2>4 DEF IndInv
<1>2. ASSUME NEW e \in Entries, ProcessLogBuffer(e)
      PROVE  IndInv'
  BY <1>2, ProcessLogBufferKeeps
<1>3. CASE FormatPiece
  BY <1>3, PutCharKeeps, PutCharOutsideKeeps, StaleParamKeeps, NumberFitsKeeps,
     NumberDoesNotFitKeeps, ResizeLogBufferKeeps, ResizeFailsKeeps,
     UnsupportedKeeps, AssertionFailsKeeps, StringFitsKeeps,
     GrowForStringKeeps, DropStringKeeps, DropBeforeBufferKeeps
  DEF FormatPiece
<1>4. CASE PutNewline \/ NewlineOutside
  BY <1>4, PutNewlineKeeps, NewlineOutsideKeeps
<1>5. CASE WriteLine \/ KeepEntry
  BY <1>5, DoneKeeps DEF WriteLine, KeepEntry
<1> QED
  BY <1>1, <1>2, <1>3, <1>4, <1>5 DEF Next, NotModelled

\* The inductive invariant of the formatting of lines.
THEOREM Invariance == Spec => []IndInv
BY InitIndInv, NextIndInv, PTL DEF Spec

-----------------------------------------------------------------------------
(* What follows from it. *)

\* Every variable keeps its type: no offset becomes negative, and every byte
\* of the buffer is a character of the line or a mark.
THEOREM TypeCorrect == Spec => []TypeOK
<1>1. IndInv => TypeOK
  BY DEF IndInv
<1> QED
  BY <1>1, Invariance, PTL

\* reserved is what is left behind log_pos, over all replacements of the buffer
\* by decodeNonStringFmt and decodeStringFmt.
THEOREM AccountingCorrect == Spec => []AccountingHolds
<1>1. IndInv => AccountingHolds
  BY DEF IndInv, Accounting, AccountingHolds, Formatting
<1> QED
  BY <1>1, Invariance, PTL

\* bufflen_ is the size of the block log_buffer_ points to, also after a malloc
\* that returned NULL.
THEOREM LengthCorrect == Spec => []LengthIsAllocated
<1>1. IndInv => LengthIsAllocated
  BY DEF IndInv, Allocated, LengthIsAllocated
<1> QED
  BY <1>1, Invariance, PTL

\* decodeNonStringFmt grows the buffer at most once for a parameter that has a
\* text: after resize_log_buffer it fits.
THEOREM GrowsAtMostOnce == Spec => []GrowsOnce
<1>1. IndInv => GrowsOnce
  BY DEF IndInv, Growing, GrowsOnce
<1> QED
  BY <1>1, Invariance, PTL

\* As long as no string is dropped for lack of memory, only a line that nearly
\* fills the buffer (its prefix counted twice) is clipped, leaves log_pos
\* dangling or is written outside the buffer.
THEOREM ShortLinesAreSafe == Spec => []OnlyLongLinesFail
<1>1. IndInv => OnlyLongLinesFail
  <2> SUFFICES ASSUME IndInv, worker = "undefined" \/ stale \/ clipped, ~dropped
               PROVE  entry.prefix + LineSoFar >= had
    BY DEF OnlyLongLinesFail
  <2>1. CASE worker = "grow" \/ stale
    BY <2>1 DEF IndInv, LongLine
  <2>2. CASE worker # "grow" /\ ~stale
    <3>1. worker # "retry"
      BY <2>2 DEF IndInv, Growing
    <3>2. LineSoFar = due
      <4>1. due + 0 = due
        BY Numbers
      <4> QED
        BY <2>2, <3>1, <4>1 DEF LineSoFar
    <3> QED
      BY <2>2, <3>2 DEF IndInv, LongLine
  <2> QED
    BY <2>1, <2>2
<1> QED
  BY <1>1, Invariance, PTL

\* What write() gets begins with the prefix and the whole text in order, unless
\* a string was clipped or dropped.
THEOREM TextIsWritten == Spec => []WrittenBeginsWithText
<1>1. IndInv => WrittenBeginsWithText
  <2> SUFFICES ASSUME IndInv, worker = "line", ~clipped, ~dropped
               PROVE  /\ EndOfLine >= due
                      /\ \A p \in 0 .. due - 1 : log_buffer[p] = p
    BY DEF WrittenBeginsWithText
  <2>1. \A p \in 0 .. due - 1 : log_buffer[p] = p
    BY DEF IndInv, TextInPlace
  <2>2. PICK b, r, l, d \in Nat :
          /\ b = bufflen /\ r = reserved /\ l = log_pos /\ d = due
          /\ l + r = b
          /\ log_buffer \in [0 .. b - 1 -> Cell]
          /\ worker # "undefined" /\ ~dropped => l = d
    BY Here
  <2>3. PICK x \in Nat : x = entry.prefix
    BY Numbers
  <2>4. x + (b - r) >= d
    BY <2>2, <2>3
  <2> QED
    BY <2>1, <2>2, <2>3, <2>4 DEF EndOfLine, ReturnedLength
<1> QED
  BY <1>1, Invariance, PTL

=============================================================================
