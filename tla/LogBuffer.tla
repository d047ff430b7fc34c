------------------------------ MODULE LogBuffer ------------------------------
(***************************************************************************)
(* How the worker makes a line of text from an entry, in log_buffer_: the  *)
(* prefix, then one piece of the format after the other (process_fmt with  *)
(* decodeStringFmt and decodeNonStringFmt), a newline, and write().  The   *)
(* log buffer is replaced by a larger one when a parameter does not fit.   *)
(*                                                                         *)
(* A byte of the buffer is the offset in the line of the character that    *)
(* was meant to be there, or a mark.  Of a piece only its kind and the     *)
(* length of its text are kept.  Offsets count from log_buffer_; log_pos   *)
(* is the only pointer that is not computed afresh, and stale says that it *)
(* points into a buffer that was freed.                                    *)
(*                                                                         *)
(* A build with assertions stops at the one of decodeStringFmt; one with   *)
(* NDEBUG goes on.  Both are steps.                                        *)
(*                                                                         *)
(* Where the code reads or writes through a pointer that is not into its   *)
(* block, the worker goes to the state "undefined", of which nothing is    *)
(* said; only a snprintf that writes behind the buffer may also go         *)
(* unnoticed, as the bytes behind a large block often belong to nobody.    *)
(***************************************************************************)
EXTENDS Integers, Sequences

CONSTANTS
  DEFALT_CACHE_SIZE,         \* bytes of the first log buffer
  DEFAULT_PARAM_CACHE_SIZE,  \* strings from this size on are copied to the heap
  Prefixes,                  \* the lengths of the prefixes of the statements
  Formats,                   \* the formats, as sequences of pieces
  MallocMayFail,             \* whether malloc may return NULL
  MaxBuffer                  \* bound: no line begins in a longer log buffer

\* A character of the format (or a "%%"), "%c", another number, "%s", and a
\* specifier that no case of decodeNonStringFmt handles.
Kinds == {"text", "char", "value", "string", "unsupported"}

ASSUME SizesAssumption ==
  DEFALT_CACHE_SIZE \in Nat /\ DEFAULT_PARAM_CACHE_SIZE \in Nat
ASSUME PrefixesAssumption == Prefixes \subseteq 1 .. DEFALT_CACHE_SIZE - 1
ASSUME FormatsAssumption ==
  \A f \in Formats :
    /\ f \in Seq([kind : Kinds, len : Nat])
    /\ \A k \in DOMAIN f : /\ f[k].kind = "text" => f[k].len = 1
                           /\ f[k].kind = "unsupported" => f[k].len = 0
ASSUME MallocAssumption == MallocMayFail \in BOOLEAN
ASSUME BoundAssumption == MaxBuffer \in Nat

VARIABLES
  log_buffer, bufflen,   \* log_buffer_, as the bytes it points to; bufflen_
  worker,                \* the control state
  entry,                 \* the entry that is being formatted
  pieces,                \* what is left of its format
  reserved, log_pos,     \* locals of process_fmt
  stale,                 \* whether log_pos points into a freed buffer
  \* history, of this line: the characters it should have so far, bufflen_ when
  \* it began, how often this parameter made the buffer grow, whether a string
  \* lost its last character, whether one was left out for lack of memory
  due, had, growths, clipped, dropped

lineVars == <<due, had, growths, clipped, dropped>>
vars == <<log_buffer, bufflen, worker, entry, pieces, reserved, log_pos,
          stale, lineVars>>

\* Bytes that are no character of the line.
NUL == -1
NEWLINE == -2
OLD == -3    \* left over from an earlier line, or never written
Cell == Nat \cup {NUL, NEWLINE, OLD}

NoEntry == [prefix |-> 0, format |-> <<>>]

Init ==
  /\ bufflen = DEFALT_CACHE_SIZE
  /\ log_buffer = [p \in 0 .. DEFALT_CACHE_SIZE - 1 |-> OLD]
  /\ worker = "idle" /\ entry = NoEntry /\ pieces = <<>>
  /\ reserved = 0 /\ log_pos = 0 /\ stale = FALSE
  /\ due = 0 /\ had = DEFALT_CACHE_SIZE /\ growths = 0
  /\ clipped = FALSE /\ dropped = FALSE

\* The prefix has the length that generateTimePrefix and generateCallInfoPrefix
\* return together; behind it, the buffer holds what earlier lines left there.
WithPrefix(n) == [p \in DOMAIN log_buffer |-> IF p < n THEN p ELSE OLD]

\* processLogBuffer, and the head of process_fmt.  The entry may be one that was
\* kept in its staging buffer, at once or behind entries of other threads.
StaleReserved(start_pos) == reserved - start_pos      \* mutated: not reset
PrefixForgotten(start_pos) == bufflen                 \* mutated: whole buffer
Reserved(start_pos) == bufflen - start_pos

ProcessLogBuffer(e) ==
  /\ worker = "idle"
  /\ bufflen <= MaxBuffer
  /\ entry' = e
  /\ log_buffer' = WithPrefix(e.prefix)
  /\ pieces' = e.format
  /\ log_pos' = e.prefix
  /\ reserved' = Reserved(e.prefix)
  /\ stale' = FALSE
  /\ due' = e.prefix /\ had' = bufflen /\ growths' = 0
  /\ clipped' = FALSE /\ dropped' = FALSE
  /\ worker' = "format"
  /\ UNCHANGED bufflen

-----------------------------------------------------------------------------
(* process_fmt: one piece after the other. *)

Piece == Head(pieces)
At(state, kinds) == worker = state /\ pieces # <<>> /\ Piece.kind \in kinds

\* Nothing is known after this.
Fails == worker' = "undefined"

\* A decoder has returned the number n, and process_fmt goes on behind it.
Advance(n) ==
  /\ log_pos' = log_pos + n
  /\ due' = due + Piece.len
  /\ pieces' = Tail(pieces)
  /\ growths' = 0
  /\ worker' = "format"

\* A character is copied, without looking at reserved.
PutChar ==
  /\ At("format", {"text"})
  /\ ~stale /\ log_pos < bufflen
  /\ log_buffer' = [log_buffer EXCEPT ![log_pos] = due]
  /\ reserved' = reserved - 1
  /\ Advance(1)
  /\ UNCHANGED <<bufflen, entry, stale, had, clipped, dropped>>

\* The character goes behind the buffer or into a freed one.
PutCharOutside ==
  /\ At("format", {"text"})
  /\ stale \/ log_pos >= bufflen
  /\ due' = due + 1
  /\ Fails
  /\ UNCHANGED <<log_buffer, bufflen, entry, pieces, reserved, log_pos, stale,
                 had, growths, clipped, dropped>>

\* A parameter: its place log_pos - log_buffer is the difference of pointers
\* into two blocks.
StaleParam ==
  /\ At("format", Kinds \ {"text"})
  /\ stale
  /\ Fails
  /\ UNCHANGED <<log_buffer, bufflen, entry, pieces, reserved, log_pos, stale,
                 lineVars>>

\* snprintf(buffer + pos, size, ...) of a text of n characters, the first of
\* which is number due of the line.
Printed(buffer, pos, size, n) ==
  LET chars == IF n < size THEN n ELSE size - 1
  IN IF size = 0 THEN buffer
     ELSE [p \in DOMAIN buffer |->
             IF p \in pos .. pos + chars - 1 THEN due + (p - pos)
             ELSE IF p = pos + chars THEN NUL ELSE buffer[p]]

-----------------------------------------------------------------------------
(* decodeNonStringFmt and resize_log_buffer.                               *)

\* The size that snprintf is given: only for "%c" it is the space left.
Limit == IF Piece.kind = "char" THEN reserved ELSE bufflen

\* Where the terminating NUL goes.
Terminator == log_pos + (IF Piece.len < Limit THEN Piece.len ELSE Limit - 1)

Overruns == Limit # 0 /\ Terminator >= bufflen

\* The first attempt, or another one in a larger buffer.
AtNumber == \/ At("format", {"char", "value"}) /\ ~stale
            \/ worker = "retry"

\* CHECK_LOG_BUFFER_REALLOC: the text and its terminator fit.
NumberFits ==
  /\ AtNumber
  /\ Piece.len < reserved
  /\ log_buffer' = Printed(log_buffer, log_pos, Limit, Piece.len)
  /\ reserved' = reserved - Piece.len
  /\ Advance(Piece.len)
  /\ UNCHANGED <<bufflen, entry, stale, had, clipped, dropped>>

\* They do not, as is seen after snprintf.
NumberDoesNotFit ==
  /\ AtNumber
  /\ Piece.len >= reserved
  /\ \/ /\ log_buffer' = Printed(log_buffer, log_pos, Limit, Piece.len)
        /\ worker' = "grow"
        /\ UNCHANGED due
     \/ /\ Overruns
        /\ due' = due + Piece.len
        /\ Fails
        /\ UNCHANGED log_buffer
  /\ UNCHANGED <<bufflen, entry, pieces, reserved, log_pos, stale, had,
                 growths, clipped, dropped>>

\* The size that CHECK_LOG_BUFFER_REALLOC asks for.
NotDoubled(n) == n + bufflen - reserved          \* mutated: no shift
NewSize(n) == 2 * n + bufflen - reserved

\* The content of a new block of the given size.
Copied(size, bytes) ==
  [p \in 0 .. size - 1 |-> IF p < bytes THEN log_buffer[p] ELSE OLD]

\* The old block is freed, though log_pos still points into it.
ResizeLogBuffer ==
  /\ worker = "grow"
  /\ bufflen' = NewSize(Piece.len)
  /\ log_buffer' = Copied(bufflen', bufflen)
  /\ reserved' = bufflen' - log_pos
  /\ stale' = TRUE
  /\ growths' = IF growths < 2 THEN growths + 1 ELSE growths
  /\ worker' = "retry"
  /\ UNCHANGED <<entry, pieces, log_pos, due, had, clipped, dropped>>

\* Mutated: the length is set before malloc is checked.
LengthBeforeMalloc ==
  /\ MallocMayFail
  /\ worker = "grow"
  /\ worker' = "failed"
  /\ bufflen' = NewSize(Piece.len)
  /\ UNCHANGED <<log_buffer, entry, pieces, reserved, log_pos, stale, lineVars>>

\* No memory: decodeNonStringFmt and process_fmt return -1.
ResizeFails ==
  /\ MallocMayFail
  /\ worker = "grow"
  /\ worker' = "failed"
  /\ UNCHANGED <<log_buffer, bufflen, entry, pieces, reserved, log_pos, stale,
                 lineVars>>

\* No case for the size and the terminal: a message on stderr, no text.
Unsupported ==
  /\ At("format", {"unsupported"}) /\ ~stale
  /\ Advance(0)
  /\ UNCHANGED <<log_buffer, bufflen, entry, reserved, stale, had, clipped,
                 dropped>>

-----------------------------------------------------------------------------
(* decodeStringFmt. *)

AtString == At("format", {"string"}) /\ ~stale

\* The assertion subtracts an offset from a pointer and compares the result,
\* about the address of the buffer, with the offset.
AssertionFails ==
  /\ AtString
  /\ worker' = "aborted"
  /\ UNCHANGED <<log_buffer, bufflen, entry, pieces, reserved, log_pos, stale,
                 lineVars>>

\* The text fits, or the code takes it for fitting: a text of exactly reserved
\* characters loses its last one to the terminator.
StringFits ==
  /\ AtString
  /\ Piece.len <= reserved
  /\ log_buffer' = Printed(log_buffer, log_pos, reserved, Piece.len)
  /\ clipped' = (clipped \/ (Piece.len = reserved /\ reserved # 0))
  /\ reserved' = reserved - Piece.len
  /\ Advance(Piece.len)
  /\ UNCHANGED <<bufflen, entry, stale, had, dropped>>

\* A new block for what is there and the text, which is formatted again.
StringSize(n) == n + 1 + bufflen - reserved

GrowForString ==
  /\ AtString
  /\ Piece.len > reserved
  /\ bufflen' = StringSize(Piece.len)
  /\ log_buffer' = Printed(Copied(bufflen', log_pos), log_pos, Piece.len + 1,
                           Piece.len)
  /\ reserved' = (bufflen' - bufflen + reserved) - Piece.len
  /\ stale' = TRUE
  /\ Advance(Piece.len)
  /\ UNCHANGED <<entry, had, clipped, dropped>>

\* No memory for the copy of a long string, or for the new block: the code
\* goes on one character back.
DropString ==
  /\ MallocMayFail
  /\ AtString
  /\ log_pos > 0
  /\ \/ Piece.len >= DEFAULT_PARAM_CACHE_SIZE /\ UNCHANGED log_buffer
     \/ Piece.len > reserved
        /\ log_buffer' = Printed(log_buffer, log_pos, reserved, Piece.len)
  /\ reserved' = reserved + 1
  /\ dropped' = TRUE
  /\ Advance(-1)
  /\ UNCHANGED <<bufflen, entry, stale, had, clipped>>

\* One character back from the first one is outside the buffer.
DropBeforeBuffer ==
  /\ MallocMayFail
  /\ AtString
  /\ log_pos = 0
  /\ Piece.len >= DEFAULT_PARAM_CACHE_SIZE \/ Piece.len > reserved
  /\ dropped' = TRUE
  /\ Fails
  /\ UNCHANGED <<log_buffer, bufflen, entry, pieces, reserved, log_pos, stale,
                 due, had, growths, clipped>>

-----------------------------------------------------------------------------
(* The end of process_fmt and of processLogBuffer. *)

\* What process_fmt returns.
ReturnedLength == bufflen - reserved

\* Where the newline goes: the prefix is counted a second time.
PrefixCountedThrice == 2 * entry.prefix + ReturnedLength    \* mutated
BeforeLastChar == ReturnedLength - 1                        \* mutated
EndOfLine == entry.prefix + ReturnedLength

PutNewline ==
  /\ worker = "format" /\ pieces = <<>>
  /\ EndOfLine < bufflen
  /\ log_buffer' = [log_buffer EXCEPT ![EndOfLine] = NEWLINE]
  /\ worker' = "line"
  /\ UNCHANGED <<bufflen, entry, pieces, reserved, log_pos, stale, lineVars>>

\* The newline goes behind the buffer.
NewlineOutside ==
  /\ worker = "format" /\ pieces = <<>>
  /\ EndOfLine >= bufflen
  /\ Fails
  /\ UNCHANGED <<log_buffer, bufflen, entry, pieces, reserved, log_pos, stale,
                 lineVars>>

\* What is in the log buffer is of no use to the next line.
Done ==
  /\ worker' = "idle" /\ entry' = NoEntry
  /\ log_buffer' = [p \in DOMAIN log_buffer |-> OLD]
  /\ pieces' = <<>>
  /\ reserved' = 0 /\ log_pos' = 0 /\ stale' = FALSE
  /\ due' = 0 /\ had' = bufflen /\ growths' = 0
  /\ clipped' = FALSE /\ dropped' = FALSE
  /\ UNCHANGED bufflen

\* write() gets the bytes up to the newline and the entry is consumed, or there
\* is no file and the entry stays in its staging buffer.
WriteLine ==
  /\ worker = "line"
  /\ Done

\* process_fmt returned -1: the newline goes to the last byte of the prefix,
\* nothing is written and the entry stays in its staging buffer.
KeepEntry ==
  /\ worker = "failed"
  /\ Done

-----------------------------------------------------------------------------
Entries == [prefix : Prefixes, format : Formats]

FormatPiece ==
  \/ PutChar \/ PutCharOutside \/ StaleParam
  \/ NumberFits \/ NumberDoesNotFit \/ ResizeLogBuffer \/ ResizeFails
  \/ Unsupported
  \/ AssertionFails \/ StringFits \/ GrowForString
  \/ DropString \/ DropBeforeBuffer

\* After undefined behaviour or an abort, and with a buffer beyond the bound,
\* nothing more is modelled; in every other state a step is possible.
NotModelled ==
  /\ \/ worker \in {"undefined", "aborted"}
     \/ worker = "idle" /\ bufflen > MaxBuffer
  /\ UNCHANGED vars

Next ==
  \/ \E e \in Entries : ProcessLogBuffer(e)
  \/ FormatPiece
  \/ PutNewline \/ NewlineOutside \/ WriteLine \/ KeepEntry
  \/ NotModelled

Spec == Init /\ [][Next]_vars

-----------------------------------------------------------------------------
(* Properties. *)

WorkerStates == {"idle", "format", "grow", "retry", "failed", "line",
                 "undefined", "aborted"}

TypeOK ==
  /\ bufflen \in Nat
  /\ DOMAIN log_buffer \subseteq Nat
  /\ \A p \in DOMAIN log_buffer : log_buffer[p] \in Cell
  /\ worker \in WorkerStates
  /\ entry \in Entries \cup {NoEntry}
  /\ pieces \in Seq([kind : Kinds, len : Nat])
  /\ reserved \in Nat /\ log_pos \in Nat
  /\ stale \in BOOLEAN /\ clipped \in BOOLEAN /\ dropped \in BOOLEAN
  /\ due \in Nat /\ had \in Nat /\ growths \in 0 .. 2

Formatting == worker \in {"format", "grow", "retry"}

\* reserved is what is left of the buffer behind log_pos, whatever buffers
\* were replaced on the way and by which of the two decoders: the sizes of new
\* buffers and the returned length are computed from it.
AccountingHolds == Formatting => log_pos + reserved = bufflen

\* bufflen_ is the size of the block that log_buffer_ points to, also after an
\* allocation that failed half-way.
LengthIsAllocated == DOMAIN log_buffer = 0 .. bufflen - 1

\* A parameter makes the buffer grow at most once: in the new one it fits.  An
\* empty text in a full buffer is the exception: the code asks for the same
\* size again and again.
GrowsOnce == worker = "grow" => growths = 0 \/ Piece.len = 0

\* The line with the parameter that is being formatted.
LineSoFar ==
  due + (IF worker \in {"grow", "retry"} THEN Piece.len ELSE 0)

\* Whatever goes wrong (a write outside the buffer, a pointer into a freed one,
\* a lost character), while there is memory, goes wrong only in a line that,
\* with its prefix counted twice, is as long as the buffer was when the line
\* began.
OnlyLongLinesFail ==
  (worker = "undefined" \/ stale \/ clipped) /\ ~dropped =>
     entry.prefix + LineSoFar >= had

\* What write() gets begins with the prefix and the whole text, in order, over
\* the growth of the buffer and the retries as well; except when a string was
\* left out or clipped.
WrittenBeginsWithText ==
  worker = "line" /\ ~clipped /\ ~dropped =>
     /\ EndOfLine >= due
     /\ \A p \in 0 .. due - 1 : log_buffer[p] = p

\* "The binary log content of the front-end is formatted into a readable format
\* and written to disk": the prefix, the text and the newline right behind it.
WrittenIsLine ==
  worker = "line" /\ ~clipped /\ ~dropped => log_buffer[due] = NEWLINE
=============================================================================
