# Specifications of static_log

static_log is a logging library. A `STATIC_LOG` statement copies its arguments,
unformatted, into a byte queue that belongs to its thread; one background
worker takes the entries out of all queues, formats them and writes them to a
file. The directory holds TLA+ modules of the parts that carry this, TLC
configurations that check them on small instances, and TLAPS proofs about each
of them. File names below are relative to `src/src/`.

## Inventory

| Part | State | Operations | Where |
|---|---|---|---|
| Staging buffer, one per thread | `producer_pos_`, `end_of_recorded_space_`, `consumer_pos_`, `min_free_space_`, `should_deallocate_`, `storage_` | `reserveProducerSpace`, `reserveSpaceInternal`, `finishReservation`, `peek`, `consume`, `checkCanDelete` | `static_log_backend.h`, `.cc` |
| Backend, a singleton | `thread_buffers_`, `next_buffer_id_`, `is_stop_`, `is_exit_`, `fdflush_`, `outfd_`, `buffer_mutex_`, `wake_up_cond_`, the `staging_buffer_` and `destroyer_` of each thread | `ensureStagingBufferAllocated`, `ioPoll`, `processLogBuffer`, `setLogFile`, `sync`, constructor, destructor | same |
| Log statement | `param_size` of the call site, locals of the macro, `current_log_level_` | `STATIC_LOG`, `getArgSizes`, `storeArguments`, `setLogLevel` | `static_log.h`, `static_log_internal.h` |
| Format parsers | none (pure) | `getParamInfo`, `countFmtParams`, `analyzeFormatString`; the loop of `process_fmt` | `static_log_internal.h`, `static_log_backend.cc` |
| Formatter | `log_buffer_`, `bufflen_` | `process_fmt`, `decodeStringFmt`, `decodeNonStringFmt`, `resize_log_buffer` | `static_log_backend.cc` |
| Prefixes | none | `generateTimePrefix`, `generateCallInfoPrefix` | `static_log_backend.cc` |
| Clocks | none | `rdtsc`, `get_nanotime`; tsc_clock is an empty submodule | `static_log_cycles.c` |

How they interact. A statement calls `reserveAlloc`, which registers a buffer
with the backend on the thread's first statement (under `buffer_mutex_`,
released during the allocation), then `reserveProducerSpace`; it stores its
arguments and calls `finishReservation`. Nothing of that takes a lock or wakes
the worker. The worker goes around `thread_buffers_` with the mutex locked,
deletes the drained buffers of ended threads, picks the entry with the earliest
timestamp, formats and writes it, and waits on the condition variable, with a
timeout, when there is none. A thread that ends flags its buffer. `setLogFile`
stops the worker, joins it, replaces the file and starts another one; `sync`
notifies the condition variable; the destructor stops and joins the worker.

What is hard about it:

* two threads on one buffer without locks, atomics or fences, with stale copies
  of each other's positions, a wrap-around and an end mark (StagingBuffer);
* a registry that is read, changed and deleted from while threads come and go
  (Backend);
* a worker that is stopped and restarted between any two of its steps, also
  when `open` fails (Backend);
* a static array of sizes that every execution of a statement, in every thread,
  writes, and that pending entries point to (LogStatement);
* two parsers of one format that must agree (FormatString);
* a line buffer that is replaced while a line is made in it, by two decoders that
  each compute sizes and positions in their own way, next to a pointer that is
  not moved along (LogBuffer).

What makes each part correct: the buffer never gives out a byte that is still
to be read and is a first-in first-out stream of whole entries, without
deadlock; every published entry is written once and in the order of its thread,
no deleted buffer is touched, and the calls that wait return; an entry fills
exactly its reservation and is decoded by the layout it was stored with; the
worker gives every specifier the parameter that was counted for it; a line is
written inside the buffer and begins with its prefix and its whole text.

## Modules

| Module | Models | Used by |
|---|---|---|
| `LogStream` | the abstract stream of entries a staging buffer promises | `StagingBuffer` and `Backend`, by `INSTANCE` |
| `StagingBuffer` | the byte queue, one step per access to a shared field | the next two |
| `StagingBufferProofs` | its inductive invariant and safety properties | `StagingBufferRefinement` |
| `StagingBufferRefinement` | the proof that the queue implements `LogStream` | |
| `Backend` | logging threads, worker, application calls | `MCBackend`, `BackendProofs` |
| `BackendProofs` | its inductive invariant, and that each buffer is a `LogStream` | |
| `LogStatement` | measuring, storing and decoding an entry; the level filter | `MCLogStatement`, `LogStatementProofs` |
| `LogStatementProofs` | its two invariants | |
| `LogBuffer` | making a line in `log_buffer_`, which may have to grow | `MCLogBuffer`, `LogBufferProofs` |
| `LogBufferProofs` | its inductive invariant | |
| `FormatString` | both parsers, over characters | `MCFormatString`, `FormatStringProofs` |
| `FormatStringProofs` | that both parsers follow the grammar | |

An operator whose comment says "mutated" is not part of the model: it is a
plausible wrong version of the definition next to it, kept to show that the
properties would notice.

### StagingBuffer

Positions are offsets into `storage_`. `producer` and `consumer` are the places
in the code of the two threads; a step is one load or store of a shared field,
with the computations on private variables folded into the step before.
`Reserve` is the fast path and the entry of the slow one; `LoadConsumerPos`,
`MarkEndOfRecordedSpace` and `RollOver` are the body of the loop of
`reserveSpaceInternal`; `WriteEntry` is the body of the macro;
`FinishReservation` publishes. On the other side `LoadShouldDeallocate` and
`CompareAndDelete` are `checkCanDelete`, `LoadProducerPos`,
`LoadEndOfRecordedSpace` and `ConsumerRollOver` are `peek`, `ProcessLogBuffer`
is the second peek of the same round, `Consume` reads `entry_size` out of the
storage. A byte of `storage_` is the entry it belongs to and its place in it,
so a byte overwritten too early or read too late shows.

Two histories, `published` and `consumed`, count entries and are read by no
guard but the bound `MaxEntries`. Steps of a thread take effect in program
order. The code does not ask for this (no atomics or fences); it is the order
of the code gcc emits, and x86, the only target because of `rdtsc`, keeps it.

### Backend

A staging buffer is its stream: a sequence of entries with a capacity, each
entry counting 1. `StagingBuffer` implements `LogStream`, and `BuffersAreStreams`
says that threads, worker and application together do to every buffer only what
`LogStream` allows; so the two models compose and need not be multiplied. The
mutex is held by the worker exactly in the control
states `loop`, `scan` and `process`; every other critical section of the code
is one step with the guard `BufferMutexFree`, and the window between unlock and
lock at the head of the loop is the state `unlocked`. `ensureStagingBufferAllocated`
has two critical sections and is two steps, `setLogFile` is five. The loop over
`thread_buffers_` takes one step per buffer, because threads publish meanwhile.

`MayFail` are the threads whose entries `process_fmt` may reject (it returns -1
when it gets no memory), at any attempt and as often as it likes: the code stamps
the entry with the time of the attempt and leaves it to be tried again.
`LateLoggers` are threads with a thread_local
object that logs in its destructor after `destroyer_` is gone. The timestamp of
an entry is a counter of statements; `get_nanotime` is larger than all of these
(`NANOTIME`, 999, which also bounds the counter) and grows from one attempt to the
next. There are at most as many kept entries as threads, and only the order of
their times is ever looked at, so each attempt numbers these times afresh from
`NANOTIME` on, its own last (`Retimed`).
`visible`, `promised`, `at_exit` and `written` are histories for the properties.
The application is one thread.

### LogStatement

Each access to an element of `param_size` is a step. In `getArgSize`,
`MeasureArg` is the first store (a sizeof, or strlen), `LoadLength` the load
into `fmt_length`, `CompareLength` and `Truncate` the comparison with a
precision and the store behind it; `AddArgSize` is the load for the value
returned, `StoreArgument` the load of `storeArguments`. A build that keeps the
element in a register from one access to the next does what these steps do when
no other thread comes in between. Of an entry the place and the bytes of each
parameter are kept (`stored`), which is where the decoder has to find them.
The decoder, `DecodeParam`, takes one parameter per specifier, as `process_fmt`
does; at a place where no string begins it reads any length. Argument values are
lengths of strings and numbers for `*`; other values are not told apart.
`offsets` and `logged` are histories that no guard but the bound `MaxEntries`
reads.

### FormatString

`getParamInfo`, `countFmtParams` and `analyzeFormatString` follow the code
character by character; `split` is the loop of `process_fmt`. The behaviours
only generate formats, from pieces of the printf grammar, together with what
the grammar says of their parameters. That is the reference definition.
`%` with something between it and a second `%` ("%5%") is not generated: printf
does not define it.

### LogBuffer

A byte of `log_buffer` is the offset in the line of the character that belongs
there, or one of three marks: the terminator, the newline, or something an
earlier line left. Of a piece of the format only its kind and the length of its
text are kept, of a prefix its length. `ProcessLogBuffer` takes an entry and
writes the prefix; `PutChar` copies a character; `NumberFits`,
`NumberDoesNotFit`, `ResizeLogBuffer` and `ResizeFails` are
`decodeNonStringFmt` with the loop of `CHECK_LOG_BUFFER_REALLOC`, step by step,
because the buffer changes in between; `StringFits`, `GrowForString` and
`DropString` are `decodeStringFmt`; `PutNewline` and `WriteLine` are the end of
`processLogBuffer`, `KeepEntry` its return when there was no memory.

Positions are offsets, but `log_pos` is a pointer that the code does not move
when it replaces the buffer. `stale` says that it still points into the old
block. An access through it, or behind the end of the block, is undefined
behaviour: the worker goes to the state "undefined", which it never leaves and
of which only `OnlyLongLinesFail` speaks. A `snprintf` that runs over the end
may also go unnoticed, so both outcomes are steps. A build with assertions stops
at the one of `decodeStringFmt` (`AssertionFails`, to the state "aborted"), one
with NDEBUG goes on: both are steps too. An entry that is kept stays in its
staging buffer and may be taken again at once or after others.

## Runs

| Run | Instance | Shows |
|---|---|---|
| `StagingBuffer` | 6 bytes, entries of 1, 2, 3, 5 and 6 bytes, 5 entries | the safety properties of the queue; it implements `LogStream`; no mutual waiting, everything published is consumed, ended buffers are deleted |
| `Backend` | 2 threads (any attempt may fail), 2 entries each, capacity 2, 2 calls of `setLogFile` that may fail, destructor at any time | exactly-once and in-order, the registry, the choice of the earliest entry, no use after free, the destructor flushes; every buffer is a `LogStream` |
| `BackendLive` | 2 threads (any attempt may fail), 2 entries, capacity 1, 1 `setLogFile` | an entry is written once its attempts do not always fail; `setLogFile` and the destructor return |
| `LogStatement` | 2 threads, 5 statements, 2 executions each, out-of-range levels | sizes, strings and alignment are right |
| `LogBuffer` | 7 bytes, strings of 3 and more copied to the heap, prefixes of 1 and 2, all formats of at most 3 pieces with texts of 0, 1, 2 and 4 characters, `malloc` failing or not | positions, lengths and growth are consistent; what is written begins with prefix and text; only lines about as long as the buffer fail |
| `FormatString` | all formats of at most 2 pieces out of 438 | the parsers agree with the grammar and with each other |
| `BackendNewFile` | 1 thread, 1 entry, 1 `setLogFile` | *violated*: `LogsReachPromisedFile` |
| `BackendLate` | 1 thread that logs late | *violated*: `NoUseAfterFree` |
| `LogStatementShared` | 2 threads at one statement with a string | *violated*: `StoreFillsReservation` |
| `LogStatementPrecision` | one statement with `%.1s` | *violated*: `TruncatedByPrecision` |
| `LogStatementStars` | one statement with `%.*s` | *violated*: `SpecifierGetsItsArgument` |
| `LogBufferLine` | formats of at most 1 piece | *violated*: `WrittenIsLine` |

Why the bounds are enough. A buffer of 6 bytes with entries of 1 to 6 bytes
reaches every relation of the positions: exact fit, one byte short, roll-over
with the reader at 0 and elsewhere, a second roll-over, an empty upper part; 5
is the largest size that fits and 6 the smallest that never does. Two threads
with two entries and two changes of the file let a worker end and restart
before, between and after the entries of a thread, and a buffer be erased from
the registry in front of another one. Two threads whose entries fail suffice for
one to be passed over because of the other one, and two entries each for a fresh
one to come in between. In LogStatement two executions suffice for
one to be pending while the next one writes the sizes. In LogBuffer, texts of 0
to 4 characters end well inside a buffer of 7 bytes, one short of its end, at its
end and behind it, after each of the prefixes; three pieces let a parameter make
the buffer grow behind a character or a string and another piece meet the stale
`log_pos`; a line may begin in a buffer that an earlier line has made longer
(`MaxBuffer`, 9). The safety properties of all these runs are also proved for any
bounds, those of FormatString among them: its parsers carry nothing from one
piece to the next except their position and the number of parameters left to
skip, so two pieces show all interactions, and the proof covers any number.

`MaxEntries`, `MaxSetLogFile`, `MaxPieces`, `MaxBuffer` and `NANOTIME` bound
what the code does not bound. Only `FormatString` and the runs of a statement
under a fixed set of levels may stop; of these only `FormatString` needs
`CHECK_DEADLOCK FALSE`, as it enumerates data. `Terminated` steps in the other
modules stand for a deleted buffer and an ended program, and `NotModelled` in
`LogBuffer` for an abort, undefined behaviour and a buffer above its bound, so
every other stop would be reported.

### Fairness

* `StagingBuffer`: weak fairness of the producer inside a reservation, because
  a statement has no way out before `finishAlloc` and the loop spins; none for
  starting a statement or ending. Weak fairness of the worker, which polls in
  an endless loop. Strong fairness of `Consume`: the worker may leave an entry
  it has peeked at because another buffer has an earlier one, but the
  timestamps grow, so the entry is the earliest in some round.
* `Backend`: weak fairness of the worker (nobody keeps the mutex from one step
  to the next, and the wait has a timeout), of a call the application has begun,
  and of `FinishAlloc`. None for registering, logging, ending or calling:
  `std::mutex` is not fair, and the worker unlocks it only for a moment. None for
  the success of an attempt either: where attempts may fail they may all fail.
  `RegisteredIsWritten` and `DestructorReturns` have it as a condition instead
  (`SucceedsAtLast`: attempts at the entries of a thread that are made again and
  again do not always fail), so that they speak of each thread whatever happens to
  the entries of the others.

## Proofs

All proofs are of `Spec` without fairness and hold for every value of the
constants that satisfies the named assumptions of the module. None of the
properties is inductive, so each module has an invariant that is (`IndInv`), one
lemma per action that the action keeps it, a theorem `Invariance`, and one
theorem per property. TLC has checked `IndInv` of `StagingBuffer`, `Backend` and
`LogBuffer` on the instance of their run as well; the invariants of the other two
range over sets that TLC cannot enumerate, and there it has checked the properties
themselves.

**The queue** (`StagingBufferProofs`, `StagingBufferRefinement`). Assumed: the
capacity and the sizes are positive, `MaxEntries` is a number. The properties
say where the unread bytes lie; what `Consume` does depends on what is in them,
because the size of an entry is read from the storage. `IndInv` therefore says
that the unread bytes are *tiled* by whole entries, numbered from `consumed` to
`published`, in one stretch or, after a roll-over, in two that meet at some entry
(`UnreadIsTiled`, `Tiled`); that what peek shows is such a tiling
(`PeekIsTiled`); and what each thread knows between two of its steps although the
other one goes on: that the reader can only move away from position 0 while the
producer is about to roll over (`BeforeRollOver`), and that the end mark cannot
move and the producer cannot pass while the reader is about to
(`BeforeConsumerRollOver`). The lemmas on tilings (empty, append, drop the head,
change bytes outside) carry the argument. From it `Refinement` follows: the
unread bytes hold exactly one header of each unread entry (`HeadersOfUnread`), so
the queue of `LogStream` can be read off the storage; `FinishReservation`,
`Consume`, the end of the thread and the deletion are its four actions, and
every other step is a stutter. That the entries fit into the buffer together, as
`LogStream` demands, is the tiling again.

**The backend** (`BackendProofs`). Assumed: finitely many threads, a positive
capacity. Attempts of any thread may fail. `IndInv` adds how the state of a
thread, its buffer and the flag of the buffer go together (`ThreadAndBuffer`);
that the numbers of the entries run on from what is written to what is queued
(`Numbered`); that the entry a round has in view is still the first of a
registered buffer although threads publish and the list is changed under the
loop (`EarliestIsFirst`); that each entry visible at the beginning of a round is
still to be visited or not earlier than the one remembered (`VisibleIsCompared`);
and what the calls of the application have left in the flags (`CallsAndFlags`).
`BuffersOutliveUse` is the one theorem with a condition, `LateLoggers = {}`: the
run `BackendLate` shows that it is needed. `BackendKeepsStreams` proves that each
buffer is used as the `LogStream` that the queue was proved to implement.

**The statement** (`LogStatementProofs`). Assumed of the constants: what the
parameters of a format may be (a string for `%s`, a number for `*`, the precision
of `%.*s` in the parameter before it). There are two invariants. `TypeInv`, with
the place a statement has reached, holds whatever the threads share, and gives
`TypeCorrect`. `SizesInv` needs `NotShared`, that no two threads execute one
statement with a string; the run `LogStatementShared` shows that it is needed,
and the theorems state it. It says that the array has the sizes of the
parameters measured so far (`Measured`), that `alloc_size` has taken the offsets
that these sizes give, strictly rising (`Added`, `Offsets`), that what is stored
lies at these offsets (`Stored`), and that a pending entry stays laid out so
while later executions, its own thread's and those of others at statements
without strings, write the array (`LaidOut`, `ValuesKnown`). As the offsets rise
strictly, the decoder finds one header at its place, its own (`DecodesNext`).

**The line** (`LogBufferProofs`). Assumed: a prefix is shorter than the first
buffer, a piece is of a known kind. `IndInv` ties three things together that the
code keeps apart: what is left of the buffer (`Accounting`), the text that is due
(`InStep`) and the length the buffer had when the line began (`NotReplaced`,
`LongLine`). Without memory they come apart, hence the condition `~dropped`.
`Growing` says what the retry knows of the new buffer: it leaves twice the text.

**The parsers** (`FormatStringProofs`). Assumed is only the grammar that the
comment in `getParamInfo` gives, `%<flags><width>.<precision><length><terminal>`
(`GrammarAssumption`): text has no `%`, a width is `*` or digits that do not
begin with `0`, the type of a precision is its number, a terminal is one that
`isTerminal` knows and not a second `%`. The three properties then hold for
formats with any number of pieces. A precision is a number without bound: one
that overflows an `int` ends the constant evaluation of the code with an error.

The invariant `IInv` says that the format can be cut at positions such that what
lies between two of them is the piece it was built from (`CutInto`, `IsPiece`),
where a specifier is described by the positions of its parts (`Specifier`). The
steps keep it (`PieceAppended`) because a piece stays one when another is
appended and because the parts of a specifier lie where they were written
(`ConcatIsWritten`, `GrammarIsSpecifier`). `ParsersAnswer` derives the three
properties from it, in this order:

* what `Scan` finds in a specifier are its parts (`ScanFindsParts`,
  `SpecifierIsSupported`), so one step of each parser takes exactly one piece
  (`InfoAtPiece`, `SplitAtPiece`);
* by an induction over the pieces, `getParamInfo` answers with the parameter in
  that place of all parameters, or throws if a rejected specifier is before it
  (`AnswersParam`);
* `countFmtParams` therefore counts to the end of an accepted format
  (`CountOfAccepted`) and to the throw in a rejected one (`CountOfRejected`),
  never beyond it, and `process_fmt` gives the pieces (`SplitGivesPieces`).

`getParamInfo`, `countFmtParams` and `split` are recursive functions. The model
gives the body of each as an operator (`InfoAt`, `CountAt`, `SplitAt`) that takes
the function as an argument. The proof that such a function exists is by
`Recursion`, over functions with a rank that falls, and the inductions are by
`Induction`, over the members of a set: so no lemma has an operator as a
parameter. `IInv` ranges over all ways to cut and over all integers.

Only model-checked: the liveness properties, as the prover does not treat
fairness.

## Where code and documentation disagree

1. `setLogFile` (`static_log_backend.h:254`) leaves `is_stop_` set. The new
   worker ends as soon as no buffer is registered; what is logged later stays in
   memory. `static_log.h:55`: "All NANO_LOG statements invoked after this
   function returns are guaranteed to be in the new file location."
2. A thread may log after its buffer was flagged (`static_log_backend.h:373`), by
   the destructor of a thread_local object older than `destroyer_`.
   `static_log_backend.h:206`: "no more messages will be logged to it".
3. `param_size` (`static_log.h:116`) is shared by all threads at a statement.
   Between `getArgSizes` and `storeArguments` another thread may replace the
   length of a string: less or more is then copied than was reserved, beyond
   the end of the string or of the reservation. `unitest/test_mt.cc` runs such a
   statement in four threads, with strings that are all of the same length.
4. `process_fmt` (`static_log_backend.cc:461`) hands a specifier with a `*` one
   parameter; `static_log_internal.h:324` counts one per `*` as well. `%.*s` gets
   the int of its `*`, for which `decodeNonStringFmt` has no case: the text is left
   out, with a message on stderr, and the string goes to the next specifier.
5. `process_fmt` returns a length that contains the prefix, and
   `processLogBuffer` adds the prefix again (`static_log_backend.cc:504`): the
   newline lies that far behind the text, and what earlier lines left in between
   is written too. `static_log_backend.cc:385`: "The binary log content of the
   front-end is formatted into a readable format and written to disk".
6. A string with a precision in its format is stored whole
   (`static_log_internal.h:540`): the bound is taken from the string itself, and
   of the precision only the sign is looked at. `static_log_internal.h:537`:
   "Strings with static length specifiers (ex %.10s), have non-negative ParamTypes
   equal to the static length. Thus, we use that value to truncate the string as
   necessary." What is printed is right, because snprintf gets the precision.

Three disagreements are plain in the code and have no run of their own:

* `sync()` (`static_log_backend.h:274`) only notifies the worker. `static_log.h:81`:
  "Waits until all pending log statements are persisted to disk."
* `decodeStringFmt` asserts that the address of the log buffer, less an offset,
  is a number of bytes (`static_log_backend.cc:346`). That fails for every `%s`
  in a build with assertions, such as the default one (`CMakeLists.txt:5`).
* `setLogFile` prints a message on stderr and returns when `open` fails
  (`static_log_backend.h:265`), and leaves neither file nor worker.
  `static_log.h:59`: "An exception will be thrown if the new log file cannot be
  opened/created". The next call throws, from `join`.

Seen while reading, not a run of their own. In `LogBuffer` these are steps that end in
"undefined", clip or drop a string, and `OnlyLongLinesFail` says when: `log_pos`
is not moved when the log buffer is replaced (`:468`); `snprintf` is given the
length of the whole buffer where less is left (`:266`); characters of the format
are copied without a look at what is left (`:421`); a text of exactly the
remaining length loses its last character (`:362`). Without memory for a string
-1 is added to the position (`:457`), and an empty number in a full buffer asks for the
same size for ever (`:213`). A specifier of 100 characters and more is not
terminated (`:447`). Further: `%p` is never
formatted, and a `char*` passed for it shifts the parameters behind it; a log
file is opened without O_APPEND or O_TRUNC, so choosing it again overwrites its
beginning; the result of `write` is ignored; an entry of `kSTAGING_BUFFER_SIZE`
bytes or more makes its thread spin for ever; an entry that could not be
formatted has a later time than every fresh one, so it waits as long as fresh
ones keep coming; the destructor waits for every thread that has a buffer.

## Not modelled

* The characters of a line: what the prefix functions and snprintf print is only
  a length, the copy of a specifier into its buffer of 100 bytes is left out. A
  property of them would repeat the conversion.
* The bytes of the log file and the results of `write`.
* Statistics counters of the buffer, the non-blocking mode of
  `reserveSpaceInternal` (no caller), `BENCHMARK_DISCARD_ENTRIES_AT_STAGINGBUFFER`,
  wide strings, strings of 2^32 bytes and more, `threadBindCore`.
* Failure of the constructor, which ends the program.
* Concurrent calls of `setLogFile`, for which the code has no provision.
* Memory orders other than program order.
* Tests, benchmarks and the example, which are clients.

## Plan

Done, in this order: the stream and the byte queue with its proofs; the backend;
the statement; the format parsers; the line buffer; the refinement, the backend,
the statement, the line buffer and the parsers proved. What could follow:

1. `Backend` with concurrent callers of `setLogFile`, if a contract for that can be
   read from the code.
2. A weaker memory model for `StagingBuffer`, if the library is to run on anything
   but x86.
3. The safety part of `ReservationIsGranted`, that a producer which looks at an
   empty buffer finds room for every entry that can fit, proved for any capacity.
