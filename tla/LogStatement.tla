---------------------------- MODULE LogStatement ----------------------------
(***************************************************************************)
(* One execution of STATIC_LOG, from the arguments to the entry and from   *)
(* the entry to the arguments: the logging thread measures its arguments   *)
(* (getArgSizes), reserves their space and stores them (storeArguments);   *)
(* the worker walks over the entry, one parameter for each specifier of    *)
(* the format (process_fmt).  Both find the sizes in param_size, an array  *)
(* that is static at the call site: all threads that execute the statement *)
(* share it, and every pending entry of the statement points to it.        *)
(*                                                                         *)
(* Each load or store of an element of param_size is a step of its own; a  *)
(* build that keeps the element in a register between two of them behaves  *)
(* as if nobody came in between.  Of a string only its length is kept, of  *)
(* another argument only its sizeof.  Waiting for space and the order in   *)
(* which entries are taken are the business of StagingBuffer and Backend.  *)
(***************************************************************************)
EXTENDS Integers, Sequences, FiniteSets

CONSTANTS
  Threads,     \* the logging threads
  Sites,       \* the call sites of STATIC_LOG
  Format,      \* of each site, its parameters: type, the ParamType;
               \* isString, whether a char* is passed; size, its sizeof
  Severity,    \* of each site, its log level
  Uses,        \* of each thread, the sites it executes
  Lengths,     \* strlen of the strings that are passed
  Precisions,  \* the values that are passed for a '*' after the point
  LevelArgs,   \* the arguments of setLogLevel
  MaxEntries   \* bound on the entries of a thread

\* enum ParamType
kDYNAMIC_WIDTH == -5
kDYNAMIC_PRECISION == -4
kNON_STRING == -3
kSTRING_WITH_DYNAMIC_PRECISION == -2
kSTRING_WITH_NO_PRECISION == -1
kSTRING == 0

\* enum LogLevel
kSILENT_LOG_LEVEL == 0
kDEBUG == 4
kNUM_LOG_LEVELS == 5

SIZEOF_UINT32 == 4
SIZEOF_POINTER == 8
UINT64_MAX == 1000  \* (uint64_t)-1, above every length

Parameters == [type : Int, isString : BOOLEAN, size : Nat \ {0}]

\* A string is passed for "%s", a number for a '*'; the precision of "%.*s" is
\* the parameter before it.
ASSUME FormatAssumption ==
  /\ Format \in [Sites -> Seq(Parameters)]
  /\ \A s \in Sites : \A k \in DOMAIN Format[s] :
       LET p == Format[s][k]
       IN /\ p.type > kNON_STRING => p.isString
          /\ p.type < kNON_STRING => ~p.isString
          /\ p.type = kSTRING_WITH_DYNAMIC_PRECISION =>
               k > 1 /\ Format[s][k - 1].type = kDYNAMIC_PRECISION
ASSUME SeverityAssumption == Severity \in [Sites -> kSILENT_LOG_LEVEL .. kDEBUG]
ASSUME UsesAssumption == Uses \in [Threads -> SUBSET Sites]
ASSUME ValuesAssumption ==
  Lengths \subseteq 0 .. UINT64_MAX /\ Precisions \subseteq Int
ASSUME NamesAssumption == "none" \notin Threads
ASSUME MaxEntriesAssumption == MaxEntries \in Nat
ASSUME LevelArgsAssumption == LevelArgs \subseteq Int

VARIABLES
  current_log_level,
  param_size,     \* of each call site, the static array
  \* of each thread: its control state, the site it executes, the arguments
  \* (the length of a string, the value for a '*'), the parameter it is at,
  \* the locals of the macro, and where it stored each parameter in how many
  \* bytes; write_pos counts from behind the LogEntry, alloc_size is without it
  statement, site, args, arg_num, previousPrecision, fmt_length, alloc_size,
  write_pos, stored,
  \* history: the values alloc_size had on the way, and the number of
  \* statements a thread has executed
  offsets, logged,
  queue,          \* of each thread, its published entries
  \* of the worker: the thread whose first entry it formats, if any, and the
  \* locals of process_fmt: the parameter it is at and its offset in the entry
  formatting, param_idx, param_list

threadVars == <<statement, site, args, arg_num, previousPrecision, fmt_length,
                alloc_size, write_pos, stored, offsets, logged>>
workerVars == <<formatting, param_idx, param_list>>
vars == <<current_log_level, param_size, threadVars, queue, workerVars>>

NumParams(s) == Len(Format[s])

\* What may be passed at a site: lengths of strings, numbers for '*'.
Arguments(s) ==
  {a \in [1 .. NumParams(s) -> Lengths \cup Precisions \cup {0}] :
     \A k \in 1 .. NumParams(s) :
       LET p == Format[s][k]
       IN a[k] \in IF p.isString THEN Lengths
                   ELSE IF p.type = kDYNAMIC_PRECISION THEN Precisions
                   ELSE {0}}

Init ==
  /\ current_log_level = kDEBUG
  /\ param_size = [s \in Sites |-> [k \in 1 .. NumParams(s) |-> 0]]
  /\ statement = [t \in Threads |-> "idle"]
  /\ site = [t \in Threads |-> "none"]
  /\ args = [t \in Threads |-> <<>>]
  /\ arg_num = [t \in Threads |-> 1]
  /\ previousPrecision = [t \in Threads |-> UINT64_MAX]
  /\ fmt_length = [t \in Threads |-> 0]
  /\ alloc_size = [t \in Threads |-> 0]
  /\ write_pos = [t \in Threads |-> 0]
  /\ stored = [t \in Threads |-> <<>>]
  /\ offsets = [t \in Threads |-> <<0>>]
  /\ logged = [t \in Threads |-> 0]
  /\ queue = [t \in Threads |-> <<>>]
  /\ formatting = "none"
  /\ param_idx = 1
  /\ param_list = 0

-----------------------------------------------------------------------------
(* The application. *)

\* setLogLevel brings its argument into the range of the levels.
OneTooFar(l) ==                                \* mutated: > for >=
  IF l < 0 THEN 0 ELSE IF l > kNUM_LOG_LEVELS THEN kNUM_LOG_LEVELS - 1 ELSE l
Clamped(l) ==
  IF l < 0 THEN 0 ELSE IF l >= kNUM_LOG_LEVELS THEN kNUM_LOG_LEVELS - 1 ELSE l

SetLogLevel(log_level) ==
  /\ current_log_level' = Clamped(log_level)
  /\ UNCHANGED <<param_size, threadVars, queue, workerVars>>

-----------------------------------------------------------------------------
(* The logging threads. *)

Param(t) == Format[site[t]][arg_num[t]]
Arg(t) == args[t][arg_num[t]]
Size(t) == param_size[site[t]][arg_num[t]]

\* The control state behind the last parameter, else the same one again.
Then(t, same, next) == IF arg_num[t] = NumParams(site[t]) THEN next ELSE same
NextArg(t) == IF arg_num[t] = NumParams(site[t]) THEN 1 ELSE arg_num[t] + 1

\* The array is static: it keeps the sizes of the last execution.
ClearedSizes(s) == [k \in 1 .. NumParams(s) |-> 0]    \* mutated: cleared
InitialSizes(s) == param_size[s]

\* The statement begins, unless its level is dropped: then nothing happens.
STATIC_LOG(t, s, a) ==
  /\ statement[t] = "idle"
  /\ logged[t] < MaxEntries
  /\ Severity[s] <= current_log_level
  /\ statement' = [statement EXCEPT ![t] =
                     IF NumParams(s) = 0 THEN "publish" ELSE "measure"]
  /\ site' = [site EXCEPT ![t] = s]
  /\ args' = [args EXCEPT ![t] = a]
  /\ arg_num' = [arg_num EXCEPT ![t] = 1]
  /\ previousPrecision' = [previousPrecision EXCEPT ![t] = UINT64_MAX]
  /\ alloc_size' = [alloc_size EXCEPT ![t] = 0]
  /\ write_pos' = [write_pos EXCEPT ![t] = 0]
  /\ stored' = [stored EXCEPT ![t] = <<>>]
  /\ offsets' = [offsets EXCEPT ![t] = <<0>>]
  /\ param_size' = [param_size EXCEPT ![s] = InitialSizes(s)]
  /\ logged' = [logged EXCEPT ![t] = @ + 1]
  /\ UNCHANGED <<current_log_level, fmt_length, queue, workerVars>>

\* as_uint64_t
NegativeIsNone(i) == IF i < 0 THEN 0 ELSE i           \* mutated
AsUint64(i) == IF i < 0 THEN UINT64_MAX ELSE i

\* The first store of getArgSize: the sizeof of an argument that is no string,
\* else strlen.  For a char* under "%p" there is none.
FirstSize(p, a, size) ==
  IF ~p.isString THEN p.size
  ELSE IF p.type <= kNON_STRING THEN size
  ELSE a

MeasureArg(t) ==
  /\ statement[t] = "measure"
  /\ param_size' = [param_size EXCEPT ![site[t]][arg_num[t]] =
                      FirstSize(Param(t), Arg(t), @)]
  /\ previousPrecision' = [previousPrecision EXCEPT ![t] =
       IF Param(t).type = kDYNAMIC_PRECISION THEN AsUint64(Arg(t)) ELSE @]
  /\ statement' = [statement EXCEPT ![t] =
       IF Param(t).type >= kSTRING THEN "length"
       ELSE IF Param(t).type = kSTRING_WITH_DYNAMIC_PRECISION THEN "compare"
       ELSE "add"]
  /\ UNCHANGED <<current_log_level, site, args, arg_num, fmt_length, alloc_size,
                 write_pos, stored, offsets, logged, queue, workerVars>>

\* The rest of getArgSize, for a string with a precision.  Of one in the format
\* itself only the sign is looked at: fmt_length is taken from string_size.
LoadLength(t) ==
  /\ statement[t] = "length"
  /\ fmt_length' = [fmt_length EXCEPT ![t] = Size(t)]
  /\ statement' = [statement EXCEPT ![t] = "compare"]
  /\ UNCHANGED <<current_log_level, param_size, site, args, arg_num,
                 previousPrecision, alloc_size, write_pos, stored, offsets,
                 logged, queue, workerVars>>

Bound(t) ==
  IF Param(t).type >= kSTRING THEN fmt_length[t] ELSE previousPrecision[t]

CompareLength(t) ==
  /\ statement[t] = "compare"
  /\ statement' = [statement EXCEPT ![t] =
                     IF Size(t) > Bound(t) THEN "truncate" ELSE "add"]
  /\ UNCHANGED <<current_log_level, param_size, site, args, arg_num,
                 previousPrecision, fmt_length, alloc_size, write_pos, stored,
                 offsets, logged, queue, workerVars>>

Truncate(t) ==
  /\ statement[t] = "truncate"
  /\ param_size' = [param_size EXCEPT ![site[t]][arg_num[t]] = Bound(t)]
  /\ statement' = [statement EXCEPT ![t] = "add"]
  /\ UNCHANGED <<current_log_level, site, args, arg_num, previousPrecision,
                 fmt_length, alloc_size, write_pos, stored, offsets, logged,
                 queue, workerVars>>

\* The bytes of parameter p in an entry, given its element of param_size.
WithoutHeader(p, size) ==                      \* mutated: no room for it
  IF ~p.isString THEN p.size
  ELSE IF p.type <= kNON_STRING THEN SIZEOF_POINTER
  ELSE size
Bytes(p, size) ==
  IF ~p.isString THEN p.size
  ELSE IF p.type <= kNON_STRING THEN SIZEOF_POINTER
  ELSE size + SIZEOF_UINT32

\* What getArgSize returns, with a last load, and getArgSizes adds up; gcc
\* evaluates the head before the rest.  Behind the last comes reserveAlloc.
Returned(p, size) == Bytes(p, size)
AddArgSize(t) ==
  /\ statement[t] = "add"
  /\ alloc_size' = [alloc_size EXCEPT ![t] = @ + Returned(Param(t), Size(t))]
  /\ offsets' = [offsets EXCEPT ![t] = Append(@, alloc_size'[t])]
  /\ arg_num' = [arg_num EXCEPT ![t] = NextArg(t)]
  /\ statement' = [statement EXCEPT ![t] = Then(t, "measure", "store")]
  /\ UNCHANGED <<current_log_level, param_size, site, args,
                 previousPrecision, fmt_length, write_pos, stored, logged,
                 queue, workerVars>>

\* storeArgument: a string is copied behind its length.
StoreArgument(t) ==
  /\ statement[t] = "store"
  /\ LET size == Bytes(Param(t), Size(t))
     IN /\ stored' = [stored EXCEPT ![t] =
                        Append(@, [pos |-> write_pos[t], size |-> size])]
        /\ write_pos' = [write_pos EXCEPT ![t] = @ + size]
  /\ arg_num' = [arg_num EXCEPT ![t] = NextArg(t)]
  /\ statement' = [statement EXCEPT ![t] = Then(t, "store", "publish")]
  /\ UNCHANGED <<current_log_level, param_size, site, args,
                 previousPrecision, fmt_length, alloc_size, offsets, logged,
                 queue, workerVars>>

\* entry_size, the timestamp and finishAlloc.  The locals end.
FinishAlloc(t) ==
  /\ statement[t] = "publish"
  /\ queue' = [queue EXCEPT ![t] =
       Append(@, [site |-> site[t], args |-> args[t], stored |-> stored[t],
                  entry_size |-> alloc_size[t]])]
  /\ statement' = [statement EXCEPT ![t] = "idle"]
  /\ site' = [site EXCEPT ![t] = "none"]
  /\ args' = [args EXCEPT ![t] = <<>>]
  /\ stored' = [stored EXCEPT ![t] = <<>>]
  /\ offsets' = [offsets EXCEPT ![t] = <<0>>]
  /\ alloc_size' = [alloc_size EXCEPT ![t] = 0]
  /\ write_pos' = [write_pos EXCEPT ![t] = 0]
  /\ previousPrecision' = [previousPrecision EXCEPT ![t] = UINT64_MAX]
  /\ fmt_length' = [fmt_length EXCEPT ![t] = 0]
  /\ UNCHANGED <<current_log_level, param_size, arg_num, logged, workerVars>>
-----------------------------------------------------------------------------
(* The worker: processLogBuffer and process_fmt. *)

Entry == Head(queue[formatting])

\* process_fmt takes one parameter for each specifier of the format; a '*'
\* is a parameter, but part of a specifier.  So the test param_idx <
\* num_params never fails.
NumSpecifiers(s) ==
  Cardinality({k \in 1 .. NumParams(s) : Format[s][k].type >= kNON_STRING})

StartFormatting(t) ==
  /\ formatting = "none"
  /\ queue[t] # <<>>
  /\ formatting' = t
  /\ param_idx' = 1
  /\ param_list' = 0
  /\ UNCHANGED <<current_log_level, param_size, threadVars, queue>>

\* Where parameter k of entry e was stored, or the end of the entry.
Start(e, k) == IF k \in DOMAIN e.stored THEN e.stored[k].pos ELSE e.entry_size

\* The uint32_t at offset pos of entry e: the length of the string stored
\* there, or some of its other bytes.
HeadersAt(e, pos) ==
  LET strings == {k \in DOMAIN e.stored :
                    /\ Format[e.site][k].type > kNON_STRING
                    /\ e.stored[k].pos = pos}
  IN IF strings = {} THEN Lengths
     ELSE {e.stored[k].size - SIZEOF_UINT32 : k \in strings}

\* Behind a string of length n whose header is at pos.
HeaderTwice(pos, n) == pos + SIZEOF_UINT32 + SIZEOF_UINT32 + n    \* mutated
BehindString(pos, n) == pos + SIZEOF_UINT32 + n

DecodeParam ==
  /\ formatting # "none"
  /\ param_idx <= NumSpecifiers(Entry.site)
  /\ IF Format[Entry.site][param_idx].type > kNON_STRING
     THEN \E string_size \in HeadersAt(Entry, param_list) :
            param_list' = BehindString(param_list, string_size)
     ELSE param_list' = param_list + param_size[Entry.site][param_idx]
  /\ param_idx' = param_idx + 1
  /\ UNCHANGED <<current_log_level, param_size, threadVars, queue, formatting>>

\* The end of the format: the line is written and the entry consumed.
Consume ==
  /\ formatting # "none"
  /\ param_idx > NumSpecifiers(Entry.site)
  /\ queue' = [queue EXCEPT ![formatting] = Tail(@)]
  /\ formatting' = "none"
  /\ param_idx' = 1
  /\ param_list' = 0
  /\ UNCHANGED <<current_log_level, param_size, threadVars>>

-----------------------------------------------------------------------------
LoggingThread(t) ==
  \/ \E s \in Uses[t] : \E a \in Arguments(s) : STATIC_LOG(t, s, a)
  \/ MeasureArg(t) \/ LoadLength(t) \/ CompareLength(t) \/ Truncate(t)
  \/ AddArgSize(t) \/ StoreArgument(t) \/ FinishAlloc(t)

Next ==
  \/ \E l \in LevelArgs : SetLogLevel(l)
  \/ \E t \in Threads : LoggingThread(t) \/ StartFormatting(t)
  \/ DecodeParam
  \/ Consume

Spec == Init /\ [][Next]_vars

-----------------------------------------------------------------------------
(* Properties. *)

TypeOK ==
  /\ current_log_level \in kSILENT_LOG_LEVEL .. kDEBUG
  /\ DOMAIN param_size = Sites
  /\ \A s \in Sites : param_size[s] \in [1 .. NumParams(s) -> Nat]
  /\ statement \in [Threads -> {"idle", "measure", "length", "compare",
                                "truncate", "add", "store", "publish"}]
  /\ \A t \in Threads :
       statement[t] # "idle" =>
         /\ site[t] \in Uses[t] /\ args[t] \in Arguments(site[t])
         /\ arg_num[t] \in 1 .. NumParams(site[t]) + 1
  /\ previousPrecision \in [Threads -> Nat]
  /\ fmt_length \in [Threads -> Nat]
  /\ alloc_size \in [Threads -> Nat]
  /\ write_pos \in [Threads -> Nat]
  /\ stored \in [Threads -> Seq([pos : Nat, size : Nat])]
  /\ offsets \in [Threads -> Seq(Nat)]
  /\ logged \in [Threads -> 0 .. MaxEntries]
  /\ \A t \in Threads : \A k \in DOMAIN queue[t] :
       /\ queue[t][k].site \in Uses[t]
       /\ Len(queue[t][k].stored) = NumParams(queue[t][k].site)
  /\ formatting \in Threads \cup {"none"}
  /\ formatting # "none" => queue[formatting] # <<>>
  /\ param_idx \in Nat \ {0} /\ param_list \in Nat

\* "Total number of bytes needed to represent all arguments": storeArguments
\* never writes behind the bytes that getArgSizes made the thread reserve,
\* and in the end has filled them.
StoreFillsReservation ==
  \A t \in Threads :
    /\ statement[t] \in {"store", "publish"} => write_pos[t] <= alloc_size[t]
    /\ statement[t] = "publish" => write_pos[t] = alloc_size[t]

\* What printf prints of string k of site s with the arguments a: no more than
\* the precision in the format or, unless it is negative, the '*' before it.
Least(m, n) == IF m < n THEN m ELSE n
OwnLength(s, a, k) ==
  LET type == Format[s][k].type
  IN IF type >= kSTRING THEN Least(a[k], type)
     ELSE IF type = kSTRING_WITH_DYNAMIC_PRECISION /\ a[k - 1] >= 0
     THEN Least(a[k], a[k - 1])
     ELSE a[k]

\* The length of string k in entry e.
StoredLength(e, k) == e.stored[k].size - SIZEOF_UINT32

\* Every entry holds its own strings, with what printf will print of them and
\* nothing that is not theirs, and a '*' precision truncates them, though the
\* lengths went through an array that the thread's other executions of the
\* statement, and other threads at other statements, write as well.
StoresOwnStrings ==
  \A t \in Threads : \A n \in DOMAIN queue[t] :
    LET e == queue[t][n] IN
    \A k \in 1 .. NumParams(e.site) :
      Format[e.site][k].type > kNON_STRING =>
        /\ StoredLength(e, k) \in OwnLength(e.site, e.args, k) .. e.args[k]
        /\ Format[e.site][k].type < kSTRING =>
             StoredLength(e, k) = OwnLength(e.site, e.args, k)

\* "Strings with static length specifiers (ex %.10s), have non-negative
\* ParamTypes equal to the static length. Thus, we use that value to truncate
\* the string as necessary": so does a precision in the format itself.
TruncatedByPrecision ==
  \A t \in Threads : \A n \in DOMAIN queue[t] :
    LET e == queue[t][n] IN
    \A k \in 1 .. NumParams(e.site) :
      Format[e.site][k].type >= kSTRING =>
        StoredLength(e, k) = OwnLength(e.site, e.args, k)

\* A char* that is passed for %p: getArgSize leaves its element of param_size
\* unset, so behind it the worker no longer knows where it is.
IsPointer(s, k) == Format[s][k].isString /\ Format[s][k].type <= kNON_STRING

\* The worker reads each parameter where it was stored, whatever sizes later
\* executions of the statement have put into the array the entry points to.
DecoderStaysAligned ==
  formatting # "none" =>
    \/ param_list = Start(Entry, param_idx)
    \/ \E k \in 1 .. param_idx - 1 : IsPointer(Entry.site, k)

\* "a specifier of "%*.*d" will actually count as 3 since the two '*" will
\* result in a parameter being passed in each": no specifier is given the
\* parameter of a '*' as its own.
SpecifierGetsItsArgument ==
  (formatting # "none" /\ param_idx <= NumSpecifiers(Entry.site)) =>
    Format[Entry.site][param_idx].type >= kNON_STRING
=============================================================================
