------------------------- MODULE LogStatementProofs -------------------------
(***************************************************************************)
(* Proofs about LogStatement for any call sites, formats, arguments and    *)
(* threads.                                                                *)
(*                                                                         *)
(* There are two invariants.  TypeInv holds whatever the threads share.    *)
(* SizesInv says that the sizes in param_size are those of the statement   *)
(* that is under way, as far as it has measured them; it needs that no two *)
(* threads execute one statement with a string (NotShared).                *)
(***************************************************************************)
EXTENDS LogStatement, SequenceTheorems, FiniteSetTheorems, TLAPS

IsStringParam(s, k) == Format[s][k].type > kNON_STRING

\* No statement with a string belongs to two threads.
NotShared ==
  \A t, u \in Threads : \A s \in Uses[t] \cap Uses[u] :
    (\E k \in 1 .. NumParams(s) : IsStringParam(s, k)) => t = u

\* The control states in which thread t is inside getArgSize.
Measuring(t) == statement[t] \in {"measure", "length", "compare", "truncate"}

StatementStates == {"idle", "measure", "length", "compare", "truncate", "add",
                    "store", "publish"}

-----------------------------------------------------------------------------
(* The first invariant: types, and how far a statement has come. *)

ArgLists == UNION {Arguments(s) : s \in Sites}
Places == [pos : Nat, size : Nat]

\* A stored string has its header.
HasHeaders(s, places) ==
  \A k \in 1 .. Len(places) :
    IsStringParam(s, k) => places[k].size >= SIZEOF_UINT32

\* The entries of a thread.
Entries(t) ==
  {e \in [site : Sites, args : ArgLists, stored : Seq(Places),
          entry_size : Nat] :
     /\ e.site \in Uses[t]
     /\ e.args \in Arguments(e.site)
     /\ Len(e.stored) = NumParams(e.site)
     /\ HasHeaders(e.site, e.stored)}

\* How far thread t has come: where it is and what it has stored.
InStatement(t) ==
  /\ site[t] \in Uses[t] /\ args[t] \in Arguments(site[t])
  /\ (Measuring(t) \/ statement[t] \in {"add", "store"}) =>
       arg_num[t] \in 1 .. NumParams(site[t])
  /\ (Measuring(t) \/ statement[t] = "add") => Len(stored[t]) = 0
  /\ statement[t] = "store" => Len(stored[t]) = arg_num[t] - 1
  /\ statement[t] = "publish" =>
       arg_num[t] = 1 /\ Len(stored[t]) = NumParams(site[t])
  /\ HasHeaders(site[t], stored[t])

ThreadTypes ==
  /\ statement \in [Threads -> StatementStates]
  /\ site \in [Threads -> Sites \cup {"none"}]
  /\ args \in [Threads -> ArgLists \cup {<<>>}]
  /\ arg_num \in [Threads -> Nat]
  /\ previousPrecision \in [Threads -> Nat]
  /\ fmt_length \in [Threads -> Nat]
  /\ alloc_size \in [Threads -> Nat]
  /\ write_pos \in [Threads -> Nat]
  /\ stored \in [Threads -> Seq(Places)]
  /\ offsets \in [Threads -> Seq(Nat)]
  /\ logged \in [Threads -> 0 .. MaxEntries]

SizeArrays == UNION {[1 .. NumParams(s) -> Nat] : s \in Sites}
SizeTypes ==
  /\ param_size \in [Sites -> SizeArrays]
  /\ \A s \in Sites : param_size[s] \in [1 .. NumParams(s) -> Nat]

QueueTypes ==
  /\ DOMAIN queue = Threads
  /\ \A t \in Threads : queue[t] \in Seq(Entries(t))

WorkerTypes ==
  /\ formatting \in Threads \cup {"none"}
  /\ formatting # "none" => queue[formatting] # <<>>
  /\ param_idx \in Nat \ {0} /\ param_list \in Nat

TypeInv ==
  /\ current_log_level \in kSILENT_LOG_LEVEL .. kDEBUG
  /\ ThreadTypes /\ SizeTypes /\ QueueTypes /\ WorkerTypes
  /\ \A t \in Threads : statement[t] # "idle" => InStatement(t)

-----------------------------------------------------------------------------
(* The second invariant: the sizes. *)

\* The length that getArgSize leaves of string k: only a '*' precision, if it is
\* not negative, truncates.
KeptLength(s, a, k) ==
  IF /\ Format[s][k].type = kSTRING_WITH_DYNAMIC_PRECISION
     /\ a[k - 1] \in 0 .. a[k]
  THEN a[k - 1]
  ELSE a[k]

\* The bytes that parameter k takes for the arguments a of site s.
BytesOf(s, a, k) == Bytes(Format[s][k], KeptLength(s, a, k))

\* param_size has the size of parameter k of the arguments a of site s; for a
\* char* under "%p" it has none.
Sized(s, a, k) ==
  /\ ~Format[s][k].isString => param_size[s][k] = Format[s][k].size
  /\ IsStringParam(s, k) => param_size[s][k] = KeptLength(s, a, k)

\* The sizes that thread t has measured so far are there.
IsMeasured(t, k) ==
  /\ Measuring(t) => k < arg_num[t]
  /\ statement[t] = "add" => k <= arg_num[t]

Measured(t) ==
  \A k \in 1 .. NumParams(site[t]) :
    IsMeasured(t, k) => Sized(site[t], args[t], k)

\* m[1] to m[n] are offsets of the parameters for the arguments a of site s.
Offsets(m, n, s, a) ==
  /\ m[1] = 0
  /\ \A k \in 1 .. n - 1 : m[k + 1] = m[k] + BytesOf(s, a, k)
  /\ \A j, k \in 1 .. n : j < k => m[j] < m[k]

\* alloc_size of thread t so far.
Added(t) ==
  /\ Offsets(offsets[t], Len(offsets[t]), site[t], args[t])
  /\ Len(offsets[t]) > 0
  /\ alloc_size[t] = offsets[t][Len(offsets[t])]
  /\ (Measuring(t) \/ statement[t] = "add") => Len(offsets[t]) = arg_num[t]
  /\ statement[t] \in {"store", "publish"} =>
       Len(offsets[t]) = NumParams(site[t]) + 1

\* The parameters that thread t has stored are where it has measured them.
Stored(t) ==
  /\ write_pos[t] = offsets[t][Len(stored[t]) + 1]
  /\ \A k \in 1 .. Len(stored[t]) :
       /\ stored[t][k].pos = offsets[t][k]
       /\ stored[t][k].size = BytesOf(site[t], args[t], k)

\* Behind a '*' parameter its value is the precision.
PrecisionKnown(t) ==
  /\ (Measuring(t) /\ arg_num[t] > 1) =>
       (Format[site[t]][arg_num[t] - 1].type = kDYNAMIC_PRECISION =>
          previousPrecision[t] = AsUint64(args[t][arg_num[t] - 1]))
  /\ statement[t] = "add" =>
       (Format[site[t]][arg_num[t]].type = kDYNAMIC_PRECISION =>
          previousPrecision[t] = AsUint64(args[t][arg_num[t]]))

\* Between its first store and the last one, getArgSize has the length of its
\* own string: in the array, and in fmt_length if the precision is in the format.
InGetArgSize(t) ==
  LET s == site[t]  k == arg_num[t]  type == Format[s][k].type
  IN statement[t] \in {"length", "compare", "truncate"} =>
       /\ IsStringParam(s, k)
       /\ param_size[s][k] = args[t][k]
       /\ statement[t] = "length" => type >= kSTRING
       /\ statement[t] = "compare" =>
            \/ type = kSTRING_WITH_DYNAMIC_PRECISION
            \/ type >= kSTRING /\ fmt_length[t] = args[t][k]
       /\ statement[t] = "truncate" =>
            /\ type = kSTRING_WITH_DYNAMIC_PRECISION
            /\ args[t][k] > previousPrecision[t]

Prepared(t) ==
  /\ Measured(t) /\ Added(t) /\ Stored(t) /\ PrecisionKnown(t)
  /\ InGetArgSize(t)

\* The array has the sizes of the parameters of site s that are no strings.
ValuesKnown(s) ==
  \A k \in 1 .. NumParams(s) :
    ~Format[s][k].isString => param_size[s][k] = Format[s][k].size

\* Entry e is laid out as its arguments say.
Starts(e) == [k \in 1 .. NumParams(e.site) + 1 |-> Start(e, k)]
LaidOut(e) ==
  /\ Offsets(Starts(e), NumParams(e.site) + 1, e.site, e.args)
  /\ \A k \in 1 .. NumParams(e.site) :
       e.stored[k].size = BytesOf(e.site, e.args, k)

Pending(t) == {queue[t][n] : n \in DOMAIN queue[t]}

SizesInv ==
  /\ \A t \in Threads : statement[t] # "idle" => Prepared(t)
  /\ \A t \in Threads : \A e \in Pending(t) : LaidOut(e) /\ ValuesKnown(e.site)
  /\ DecoderStaysAligned

IndInv == TypeInv /\ (NotShared => SizesInv)

-----------------------------------------------------------------------------
(* The constants. *)

LEMMA Param_Type ==
  ASSUME NEW s \in Sites, NEW k \in 1 .. NumParams(s)
  PROVE  /\ NumParams(s) \in Nat
         /\ Format[s][k].type \in Int /\ Format[s][k].isString \in BOOLEAN
         /\ Format[s][k].size \in Nat /\ Format[s][k].size > 0
         /\ IsStringParam(s, k) => Format[s][k].isString
         /\ Format[s][k].type = kDYNAMIC_PRECISION => ~Format[s][k].isString
         /\ Format[s][k].type = kSTRING_WITH_DYNAMIC_PRECISION =>
              k > 1 /\ Format[s][k - 1].type = kDYNAMIC_PRECISION
<1>1. Format[s] \in Seq(Parameters)
  BY FormatAssumption
<1>2. NumParams(s) \in Nat /\ k \in DOMAIN Format[s] /\ Format[s][k] \in Parameters
  BY <1>1, LenProperties DEF NumParams
<1>3. LET p == Format[s][k]
      IN /\ p.type > kNON_STRING => p.isString
         /\ p.type < kNON_STRING => ~p.isString
         /\ p.type = kSTRING_WITH_DYNAMIC_PRECISION =>
              k > 1 /\ Format[s][k - 1].type = kDYNAMIC_PRECISION
  BY <1>2, FormatAssumption
<1>4. /\ Format[s][k].type \in Int /\ Format[s][k].isString \in BOOLEAN
      /\ Format[s][k].size \in Nat /\ Format[s][k].size > 0
  BY <1>2 DEF Parameters
<1> QED
  BY <1>2, <1>3, <1>4 DEF IsStringParam, kDYNAMIC_PRECISION, kNON_STRING

LEMMA NumParamsType ==
  ASSUME NEW s \in Sites
  PROVE  NumParams(s) \in Nat
<1>1. Format[s] \in Seq(Parameters)
  BY FormatAssumption
<1> QED
  BY <1>1, LenProperties DEF NumParams

LEMMA UsedSites ==
  ASSUME NEW t \in Threads, NEW s \in Uses[t]
  PROVE  s \in Sites
BY UsesAssumption

LEMMA Arg_Type ==
  ASSUME NEW s \in Sites, NEW a \in Arguments(s), NEW k \in 1 .. NumParams(s)
  PROVE  /\ Format[s][k].isString => (a[k] \in Nat /\ a[k] <= UINT64_MAX)
         /\ Format[s][k].type = kDYNAMIC_PRECISION => a[k] \in Int
<1>1. a[k] \in IF Format[s][k].isString THEN Lengths
               ELSE IF Format[s][k].type = kDYNAMIC_PRECISION THEN Precisions
               ELSE {0}
  BY DEF Arguments
<1>2. /\ \A n \in Lengths : n \in Nat /\ n <= UINT64_MAX
      /\ \A n \in Precisions : n \in Int
  BY ValuesAssumption DEF UINT64_MAX
<1>3. CASE Format[s][k].isString
  BY <1>1, <1>2, <1>3, Param_Type
<1>4. CASE ~Format[s][k].isString
  BY <1>1, <1>2, <1>4, Param_Type
<1> QED
  BY <1>3, <1>4

LEMMA KeptLengthType ==
  ASSUME NEW s \in Sites, NEW a \in Arguments(s), NEW k \in 1 .. NumParams(s),
         IsStringParam(s, k)
  PROVE  KeptLength(s, a, k) \in Nat
BY Param_Type, Arg_Type DEF KeptLength

LEMMA BytesOfType ==
  ASSUME NEW s \in Sites, NEW a \in Arguments(s), NEW k \in 1 .. NumParams(s)
  PROVE  BytesOf(s, a, k) \in Nat /\ BytesOf(s, a, k) > 0
<1>1. CASE IsStringParam(s, k)
  BY <1>1, Param_Type, KeptLengthType
     DEF BytesOf, Bytes, IsStringParam, SIZEOF_UINT32, SIZEOF_POINTER
<1>2. CASE ~IsStringParam(s, k)
  BY <1>2, Param_Type
     DEF BytesOf, Bytes, IsStringParam, SIZEOF_POINTER, kNON_STRING
<1> QED
  BY <1>1, <1>2

\* The array gives the size of a parameter that was measured.
LEMMA SizedBytes ==
  ASSUME NEW s \in Sites, NEW a, NEW k \in 1 .. NumParams(s), Sized(s, a, k)
  PROVE  Bytes(Format[s][k], param_size[s][k]) = BytesOf(s, a, k)
<1>1. Format[s][k].isString /\ ~(Format[s][k].type <= kNON_STRING) =>
        IsStringParam(s, k)
  BY Param_Type DEF IsStringParam, kNON_STRING
<1> QED
  BY <1>1 DEF Sized, Bytes, BytesOf

\* There are no more specifiers than parameters.
LEMMA SpecifiersBound ==
  ASSUME NEW s \in Sites
  PROVE  NumSpecifiers(s) \in Nat /\ NumSpecifiers(s) <= NumParams(s)
<1> DEFINE S == {k \in 1 .. NumParams(s) : Format[s][k].type >= kNON_STRING}
<1>1. PICK n \in Nat : n = NumParams(s)
  BY NumParamsType
<1>2. IsFiniteSet(1 .. n) /\ Cardinality(1 .. n) = n
  BY FS_Interval
<1>3. S \in SUBSET (1 .. n)
  BY <1>1
<1>4. IsFiniteSet(S) /\ Cardinality(S) <= Cardinality(1 .. n)
  BY <1>2, <1>3, FS_Subset
<1>5. Cardinality(S) \in Nat
  BY <1>4, FS_CardinalityType
<1> QED
  BY <1>1, <1>2, <1>4, <1>5 DEF NumSpecifiers

\* A larger set has all sequences of a smaller one.
LEMMA SeqMonotone ==
  ASSUME NEW S, NEW T, S \subseteq T, NEW q \in Seq(S)
  PROVE  q \in Seq(T)
<1>1. PICK n \in Nat : q \in [1 .. n -> S]
  BY LenProperties
<1>2. q \in [1 .. n -> T]
  BY <1>1
<1> QED
  BY <1>2

-----------------------------------------------------------------------------
(* The first invariant holds in every reachable state. *)

LEMMA InitTypes ==
  ASSUME Init
  PROVE  TypeInv
<1>1. ThreadTypes
  BY MaxEntriesAssumption DEF Init, ThreadTypes, StatementStates, UINT64_MAX
<1>2. SizeTypes
  <2>1. ASSUME NEW s \in Sites
        PROVE  [k \in 1 .. NumParams(s) |-> 0] \in [1 .. NumParams(s) -> Nat]
    OBVIOUS
  <2> QED
    BY <2>1 DEF Init, SizeTypes, SizeArrays
<1>3. QueueTypes
  BY DEF Init, QueueTypes
<1>4. WorkerTypes
  BY DEF Init, WorkerTypes
<1>5. \A t \in Threads : statement[t] # "idle" => InStatement(t)
  BY DEF Init
<1>6. current_log_level \in kSILENT_LOG_LEVEL .. kDEBUG
  BY DEF Init, kSILENT_LOG_LEVEL, kDEBUG
<1> QED
  BY <1>1, <1>2, <1>3, <1>4, <1>5, <1>6 DEF TypeInv

\* A thread of which nothing changes stays where it is.
LEMMA StaysInStatement ==
  ASSUME NEW t \in Threads, InStatement(t),
         statement'[t] = statement[t], site'[t] = site[t], args'[t] = args[t],
         arg_num'[t] = arg_num[t], stored'[t] = stored[t]
  PROVE  InStatement(t)'
BY DEF InStatement, Measuring

\* A step that leaves the queues alone and starts no formatting.
LEMMA QueueTypesKept ==
  ASSUME QueueTypes, WorkerTypes, queue' = queue, formatting' = formatting,
         param_idx' = param_idx, param_list' = param_list
  PROVE  QueueTypes' /\ WorkerTypes'
BY DEF QueueTypes, WorkerTypes

LEMMA SetLogLevelTypes ==
  ASSUME TypeInv, NEW l \in Int, SetLogLevel(l)
  PROVE  TypeInv'
<1>1. current_log_level' \in kSILENT_LOG_LEVEL .. kDEBUG
  BY DEF SetLogLevel, Clamped, kSILENT_LOG_LEVEL, kDEBUG, kNUM_LOG_LEVELS
<1>2. ThreadTypes' /\ SizeTypes'
  BY DEF TypeInv, SetLogLevel, threadVars, ThreadTypes, SizeTypes
<1>3. QueueTypes' /\ WorkerTypes'
  BY QueueTypesKept DEF TypeInv, SetLogLevel, workerVars
<1>4. ASSUME NEW u \in Threads, statement'[u] # "idle"
      PROVE  InStatement(u)'
  BY <1>4, StaysInStatement DEF TypeInv, SetLogLevel, threadVars
<1> QED
  BY <1>1, <1>2, <1>3, <1>4 DEF TypeInv

LEMMA StaticLogTypes ==
  ASSUME TypeInv, NEW t \in Threads, NEW s \in Uses[t], NEW a \in Arguments(s),
         STATIC_LOG(t, s, a)
  PROVE  TypeInv'
<1>1. s \in Sites /\ NumParams(s) \in Nat /\ a \in ArgLists
  BY UsedSites, NumParamsType DEF ArgLists
<1>2. ThreadTypes'
  <2>1. logged[t] + 1 \in 0 .. MaxEntries
    BY MaxEntriesAssumption DEF TypeInv, ThreadTypes, STATIC_LOG
  <2> QED
    BY <1>1, <2>1
       DEF TypeInv, ThreadTypes, StatementStates, STATIC_LOG, UINT64_MAX
<1>3. param_size' = param_size
  BY DEF STATIC_LOG, InitialSizes, TypeInv, SizeTypes
<1>4. SizeTypes'
  BY <1>3 DEF TypeInv, SizeTypes
<1>5. QueueTypes' /\ WorkerTypes'
  BY QueueTypesKept DEF TypeInv, STATIC_LOG, workerVars
<1>6. InStatement(t)'
  <2>1. /\ site'[t] = s /\ args'[t] = a /\ arg_num'[t] = 1 /\ stored'[t] = <<>>
        /\ statement'[t] = IF NumParams(s) = 0 THEN "publish" ELSE "measure"
    BY MaxEntriesAssumption DEF TypeInv, ThreadTypes, STATIC_LOG
  <2> QED
    BY <1>1, <2>1 DEF InStatement, HasHeaders, Measuring
<1>7. ASSUME NEW u \in Threads, statement'[u] # "idle"
      PROVE  InStatement(u)'
  <2>1. CASE u = t
    BY <1>6, <2>1
  <2>2. CASE u # t
    BY <1>7, <2>2, StaysInStatement DEF TypeInv, ThreadTypes, STATIC_LOG
  <2> QED
    BY <2>1, <2>2
<1> QED
  BY <1>2, <1>4, <1>5, <1>7 DEF TypeInv, STATIC_LOG

\* What a thread does in a statement it does with a parameter of its site.
LEMMA AtParam ==
  ASSUME TypeInv, NEW t \in Threads,
         Measuring(t) \/ statement[t] \in {"add", "store"}
  PROVE  /\ site[t] \in Sites /\ site[t] \in Uses[t]
         /\ args[t] \in Arguments(site[t])
         /\ NumParams(site[t]) \in Nat
         /\ arg_num[t] \in 1 .. NumParams(site[t])
         /\ param_size[site[t]] \in [1 .. NumParams(site[t]) -> Nat]
<1>1. InStatement(t)
  BY DEF TypeInv, Measuring
<1>2. site[t] \in Sites
  BY <1>1, UsedSites DEF InStatement
<1> QED
  BY <1>1, <1>2, NumParamsType DEF InStatement, TypeInv, SizeTypes

LEMMA BytesType ==
  ASSUME NEW s \in Sites, NEW k \in 1 .. NumParams(s), NEW size \in Nat
  PROVE  /\ Bytes(Format[s][k], size) \in Nat
         /\ IsStringParam(s, k) => Bytes(Format[s][k], size) >= SIZEOF_UINT32
<1>1. CASE IsStringParam(s, k)
  BY <1>1, Param_Type DEF Bytes, IsStringParam, SIZEOF_UINT32, SIZEOF_POINTER
<1>2. CASE ~IsStringParam(s, k)
  BY <1>2, Param_Type DEF Bytes, IsStringParam, SIZEOF_POINTER, kNON_STRING
<1> QED
  BY <1>1, <1>2

\* A step leaves the sizes alone but for parameter k of site s.
OthersStay(s, k) ==
  \A x \in Sites : \A j \in 1 .. NumParams(x) :
    ~(x = s /\ j = k) => param_size'[x][j] = param_size[x][j]

\* A store into one element of the array.
LEMMA SizeStored ==
  ASSUME SizeTypes, NEW s \in Sites, NEW k \in 1 .. NumParams(s), NEW size \in Nat,
         param_size' = [param_size EXCEPT ![s][k] = size]
  PROVE  SizeTypes' /\ param_size'[s][k] = size /\ OthersStay(s, k)
<1>1. /\ param_size \in [Sites -> SizeArrays]
      /\ \A x \in Sites : param_size[x] \in [1 .. NumParams(x) -> Nat]
  BY DEF SizeTypes
<1>2. param_size'[s] = [param_size[s] EXCEPT ![k] = size]
  BY <1>1
<1>3. \A x \in Sites : x # s => param_size'[x] = param_size[x]
  BY <1>1
<1>4. param_size[s] \in [1 .. NumParams(s) -> Nat]
  BY <1>1
<1>5. param_size'[s] \in [1 .. NumParams(s) -> Nat] /\ param_size'[s][k] = size
  BY <1>2, <1>4
<1>6. \A x \in Sites : param_size'[x] \in [1 .. NumParams(x) -> Nat]
  BY <1>1, <1>3, <1>5
<1>7. \A x \in Sites : param_size'[x] \in SizeArrays
  BY <1>6 DEF SizeArrays
<1>8. DOMAIN param_size' = Sites /\ param_size' = [x \in Sites |-> param_size'[x]]
  BY <1>1
<1>9. SizeTypes'
  BY <1>6, <1>7, <1>8 DEF SizeTypes
<1>10. \A j \in 1 .. NumParams(s) : j # k => param_size'[s][j] = param_size[s][j]
  BY <1>2, <1>4
<1> QED
  BY <1>3, <1>5, <1>9, <1>10 DEF OthersStay

\* What the steps of getArgSize have in common.
GetArgSizeStep(t) ==
  /\ Measuring(t)
  /\ statement'[t] \in {"length", "compare", "truncate", "add"}
  /\ \A u \in Threads \ {t} :
       /\ statement'[u] = statement[u] /\ fmt_length'[u] = fmt_length[u]
       /\ previousPrecision'[u] = previousPrecision[u]
  /\ UNCHANGED <<current_log_level, site, args, arg_num, alloc_size, write_pos,
                 stored, offsets, logged, queue, workerVars>>

LEMMA GetArgSizeSteps ==
  ASSUME ThreadTypes, NEW t \in Threads,
         MeasureArg(t) \/ LoadLength(t) \/ CompareLength(t) \/ Truncate(t)
  PROVE  GetArgSizeStep(t)
<1>1. CASE MeasureArg(t)
  BY <1>1 DEF MeasureArg, GetArgSizeStep, Measuring, ThreadTypes
<1>2. CASE LoadLength(t)
  BY <1>2 DEF LoadLength, GetArgSizeStep, Measuring, ThreadTypes
<1>3. CASE CompareLength(t)
  BY <1>3 DEF CompareLength, GetArgSizeStep, Measuring, ThreadTypes
<1>4. CASE Truncate(t)
  BY <1>4 DEF Truncate, GetArgSizeStep, Measuring, ThreadTypes
<1> QED
  BY <1>1, <1>2, <1>3, <1>4

LEMMA GetArgSizeTypes ==
  ASSUME TypeInv, NEW t \in Threads, GetArgSizeStep(t), SizeTypes',
         statement' \in [Threads -> StatementStates],
         previousPrecision' \in [Threads -> Nat], fmt_length' \in [Threads -> Nat]
  PROVE  TypeInv'
<1>1. ThreadTypes'
  BY DEF GetArgSizeStep, TypeInv, ThreadTypes
<1>2. QueueTypes' /\ WorkerTypes'
  BY QueueTypesKept DEF TypeInv, GetArgSizeStep, workerVars
<1>3. InStatement(t)'
  <2>1. InStatement(t)
    BY DEF GetArgSizeStep, Measuring, TypeInv
  <2> QED
    BY <2>1 DEF InStatement, GetArgSizeStep, Measuring
<1>4. ASSUME NEW u \in Threads, statement'[u] # "idle"
      PROVE  InStatement(u)'
  <2>1. CASE u = t
    BY <1>3, <2>1
  <2>2. CASE u # t
    BY <1>4, <2>2, StaysInStatement DEF TypeInv, GetArgSizeStep
  <2> QED
    BY <2>1, <2>2
<1> QED
  BY <1>1, <1>2, <1>4 DEF TypeInv, GetArgSizeStep

LEMMA MeasureArgTypes ==
  ASSUME TypeInv, NEW t \in Threads, MeasureArg(t)
  PROVE  TypeInv' /\ FirstSize(Param(t), Arg(t), Size(t)) \in Nat
<1>1. GetArgSizeStep(t)
  BY GetArgSizeSteps DEF TypeInv
<1>2. PICK s \in Sites, k \in 1 .. NumParams(site[t]) :
        s = site[t] /\ k = arg_num[t]
  BY <1>1, AtParam DEF GetArgSizeStep
<1>3. k \in 1 .. NumParams(s) /\ args[t] \in Arguments(s)
      /\ param_size[s][k] \in Nat
  BY <1>1, <1>2, AtParam DEF GetArgSizeStep
<1>4. PICK size \in Nat : size = FirstSize(Param(t), Arg(t), Size(t))
  BY <1>2, <1>3, Param_Type, Arg_Type DEF FirstSize, Param, Arg, Size
<1>5. SizeTypes'
  <2>1. param_size' = [param_size EXCEPT ![s][k] = size]
    BY <1>2, <1>4 DEF MeasureArg, Size
  <2> QED
    BY <1>3, <2>1, SizeStored DEF TypeInv
<1>6. previousPrecision' \in [Threads -> Nat]
  <2>1. ASSUME Param(t).type = kDYNAMIC_PRECISION
        PROVE  AsUint64(Arg(t)) \in Nat
    BY <1>2, <1>3, <2>1, Arg_Type DEF Param, Arg, AsUint64, UINT64_MAX
  <2> QED
    BY <2>1 DEF MeasureArg, TypeInv, ThreadTypes
<1>7. statement' \in [Threads -> StatementStates]
  BY DEF MeasureArg, TypeInv, ThreadTypes, StatementStates
<1>8. fmt_length' \in [Threads -> Nat]
  BY DEF MeasureArg, TypeInv, ThreadTypes
<1> QED
  BY <1>1, <1>4, <1>5, <1>6, <1>7, <1>8, GetArgSizeTypes

LEMMA LoadLengthTypes ==
  ASSUME TypeInv, NEW t \in Threads, LoadLength(t)
  PROVE  TypeInv'
<1>1. GetArgSizeStep(t)
  BY GetArgSizeSteps DEF TypeInv
<1>2. Size(t) \in Nat
  BY <1>1, AtParam DEF GetArgSizeStep, Size
<1>3. fmt_length' \in [Threads -> Nat]
  BY <1>2 DEF LoadLength, TypeInv, ThreadTypes
<1>4. statement' \in [Threads -> StatementStates]
  BY DEF LoadLength, TypeInv, ThreadTypes, StatementStates
<1>5. SizeTypes' /\ previousPrecision' \in [Threads -> Nat]
  BY DEF LoadLength, TypeInv, ThreadTypes, SizeTypes
<1> QED
  BY <1>1, <1>3, <1>4, <1>5, GetArgSizeTypes

LEMMA CompareLengthTypes ==
  ASSUME TypeInv, NEW t \in Threads, CompareLength(t)
  PROVE  TypeInv'
<1>1. GetArgSizeStep(t)
  BY GetArgSizeSteps DEF TypeInv
<1>2. statement' \in [Threads -> StatementStates]
  BY DEF CompareLength, TypeInv, ThreadTypes, StatementStates
<1>3. /\ SizeTypes' /\ previousPrecision' \in [Threads -> Nat]
      /\ fmt_length' \in [Threads -> Nat]
  BY DEF CompareLength, TypeInv, ThreadTypes, SizeTypes
<1> QED
  BY <1>1, <1>2, <1>3, GetArgSizeTypes

LEMMA BoundType ==
  ASSUME TypeInv, NEW t \in Threads
  PROVE  Bound(t) \in Nat
BY DEF TypeInv, ThreadTypes, Bound

LEMMA TruncateTypes ==
  ASSUME TypeInv, NEW t \in Threads, Truncate(t)
  PROVE  TypeInv'
<1>1. GetArgSizeStep(t)
  BY GetArgSizeSteps DEF TypeInv
<1>2. statement' \in [Threads -> StatementStates]
  BY DEF Truncate, TypeInv, ThreadTypes, StatementStates
<1>3. previousPrecision' \in [Threads -> Nat] /\ fmt_length' \in [Threads -> Nat]
  BY DEF Truncate, TypeInv, ThreadTypes
<1>4. SizeTypes'
  <2>1. PICK s \in Sites, k \in 1 .. NumParams(site[t]) :
          s = site[t] /\ k = arg_num[t]
    BY <1>1, AtParam DEF GetArgSizeStep
  <2>2. PICK size \in Nat : size = Bound(t)
    BY BoundType
  <2>3. param_size' = [param_size EXCEPT ![s][k] = size]
    BY <2>1, <2>2 DEF Truncate
  <2> QED
    BY <2>1, <2>3, SizeStored DEF TypeInv
<1> QED
  BY <1>1, <1>2, <1>3, <1>4, GetArgSizeTypes

LEMMA AddArgSizeTypes ==
  ASSUME TypeInv, NEW t \in Threads, AddArgSize(t)
  PROVE  TypeInv'
<1> DEFINE s == site[t]  k == arg_num[t]
<1>1. statement[t] = "add" /\ InStatement(t)
  BY DEF AddArgSize, TypeInv
<1>2. /\ s \in Sites /\ NumParams(s) \in Nat
      /\ k \in 1 .. NumParams(s) /\ param_size[s] \in [1 .. NumParams(s) -> Nat]
  BY <1>1, AtParam
<1>3. alloc_size[t] + Returned(Param(t), Size(t)) \in Nat
  <2>1. param_size[s][k] \in Nat
    BY <1>2
  <2>2. Bytes(Format[s][k], param_size[s][k]) \in Nat
    BY <1>2, <2>1, BytesType
  <2> QED
    BY <2>2 DEF TypeInv, ThreadTypes, Returned, Param, Size
<1>4. /\ alloc_size' \in [Threads -> Nat]
      /\ offsets' = [offsets EXCEPT ![t] = Append(@, alloc_size'[t])]
  BY <1>3 DEF AddArgSize, TypeInv, ThreadTypes
<1>5. offsets' \in [Threads -> Seq(Nat)]
  <2>1. Append(offsets[t], alloc_size'[t]) \in Seq(Nat)
    BY <1>4, AppendProperties DEF TypeInv, ThreadTypes
  <2> QED
    BY <1>4, <2>1 DEF TypeInv, ThreadTypes
<1>6. NextArg(t) \in 1 .. NumParams(s) + 1 /\ (NextArg(t) \in 1 .. NumParams(s))
  BY <1>2 DEF NextArg
<1>7. ThreadTypes'
  <2>1. arg_num' \in [Threads -> Nat]
    BY <1>6 DEF AddArgSize, TypeInv, ThreadTypes
  <2>2. statement' \in [Threads -> StatementStates]
    BY DEF AddArgSize, TypeInv, ThreadTypes, Then, StatementStates
  <2>3. UNCHANGED <<site, args, previousPrecision, fmt_length, write_pos, stored,
                    logged>>
    BY DEF AddArgSize
  <2> QED
    BY <1>4, <1>5, <2>1, <2>2, <2>3 DEF TypeInv, ThreadTypes
<1>8. SizeTypes' /\ QueueTypes' /\ WorkerTypes'
  BY QueueTypesKept DEF TypeInv, AddArgSize, SizeTypes, workerVars
<1>9. InStatement(t)'
  BY <1>1, <1>2, <1>6
     DEF InStatement, Measuring, AddArgSize, TypeInv, ThreadTypes, Then, NextArg
<1>10. ASSUME NEW u \in Threads, statement'[u] # "idle"
       PROVE  InStatement(u)'
  <2>1. CASE u = t
    BY <1>9, <2>1
  <2>2. CASE u # t
    BY <1>10, <2>2, StaysInStatement DEF TypeInv, ThreadTypes, AddArgSize
  <2> QED
    BY <2>1, <2>2
<1> QED
  BY <1>7, <1>8, <1>10 DEF TypeInv, AddArgSize

LEMMA StoreArgumentTypes ==
  ASSUME TypeInv, NEW t \in Threads, StoreArgument(t)
  PROVE  TypeInv'
<1> DEFINE s == site[t]  k == arg_num[t]
<1>1. statement[t] = "store" /\ InStatement(t)
  BY DEF StoreArgument, TypeInv
<1>2. /\ s \in Sites /\ NumParams(s) \in Nat
      /\ k \in 1 .. NumParams(s) /\ param_size[s] \in [1 .. NumParams(s) -> Nat]
  BY <1>1, AtParam
<1>3. PICK size \in Nat :
        /\ size = Bytes(Param(t), Size(t))
        /\ IsStringParam(s, k) => size >= SIZEOF_UINT32
  <2>1. param_size[s][k] \in Nat
    BY <1>2
  <2> QED
    BY <1>2, <2>1, BytesType DEF Param, Size
<1>4. PICK place \in Places : place = [pos |-> write_pos[t], size |-> size]
  BY DEF TypeInv, ThreadTypes, Places
<1>5. /\ stored' = [stored EXCEPT ![t] = Append(@, place)]
      /\ write_pos' = [write_pos EXCEPT ![t] = @ + size]
  BY <1>3, <1>4 DEF StoreArgument
<1>6. stored[t] \in Seq(Places) /\ write_pos[t] \in Nat
  BY DEF TypeInv, ThreadTypes
<1>7. stored' \in [Threads -> Seq(Places)] /\ write_pos' \in [Threads -> Nat]
  <2>1. Append(stored[t], place) \in Seq(Places)
    BY <1>6, AppendProperties
  <2> QED
    BY <1>5, <1>6, <2>1 DEF TypeInv, ThreadTypes
<1>8. ThreadTypes'
  <2>1. NextArg(t) \in Nat
    BY <1>2 DEF NextArg
  <2>2. /\ arg_num' = [arg_num EXCEPT ![t] = NextArg(t)]
        /\ statement' = [statement EXCEPT ![t] = Then(t, "store", "publish")]
        /\ UNCHANGED <<site, args, previousPrecision, fmt_length, alloc_size,
                       offsets, logged>>
    BY DEF StoreArgument
  <2>3. arg_num' \in [Threads -> Nat]
    BY <2>1, <2>2 DEF TypeInv, ThreadTypes
  <2>4. Then(t, "store", "publish") \in {"store", "publish"}
    BY DEF Then
  <2>5. statement' \in [Threads -> StatementStates]
    BY <2>2, <2>4 DEF TypeInv, ThreadTypes, StatementStates
  <2> QED
    BY <1>7, <2>2, <2>3, <2>5 DEF TypeInv, ThreadTypes
<1>9. SizeTypes' /\ QueueTypes' /\ WorkerTypes'
  BY QueueTypesKept DEF TypeInv, StoreArgument, SizeTypes, workerVars
<1>10. HasHeaders(s, Append(stored[t], place)) /\ Len(Append(stored[t], place)) = k
  <2>1. Len(stored[t]) = k - 1 /\ HasHeaders(s, stored[t])
    BY <1>1 DEF InStatement
  <2>2. /\ Len(Append(stored[t], place)) = k
        /\ Append(stored[t], place)[k] = place
        /\ \A i \in 1 .. k - 1 : Append(stored[t], place)[i] = stored[t][i]
    BY <1>2, <1>6, <2>1, AppendProperties
  <2> QED
    BY <1>2, <1>3, <1>4, <2>1, <2>2 DEF HasHeaders
<1>11. InStatement(t)'
  <2>1. /\ site'[t] = s /\ args'[t] = args[t]
        /\ stored'[t] = Append(stored[t], place)
        /\ statement'[t] = (IF k = NumParams(s) THEN "publish" ELSE "store")
        /\ arg_num'[t] = IF k = NumParams(s) THEN 1 ELSE k + 1
    BY <1>5 DEF StoreArgument, TypeInv, ThreadTypes, Then, NextArg
  <2> QED
    BY <1>1, <1>2, <1>10, <2>1 DEF InStatement, Measuring
<1>12. ASSUME NEW u \in Threads, statement'[u] # "idle"
       PROVE  InStatement(u)'
  <2>1. CASE u = t
    BY <1>11, <2>1
  <2>2. CASE u # t
    BY <1>12, <2>2, StaysInStatement DEF TypeInv, ThreadTypes, StoreArgument
  <2> QED
    BY <2>1, <2>2
<1> QED
  BY <1>8, <1>9, <1>12 DEF TypeInv, StoreArgument

\* The entry that FinishAlloc publishes.
NewEntry(t) ==
  [site |-> site[t], args |-> args[t], stored |-> stored[t],
   entry_size |-> alloc_size[t]]

LEMMA NewEntryType ==
  ASSUME TypeInv, NEW t \in Threads, statement[t] = "publish"
  PROVE  NewEntry(t) \in Entries(t)
<1>1. InStatement(t)
  BY DEF TypeInv
<1>2. site[t] \in Sites /\ args[t] \in ArgLists
  BY <1>1, UsedSites DEF InStatement, ArgLists
<1>3. stored[t] \in Seq(Places) /\ alloc_size[t] \in Nat
  BY DEF TypeInv, ThreadTypes
<1>4. NewEntry(t) \in [site : Sites, args : ArgLists, stored : Seq(Places),
                       entry_size : Nat]
  BY <1>2, <1>3 DEF NewEntry
<1> QED
  BY <1>1, <1>4 DEF Entries, NewEntry, InStatement

\* An entry goes behind the others of its thread.
LEMMA Published ==
  ASSUME TypeInv, NEW t \in Threads, FinishAlloc(t)
  PROVE  /\ statement[t] = "publish"
         /\ queue'[t] = Append(queue[t], NewEntry(t))
         /\ \A u \in Threads : u # t => queue'[u] = queue[u]
         /\ queue[t] \in Seq(Entries(t)) /\ NewEntry(t) \in Entries(t)
         /\ DOMAIN queue' = Threads
<1>1. statement[t] = "publish" /\ DOMAIN queue = Threads
      /\ queue[t] \in Seq(Entries(t))
  BY DEF FinishAlloc, TypeInv, QueueTypes
<1>2. queue' = [queue EXCEPT ![t] = Append(@, NewEntry(t))]
  BY DEF FinishAlloc, NewEntry
<1> QED
  BY <1>1, <1>2, NewEntryType

LEMMA FinishAllocTypes ==
  ASSUME TypeInv, NEW t \in Threads, FinishAlloc(t)
  PROVE  TypeInv'
<1>1. ThreadTypes'
  BY DEF FinishAlloc, TypeInv, ThreadTypes, StatementStates, UINT64_MAX
<1>2. SizeTypes'
  BY DEF TypeInv, FinishAlloc, SizeTypes
<1>3. QueueTypes'
  <2>1. Append(queue[t], NewEntry(t)) \in Seq(Entries(t))
    BY Published, AppendProperties
  <2> QED
    BY <2>1, Published DEF TypeInv, QueueTypes
<1>4. WorkerTypes'
  <2>1. UNCHANGED <<formatting, param_idx, param_list>> /\ WorkerTypes
    BY DEF TypeInv, FinishAlloc, workerVars
  <2>2. Append(queue[t], NewEntry(t)) # <<>>
    BY Published, AppendProperties
  <2>3. ASSUME formatting # "none" PROVE queue'[formatting] # <<>>
    BY <2>1, <2>2, <2>3, Published DEF WorkerTypes
  <2> QED
    BY <2>1, <2>3 DEF WorkerTypes
<1>5. ASSUME NEW u \in Threads, statement'[u] # "idle"
      PROVE  InStatement(u)'
  <2>1. u # t
    BY <1>5 DEF FinishAlloc, TypeInv, ThreadTypes
  <2> QED
    BY <1>5, <2>1, StaysInStatement DEF TypeInv, ThreadTypes, FinishAlloc
<1> QED
  BY <1>1, <1>2, <1>3, <1>4, <1>5 DEF TypeInv, FinishAlloc

\* The worker changes nothing of the threads.
LEMMA WorkerStepTypes ==
  ASSUME TypeInv, UNCHANGED <<current_log_level, param_size, threadVars>>,
         QueueTypes', WorkerTypes'
  PROVE  TypeInv'
<1>1. ThreadTypes' /\ SizeTypes'
  BY DEF TypeInv, threadVars, ThreadTypes, SizeTypes
<1>2. ASSUME NEW u \in Threads, statement'[u] # "idle"
      PROVE  InStatement(u)'
  BY <1>2, StaysInStatement DEF TypeInv, threadVars
<1> QED
  BY <1>1, <1>2 DEF TypeInv

LEMMA StartFormattingTypes ==
  ASSUME TypeInv, NEW t \in Threads, StartFormatting(t)
  PROVE  TypeInv'
<1>1. /\ queue[t] # <<>> /\ queue' = queue
      /\ formatting' = t /\ param_idx' = 1 /\ param_list' = 0
  BY DEF StartFormatting
<1>2. QueueTypes'
  BY <1>1 DEF TypeInv, QueueTypes
<1>3. WorkerTypes'
  BY <1>1 DEF WorkerTypes
<1> QED
  BY <1>2, <1>3, WorkerStepTypes DEF StartFormatting

\* The entry that is formatted.
LEMMA EntryType ==
  ASSUME TypeInv, formatting # "none"
  PROVE  /\ formatting \in Threads /\ queue[formatting] # <<>>
         /\ queue[formatting] \in Seq(Entries(formatting))
         /\ Entry = queue[formatting][1] /\ Entry \in Entries(formatting)
         /\ Entry \in Pending(formatting)
         /\ Len(queue[formatting]) \in Nat /\ Len(queue[formatting]) > 0
         /\ DOMAIN queue[formatting] = 1 .. Len(queue[formatting])
<1>1. /\ formatting \in Threads /\ queue[formatting] # <<>>
      /\ queue[formatting] \in Seq(Entries(formatting))
  BY DEF TypeInv, WorkerTypes, QueueTypes
<1>2. PICK q \in Seq(Entries(formatting)) : q = queue[formatting]
  BY <1>1
<1>3. Len(q) \in Nat /\ Len(q) > 0 /\ DOMAIN q = 1 .. Len(q)
  BY <1>1, <1>2, EmptySeq, LenProperties
<1>4. Head(q) = q[1] /\ q[1] \in Entries(formatting)
  BY <1>3, ElementOfSeq
<1> QED
  BY <1>1, <1>2, <1>3, <1>4 DEF Entry, Pending

\* The parameter the worker decodes.
LEMMA AtSpecifier ==
  ASSUME TypeInv, DecodeParam
  PROVE  /\ formatting # "none" /\ Entry \in Entries(formatting)
         /\ Entry.site \in Sites
         /\ NumParams(Entry.site) \in Nat
         /\ param_idx \in 1 .. NumParams(Entry.site)
         /\ DOMAIN Entry.stored = 1 .. NumParams(Entry.site)
<1>1. formatting # "none" /\ Entry \in Entries(formatting)
  BY EntryType DEF DecodeParam
<1>2. PICK e \in Entries(formatting) : e = Entry
  BY <1>1
<1>3. /\ e.site \in Sites /\ Len(e.stored) = NumParams(e.site)
      /\ e.stored \in Seq(Places)
  BY DEF Entries
<1>4. /\ NumParams(e.site) \in Nat
      /\ NumSpecifiers(e.site) \in Nat /\ NumSpecifiers(e.site) <= NumParams(e.site)
  BY <1>3, NumParamsType, SpecifiersBound
<1>5. param_idx \in Nat \ {0} /\ param_idx <= NumSpecifiers(e.site)
  BY <1>2 DEF DecodeParam, TypeInv, WorkerTypes
<1> QED
  BY <1>1, <1>2, <1>3, <1>4, <1>5, LenProperties

LEMMA HeaderType ==
  ASSUME NEW t \in Threads, NEW e \in Entries(t), NEW pos \in Nat,
         NEW n \in HeadersAt(e, pos)
  PROVE  n \in Nat
<1> DEFINE strings == {k \in DOMAIN e.stored :
                         /\ Format[e.site][k].type > kNON_STRING
                         /\ e.stored[k].pos = pos}
<1>1. /\ e.stored \in Seq(Places) /\ HasHeaders(e.site, e.stored)
      /\ DOMAIN e.stored = 1 .. Len(e.stored)
  BY LenProperties DEF Entries
<1>2. CASE strings = {}
  BY <1>2, ValuesAssumption DEF HeadersAt, UINT64_MAX
<1>3. CASE strings # {}
  <2>1. PICK k \in strings : n = e.stored[k].size - SIZEOF_UINT32
    BY <1>3 DEF HeadersAt
  <2>2. e.stored[k] \in Places
    BY <1>1, ElementOfSeq
  <2>3. e.stored[k].size >= SIZEOF_UINT32
    BY <1>1 DEF HasHeaders, IsStringParam
  <2> QED
    BY <2>1, <2>2, <2>3 DEF Places, SIZEOF_UINT32
<1> QED
  BY <1>2, <1>3

LEMMA DecodeParamTypes ==
  ASSUME TypeInv, DecodeParam
  PROVE  TypeInv'
<1>1. PICK e \in Entries(formatting), k \in Nat \ {0}, pos \in Nat :
        e = Entry /\ k = param_idx /\ pos = param_list
  BY AtSpecifier DEF TypeInv, WorkerTypes
<1>2. formatting \in Threads /\ e.site \in Sites /\ k \in 1 .. NumParams(e.site)
  BY <1>1, AtSpecifier DEF TypeInv, WorkerTypes
<1>3. param_list' \in Nat
  <2>1. CASE Format[e.site][k].type > kNON_STRING
    <3>1. PICK n \in HeadersAt(e, pos) : param_list' = BehindString(pos, n)
      BY <1>1, <2>1 DEF DecodeParam
    <3> QED
      BY <1>2, <3>1, HeaderType DEF BehindString, SIZEOF_UINT32
  <2>2. CASE ~(Format[e.site][k].type > kNON_STRING)
    <3>1. param_list' = pos + param_size[e.site][k]
      BY <1>1, <2>2 DEF DecodeParam
    <3>2. param_size[e.site] \in [1 .. NumParams(e.site) -> Nat]
      BY <1>2 DEF TypeInv, SizeTypes
    <3>3. param_size[e.site][k] \in Nat
      BY <1>2, <3>2
    <3> QED
      BY <3>1, <3>3
  <2> QED
    BY <2>1, <2>2
<1>4. WorkerTypes'
  BY <1>1, <1>3 DEF DecodeParam, TypeInv, WorkerTypes
<1>5. QueueTypes'
  BY DEF DecodeParam, TypeInv, QueueTypes
<1> QED
  BY <1>4, <1>5, WorkerStepTypes DEF DecodeParam

LEMMA ConsumeTypes ==
  ASSUME TypeInv, Consume
  PROVE  TypeInv'
<1>1. QueueTypes'
  <2>1. /\ formatting \in Threads /\ queue[formatting] # <<>>
        /\ queue[formatting] \in Seq(Entries(formatting))
    BY EntryType DEF Consume
  <2>2. Tail(queue[formatting]) \in Seq(Entries(formatting))
    BY <2>1, HeadTailProperties
  <2> QED
    BY <2>1, <2>2 DEF Consume, TypeInv, QueueTypes
<1>2. WorkerTypes'
  BY DEF Consume, WorkerTypes
<1> QED
  BY <1>1, <1>2, WorkerStepTypes DEF Consume

LEMMA StutterTypes ==
  ASSUME TypeInv, UNCHANGED vars
  PROVE  TypeInv'
<1>1. QueueTypes' /\ WorkerTypes'
  BY DEF TypeInv, QueueTypes, WorkerTypes, vars, workerVars
<1> QED
  BY <1>1, WorkerStepTypes DEF vars

LEMMA StepTypes ==
  ASSUME TypeInv, [Next]_vars
  PROVE  TypeInv'
<1>1. ASSUME NEW l \in LevelArgs, SetLogLevel(l)
      PROVE  TypeInv'
  BY <1>1, SetLogLevelTypes, LevelArgsAssumption
<1>2. ASSUME NEW t \in Threads, LoggingThread(t)
      PROVE  TypeInv'
  BY <1>2, StaticLogTypes, MeasureArgTypes, LoadLengthTypes, CompareLengthTypes,
     TruncateTypes, AddArgSizeTypes, StoreArgumentTypes, FinishAllocTypes
     DEF LoggingThread
<1>3. ASSUME NEW t \in Threads, StartFormatting(t)
      PROVE  TypeInv'
  BY <1>3, StartFormattingTypes
<1> QED
  BY <1>1, <1>2, <1>3, DecodeParamTypes, ConsumeTypes, StutterTypes DEF Next

\* Every variable keeps its type, and a statement is at a parameter of its
\* site, whatever the threads share.
THEOREM TypeInvariance == Spec => []TypeInv
<1>1. Init => TypeInv
  BY InitTypes
<1>2. TypeInv /\ [Next]_vars => TypeInv'
  BY StepTypes
<1> QED
  BY <1>1, <1>2, PTL DEF Spec

\* No size, offset or length becomes negative, each pending entry has one place
\* for each parameter of its statement, and the worker formats only entries
\* that are there.
THEOREM TypeCorrect == Spec => []TypeOK
<1>1. ASSUME TypeInv
      PROVE  TypeOK
  <2>1. ASSUME NEW t \in Threads, statement[t] # "idle"
        PROVE  /\ site[t] \in Uses[t] /\ args[t] \in Arguments(site[t])
               /\ arg_num[t] \in 1 .. NumParams(site[t]) + 1
    <3>1. InStatement(t) /\ site[t] \in Sites /\ statement[t] \in StatementStates
      BY <1>1, <2>1, UsedSites DEF TypeInv, ThreadTypes, InStatement
    <3> QED
      BY <2>1, <3>1, NumParamsType DEF InStatement, Measuring, StatementStates
  <2>2. ASSUME NEW t \in Threads, NEW k \in DOMAIN queue[t]
        PROVE  /\ queue[t][k].site \in Uses[t]
               /\ Len(queue[t][k].stored) = NumParams(queue[t][k].site)
    <3>1. PICK q \in Seq(Entries(t)) : q = queue[t]
      BY <1>1 DEF TypeInv, QueueTypes
    <3>2. q[k] \in Entries(t)
      BY <3>1, ElementOfSeq, LenProperties
    <3> QED
      BY <3>1, <3>2 DEF Entries
  <2>3. \A s \in Sites : param_size[s] \in [1 .. NumParams(s) -> Nat]
    BY <1>1 DEF TypeInv, SizeTypes
  <2> QED
    BY <1>1, <2>1, <2>2, <2>3
       DEF TypeInv, TypeOK, ThreadTypes, StatementStates, SizeTypes, WorkerTypes,
           Places
<1> QED
  BY <1>1, TypeInvariance, PTL

-----------------------------------------------------------------------------
(* The second invariant holds while no string statement is shared. *)

\* A thread of which nothing changes keeps its preparations as long as the
\* sizes it has measured stay.
LEMMA PreparedKept ==
  ASSUME NEW t \in Threads, Prepared(t),
         statement'[t] = statement[t], site'[t] = site[t], args'[t] = args[t],
         arg_num'[t] = arg_num[t], stored'[t] = stored[t],
         previousPrecision'[t] = previousPrecision[t],
         fmt_length'[t] = fmt_length[t],
         alloc_size'[t] = alloc_size[t], write_pos'[t] = write_pos[t],
         offsets'[t] = offsets[t],
         \A k \in 1 .. NumParams(site[t]) :
           /\ Sized(site[t], args[t], k) => Sized(site[t], args[t], k)'
           /\ IsStringParam(site[t], k) =>
                param_size'[site[t]][k] = param_size[site[t]][k],
         InStatement(t)
  PROVE  Prepared(t)'
<1>1. Measured(t)'
  BY DEF Prepared, Measured, IsMeasured, Measuring
<1>2. Added(t)' /\ Stored(t)' /\ PrecisionKnown(t)'
  BY DEF Prepared, Added, Stored, PrecisionKnown, Measuring
<1>3. InGetArgSize(t)'
  <2>1. statement[t] \in {"length", "compare", "truncate"} =>
          arg_num[t] \in 1 .. NumParams(site[t])
    BY DEF InStatement, Measuring
  <2> QED
    BY <2>1 DEF Prepared, InGetArgSize, IsStringParam
<1> QED
  BY <1>1, <1>2, <1>3 DEF Prepared

\* A step that leaves the sizes and the other threads alone.
LEMMA OthersPrepared ==
  ASSUME NEW t \in Threads, Prepared(t), param_size' = param_size,
         statement'[t] = statement[t], site'[t] = site[t], args'[t] = args[t],
         arg_num'[t] = arg_num[t], stored'[t] = stored[t],
         previousPrecision'[t] = previousPrecision[t],
         fmt_length'[t] = fmt_length[t],
         alloc_size'[t] = alloc_size[t], write_pos'[t] = write_pos[t],
         offsets'[t] = offsets[t]
  PROVE  Prepared(t)'
<1>1. Measured(t)'
  BY DEF Prepared, Measured, IsMeasured, Measuring, Sized
<1>2. Added(t)' /\ Stored(t)' /\ PrecisionKnown(t)'
  BY DEF Prepared, Added, Stored, PrecisionKnown, Measuring
<1>3. InGetArgSize(t)'
  BY DEF Prepared, InGetArgSize
<1> QED
  BY <1>1, <1>2, <1>3 DEF Prepared

\* A step that leaves the worker and the queues alone.
LEMMA WorkerKept ==
  ASSUME DecoderStaysAligned, queue' = queue, formatting' = formatting,
         param_idx' = param_idx, param_list' = param_list
  PROVE  DecoderStaysAligned'
BY DEF DecoderStaysAligned, Entry

LEMMA EntriesKept ==
  ASSUME queue' = queue, param_size' = param_size,
         \A t \in Threads : \A e \in Pending(t) : LaidOut(e) /\ ValuesKnown(e.site)
  PROVE  \A t \in Threads : \A e \in Pending(t)' : LaidOut(e) /\ ValuesKnown(e.site)'
BY DEF Pending, ValuesKnown

\* The second invariant behind a step.
LEMMA SizesInvPrime ==
  ASSUME \A t \in Threads : statement'[t] # "idle" => Prepared(t)',
         \A t \in Threads : \A e \in Pending(t)' : LaidOut(e) /\ ValuesKnown(e.site)',
         DecoderStaysAligned'
  PROVE  SizesInv'
BY DEF SizesInv

LEMMA InitSizes ==
  ASSUME Init
  PROVE  SizesInv
BY NamesAssumption DEF Init, SizesInv, DecoderStaysAligned, Pending

LEMMA SetLogLevelSizes ==
  ASSUME SizesInv, NEW l, SetLogLevel(l)
  PROVE  SizesInv'
<1>1. DecoderStaysAligned'
  BY WorkerKept DEF SizesInv, SetLogLevel, workerVars
<1>2. \A t \in Threads : \A e \in Pending(t)' : LaidOut(e) /\ ValuesKnown(e.site)'
  BY EntriesKept DEF SizesInv, SetLogLevel
<1>3. ASSUME NEW u \in Threads, statement'[u] # "idle"
      PROVE  Prepared(u)'
  BY <1>3, OthersPrepared DEF SizesInv, SetLogLevel, threadVars
<1> QED
  BY <1>1, <1>2, <1>3, SizesInvPrime

LEMMA StaticLogSizes ==
  ASSUME TypeInv, SizesInv, NEW t \in Threads, NEW s \in Uses[t],
         NEW a \in Arguments(s), STATIC_LOG(t, s, a)
  PROVE  SizesInv'
<1>1. s \in Sites /\ NumParams(s) \in Nat
  BY UsedSites, NumParamsType
<1>2. param_size' = param_size
  BY <1>1 DEF STATIC_LOG, InitialSizes, TypeInv, SizeTypes
<1>3. DecoderStaysAligned'
  BY WorkerKept DEF SizesInv, STATIC_LOG, workerVars
<1>4. \A u \in Threads : \A e \in Pending(u)' : LaidOut(e) /\ ValuesKnown(e.site)'
  BY <1>2, EntriesKept DEF SizesInv, STATIC_LOG
<1>5. Prepared(t)'
  <2>1. /\ site'[t] = s /\ args'[t] = a /\ arg_num'[t] = 1
        /\ stored'[t] = <<>> /\ offsets'[t] = <<0>>
        /\ alloc_size'[t] = 0 /\ write_pos'[t] = 0
        /\ statement'[t] = IF NumParams(s) = 0 THEN "publish" ELSE "measure"
    BY DEF TypeInv, ThreadTypes, STATIC_LOG
  <2>2. Measured(t)'
    BY <1>1, <2>1 DEF Measured, IsMeasured, Measuring
  <2>3. Added(t)'
    BY <1>1, <2>1 DEF Added, Offsets, Measuring
  <2>4. Stored(t)'
    BY <2>1 DEF Stored
  <2>5. PrecisionKnown(t)' /\ InGetArgSize(t)'
    BY <2>1 DEF PrecisionKnown, InGetArgSize, Measuring
  <2> QED
    BY <2>2, <2>3, <2>4, <2>5 DEF Prepared
<1>6. ASSUME NEW u \in Threads, statement'[u] # "idle"
      PROVE  Prepared(u)'
  <2>1. CASE u = t
    BY <1>5, <2>1
  <2>2. CASE u # t
    <3>1. Prepared(u)
      BY <1>6, <2>2 DEF SizesInv, TypeInv, ThreadTypes, STATIC_LOG
    <3> QED
      BY <1>2, <2>2, <3>1, OthersPrepared DEF TypeInv, ThreadTypes, STATIC_LOG
  <2> QED
    BY <2>1, <2>2
<1> QED
  BY <1>3, <1>4, <1>6, SizesInvPrime

\* A step of getArgSize leaves the elements of param_size alone that are not its
\* own; if its own is not a string's, it gets the sizeof.
OnlyOwnSize(t) ==
  /\ OthersStay(site[t], arg_num[t])
  /\ LET p == Format[site[t]][arg_num[t]]
     IN ~p.isString => param_size'[site[t]][arg_num[t]] = p.size

LEMMA GetArgSizeSizes ==
  ASSUME NotShared, TypeInv, SizesInv, NEW t \in Threads, GetArgSizeStep(t),
         \/ OnlyOwnSize(t) /\ ~IsPointer(site[t], arg_num[t])
         \/ param_size' = param_size,
         statement'[t] = "add" => Sized(site[t], args[t], arg_num[t])',
         PrecisionKnown(t)', InGetArgSize(t)'
  PROVE  SizesInv'
<1>1. Measuring(t) /\ Prepared(t)
  BY DEF GetArgSizeStep, SizesInv, Measuring
<1>2. PICK s \in Sites, k \in 1 .. NumParams(site[t]) :
        s = site[t] /\ k = arg_num[t]
  BY <1>1, AtParam
<1>3. k \in 1 .. NumParams(s) /\ NumParams(s) \in Nat /\ s \in Uses[t]
  BY <1>1, <1>2, AtParam
<1>4. \A x \in Sites : \A j \in 1 .. NumParams(x) :
        ~(x = s /\ j = k) => param_size'[x][j] = param_size[x][j]
  BY <1>2 DEF OnlyOwnSize, OthersStay
<1>5. \/ param_size'[s][k] = param_size[s][k]
      \/ IsStringParam(s, k)
      \/ ~Format[s][k].isString /\ param_size'[s][k] = Format[s][k].size
  <2>1. Format[s][k].type \in Int
    BY <1>3, Param_Type
  <2> QED
    BY <1>2, <2>1 DEF OnlyOwnSize, IsPointer, IsStringParam, kNON_STRING
<1>6. DecoderStaysAligned'
  BY WorkerKept DEF SizesInv, GetArgSizeStep, workerVars
<1>7. ASSUME NEW u \in Threads, NEW e \in Pending(u)'
      PROVE  LaidOut(e) /\ ValuesKnown(e.site)'
  <2>1. e \in Pending(u)
    BY DEF GetArgSizeStep, Pending
  <2>2. LaidOut(e) /\ ValuesKnown(e.site) /\ e.site \in Sites
    <3>1. PICK n \in DOMAIN queue[u] : e = queue[u][n]
      BY <2>1 DEF Pending
    <3>2. e \in Entries(u)
      BY <3>1, ElementOfSeq, LenProperties DEF TypeInv, QueueTypes
    <3> QED
      BY <2>1, <3>2 DEF SizesInv, Entries
  <2>3. IsStringParam(s, k) => Format[s][k].isString
    BY <1>3, Param_Type
  <2>4. ASSUME NEW j \in 1 .. NumParams(e.site), ~Format[e.site][j].isString
        PROVE  param_size'[e.site][j] = Format[e.site][j].size
    <3>1. param_size[e.site][j] = Format[e.site][j].size
      BY <2>2, <2>4 DEF ValuesKnown
    <3>2. CASE e.site = s /\ j = k
      BY <1>5, <2>3, <2>4, <3>1, <3>2
    <3>3. CASE ~(e.site = s /\ j = k)
      BY <1>4, <2>2, <3>1, <3>3
    <3> QED
      BY <3>2, <3>3
  <2> QED
    BY <2>2, <2>4 DEF ValuesKnown
<1>8. UNCHANGED <<site, args, arg_num, alloc_size, write_pos, stored, offsets>>
  BY DEF GetArgSizeStep
<1>9. statement'[t] \in {"length", "compare", "truncate", "add"}
  BY DEF GetArgSizeStep
<1>10. Prepared(t)'
  <2>1. Measured(t)'
    <3>1. ASSUME NEW j \in 1 .. NumParams(s), j < k
          PROVE  Sized(s, args[t], j)'
      <4>1. Sized(s, args[t], j)
        BY <1>1, <1>2, <3>1 DEF Prepared, Measured, IsMeasured, Measuring
      <4> QED
        BY <1>3, <1>4, <1>8, <3>1, <4>1 DEF Sized
    <3>2. ASSUME NEW j \in 1 .. NumParams(s), IsMeasured(t, j)'
          PROVE  Sized(s, args[t], j)'
      <4>1. j < k \/ (j = k /\ statement'[t] = "add")
        BY <1>2, <1>3, <1>8, <1>9, <3>2 DEF IsMeasured, Measuring
      <4> QED
        BY <1>2, <1>8, <3>1, <4>1
    <3> QED
      BY <1>2, <1>8, <3>2 DEF Measured
  <2>2. Added(t)'
    BY <1>1, <1>8, <1>9 DEF Prepared, Added, Measuring
  <2>3. Stored(t)'
    BY <1>1, <1>8 DEF Prepared, Stored
  <2> QED
    BY <2>1, <2>2, <2>3 DEF Prepared
<1>11. ASSUME NEW u \in Threads, u # t, statement'[u] # "idle"
       PROVE  Prepared(u)'
  <2>1. /\ statement'[u] = statement[u] /\ fmt_length'[u] = fmt_length[u]
        /\ previousPrecision'[u] = previousPrecision[u]
    BY <1>11 DEF GetArgSizeStep
  <2>2. statement[u] # "idle" /\ Prepared(u) /\ InStatement(u)
    BY <1>11, <2>1 DEF TypeInv, SizesInv
  <2>3. site[u] \in Uses[u] /\ site[u] \in Sites
    BY <2>2, UsedSites DEF InStatement
  <2>4. ASSUME NEW j \in 1 .. NumParams(site[u])
        PROVE  /\ Sized(site[u], args[u], j) => Sized(site[u], args[u], j)'
               /\ IsStringParam(site[u], j) =>
                    param_size'[site[u]][j] = param_size[site[u]][j]
    <3>1. CASE site[u] = s /\ j = k
      <4>1. ~IsStringParam(s, k)
        BY <1>3, <1>11, <2>3, <3>1 DEF NotShared
      <4>2. \/ param_size'[s][k] = param_size[s][k]
            \/ ~Format[s][k].isString /\ param_size'[s][k] = Format[s][k].size
        BY <1>5, <4>1
      <4> QED
        BY <1>8, <3>1, <4>1, <4>2 DEF Sized
    <3>2. CASE ~(site[u] = s /\ j = k)
      <4>1. param_size'[site[u]][j] = param_size[site[u]][j]
        BY <1>4, <2>3, <3>2
      <4> QED
        BY <1>8, <4>1 DEF Sized
    <3> QED
      BY <3>1, <3>2
  <2> QED
    BY <1>8, <2>1, <2>2, <2>4, PreparedKept
<1> QED
  BY <1>6, <1>7, <1>10, <1>11, SizesInvPrime

\* Where a thread in getArgSize is, and with what.
LEMMA AtString ==
  ASSUME TypeInv, SizesInv, NEW t \in Threads, Measuring(t)
  PROVE  /\ Prepared(t) /\ site[t] \in Sites
         /\ args[t] \in Arguments(site[t])
         /\ arg_num[t] \in 1 .. NumParams(site[t])
         /\ previousPrecision[t] \in Nat
         /\ IsStringParam(site[t], arg_num[t]) =>
              /\ args[t][arg_num[t]] \in Nat
              /\ args[t][arg_num[t]] <= UINT64_MAX
<1>1. Prepared(t)
  BY DEF Measuring, SizesInv
<1>2. /\ site[t] \in Sites /\ args[t] \in Arguments(site[t])
      /\ arg_num[t] \in 1 .. NumParams(site[t])
  BY AtParam
<1>3. previousPrecision[t] \in Nat
  BY DEF TypeInv, ThreadTypes
<1> QED
  BY <1>1, <1>2, <1>3, Param_Type, Arg_Type

\* The precision before a "%.*s" is the one that truncates it.
LEMMA DynamicPrecision ==
  ASSUME TypeInv, SizesInv, NEW t \in Threads, Measuring(t),
         Format[site[t]][arg_num[t]].type = kSTRING_WITH_DYNAMIC_PRECISION
  PROVE  LET a == args[t][arg_num[t]]  prec == previousPrecision[t]
         IN /\ a > prec => KeptLength(site[t], args[t], arg_num[t]) = prec
            /\ ~(a > prec) => KeptLength(site[t], args[t], arg_num[t]) = a
<1>1. PICK s \in Sites, a \in Arguments(site[t]), k \in 1 .. NumParams(site[t]),
           prec \in Nat :
        s = site[t] /\ a = args[t] /\ k = arg_num[t] /\ prec = previousPrecision[t]
  BY AtString
<1>2. a \in Arguments(s) /\ k \in 1 .. NumParams(s) /\ NumParams(s) \in Nat
      /\ Format[s][k].type = kSTRING_WITH_DYNAMIC_PRECISION
  BY <1>1, NumParamsType
<1>3. a[k] \in Nat /\ a[k] <= UINT64_MAX
  BY <1>1, <1>2, AtString
     DEF IsStringParam, kNON_STRING, kSTRING_WITH_DYNAMIC_PRECISION
<1>4. k > 1 /\ Format[s][k - 1].type = kDYNAMIC_PRECISION
  BY <1>2, Param_Type
<1>5. k - 1 \in 1 .. NumParams(s)
  BY <1>2, <1>4
<1>6. a[k - 1] \in Int
  BY <1>2, <1>4, <1>5, Arg_Type
<1>7. prec = AsUint64(a[k - 1])
  BY <1>1, <1>4, AtString DEF Prepared, PrecisionKnown
<1>8. KeptLength(s, a, k) = IF a[k - 1] \in 0 .. a[k] THEN a[k - 1] ELSE a[k]
  BY <1>2 DEF KeptLength
<1> QED
  BY <1>1, <1>3, <1>6, <1>7, <1>8 DEF AsUint64

LEMMA MeasureArgSizes ==
  ASSUME NotShared, TypeInv, SizesInv, NEW t \in Threads, MeasureArg(t)
  PROVE  SizesInv'
<1>1. GetArgSizeStep(t) /\ Measuring(t)
  BY GetArgSizeSteps DEF TypeInv, MeasureArg, Measuring
<1>2. PICK s \in Sites, a \in Arguments(site[t]), k \in 1 .. NumParams(site[t]),
           size \in Nat :
        /\ s = site[t] /\ a = args[t] /\ k = arg_num[t]
        /\ size = FirstSize(Format[s][k], a[k], param_size[s][k])
  BY <1>1, AtString, MeasureArgTypes DEF Param, Arg, Size
<1>3. k \in 1 .. NumParams(s) /\ a \in Arguments(s)
  BY <1>2
<1>4. /\ Format[s][k].type \in Int /\ Format[s][k].isString \in BOOLEAN
      /\ IsStringParam(s, k) => Format[s][k].isString
  BY <1>3, Param_Type
<1>5. param_size'[s][k] = size /\ OthersStay(s, k)
  <2>1. param_size' = [param_size EXCEPT ![s][k] = size]
    BY <1>2 DEF MeasureArg, Param, Arg
  <2>2. SizeTypes
    BY DEF TypeInv
  <2> QED
    BY <1>3, <2>1, <2>2, SizeStored
<1>6. \/ OnlyOwnSize(t) /\ ~IsPointer(s, k)
      \/ param_size' = param_size
  <2>1. CASE IsPointer(s, k)
    <3>1. param_size' = [param_size EXCEPT ![s][k] = param_size[s][k]]
      BY <1>2, <2>1 DEF MeasureArg, Param, Arg, IsPointer, FirstSize
    <3> QED
      BY <3>1 DEF TypeInv, SizeTypes
  <2>2. CASE ~IsPointer(s, k)
    BY <1>2, <1>5, <2>2 DEF OnlyOwnSize, FirstSize
  <2> QED
    BY <2>1, <2>2
<1>7. /\ statement'[t] = IF Format[s][k].type >= kSTRING THEN "length"
                         ELSE IF Format[s][k].type = kSTRING_WITH_DYNAMIC_PRECISION
                         THEN "compare" ELSE "add"
      /\ previousPrecision'[t] = IF Format[s][k].type = kDYNAMIC_PRECISION
                                 THEN AsUint64(a[k]) ELSE previousPrecision[t]
      /\ site' = site /\ args' = args /\ arg_num' = arg_num
  BY <1>2 DEF MeasureArg, TypeInv, ThreadTypes, Param, Arg
<1>8. IsStringParam(s, k) => size = a[k]
  BY <1>2, <1>4 DEF FirstSize, IsStringParam, kNON_STRING
<1>9. ASSUME statement'[t] = "add"
      PROVE  Sized(s, a, k)'
  <2>1. /\ ~(Format[s][k].type >= kSTRING)
        /\ Format[s][k].type # kSTRING_WITH_DYNAMIC_PRECISION
    BY <1>7, <1>9
  <2>2. KeptLength(s, a, k) = a[k]
    BY <2>1 DEF KeptLength
  <2>3. ~Format[s][k].isString => size = Format[s][k].size
    BY <1>2 DEF FirstSize
  <2> QED
    BY <1>5, <1>8, <2>2, <2>3 DEF Sized
<1>10. PrecisionKnown(t)'
  <2>1. CASE statement'[t] = "add"
    BY <1>2, <1>7, <2>1 DEF PrecisionKnown, Measuring
  <2>2. CASE statement'[t] # "add"
    <3>1. Format[s][k].type # kDYNAMIC_PRECISION /\ statement'[t] # "measure"
      BY <1>4, <1>7, <2>2
         DEF kSTRING, kDYNAMIC_PRECISION, kSTRING_WITH_DYNAMIC_PRECISION
    <3>2. previousPrecision'[t] = previousPrecision[t]
      BY <1>7, <3>1
    <3>3. PrecisionKnown(t)
      BY <1>1, AtString DEF Prepared
    <3> QED
      BY <1>1, <1>7, <2>2, <3>2, <3>3 DEF PrecisionKnown
  <2> QED
    BY <2>1, <2>2
<1>11. InGetArgSize(t)'
  <2>1. CASE statement'[t] = "add"
    BY <2>1 DEF InGetArgSize
  <2>2. CASE statement'[t] # "add"
    <3>1. IsStringParam(s, k)
      BY <1>4, <1>7, <2>2
         DEF IsStringParam, kSTRING, kNON_STRING, kSTRING_WITH_DYNAMIC_PRECISION
    <3>2. param_size'[s][k] = a[k]
      BY <1>5, <1>8, <3>1
    <3> QED
      BY <1>2, <1>7, <3>1, <3>2 DEF InGetArgSize, IsStringParam
  <2> QED
    BY <2>1, <2>2
<1>12. statement'[t] = "add" => Sized(site[t], args[t], arg_num[t])'
  BY <1>2, <1>7, <1>9
<1> QED
  BY <1>1, <1>2, <1>6, <1>10, <1>11, <1>12, GetArgSizeSizes

\* The rest of getArgSize deals with a string.
LEMMA StringStep ==
  ASSUME TypeInv, SizesInv, NEW t \in Threads, GetArgSizeStep(t),
         statement[t] # "measure"
  PROVE  /\ Measuring(t) /\ InGetArgSize(t) /\ PrecisionKnown(t)
         /\ IsStringParam(site[t], arg_num[t])
         /\ ~IsPointer(site[t], arg_num[t])
         /\ Format[site[t]][arg_num[t]].isString
         /\ Format[site[t]][arg_num[t]].type # kDYNAMIC_PRECISION
         /\ Format[site[t]][arg_num[t]].type \in Int
         /\ param_size[site[t]][arg_num[t]] = args[t][arg_num[t]]
<1>1. Measuring(t)
  BY DEF GetArgSizeStep
<1>2. InGetArgSize(t) /\ PrecisionKnown(t)
  BY <1>1, AtString DEF Prepared
<1>3. /\ IsStringParam(site[t], arg_num[t])
      /\ param_size[site[t]][arg_num[t]] = args[t][arg_num[t]]
  BY <1>1, <1>2 DEF InGetArgSize, Measuring
<1>4. /\ Format[site[t]][arg_num[t]].type \in Int
      /\ Format[site[t]][arg_num[t]].isString
  BY <1>1, <1>3, AtString, Param_Type
<1> QED
  BY <1>1, <1>2, <1>3, <1>4
     DEF IsStringParam, IsPointer, kNON_STRING, kDYNAMIC_PRECISION

\* None of it changes the precision.
LEMMA PrecisionStays ==
  ASSUME TypeInv, SizesInv, NEW t \in Threads, GetArgSizeStep(t),
         statement[t] # "measure", previousPrecision'[t] = previousPrecision[t]
  PROVE  PrecisionKnown(t)'
<1>1. /\ Measuring(t) /\ PrecisionKnown(t)
      /\ Format[site[t]][arg_num[t]].type # kDYNAMIC_PRECISION
  BY StringStep
<1> QED
  BY <1>1 DEF PrecisionKnown, GetArgSizeStep

LEMMA LoadLengthSizes ==
  ASSUME NotShared, TypeInv, SizesInv, NEW t \in Threads, LoadLength(t)
  PROVE  SizesInv'
<1>1. GetArgSizeStep(t)
  BY GetArgSizeSteps DEF TypeInv
<1>2. /\ statement[t] = "length" /\ statement'[t] = "compare"
      /\ fmt_length'[t] = param_size[site[t]][arg_num[t]]
      /\ UNCHANGED <<param_size, site, args, arg_num, previousPrecision>>
  BY DEF LoadLength, TypeInv, ThreadTypes, Size
<1>3. PrecisionKnown(t)'
  BY <1>1, <1>2, PrecisionStays
<1>4. InGetArgSize(t)'
  <2>1. /\ InGetArgSize(t)
        /\ param_size[site[t]][arg_num[t]] = args[t][arg_num[t]]
    BY <1>1, <1>2, StringStep
  <2> QED
    BY <1>2, <2>1 DEF InGetArgSize, IsStringParam
<1> QED
  BY <1>1, <1>2, <1>3, <1>4, GetArgSizeSizes

LEMMA CompareLengthSizes ==
  ASSUME NotShared, TypeInv, SizesInv, NEW t \in Threads, CompareLength(t)
  PROVE  SizesInv'
<1>1. GetArgSizeStep(t)
  BY GetArgSizeSteps DEF TypeInv
<1>2. PICK s \in Sites, a \in Arguments(site[t]), k \in 1 .. NumParams(site[t]) :
        s = site[t] /\ a = args[t] /\ k = arg_num[t]
  BY <1>1, AtString DEF GetArgSizeStep
<1>3. /\ statement[t] = "compare"
      /\ statement'[t] = IF Size(t) > Bound(t) THEN "truncate" ELSE "add"
      /\ UNCHANGED <<param_size, site, args, arg_num, previousPrecision, fmt_length>>
  BY DEF CompareLength, TypeInv, ThreadTypes
<1>4. PrecisionKnown(t)'
  BY <1>1, <1>3, PrecisionStays
<1>5. /\ Measuring(t) /\ IsStringParam(s, k) /\ param_size[s][k] = a[k]
      /\ Format[s][k].isString /\ Size(t) = a[k] /\ a[k] \in Nat
      /\ Format[s][k].type \in Int
  BY <1>1, <1>2, <1>3, StringStep, AtString DEF Size
<1>6. \/ Format[s][k].type = kSTRING_WITH_DYNAMIC_PRECISION
      \/ Format[s][k].type >= kSTRING /\ fmt_length[t] = a[k]
  BY <1>1, <1>2, <1>3, StringStep DEF InGetArgSize
<1>7. CASE Format[s][k].type = kSTRING_WITH_DYNAMIC_PRECISION
  <2>1. Bound(t) = previousPrecision[t]
    BY <1>2, <1>7 DEF Bound, Param, kSTRING, kSTRING_WITH_DYNAMIC_PRECISION
  <2>2. CASE a[k] > previousPrecision[t]
    <3>1. statement'[t] = "truncate"
      BY <1>3, <1>5, <2>1, <2>2
    <3>2. InGetArgSize(t)'
      BY <1>2, <1>3, <1>5, <1>7, <2>2, <3>1 DEF InGetArgSize, IsStringParam
    <3> QED
      BY <1>1, <1>3, <1>4, <3>1, <3>2, GetArgSizeSizes
  <2>3. CASE ~(a[k] > previousPrecision[t])
    <3>1. statement'[t] = "add"
      BY <1>3, <1>5, <2>1, <2>3
    <3>2. KeptLength(s, a, k) = a[k]
      BY <1>2, <1>5, <1>7, <2>3, DynamicPrecision
    <3>3. Sized(site[t], args[t], arg_num[t])'
      BY <1>2, <1>3, <1>5, <3>2 DEF Sized
    <3>4. InGetArgSize(t)'
      BY <3>1 DEF InGetArgSize
    <3> QED
      BY <1>1, <1>3, <1>4, <3>3, <3>4, GetArgSizeSizes
  <2> QED
    BY <2>2, <2>3
<1>8. CASE Format[s][k].type >= kSTRING /\ fmt_length[t] = a[k]
  <2>1. Bound(t) = a[k] /\ ~(a[k] > a[k])
    BY <1>2, <1>5, <1>8 DEF Bound, Param
  <2>2. statement'[t] = "add"
    BY <1>3, <1>5, <2>1
  <2>3. KeptLength(s, a, k) = a[k]
    BY <1>5, <1>8 DEF KeptLength, kSTRING, kSTRING_WITH_DYNAMIC_PRECISION
  <2>4. Sized(site[t], args[t], arg_num[t])'
    BY <1>2, <1>3, <1>5, <2>3 DEF Sized
  <2>5. InGetArgSize(t)'
    BY <2>2 DEF InGetArgSize
  <2> QED
    BY <1>1, <1>3, <1>4, <2>4, <2>5, GetArgSizeSizes
<1> QED
  BY <1>6, <1>7, <1>8

LEMMA TruncateSizes ==
  ASSUME NotShared, TypeInv, SizesInv, NEW t \in Threads, Truncate(t)
  PROVE  SizesInv'
<1>1. GetArgSizeStep(t)
  BY GetArgSizeSteps DEF TypeInv
<1>2. PICK s \in Sites, a \in Arguments(site[t]), k \in 1 .. NumParams(site[t]),
           size \in Nat :
        s = site[t] /\ a = args[t] /\ k = arg_num[t] /\ size = previousPrecision[t]
  BY <1>1, AtString DEF GetArgSizeStep
<1>3. /\ statement[t] = "truncate" /\ statement'[t] = "add"
      /\ UNCHANGED <<site, args, arg_num, previousPrecision>>
  BY DEF Truncate, TypeInv, ThreadTypes
<1>4. /\ Measuring(t) /\ Format[s][k].type = kSTRING_WITH_DYNAMIC_PRECISION
      /\ a[k] > size
  BY <1>1, <1>2, <1>3, StringStep DEF InGetArgSize
<1>5. KeptLength(s, a, k) = size
  BY <1>2, <1>4, DynamicPrecision
<1>6. param_size'[s][k] = size /\ OthersStay(s, k)
  <2>1. Bound(t) = size
    BY <1>2, <1>4 DEF Bound, Param, kSTRING, kSTRING_WITH_DYNAMIC_PRECISION
  <2>2. param_size' = [param_size EXCEPT ![s][k] = size]
    BY <1>2, <2>1 DEF Truncate
  <2>3. k \in 1 .. NumParams(s) /\ SizeTypes
    BY <1>2 DEF TypeInv
  <2> QED
    BY <2>2, <2>3, SizeStored
<1>7. Format[s][k].isString /\ ~IsPointer(s, k)
  BY <1>1, <1>2, <1>3, StringStep
<1>8. OnlyOwnSize(t)
  BY <1>2, <1>6, <1>7 DEF OnlyOwnSize
<1>9. Sized(site[t], args[t], arg_num[t])'
  BY <1>2, <1>3, <1>5, <1>6, <1>7 DEF Sized
<1>10. PrecisionKnown(t)'
  BY <1>1, <1>3, PrecisionStays
<1>11. InGetArgSize(t)'
  BY <1>3 DEF InGetArgSize
<1> QED
  BY <1>1, <1>2, <1>7, <1>8, <1>9, <1>10, <1>11, GetArgSizeSizes

\* The next parameter is behind the ones before it.
LEMMA OffsetsExtend ==
  ASSUME NEW s \in Sites, NEW a \in Arguments(s), NEW m \in Seq(Nat),
         NEW k \in 1 .. NumParams(s), Len(m) = k, Offsets(m, k, s, a)
  PROVE  LET m2 == Append(m, m[k] + BytesOf(s, a, k))
         IN m2 \in Seq(Nat) /\ Len(m2) = k + 1 /\ Offsets(m2, k + 1, s, a)
<1>1. NumParams(s) \in Nat /\ k \in Nat /\ k > 0
  BY NumParamsType
<1>2. PICK b \in Nat : b = BytesOf(s, a, k) /\ b > 0
  BY BytesOfType
<1>3. m[k] \in Nat /\ \A i \in 1 .. k : m[i] \in Nat
  BY <1>1, ElementOfSeq
<1>4. PICK m2 \in Seq(Nat) : m2 = Append(m, m[k] + b)
  <2>1. PICK n \in Nat : n = m[k] + b
    BY <1>3
  <2>2. Append(m, n) \in Seq(Nat)
    BY AppendProperties
  <2> QED
    BY <2>1, <2>2
<1>5. /\ Len(m2) = k + 1 /\ m2[k + 1] = m[k] + b
      /\ \A i \in 1 .. k : m2[i] = m[i]
  BY <1>3, <1>4, AppendProperties
<1>6. m2[1] = 0
  BY <1>1, <1>5 DEF Offsets
<1>7. \A i \in 1 .. k : m2[i + 1] = m2[i] + BytesOf(s, a, i)
  <2>1. ASSUME NEW i \in 1 .. k
        PROVE  m2[i + 1] = m2[i] + BytesOf(s, a, i)
    <3>1. CASE i = k
      BY <1>2, <1>5, <3>1
    <3>2. CASE i # k
      <4>1. i \in 1 .. k - 1 /\ i + 1 \in 1 .. k
        BY <1>1, <3>2
      <4>2. m[i + 1] = m[i] + BytesOf(s, a, i)
        BY <4>1 DEF Offsets
      <4> QED
        BY <1>5, <4>1, <4>2
    <3> QED
      BY <3>1, <3>2
  <2> QED
    BY <2>1
<1>8. ASSUME NEW i \in 1 .. k + 1, NEW j \in 1 .. k + 1, i < j
      PROVE  m2[i] < m2[j]
  <2>1. i \in 1 .. k
    BY <1>1, <1>8
  <2>2. CASE j = k + 1
    <3>1. m[i] <= m[k]
      BY <1>1, <1>3, <2>1 DEF Offsets
    <3> QED
      BY <1>2, <1>3, <1>5, <2>1, <2>2, <3>1
  <2>3. CASE j # k + 1
    <3>1. j \in 1 .. k
      BY <1>1, <2>3
    <3> QED
      BY <1>5, <1>8, <2>1, <3>1 DEF Offsets
  <2> QED
    BY <2>2, <2>3
<1>9. Offsets(m2, k + 1, s, a)
  <2>1. k + 1 - 1 = k
    BY <1>1
  <2> QED
    BY <1>6, <1>7, <1>8, <2>1 DEF Offsets
<1> QED
  BY <1>2, <1>4, <1>5, <1>9

LEMMA AddArgSizeSizes ==
  ASSUME TypeInv, SizesInv, NEW t \in Threads, AddArgSize(t)
  PROVE  SizesInv'
<1>1. statement[t] = "add" /\ Prepared(t) /\ InStatement(t)
  BY DEF AddArgSize, SizesInv, TypeInv
<1>2. PICK s \in Sites, a \in Arguments(site[t]), k \in 1 .. NumParams(site[t]),
           m \in Seq(Nat) :
        s = site[t] /\ a = args[t] /\ k = arg_num[t] /\ m = offsets[t]
  BY <1>1, AtParam DEF TypeInv, ThreadTypes
<1>3. /\ a \in Arguments(s) /\ k \in 1 .. NumParams(s) /\ NumParams(s) \in Nat
  BY <1>2, NumParamsType
<1>4. /\ Len(m) = k /\ Offsets(m, k, s, a) /\ alloc_size[t] = m[k]
      /\ stored[t] \in Seq(Places) /\ Len(stored[t]) = 0 /\ write_pos[t] = m[1]
  BY <1>1, <1>2 DEF Prepared, Added, Stored, InStatement, TypeInv, ThreadTypes
<1>5. PICK m2 \in Seq(Nat) :
        /\ m2 = Append(m, m[k] + BytesOf(s, a, k))
        /\ Len(m2) = k + 1 /\ Offsets(m2, k + 1, s, a)
  BY <1>3, <1>4, OffsetsExtend
<1>6. Returned(Param(t), Size(t)) = BytesOf(s, a, k)
  <2>1. Sized(s, a, k)
    BY <1>1, <1>2, <1>3 DEF Prepared, Measured, IsMeasured, Measuring
  <2> QED
    BY <1>2, <1>3, <2>1, SizedBytes DEF Returned, Param, Size
<1>7. alloc_size'[t] = m[k] + BytesOf(s, a, k)
  BY <1>4, <1>6 DEF AddArgSize, TypeInv, ThreadTypes
<1>8. offsets'[t] = m2
  BY <1>2, <1>5, <1>7 DEF AddArgSize, TypeInv, ThreadTypes
<1>9. alloc_size'[t] = m2[k + 1]
  <2>1. m[k] \in Nat /\ BytesOf(s, a, k) \in Nat
    BY <1>3, <1>4, ElementOfSeq, BytesOfType
  <2> QED
    BY <1>4, <1>5, <1>7, <2>1, AppendProperties
<1>10. /\ UNCHANGED <<param_size, site, args, write_pos, stored,
                       previousPrecision, fmt_length>>
       /\ statement'[t] = (IF k = NumParams(s) THEN "store" ELSE "measure")
       /\ arg_num'[t] = IF k = NumParams(s) THEN 1 ELSE k + 1
  BY <1>2 DEF AddArgSize, TypeInv, ThreadTypes, Then, NextArg
<1>11. Prepared(t)'
  <2>1. Measured(t)'
    <3>1. \A j \in 1 .. NumParams(s) : j <= k => Sized(s, a, j)
      BY <1>1, <1>2 DEF Prepared, Measured, IsMeasured, Measuring
    <3>2. \A j \in 1 .. NumParams(s) : IsMeasured(t, j)' => j <= k
      BY <1>3, <1>10 DEF IsMeasured, Measuring
    <3>3. \A j \in 1 .. NumParams(s) : Sized(s, a, j) => Sized(s, a, j)'
      BY <1>10 DEF Sized
    <3> QED
      BY <1>2, <1>10, <3>1, <3>2, <3>3 DEF Measured
  <2>2. Added(t)'
    BY <1>2, <1>3, <1>5, <1>8, <1>9, <1>10 DEF Added, Measuring
  <2>3. Stored(t)'
    <3>1. m2[1] = 0 /\ m[1] = 0
      BY <1>4, <1>5 DEF Offsets
    <3> QED
      BY <1>4, <1>8, <1>10, <3>1 DEF Stored
  <2>4. PrecisionKnown(t)'
    <3>1. Format[s][k].type = kDYNAMIC_PRECISION =>
            previousPrecision[t] = AsUint64(a[k])
      BY <1>1, <1>2 DEF Prepared, PrecisionKnown
    <3>2. CASE k = NumParams(s)
      BY <1>10, <3>2 DEF PrecisionKnown, Measuring
    <3>3. CASE k # NumParams(s)
      <4>1. /\ statement'[t] = "measure" /\ site'[t] = s /\ args'[t] = a
            /\ arg_num'[t] - 1 = k /\ previousPrecision'[t] = previousPrecision[t]
        BY <1>2, <1>3, <1>10, <3>3
      <4> QED
        BY <3>1, <4>1 DEF PrecisionKnown
    <3> QED
      BY <3>2, <3>3
  <2>5. InGetArgSize(t)'
    BY <1>10 DEF InGetArgSize
  <2> QED
    BY <2>1, <2>2, <2>3, <2>4, <2>5 DEF Prepared
<1>12. ASSUME NEW u \in Threads, statement'[u] # "idle"
       PROVE  Prepared(u)'
  <2>1. CASE u = t
    BY <1>11, <2>1
  <2>2. CASE u # t
    <3>1. Prepared(u)
      BY <1>12, <2>2 DEF SizesInv, TypeInv, ThreadTypes, AddArgSize
    <3> QED
      BY <2>2, <3>1, OthersPrepared DEF TypeInv, ThreadTypes, AddArgSize
  <2> QED
    BY <2>1, <2>2
<1>13. DecoderStaysAligned'
  BY WorkerKept DEF SizesInv, AddArgSize, workerVars
<1>14. \A u \in Threads : \A e \in Pending(u)' : LaidOut(e) /\ ValuesKnown(e.site)'
  BY EntriesKept DEF SizesInv, AddArgSize
<1> QED
  BY <1>12, <1>13, <1>14, SizesInvPrime

LEMMA StoreArgumentSizes ==
  ASSUME TypeInv, SizesInv, NEW t \in Threads, StoreArgument(t)
  PROVE  SizesInv'
<1>1. statement[t] = "store" /\ Prepared(t) /\ InStatement(t)
  BY DEF StoreArgument, SizesInv, TypeInv
<1>2. PICK s \in Sites, a \in Arguments(site[t]), k \in 1 .. NumParams(site[t]),
           m \in Seq(Nat), places \in Seq(Places), pos \in Nat :
        /\ s = site[t] /\ a = args[t] /\ k = arg_num[t] /\ m = offsets[t]
        /\ places = stored[t] /\ pos = write_pos[t]
  BY <1>1, AtParam DEF TypeInv, ThreadTypes
<1>3. a \in Arguments(s) /\ k \in 1 .. NumParams(s) /\ NumParams(s) \in Nat
  BY <1>2, NumParamsType
<1>4. /\ Len(m) = NumParams(s) + 1 /\ Offsets(m, NumParams(s) + 1, s, a)
      /\ Len(places) = k - 1 /\ pos = m[k]
      /\ \A j \in 1 .. k - 1 : /\ places[j].pos = m[j]
                               /\ places[j].size = BytesOf(s, a, j)
  <2>1. Len(m) = NumParams(s) + 1 /\ Offsets(m, NumParams(s) + 1, s, a)
    BY <1>1, <1>2 DEF Prepared, Added
  <2>2. Len(places) = k - 1
    BY <1>1, <1>2 DEF InStatement
  <2>3. /\ pos = m[Len(places) + 1]
        /\ \A j \in 1 .. Len(places) : /\ places[j].pos = m[j]
                                       /\ places[j].size = BytesOf(s, a, j)
    BY <1>1, <1>2 DEF Prepared, Stored
  <2>4. Len(places) + 1 = k
    BY <1>3, <2>2
  <2> QED
    BY <2>1, <2>2, <2>3, <2>4
<1>5. PICK b \in Nat : b = BytesOf(s, a, k)
  BY <1>3, BytesOfType
<1>6. Bytes(Param(t), Size(t)) = b
  <2>1. Sized(s, a, k)
    BY <1>1, <1>2, <1>3 DEF Prepared, Measured, IsMeasured, Measuring
  <2> QED
    BY <1>2, <1>3, <1>5, <2>1, SizedBytes DEF Param, Size
<1>7. PICK place \in Places : place = [pos |-> pos, size |-> b]
  BY DEF Places
<1>8. PICK p2 \in Seq(Places) :
        /\ p2 = Append(places, place) /\ Len(p2) = k /\ p2[k] = place
        /\ \A j \in 1 .. k - 1 : p2[j] = places[j]
  <2>1. /\ Append(places, place) \in Seq(Places)
        /\ Len(Append(places, place)) = Len(places) + 1
        /\ Append(places, place)[Len(places) + 1] = place
        /\ \A j \in 1 .. Len(places) : Append(places, place)[j] = places[j]
    BY AppendProperties
  <2>2. Len(places) + 1 = k
    BY <1>3, <1>4
  <2> QED
    BY <1>4, <2>1, <2>2
<1>9. stored'[t] = p2 /\ write_pos'[t] = pos + b
  BY <1>2, <1>6, <1>7, <1>8 DEF StoreArgument, TypeInv, ThreadTypes
<1>10. pos + b = m[k + 1]
  <2>1. PICK n \in Nat : n = NumParams(s) + 1 /\ k \in 1 .. n - 1
    BY <1>3
  <2>2. m[k + 1] = m[k] + BytesOf(s, a, k)
    <3>1. Offsets(m, n, s, a)
      BY <1>4, <2>1
    <3> QED
      BY <2>1, <3>1 DEF Offsets
  <2> QED
    BY <1>4, <1>5, <2>2
<1>11. /\ UNCHANGED <<param_size, site, args, offsets, alloc_size, previousPrecision>>
       /\ statement'[t] = (IF k = NumParams(s) THEN "publish" ELSE "store")
  BY <1>2 DEF StoreArgument, TypeInv, ThreadTypes, Then
<1>12. Prepared(t)'
  <2>1. Measured(t)'
    <3>1. \A j \in 1 .. NumParams(s) : Sized(s, a, j)
      BY <1>1, <1>2 DEF Prepared, Measured, IsMeasured, Measuring
    <3>2. \A j \in 1 .. NumParams(s) : Sized(s, a, j) => Sized(s, a, j)'
      BY <1>11 DEF Sized
    <3> QED
      BY <1>2, <1>11, <3>1, <3>2 DEF Measured
  <2>2. Added(t)'
    BY <1>1, <1>2, <1>4, <1>11 DEF Prepared, Added, Measuring
  <2>3. Stored(t)'
    <3>1. \A j \in 1 .. k : p2[j].pos = m[j] /\ p2[j].size = BytesOf(s, a, j)
      <4>1. p2[k].pos = m[k] /\ p2[k].size = BytesOf(s, a, k)
        BY <1>4, <1>5, <1>7, <1>8
      <4>2. \A j \in 1 .. k : j = k \/ j \in 1 .. k - 1
        BY <1>3
      <4> QED
        BY <1>4, <1>8, <4>1, <4>2
    <3> QED
      BY <1>2, <1>8, <1>9, <1>10, <1>11, <3>1 DEF Stored
  <2>4. PrecisionKnown(t)' /\ InGetArgSize(t)'
    BY <1>11 DEF PrecisionKnown, InGetArgSize, Measuring
  <2> QED
    BY <2>1, <2>2, <2>3, <2>4 DEF Prepared
<1>13. ASSUME NEW u \in Threads, statement'[u] # "idle"
       PROVE  Prepared(u)'
  <2>1. CASE u = t
    BY <1>12, <2>1
  <2>2. CASE u # t
    <3>1. Prepared(u)
      BY <1>13, <2>2 DEF SizesInv, TypeInv, ThreadTypes, StoreArgument
    <3> QED
      BY <2>2, <3>1, OthersPrepared DEF TypeInv, ThreadTypes, StoreArgument
  <2> QED
    BY <2>1, <2>2
<1>14. DecoderStaysAligned'
  BY WorkerKept DEF SizesInv, StoreArgument, workerVars
<1>15. \A u \in Threads : \A e \in Pending(u)' : LaidOut(e) /\ ValuesKnown(e.site)'
  BY EntriesKept DEF SizesInv, StoreArgument
<1> QED
  BY <1>13, <1>14, <1>15, SizesInvPrime

LEMMA FinishAllocLaidOut ==
  ASSUME TypeInv, SizesInv, NEW t \in Threads, FinishAlloc(t)
  PROVE  LaidOut(NewEntry(t)) /\ ValuesKnown(NewEntry(t).site)
<1>1. statement[t] = "publish" /\ Prepared(t) /\ InStatement(t)
  BY DEF FinishAlloc, SizesInv, TypeInv
<1>2. PICK s \in Sites, n \in Nat : s = site[t] /\ n = NumParams(s)
  BY <1>1, UsedSites, NumParamsType DEF InStatement
<1>3. PICK a \in Arguments(s), m \in Seq(Nat), places \in Seq(Places) :
        a = args[t] /\ m = offsets[t] /\ places = stored[t]
  BY <1>1, <1>2 DEF InStatement, TypeInv, ThreadTypes
<1>4. /\ Len(m) = n + 1 /\ Offsets(m, n + 1, s, a) /\ alloc_size[t] = m[n + 1]
      /\ Len(places) = n
      /\ \A k \in 1 .. n : places[k].pos = m[k] /\ places[k].size = BytesOf(s, a, k)
      /\ \A k \in 1 .. n : Sized(s, a, k)
  BY <1>1, <1>2, <1>3
     DEF Prepared, Added, Stored, Measured, IsMeasured, InStatement, Measuring
<1>5. PICK e : e = NewEntry(t)
  OBVIOUS
<1>6. e.site = s /\ e.args = a /\ e.stored = places /\ e.entry_size = m[n + 1]
  BY <1>2, <1>3, <1>4, <1>5 DEF NewEntry
<1>7. \A k \in 1 .. n + 1 : Starts(e)[k] = m[k]
  <2>1. DOMAIN places = 1 .. n
    BY <1>4, LenProperties
  <2>2. \A k \in 1 .. n + 1 : k \in 1 .. n \/ k = n + 1
    OBVIOUS
  <2>3. ~(n + 1 \in 1 .. n)
    OBVIOUS
  <2>4. \A k \in 1 .. n + 1 : Start(e, k) = m[k]
    BY <1>4, <1>6, <2>1, <2>2, <2>3 DEF Start
  <2> QED
    BY <1>2, <1>6, <2>4 DEF Starts
<1>8. Offsets(Starts(e), n + 1, s, a)
  <2>1. PICK l \in Nat : l = n + 1 /\ l > 0
    OBVIOUS
  <2>2. Offsets(m, l, s, a) /\ \A k \in 1 .. l : Starts(e)[k] = m[k]
    BY <1>4, <1>7, <2>1
  <2>3. 1 \in 1 .. l /\ \A k \in 1 .. l - 1 : k \in 1 .. l /\ k + 1 \in 1 .. l
    BY <2>1
  <2>4. Starts(e)[1] = m[1]
        /\ \A k \in 1 .. l - 1 :
             Starts(e)[k] = m[k] /\ Starts(e)[k + 1] = m[k + 1]
    BY <2>2, <2>3
  <2>5. Offsets(Starts(e), l, s, a)
    BY <2>2, <2>4 DEF Offsets
  <2> QED
    BY <2>1, <2>5
<1>9. LaidOut(e)
  BY <1>2, <1>4, <1>6, <1>8 DEF LaidOut
<1>10. ValuesKnown(s)
  BY <1>2, <1>4 DEF ValuesKnown, Sized
<1> QED
  BY <1>5, <1>6, <1>9, <1>10

LEMMA FinishAllocSizes ==
  ASSUME TypeInv, SizesInv, NEW t \in Threads, FinishAlloc(t)
  PROVE  SizesInv'
<1>1. param_size' = param_size
  BY DEF FinishAlloc
<1>2. ASSUME NEW u \in Threads, NEW e \in Pending(u)'
      PROVE  LaidOut(e) /\ ValuesKnown(e.site)'
  <2>1. e \in Pending(u) \/ e = NewEntry(t)
    <3>1. CASE u # t
      BY <1>2, <3>1, Published DEF Pending
    <3>2. CASE u = t
      <4>1. PICK n \in DOMAIN Append(queue[t], NewEntry(t)) :
              e = Append(queue[t], NewEntry(t))[n]
        BY <1>2, <3>2, Published DEF Pending
      <4>2. PICK q \in Seq(Entries(t)), new \in Entries(t) :
              q = queue[t] /\ new = NewEntry(t)
        BY Published
      <4>3. /\ Len(q) \in Nat /\ DOMAIN q = 1 .. Len(q)
            /\ DOMAIN Append(q, new) = 1 .. Len(q) + 1
            /\ Append(q, new)[Len(q) + 1] = new
            /\ \A i \in 1 .. Len(q) : Append(q, new)[i] = q[i]
        BY AppendProperties, LenProperties
      <4> QED
        BY <3>2, <4>1, <4>2, <4>3 DEF Pending
    <3> QED
      BY <3>1, <3>2
  <2>2. LaidOut(e) /\ ValuesKnown(e.site)
    BY <2>1, FinishAllocLaidOut DEF SizesInv
  <2> QED
    BY <1>1, <2>2 DEF ValuesKnown
<1>3. ASSUME NEW u \in Threads, statement'[u] # "idle"
      PROVE  Prepared(u)'
  <2>1. u # t
    BY <1>3 DEF FinishAlloc, TypeInv, ThreadTypes
  <2>2. Prepared(u)
    BY <1>3, <2>1 DEF SizesInv, TypeInv, ThreadTypes, FinishAlloc
  <2> QED
    BY <1>1, <2>1, <2>2, OthersPrepared DEF TypeInv, ThreadTypes, FinishAlloc
<1>4. DecoderStaysAligned'
  <2>1. UNCHANGED <<formatting, param_idx, param_list>> /\ DecoderStaysAligned
    BY DEF FinishAlloc, workerVars, SizesInv
  <2>2. ASSUME formatting # "none" PROVE Entry' = Entry
    <3>1. formatting \in Threads /\ queue[formatting] # <<>>
      BY <2>2, EntryType
    <3>2. CASE formatting # t
      BY <2>1, <3>1, <3>2, Published DEF Entry
    <3>3. CASE formatting = t
      <4>1. PICK q \in Seq(Entries(t)), new \in Entries(t) :
              q = queue[t] /\ new = NewEntry(t) /\ q # <<>>
        BY <3>1, <3>3, Published
      <4>2. Len(q) \in Nat /\ Len(q) > 0
        BY <4>1, EmptySeq, LenProperties
      <4>3. /\ Append(q, new) \in Seq(Entries(t)) /\ Len(Append(q, new)) > 0
            /\ Append(q, new)[1] = q[1]
        BY <4>2, AppendProperties
      <4>4. Head(Append(q, new)) = Head(q)
        BY <4>1, <4>2, <4>3
      <4> QED
        BY <2>1, <3>3, <4>1, <4>4, Published DEF Entry
    <3> QED
      BY <3>2, <3>3
  <2>3. CASE formatting = "none"
    BY <2>1, <2>3 DEF DecoderStaysAligned
  <2>4. CASE formatting # "none"
    BY <2>1, <2>2, <2>4 DEF DecoderStaysAligned
  <2> QED
    BY <2>3, <2>4
<1> QED
  BY <1>2, <1>3, <1>4, SizesInvPrime

\* The worker changes nothing of the threads and puts nothing into a queue.
LEMMA WorkerStepSizes ==
  ASSUME SizesInv, UNCHANGED <<param_size, threadVars>>,
         \A t \in Threads : Pending(t)' \subseteq Pending(t),
         DecoderStaysAligned'
  PROVE  SizesInv'
<1>1. ASSUME NEW u \in Threads, statement'[u] # "idle"
      PROVE  Prepared(u)'
  BY <1>1, OthersPrepared DEF SizesInv, threadVars
<1>2. ASSUME NEW u \in Threads, NEW e \in Pending(u)'
      PROVE  LaidOut(e) /\ ValuesKnown(e.site)'
  <2>1. LaidOut(e) /\ ValuesKnown(e.site)
    BY <1>2 DEF SizesInv
  <2> QED
    BY <2>1 DEF ValuesKnown
<1> QED
  BY <1>1, <1>2, SizesInvPrime

LEMMA StartFormattingSizes ==
  ASSUME TypeInv, TypeInv', SizesInv, NEW t \in Threads, StartFormatting(t)
  PROVE  SizesInv'
<1>1. queue' = queue /\ formatting' = t /\ param_idx' = 1 /\ param_list' = 0
  BY DEF StartFormatting
<1>2. Entry' \in Pending(t)
  <2>1. formatting' # "none"
    BY <1>1, NamesAssumption
  <2>2. queue[t] \in Seq(Entries(t)) /\ queue[t] # <<>>
    BY DEF StartFormatting, TypeInv, QueueTypes
  <2>3. PICK q \in Seq(Entries(t)) : q = queue[t]
    BY <2>2
  <2>4. Len(q) \in Nat /\ Len(q) > 0 /\ DOMAIN q = 1 .. Len(q)
    BY <2>2, <2>3, EmptySeq, LenProperties
  <2>5. Head(q) = q[1]
    BY <2>4
  <2> QED
    BY <1>1, <2>3, <2>4, <2>5 DEF Entry, Pending
<1>3. PICK e \in Pending(t) : e = Entry'
  BY <1>2
<1>4. e \in Entries(t)
  BY ElementOfSeq, LenProperties DEF Pending, TypeInv, QueueTypes
<1>5. Start(e, 1) = 0
  <2>1. NumParams(e.site) \in Nat
    BY <1>4, NumParamsType DEF Entries
  <2>2. Starts(e)[1] = 0
    BY <1>3 DEF SizesInv, LaidOut, Offsets
  <2> QED
    BY <2>1, <2>2 DEF Starts
<1>6. DecoderStaysAligned'
  BY <1>1, <1>3, <1>5 DEF DecoderStaysAligned
<1>7. \A u \in Threads : Pending(u)' \subseteq Pending(u)
  BY <1>1 DEF Pending
<1> QED
  BY <1>6, <1>7, WorkerStepSizes DEF StartFormatting

\* The worker steps from the offset of a parameter to that of the next.
LEMMA DecodesNext ==
  ASSUME TypeInv, SizesInv, DecodeParam,
         ~IsPointer(Entry.site, param_idx), param_list = Start(Entry, param_idx)
  PROVE  param_list' = Start(Entry, param_idx + 1)
<1>1. PICK e \in Entries(formatting), k \in Nat, pos \in Nat :
        e = Entry /\ k = param_idx /\ pos = param_list
  BY AtSpecifier DEF TypeInv, WorkerTypes
<1>2. PICK s \in Sites, n \in Nat : s = e.site /\ n = NumParams(s)
  BY <1>1, AtSpecifier
<1>3. k \in 1 .. n /\ DOMAIN e.stored = 1 .. n /\ e \in Pending(formatting)
      /\ formatting \in Threads
  BY <1>1, <1>2, AtSpecifier, EntryType DEF DecodeParam
<1>4. PICK a \in Arguments(s), places \in Seq(Places) : a = e.args /\ places = e.stored
  BY <1>2 DEF Entries
<1>5. LaidOut(e) /\ ValuesKnown(s)
  BY <1>2, <1>3 DEF SizesInv
<1>6. /\ Offsets(Starts(e), n + 1, s, a)
      /\ \A j \in 1 .. n : places[j].size = BytesOf(s, a, j)
  BY <1>2, <1>4, <1>5 DEF LaidOut
<1>7. \A j \in 1 .. n + 1 : Starts(e)[j] = Start(e, j)
  BY <1>2 DEF Starts
<1>8. \A j \in 1 .. n : Start(e, j) = places[j].pos
  BY <1>3, <1>4 DEF Start
<1>9. Start(e, k + 1) = pos + BytesOf(s, a, k)
  <2>1. PICK l \in Nat : l = n + 1 /\ k \in 1 .. l - 1 /\ k \in 1 .. l
                         /\ k + 1 \in 1 .. l
    BY <1>3
  <2>2. Offsets(Starts(e), l, s, a) /\ \A j \in 1 .. l : Starts(e)[j] = Start(e, j)
    BY <1>6, <1>7, <2>1
  <2>3. Starts(e)[k + 1] = Starts(e)[k] + BytesOf(s, a, k)
    BY <2>1, <2>2 DEF Offsets
  <2> QED
    BY <1>1, <2>1, <2>2, <2>3
<1>10. CASE Format[s][k].type > kNON_STRING
  <2>1. \A j \in 1 .. n : places[j].pos = pos => j = k
    <3>1. \A i, j \in 1 .. n : i < j => Start(e, i) < Start(e, j)
      <4>1. PICK l \in Nat : l = n + 1 /\ \A j \in 1 .. n : j \in 1 .. l
        OBVIOUS
      <4>2. Offsets(Starts(e), l, s, a) /\ \A j \in 1 .. l : Starts(e)[j] = Start(e, j)
        BY <1>6, <1>7, <4>1
      <4> QED
        BY <4>1, <4>2 DEF Offsets
    <3>2. places[k].pos = pos
      BY <1>1, <1>3, <1>8
    <3>3. \A i, j \in 1 .. n : i < j => places[i].pos < places[j].pos
      BY <1>8, <3>1
    <3>4. ASSUME NEW j \in 1 .. n, places[j].pos = pos, j # k
          PROVE  FALSE
      <4>1. j < k \/ k < j
        BY <1>3, <3>4
      <4>2. places[j].pos < places[k].pos \/ places[k].pos < places[j].pos
        BY <1>3, <3>3, <4>1
      <4> QED
        BY <3>2, <3>4, <4>2
    <3> QED
      BY <3>4
  <2>2. places[k].pos = pos
    BY <1>1, <1>3, <1>8
  <2>3. {j \in DOMAIN e.stored : /\ Format[e.site][j].type > kNON_STRING
                                 /\ e.stored[j].pos = pos} = {k}
    BY <1>2, <1>3, <1>4, <1>10, <2>1, <2>2
  <2>4. HeadersAt(e, pos) = {places[k].size - SIZEOF_UINT32}
    BY <1>4, <2>3 DEF HeadersAt
  <2>5. PICK size \in HeadersAt(e, pos) : param_list' = BehindString(pos, size)
    BY <1>1, <1>2, <1>10 DEF DecodeParam
  <2>6. param_list' = pos + SIZEOF_UINT32 + (BytesOf(s, a, k) - SIZEOF_UINT32)
    BY <1>3, <1>6, <2>4, <2>5 DEF BehindString
  <2>7. BytesOf(s, a, k) \in Nat
    BY <1>2, <1>3, BytesOfType
  <2> QED
    BY <1>1, <1>9, <2>6, <2>7 DEF SIZEOF_UINT32
<1>11. CASE ~(Format[s][k].type > kNON_STRING)
  <2>1. k \in 1 .. NumParams(s)
    BY <1>2, <1>3
  <2>2. Format[s][k].type \in Int /\ Format[s][k].isString \in BOOLEAN
    BY <2>1, Param_Type
  <2>3. ~Format[s][k].isString
    BY <1>1, <1>2, <1>11, <2>2 DEF IsPointer, kNON_STRING
  <2>4. param_size[s][k] = Format[s][k].size
    BY <1>5, <2>1, <2>3 DEF ValuesKnown
  <2>5. BytesOf(s, a, k) = Format[s][k].size
    BY <2>3 DEF BytesOf, Bytes
  <2>6. param_list' = pos + param_size[s][k]
    BY <1>1, <1>2, <1>11 DEF DecodeParam
  <2> QED
    BY <1>1, <1>9, <2>4, <2>5, <2>6
<1> QED
  BY <1>10, <1>11

LEMMA DecodeParamSizes ==
  ASSUME TypeInv, SizesInv, DecodeParam
  PROVE  SizesInv'
<1>1. PICK k \in Nat \ {0} : k = param_idx
  BY DEF TypeInv, WorkerTypes
<1>2. /\ queue' = queue /\ formatting' = formatting /\ formatting # "none"
      /\ param_idx' = k + 1 /\ Entry' = Entry
  BY <1>1 DEF DecodeParam, Entry
<1>3. \/ param_list' = Start(Entry, k + 1)
      \/ \E j \in 1 .. k : IsPointer(Entry.site, j)
  <2>1. CASE \E j \in 1 .. k : IsPointer(Entry.site, j)
    BY <2>1
  <2>2. CASE ~ \E j \in 1 .. k : IsPointer(Entry.site, j)
    <3>1. ~IsPointer(Entry.site, param_idx) /\ param_list = Start(Entry, param_idx)
      BY <1>1, <1>2, <2>2 DEF SizesInv, DecoderStaysAligned
    <3> QED
      BY <1>1, <3>1, DecodesNext
  <2> QED
    BY <2>1, <2>2
<1>4. DecoderStaysAligned'
  BY <1>2, <1>3 DEF DecoderStaysAligned
<1>5. \A u \in Threads : Pending(u)' \subseteq Pending(u)
  BY <1>2 DEF Pending
<1> QED
  BY <1>4, <1>5, WorkerStepSizes DEF DecodeParam

LEMMA ConsumeSizes ==
  ASSUME TypeInv, SizesInv, Consume
  PROVE  SizesInv'
<1>1. ASSUME NEW u \in Threads, NEW e \in Pending(u)'
      PROVE  e \in Pending(u)
  <2>1. CASE u # formatting
    BY <1>1, <2>1 DEF Consume, Pending, TypeInv, QueueTypes
  <2>2. CASE u = formatting
    <3>1. PICK q \in Seq(Entries(u)) : q = queue[u] /\ q # <<>>
      BY <2>2, EntryType DEF Consume
    <3>2. queue'[u] = Tail(q)
      BY <2>2, <3>1 DEF Consume, TypeInv, QueueTypes
    <3>3. /\ Len(q) \in Nat /\ Len(q) > 0 /\ DOMAIN q = 1 .. Len(q)
          /\ Tail(q) \in Seq(Entries(u)) /\ Len(Tail(q)) = Len(q) - 1
          /\ \A i \in 1 .. Len(Tail(q)) : Tail(q)[i] = q[i + 1]
          /\ DOMAIN Tail(q) = 1 .. Len(Tail(q))
      BY <3>1, EmptySeq, LenProperties, HeadTailProperties
    <3>4. PICK i \in DOMAIN Tail(q) : e = Tail(q)[i]
      BY <1>1, <3>2 DEF Pending
    <3>5. e = q[i + 1] /\ i + 1 \in DOMAIN q
      BY <3>3, <3>4
    <3> QED
      BY <3>1, <3>5 DEF Pending
  <2> QED
    BY <2>1, <2>2
<1>2. DecoderStaysAligned'
  BY DEF Consume, DecoderStaysAligned
<1> QED
  BY <1>1, <1>2, WorkerStepSizes DEF Consume

LEMMA StutterSizes ==
  ASSUME SizesInv, UNCHANGED vars
  PROVE  SizesInv'
<1>1. DecoderStaysAligned'
  BY WorkerKept DEF SizesInv, vars, workerVars
<1>2. \A u \in Threads : Pending(u)' \subseteq Pending(u)
  BY DEF Pending, vars
<1> QED
  BY <1>1, <1>2, WorkerStepSizes DEF vars

LEMMA StepSizes ==
  ASSUME NotShared, TypeInv, TypeInv', SizesInv, [Next]_vars
  PROVE  SizesInv'
<1>1. ASSUME NEW l \in LevelArgs, SetLogLevel(l)
      PROVE  SizesInv'
  BY <1>1, SetLogLevelSizes
<1>2. ASSUME NEW t \in Threads, LoggingThread(t)
      PROVE  SizesInv'
  BY <1>2, StaticLogSizes, MeasureArgSizes, LoadLengthSizes, CompareLengthSizes,
     TruncateSizes, AddArgSizeSizes, StoreArgumentSizes, FinishAllocSizes
     DEF LoggingThread
<1>3. ASSUME NEW t \in Threads, StartFormatting(t)
      PROVE  SizesInv'
  BY <1>3, StartFormattingSizes
<1> QED
  BY <1>1, <1>2, <1>3, DecodeParamSizes, ConsumeSizes, StutterSizes DEF Next

\* Both invariants hold in every reachable state, the second if no two threads
\* execute one statement with a string.
THEOREM Invariance == Spec => []IndInv
<1>1. Init => IndInv
  BY InitTypes, InitSizes DEF IndInv
<1>2. IndInv /\ [Next]_vars => IndInv'
  <2> SUFFICES ASSUME IndInv, [Next]_vars
               PROVE  IndInv'
    OBVIOUS
  <2>1. TypeInv'
    BY StepTypes DEF IndInv
  <2>2. NotShared => SizesInv'
    BY <2>1, StepSizes DEF IndInv
  <2> QED
    BY <2>1, <2>2 DEF IndInv, NotShared
<1> QED
  BY <1>1, <1>2, PTL DEF Spec

-----------------------------------------------------------------------------
(* What the second invariant is for. *)

\* storeArguments stays inside the bytes that getArgSizes has counted, and
\* fills them, if no other thread executes the statement.
THEOREM StoreFills == Spec => [](NotShared => StoreFillsReservation)
<1>1. ASSUME IndInv, NotShared
      PROVE  StoreFillsReservation
  <2>1. ASSUME NEW t \in Threads, statement[t] \in {"store", "publish"}
        PROVE  /\ write_pos[t] <= alloc_size[t]
               /\ statement[t] = "publish" => write_pos[t] = alloc_size[t]
    <3>1. TypeInv /\ Prepared(t) /\ InStatement(t)
      BY <1>1, <2>1 DEF IndInv, TypeInv, SizesInv
    <3>2. PICK s \in Sites, n \in Nat, m \in Seq(Nat) :
            s = site[t] /\ n = NumParams(s) /\ m = offsets[t]
      BY <3>1, UsedSites, NumParamsType DEF InStatement, TypeInv, ThreadTypes
    <3>3. PICK k \in 1 .. n + 1 :
            k = Len(stored[t]) + 1 /\ (statement[t] = "publish" => k = n + 1)
      BY <2>1, <3>1, <3>2 DEF InStatement
    <3>4. /\ Len(m) = n + 1 /\ Offsets(m, n + 1, s, args[t])
          /\ alloc_size[t] = m[n + 1] /\ write_pos[t] = m[k]
      BY <2>1, <3>1, <3>2, <3>3 DEF Prepared, Added, Stored
    <3>5. m[k] \in Nat /\ m[n + 1] \in Nat
      BY <3>4, ElementOfSeq
    <3>6. m[k] <= m[n + 1]
      <4>1. CASE k = n + 1
        BY <3>5, <4>1
      <4>2. CASE k # n + 1
        <5>1. PICK l \in Nat : l = n + 1 /\ k \in 1 .. l /\ l \in 1 .. l /\ k < l
          BY <4>2
        <5>2. Offsets(m, l, s, args[t])
          BY <3>4, <5>1
        <5>3. m[k] < m[l]
          BY <5>1, <5>2 DEF Offsets
        <5> QED
          BY <3>5, <5>1, <5>3
      <4> QED
        BY <4>1, <4>2
    <3> QED
      BY <3>3, <3>4, <3>6
  <2> QED
    BY <2>1 DEF StoreFillsReservation
<1>2. IndInv => (NotShared => StoreFillsReservation)
  BY <1>1
<1> QED
  BY <1>2, Invariance, PTL

\* What getArgSize leaves of a string is what printf prints of it, or more if
\* the precision is in the format itself.
LEMMA KeptIsOwn ==
  ASSUME NEW s \in Sites, NEW a \in Arguments(s), NEW k \in 1 .. NumParams(s),
         IsStringParam(s, k)
  PROVE  /\ KeptLength(s, a, k) \in Nat
         /\ KeptLength(s, a, k) \in OwnLength(s, a, k) .. a[k]
         /\ Format[s][k].type < kSTRING => KeptLength(s, a, k) = OwnLength(s, a, k)
<1>1. /\ Format[s][k].type \in Int /\ Format[s][k].isString
      /\ a[k] \in Nat
  BY Param_Type, Arg_Type
<1>2. CASE Format[s][k].type >= kSTRING
  <2>1. KeptLength(s, a, k) = a[k]
    BY <1>1, <1>2 DEF KeptLength, kSTRING, kSTRING_WITH_DYNAMIC_PRECISION
  <2>2. OwnLength(s, a, k) = Least(a[k], Format[s][k].type)
    BY <1>2 DEF OwnLength
  <2> QED
    BY <1>1, <1>2, <2>1, <2>2 DEF Least, kSTRING
<1>3. CASE Format[s][k].type = kSTRING_WITH_DYNAMIC_PRECISION
  <2>1. k > 1 /\ Format[s][k - 1].type = kDYNAMIC_PRECISION
    BY <1>3, Param_Type
  <2>2. k - 1 \in 1 .. NumParams(s)
    BY <2>1, NumParamsType
  <2>3. a[k - 1] \in Int
    BY <2>1, <2>2, Arg_Type
  <2>4. KeptLength(s, a, k) = IF a[k - 1] \in 0 .. a[k] THEN a[k - 1] ELSE a[k]
    BY <1>3 DEF KeptLength
  <2>5. OwnLength(s, a, k) = IF a[k - 1] >= 0 THEN Least(a[k], a[k - 1]) ELSE a[k]
    BY <1>3 DEF OwnLength, kSTRING, kSTRING_WITH_DYNAMIC_PRECISION
  <2> QED
    BY <1>1, <2>3, <2>4, <2>5 DEF Least
<1>4. CASE /\ ~(Format[s][k].type >= kSTRING)
           /\ Format[s][k].type # kSTRING_WITH_DYNAMIC_PRECISION
  BY <1>1, <1>4 DEF KeptLength, OwnLength
<1> QED
  BY <1>2, <1>3, <1>4

\* Under the same condition a published entry holds of each of its own strings
\* what printf prints of it, and nothing of another; no more than that if the
\* precision is not in the format itself.
THEOREM EntriesHoldTheirStrings == Spec => [](NotShared => StoresOwnStrings)
<1>1. ASSUME IndInv, NotShared
      PROVE  StoresOwnStrings
  <2>1. ASSUME NEW t \in Threads, NEW n \in DOMAIN queue[t],
               NEW k \in 1 .. NumParams(queue[t][n].site),
               Format[queue[t][n].site][k].type > kNON_STRING
        PROVE  LET e == queue[t][n]
               IN /\ StoredLength(e, k) \in OwnLength(e.site, e.args, k) .. e.args[k]
                  /\ Format[e.site][k].type < kSTRING =>
                       StoredLength(e, k) = OwnLength(e.site, e.args, k)
    <3>1. PICK e : e = queue[t][n]
      OBVIOUS
    <3>2. e \in Pending(t) /\ e \in Entries(t)
      BY <1>1, <3>1, ElementOfSeq, LenProperties
         DEF Pending, IndInv, TypeInv, QueueTypes
    <3>3. /\ e.stored[k].size = BytesOf(e.site, e.args, k) /\ e.site \in Sites
          /\ e.args \in Arguments(e.site)
      BY <1>1, <2>1, <3>1, <3>2 DEF IndInv, SizesInv, LaidOut, Entries
    <3>4. IsStringParam(e.site, k) /\ k \in 1 .. NumParams(e.site)
      BY <2>1, <3>1 DEF IsStringParam
    <3>5. Format[e.site][k].isString /\ ~(Format[e.site][k].type <= kNON_STRING)
      BY <3>3, <3>4, Param_Type DEF IsStringParam, kNON_STRING
    <3>6. e.stored[k].size = KeptLength(e.site, e.args, k) + SIZEOF_UINT32
      BY <3>3, <3>5 DEF BytesOf, Bytes
    <3>7. KeptLength(e.site, e.args, k) \in Nat
      BY <3>3, <3>4, KeptIsOwn
    <3>8. StoredLength(e, k) = KeptLength(e.site, e.args, k)
      BY <3>6, <3>7 DEF StoredLength, SIZEOF_UINT32
    <3> QED
      BY <3>1, <3>3, <3>4, <3>8, KeptIsOwn
  <2> QED
    BY <2>1 DEF StoresOwnStrings
<1>2. IndInv => (NotShared => StoresOwnStrings)
  BY <1>1
<1> QED
  BY <1>2, Invariance, PTL

\* Under the same condition the worker reads each parameter where the thread
\* has stored it, up to the first char* that is passed for "%p".
THEOREM DecoderAligned == Spec => [](NotShared => DecoderStaysAligned)
<1>1. IndInv => (NotShared => DecoderStaysAligned)
  BY DEF IndInv, SizesInv
<1> QED
  BY <1>1, Invariance, PTL

=============================================================================
