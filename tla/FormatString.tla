---------------------------- MODULE FormatString ----------------------------
(***************************************************************************)
(* The two parsers of a format string.  At compile time getParamInfo,      *)
(* through countFmtParams and analyzeFormatString, finds the number and    *)
(* the types of the parameters; at run time process_fmt splits the same    *)
(* string into text and specifiers.  They are written independently.       *)
(*                                                                         *)
(* A format string is a sequence of characters; positions count from 1.    *)
(* The behaviours append one piece after the other to it: plain text, an   *)
(* escaped percent sign, or a specifier built from the grammar             *)
(* %<flags><width>.<precision><length><terminal>.                          *)
(***************************************************************************)
EXTENDS Integers, Sequences, SequencesExt

CONSTANTS
  Texts,       \* characters of plain text, none of them "%"
  Flags,       \* sequences of flags
  Widths,      \* sequences of characters: none, digits, "*"
  Precisions,  \* the same behind a ".", with the ParamType of a string
               \* that has this precision
  Lengths,     \* sequences of length modifiers
  Terminals,   \* terminals of specifiers
  MaxPieces    \* bound on the number of pieces

ASSUME MaxPiecesAssumption == MaxPieces \in Nat

\* enum ParamType; a throw makes the statement fail to compile.
kTHROW == -7
kINVALID == -6
kDYNAMIC_WIDTH == -5
kDYNAMIC_PRECISION == -4
kNON_STRING == -3
kSTRING_WITH_DYNAMIC_PRECISION == -2
kSTRING_WITH_NO_PRECISION == -1

VARIABLES
  fmt,     \* the format string
  pieces   \* what it was built from

vars == <<fmt, pieces>>

-----------------------------------------------------------------------------
(* The character classes. *)

FlagChars == {"-", "+", " ", "#", "0"}
Digits == <<"0", "1", "2", "3", "4", "5", "6", "7", "8", "9">>
DigitChars == {Digits[d] : d \in 1 .. 10}
DigitValue == [c \in DigitChars |-> (CHOOSE d \in 1 .. 10 : Digits[d] = c) - 1]
LengthChars == {"h", "l", "j", "z", "t", "L"}
NonStringTerminals == {"d", "i", "u", "o", "x", "X", "f", "F", "e", "E", "g",
                       "G", "a", "A", "c", "p", "%"}
TerminalChars == {"s", "n"} \cup NonStringTerminals

\* fmt[pos]; a terminating NUL stands behind the last character.
At(f, pos) == IF pos <= Len(f) THEN f[pos] ELSE "NUL"

\* The first position from pos on whose character is not one of Chars.
Skip(f, pos, Chars) ==
  CHOOSE q \in pos .. Len(f) + 1 :
    At(f, q) \notin Chars /\ \A r \in pos .. q - 1 : At(f, r) \in Chars

\* precision = 10*precision + digit
Number(digits) == FoldLeft(LAMBDA n, c : 10 * n + DigitValue[c], 0, digits)

\* The grammar.  A "0" in front of a width would be a flag, and "%%" is no
\* specifier.
ASSUME GrammarAssumption ==
  /\ \A c \in Texts : c \notin {"%", "NUL"}
  /\ Flags \subseteq Seq(FlagChars)
  /\ \A width \in Widths :
       \/ width = <<"*">>
       \/ width \in Seq(DigitChars) /\ (width # <<>> => width[1] # "0")
  /\ \A precision \in Precisions :
       \/ precision = [string |-> <<>>, type |-> kSTRING_WITH_NO_PRECISION]
       \/ precision = [string |-> <<".", "*">>,
                       type |-> kSTRING_WITH_DYNAMIC_PRECISION]
       \/ /\ precision.string \in Seq({"."} \cup DigitChars)
          /\ precision.string # <<>> /\ precision.string[1] = "."
          /\ \A k \in 2 .. Len(precision.string) :
               precision.string[k] \in DigitChars
          /\ precision.type = Number(Tail(precision.string))
          /\ precision.type \in Nat
  /\ Lengths \subseteq Seq(LengthChars)
  /\ Terminals \subseteq TerminalChars \ {"%"}

-----------------------------------------------------------------------------
(* getParamInfo and its users. *)

\* The specifier behind the percent sign at pos - 1, in the order in which
\* getParamInfo consumes it: whether there are '*'s for the width and the
\* precision, the precision (-1: none), the position of the terminal.
Scan(f, pos) ==
  LET width == Skip(f, pos, FlagChars)
      dynamicWidth == At(f, width) = "*"
      point == IF dynamicWidth THEN width + 1 ELSE Skip(f, width, DigitChars)
      hasPoint == At(f, point) = "."
      hasDynamicPrecision == hasPoint /\ At(f, point + 1) = "*"
      length == IF hasDynamicPrecision THEN point + 2
                ELSE IF hasPoint THEN Skip(f, point + 1, DigitChars)
                ELSE point
  IN [stars     |-> (IF dynamicWidth THEN <<kDYNAMIC_WIDTH>> ELSE <<>>) \o
                    (IF hasDynamicPrecision THEN <<kDYNAMIC_PRECISION>>
                                            ELSE <<>>),
      dynamic   |-> hasDynamicPrecision,
      precision |-> IF hasPoint /\ ~hasDynamicPrecision
                    THEN Number(SubSeq(f, point + 1, length - 1)) ELSE -1,
      terminal  |-> Skip(f, length, LengthChars)]

\* The ParamType of the specifier's own parameter.
TypeOf(f, scan) ==
  IF At(f, scan.terminal) # "s" THEN kNON_STRING
  ELSE IF scan.dynamic THEN kSTRING_WITH_DYNAMIC_PRECISION
  ELSE IF scan.precision = -1 THEN kSTRING_WITH_NO_PRECISION
  ELSE scan.precision

AcceptsN(f, scan) == At(f, scan.terminal) \notin TerminalChars  \* mutated
Rejected(f, scan) == At(f, scan.terminal) \notin TerminalChars \ {"n"}

\* The parameters that are left to skip behind a specifier.
IgnoringStars(param_num, stars) == param_num - 1          \* mutated
ParamsLeft(param_num, stars) == param_num - Len(stars) - 1

\* The type of parameter n of those from pos on, where info is the function
\* that gives it for the later positions.
InfoAt(f, info, pos, n) ==
  IF pos > Len(f) THEN kINVALID
  ELSE IF At(f, pos) # "%" THEN info[pos + 1][n]
  ELSE IF At(f, pos + 1) = "%" THEN info[pos + 2][n]
  ELSE LET scan == Scan(f, pos + 1) IN
       IF n < Len(scan.stars) THEN scan.stars[n + 1]
       ELSE IF Rejected(f, scan) THEN kTHROW
       ELSE IF n = Len(scan.stars) THEN TypeOf(f, scan)
       ELSE info[scan.terminal + 1][ParamsLeft(n, scan.stars)]

\* getParamInfo: the type of parameter param_num, which counts from zero.
getParamInfo(f, param_num) ==
  LET info[pos \in 1 .. Len(f) + 2] ==
        [n \in 0 .. param_num |-> InfoAt(f, info, pos, n)]
  IN info[1][param_num]

\* countFmtParams: the first number without a parameter; kTHROW if the count
\* gets to a specifier that is not accepted.
CountAt(f, count, n) ==
  LET type == getParamInfo(f, n)
  IN IF type = kINVALID THEN n
     ELSE IF type = kTHROW THEN kTHROW
     ELSE count[n + 1]

countFmtParams(f) ==
  LET count[n \in 0 .. Len(f)] == CountAt(f, count, n)
  IN count[0]

analyzeFormatString(f) ==
  [k \in 1 .. countFmtParams(f) |-> getParamInfo(f, k - 1)]

-----------------------------------------------------------------------------
(* process_fmt. *)

\* The end of the specifier at pos: behind the first terminal.
EndAtLength(f, pos) ==                  \* mutated: ends at a modifier, too
  Skip(f, pos + 1, Range(f) \ (TerminalChars \cup LengthChars)) + 1
EndOfSpecifier(f, pos) == Skip(f, pos + 1, Range(f) \ TerminalChars) + 1

\* Its pieces of f, from pos on: a character that is copied to the log, or the
\* specifier that is handed to snprintf.
SplitAt(f, from, pos) ==
  IF pos > Len(f) THEN <<>>
  ELSE IF f[pos] # "%" THEN <<<<f[pos]>>>> \o from[pos + 1]
  ELSE IF At(f, pos + 1) = "%" THEN <<<<"%">>>> \o from[pos + 2]
  ELSE <<SubSeq(f, pos, EndOfSpecifier(f, pos) - 1)>>
         \o from[EndOfSpecifier(f, pos)]

split(f) ==
  LET from[pos \in 1 .. Len(f) + 2] == SplitAt(f, from, pos)
  IN from[1]

-----------------------------------------------------------------------------
(* The formats. *)

Init ==
  /\ fmt = <<>>
  /\ pieces = <<>>

\* The piece is written as string, comes out of process_fmt as out, and has
\* the parameters params.
AppendPiece(string, out, params) ==
  /\ Len(pieces) < MaxPieces
  /\ fmt' = fmt \o string
  /\ pieces' = Append(pieces, [out |-> out, params |-> params])

AppendText == \E c \in Texts : AppendPiece(<<c>>, <<c>>, <<>>)

AppendPercent == AppendPiece(<<"%", "%">>, <<"%">>, <<>>)

\* What the grammar says of a specifier's parameters.
Stars(width, precision) ==
  (IF width = <<"*">> THEN <<kDYNAMIC_WIDTH>> ELSE <<>>) \o
  (IF precision.type = kSTRING_WITH_DYNAMIC_PRECISION
   THEN <<kDYNAMIC_PRECISION>> ELSE <<>>)

Own(precision, terminal) ==
  IF terminal = "n" THEN kTHROW
  ELSE IF terminal = "s" THEN precision.type
  ELSE kNON_STRING

AppendSpecifier ==
  \E flags \in Flags, width \in Widths, precision \in Precisions,
     length \in Lengths, terminal \in Terminals :
    LET string == <<"%">> \o flags \o width \o precision.string \o length
                    \o <<terminal>>
    IN AppendPiece(string, string,
         Append(Stars(width, precision), Own(precision, terminal)))

Next == AppendText \/ AppendPercent \/ AppendSpecifier

Spec == Init /\ [][Next]_vars

-----------------------------------------------------------------------------
(* Properties. *)

Params == FlattenSeq([k \in DOMAIN pieces |-> pieces[k].params])
Accepted == kTHROW \notin Range(Params)

\* countFmtParams and analyzeFormatString find the parameters of the printf
\* grammar, '*'s included, whatever text, flags, widths, precisions and
\* lengths surround them.
FindsItsParams == Accepted => analyzeFormatString(fmt) = Params

\* "%n specifiers are not support in NanoLog!": a format with one does not
\* compile, wherever it stands.
RejectsUnsupported == ~Accepted => countFmtParams(fmt) = kTHROW

\* process_fmt, with a parser of its own that knows only the terminals, splits
\* an accepted format into the same text and specifiers that getParamInfo has
\* found the parameters of.
SplitsAlike ==
  Accepted => split(fmt) = [k \in DOMAIN pieces |-> pieces[k].out]
=============================================================================
