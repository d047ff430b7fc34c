--------------------------- MODULE MCLogStatement ---------------------------
(* Instances of the log statement for TLC. *)
EXTENDS LogStatement

CONSTANTS t1, t2

TwoThreads == {t1, t2}

Value(type, size) == [type |-> type, isString |-> FALSE, size |-> size]
String(type) == [type |-> type, isString |-> TRUE, size |-> SIZEOF_POINTER]

\* The call sites, by their formats.
AllFormats == [
  dynamic |-> <<Value(kDYNAMIC_PRECISION, 4),                   \* "%.*s"
                String(kSTRING_WITH_DYNAMIC_PRECISION)>>,
  text    |-> <<String(kSTRING + 1), Value(kNON_STRING, 8)>>,   \* "%.1s %lu"
  pointer |-> <<Value(kNON_STRING, 2), String(kNON_STRING)>>,   \* "%hd %p"
  values  |-> <<Value(kNON_STRING, 4), Value(kNON_STRING, 1)>>, \* "%d %c"
  plain   |-> <<>>,
  one     |-> <<String(kSTRING_WITH_NO_PRECISION)>>]            \* "%s"

AllSites == DOMAIN AllFormats
AllSeverities ==
  [s \in AllSites |-> CASE s = "dynamic" -> 1 [] s = "plain" -> 3 [] OTHER -> 2]

\* Statements with strings belong to one thread each, the others to both.
OwnStrings == [t \in {t1, t2} |->
  {"values"} \cup (IF t = t1 THEN {"dynamic", "plain"} ELSE {"text", "pointer"})]
SharedString == [t \in {t1, t2} |-> {"one"}]
OnlyDynamic == [t \in {t1, t2} |-> IF t = t1 THEN {"dynamic"} ELSE {}]
OnlyText == [t \in {t1, t2} |-> IF t = t1 THEN {"text"} ELSE {}]

SomeLengths == {0, 2}
SomePrecisions == {-1, 1}
OutOfRange == {-1, 5}
=============================================================================
