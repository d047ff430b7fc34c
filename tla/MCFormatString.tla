--------------------------- MODULE MCFormatString ---------------------------
(* Instances of the format strings for TLC. *)
EXTENDS FormatString

\* Characters that may be part of a specifier when a "%" is before them.
SomeTexts == {"x", "l", "0", ".", "*"}
SomeFlags == {<<>>, <<"-", "0">>, <<" ">>}
SomeWidths == {<<>>, <<"1", "0">>, <<"*">>}
SomePrecisions == {
  [string |-> <<>>, type |-> kSTRING_WITH_NO_PRECISION],
  [string |-> <<".", "*">>, type |-> kSTRING_WITH_DYNAMIC_PRECISION],
  [string |-> <<".">>, type |-> 0],
  [string |-> <<".", "1", "5">>, type |-> 15]}
SomeLengths == {<<>>, <<"l">>, <<"h", "h">>}
SomeTerminals == {"d", "c", "s", "n"}
=============================================================================
