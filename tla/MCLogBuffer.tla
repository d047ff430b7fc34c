---------------------------- MODULE MCLogBuffer ----------------------------
(* Instances of the log buffer for TLC. *)
EXTENDS LogBuffer

CONSTANTS MaxPieces, Lengths

\* All formats of at most MaxPieces pieces with texts of these lengths.
SomePieces ==
  {[kind |-> "text", len |-> 1], [kind |-> "unsupported", len |-> 0]}
    \cup [kind : {"char", "value", "string"}, len : Lengths]

ShortFormats == UNION {[1 .. n -> SomePieces] : n \in 0 .. MaxPieces}
=============================================================================
