------------------------- MODULE FormatStringProofs -------------------------
(***************************************************************************)
(* The proof that the two parsers of FormatString agree with the grammar,  *)
(* for every format string of it, and so with each other.                  *)
(***************************************************************************)
EXTENDS FormatString, SequenceTheorems, WellFoundedInduction, TLAPS

-----------------------------------------------------------------------------
(* Induction and recursion.  The induction is over the members of a set    *)
(* and the recursion over functions, so that no lemma has an operator for  *)
(* a parameter.                                                            *)

LEMMA Induction ==
  ASSUME NEW T, 0 \in T, \A n \in Nat : n \in T => n + 1 \in T
  PROVE  \A n \in Nat : n \in T
<1> SUFFICES ASSUME NEW n \in Nat, n \notin T
             PROVE  FALSE
  OBVIOUS
<1> DEFINE U == {k \in Nat : k \notin T}
<1>1. PICK m \in U : \A y \in U : ~ (<<y, m>> \in OpToRel(<, Nat))
  BY NatLessThanWellFounded, WFMin
<1>2. m \in Nat /\ m \notin T /\ m # 0
  OBVIOUS
<1>3. m - 1 \in Nat /\ m - 1 < m /\ (m - 1) + 1 = m
  BY <1>2
<1>4. m - 1 \notin U
  BY <1>1, <1>3 DEF OpToRel
<1> QED
  BY <1>2, <1>3, <1>4

\* The elements of D that are not in Stop refer to one of a lower rank, and so
\* there is a function of the recursion g[x] == step[x][g[next[x]]].
Descends(D, rank, Stop, next) ==
  \A x \in D : x \in Stop \/ rank[next[x]] < rank[x]

Recurs(D, g, Stop, val, next, step) ==
  \A x \in D : g[x] = IF x \in Stop THEN val[x] ELSE step[x][g[next[x]]]

LEMMA Recursion ==
  ASSUME NEW D, NEW V, NEW v0 \in V, NEW K \in Nat, NEW rank \in [D -> 0 .. K],
         NEW Stop, NEW val \in [D -> V], NEW next \in [D -> D],
         NEW step \in [D -> [V -> V]],
         Descends(D, rank, Stop, next)
  PROVE  \E g \in [D -> V] : Recurs(D, g, Stop, val, next, step)
<1> DEFINE Holds(g, x) == g[x] = IF x \in Stop THEN val[x] ELSE step[x][g[next[x]]]
           T == {k \in Nat : \E g \in [D -> V] : \A x \in D :
                               rank[x] < k => Holds(g, x)}
<1>1. 0 \in T
  <2>1. [x \in D |-> v0] \in [D -> V]
    OBVIOUS
  <2>2. \A x \in D : ~(rank[x] < 0)
    OBVIOUS
  <2> QED
    BY <2>1, <2>2
<1>2. ASSUME NEW k \in Nat, k \in T
      PROVE  k + 1 \in T
  <2>1. PICK g \in [D -> V] : \A x \in D : rank[x] < k => Holds(g, x)
    BY <1>2
  <2> DEFINE h == [x \in D |-> IF x \in Stop THEN val[x]
                                             ELSE step[x][g[next[x]]]]
  <2>2. h \in [D -> V]
    OBVIOUS
  <2>3. ASSUME NEW x \in D, rank[x] < k + 1
        PROVE  Holds(h, x)
    <3>1. CASE x \in Stop
      BY <3>1
    <3>2. CASE x \notin Stop
      <4>1. next[x] \in D /\ rank[next[x]] < k
        BY <2>3, <3>2 DEF Descends
      <4>2. g[next[x]] = h[next[x]]
        BY <2>1, <4>1
      <4> QED
        BY <3>2, <4>2
    <3> QED
      BY <3>1, <3>2
  <2>4. k + 1 \in Nat
    OBVIOUS
  <2> HIDE DEF h, Holds
  <2> QED
    BY <2>2, <2>3, <2>4
<1> HIDE DEF T
<1>3. K + 1 \in T
  BY <1>1, <1>2, Induction
<1>4. PICK g \in [D -> V] : \A x \in D : rank[x] < K + 1 => Holds(g, x)
  BY <1>3 DEF T
<1>5. \A x \in D : rank[x] < K + 1
  OBVIOUS
<1> QED
  BY <1>4, <1>5 DEF Recurs

-----------------------------------------------------------------------------
(* The characters.                                                         *)

Characters ==
  Texts \cup FlagChars \cup DigitChars \cup LengthChars \cup TerminalChars
    \cup {"%", "*", "."}

\* The classes are apart where the parsers rely on it.
LEMMA Classes ==
  /\ \A c \in FlagChars \cup DigitChars \cup {"*", "."} :
       c \notin LengthChars \cup TerminalChars
  /\ \A c \in LengthChars : c \notin TerminalChars
  /\ \A c \in LengthChars \cup TerminalChars :
       c \notin FlagChars \cup DigitChars \cup {"*", ".", "NUL"}
  /\ \A c \in DigitChars : c # "0" => c \notin FlagChars
  /\ \A c \in FlagChars \cup DigitChars : c \notin {"*", ".", "%", "NUL"}
  /\ "%" \notin LengthChars
<1>1. DigitChars = {"0", "1", "2", "3", "4", "5", "6", "7", "8", "9"}
  <2>1. \A d \in 1 .. 10 :
          d \in {1, 2, 3, 4, 5, 6, 7, 8, 9, 10}
    OBVIOUS
  <2> QED
    BY <2>1 DEF DigitChars, Digits
<1> QED
  BY <1>1 DEF FlagChars, LengthChars, TerminalChars, NonStringTerminals

LEMMA NoNul == "NUL" \notin Characters
BY Classes, GrammarAssumption DEF Characters

\* s is written in f, from position a on.
Written(f, a, s) ==
  /\ a + Len(s) <= Len(f) + 1
  /\ \A j \in 1 .. Len(s) : f[a + (j - 1)] = s[j]

LEMMA WrittenConcat ==
  ASSUME NEW S, NEW f \in Seq(S), NEW a \in Nat, NEW s \in Seq(S),
         NEW t \in Seq(S), Written(f, a, s \o t)
  PROVE  Written(f, a, s) /\ Written(f, a + Len(s), t)
<1>1. PICK m, n, k \in Nat : m = Len(s) /\ n = Len(t) /\ k = Len(f)
  BY LenProperties
<1>2. /\ Len(s \o t) = m + n
      /\ \A j \in 1 .. m : (s \o t)[j] = s[j]
      /\ \A j \in 1 .. n : (s \o t)[m + j] = t[j]
  <2>1. /\ Len(s \o t) = m + n
        /\ \A i \in 1 .. m + n : (s \o t)[i] = IF i <= m THEN s[i] ELSE t[i - m]
    BY <1>1, ConcatProperties
  <2>2. \A j \in 1 .. m : j \in 1 .. m + n /\ j <= m
    OBVIOUS
  <2>3. \A j \in 1 .. n :
          m + j \in 1 .. m + n /\ ~(m + j <= m) /\ (m + j) - m = j
    OBVIOUS
  <2> QED
    BY <2>1, <2>2, <2>3
<1>3. /\ a + (m + n) <= k + 1
      /\ \A j \in 1 .. m + n : f[a + (j - 1)] = (s \o t)[j]
  BY <1>1, <1>2 DEF Written
<1>4. a + m <= k + 1 /\ (a + m) + n <= k + 1
  BY <1>3
<1>5. ASSUME NEW j \in 1 .. m
      PROVE  f[a + (j - 1)] = s[j]
  <2>1. j \in 1 .. m + n
    OBVIOUS
  <2> QED
    BY <1>2, <1>3, <2>1
<1>6. ASSUME NEW j \in 1 .. n
      PROVE  f[(a + m) + (j - 1)] = t[j]
  <2>1. m + j \in 1 .. m + n /\ a + ((m + j) - 1) = (a + m) + (j - 1)
    OBVIOUS
  <2> QED
    BY <1>2, <1>3, <2>1
<1> QED
  BY <1>1, <1>4, <1>5, <1>6 DEF Written

LEMMA WrittenAtEnd ==
  ASSUME NEW S, NEW f \in Seq(S), NEW s \in Seq(S)
  PROVE  /\ Written(f \o s, Len(f) + 1, s)
         /\ Len(f \o s) = Len(f) + Len(s) /\ f \o s \in Seq(S)
         /\ \A q \in 1 .. Len(f) : (f \o s)[q] = f[q]
<1>1. PICK m, n \in Nat : m = Len(f) /\ n = Len(s)
  BY LenProperties
<1>2. /\ Len(f \o s) = m + n /\ f \o s \in Seq(S)
      /\ \A i \in 1 .. m + n : (f \o s)[i] = IF i <= m THEN f[i] ELSE s[i - m]
  BY <1>1, ConcatProperties
<1>3. \A j \in 1 .. m : j \in 1 .. m + n /\ j <= m
  OBVIOUS
<1>4. \A j \in 1 .. n :
        /\ (m + 1) + (j - 1) \in 1 .. m + n
        /\ ~((m + 1) + (j - 1) <= m) /\ ((m + 1) + (j - 1)) - m = j
  OBVIOUS
<1>5. (m + 1) + n <= (m + n) + 1
  OBVIOUS
<1> QED
  BY <1>1, <1>2, <1>3, <1>4, <1>5 DEF Written

\* Appending does not change what is written.
LEMMA WrittenKept ==
  ASSUME NEW S, NEW f \in Seq(S), NEW g \in Seq(S), NEW a \in Nat \ {0},
         NEW s \in Seq(S), Len(f) <= Len(g),
         \A q \in 1 .. Len(f) : g[q] = f[q],
         Written(f, a, s)
  PROVE  Written(g, a, s)
<1>1. PICK m, n, k \in Nat : m = Len(f) /\ n = Len(s) /\ k = Len(g)
  BY LenProperties
<1>2. m <= k /\ a + n <= m + 1 /\ a + n <= k + 1
  BY <1>1 DEF Written
<1>3. \A j \in 1 .. n : a + (j - 1) \in 1 .. m
  BY <1>2
<1> QED
  BY <1>1, <1>2, <1>3 DEF Written

\* Skip is the first position whose character is not one of Chars.
LEMMA SkipIs ==
  ASSUME NEW S, NEW f \in Seq(S), NEW pos \in Nat, NEW Chars,
         NEW q \in pos .. Len(f) + 1, At(f, q) \notin Chars,
         \A r \in pos .. q - 1 : At(f, r) \in Chars
  PROVE  Skip(f, pos, Chars) = q
<1>1. PICK n \in Nat : n = Len(f)
  BY LenProperties
<1>2. ASSUME NEW o \in pos .. n + 1, At(f, o) \notin Chars,
             \A r \in pos .. o - 1 : At(f, r) \in Chars
      PROVE  o = q
  <2>1. ~(o < q) /\ ~(q < o)
    BY <1>1, <1>2
  <2> QED
    BY <1>1, <2>1
<1> QED
  BY <1>1, <1>2 DEF Skip

LEMMA SkipStops ==
  ASSUME NEW S, NEW f \in Seq(S), NEW pos \in Nat, pos <= Len(f) + 1,
         NEW Chars, "NUL" \notin Chars
  PROVE  /\ Skip(f, pos, Chars) \in pos .. Len(f) + 1
         /\ At(f, Skip(f, pos, Chars)) \notin Chars
<1>1. PICK n \in Nat : n = Len(f)
  BY LenProperties
<1> DEFINE T == {q \in pos .. n + 1 : At(f, q) \notin Chars}
<1>2. n + 1 \in T /\ T \subseteq Nat
  <2>1. n + 1 \in pos .. n + 1 /\ ~(n + 1 <= Len(f))
    BY <1>1
  <2> QED
    BY <2>1 DEF At
<1>3. PICK q \in T : \A y \in T : ~ (<<y, q>> \in OpToRel(<, Nat))
  BY <1>2, NatLessThanWellFounded, WFMin
<1>4. \A y \in T : ~(y < q)
  BY <1>2, <1>3 DEF OpToRel
<1>5. ASSUME NEW r \in pos .. q - 1
      PROVE  At(f, r) \in Chars
  <2>1. r \in pos .. n + 1 /\ r < q
    OBVIOUS
  <2> QED
    BY <1>4, <2>1
<1>6. q \in pos .. Len(f) + 1 /\ At(f, q) \notin Chars
  BY <1>1
<1>7. Skip(f, pos, Chars) = q
  BY <1>5, <1>6, SkipIs
<1> QED
  BY <1>6, <1>7

-----------------------------------------------------------------------------
(* One specifier. *)

\* The specifier of the grammar at a: flags up to w, the width up to p, the
\* precision up to l, length modifiers up to the terminal at t.
Specifier(f, a, w, p, l, t, type) ==
  /\ f[a] = "%"
  /\ \A q \in a + 1 .. w - 1 : f[q] \in FlagChars
  /\ \/ p = w + 1 /\ f[w] = "*"
     \/ /\ \A q \in w .. p - 1 : f[q] \in DigitChars
        /\ p > w => f[w] # "0"
  /\ \/ l = p /\ type = kSTRING_WITH_NO_PRECISION
     \/ /\ l = p + 2 /\ f[p] = "." /\ f[p + 1] = "*"
        /\ type = kSTRING_WITH_DYNAMIC_PRECISION
     \/ /\ l > p /\ f[p] = "." /\ \A q \in p + 1 .. l - 1 : f[q] \in DigitChars
        /\ type = Number(SubSeq(f, p + 1, l - 1)) /\ type \in Nat
  /\ \A q \in l .. t - 1 : f[q] \in LengthChars
  /\ f[t] \in TerminalChars \ {"%"}

\* The types of its '*'s.
StarList(star, type) ==
  (IF star THEN <<kDYNAMIC_WIDTH>> ELSE <<>>) \o
  (IF type = kSTRING_WITH_DYNAMIC_PRECISION THEN <<kDYNAMIC_PRECISION>>
                                            ELSE <<>>)

\* What getParamInfo finds in it.
PartsFound(scan, star, type, t) ==
  /\ scan.terminal = t
  /\ scan.stars = StarList(star, type)
  /\ scan.dynamic = (type = kSTRING_WITH_DYNAMIC_PRECISION)
  /\ type # kSTRING_WITH_DYNAMIC_PRECISION => scan.precision = type

LEMMA ScanFindsParts ==
  ASSUME NEW S, NEW f \in Seq(S), NEW n \in Nat, n = Len(f),
         NEW a \in 1 .. n, NEW w \in 1 .. n, NEW p \in 1 .. n,
         NEW l \in 1 .. n, NEW t \in 1 .. n, NEW type \in Int,
         a < w, w <= p, p <= l, l <= t,
         Specifier(f, a, w, p, l, t, type)
  PROVE  PartsFound(Scan(f, a + 1), f[w] = "*", type, t)
<1>1. /\ \A q \in a + 1 .. w - 1 : f[q] \in FlagChars
      /\ \/ p = w + 1 /\ f[w] = "*"
         \/ /\ \A q \in w .. p - 1 : f[q] \in DigitChars
            /\ p > w => f[w] # "0"
      /\ \/ l = p /\ type = kSTRING_WITH_NO_PRECISION
         \/ /\ l = p + 2 /\ f[p] = "." /\ f[p + 1] = "*"
            /\ type = kSTRING_WITH_DYNAMIC_PRECISION
         \/ /\ l > p /\ f[p] = "."
            /\ \A q \in p + 1 .. l - 1 : f[q] \in DigitChars
            /\ type = Number(SubSeq(f, p + 1, l - 1)) /\ type \in Nat
      /\ \A q \in l .. t - 1 : f[q] \in LengthChars
      /\ f[t] \in TerminalChars
  BY DEF Specifier
<1>2. \A q \in 1 .. n : At(f, q) = f[q]
  BY DEF At
<1>3. f[l] \in LengthChars \cup TerminalChars
  BY <1>1
<1>4. l = p \/ f[p] = "."
  BY <1>1
<1>5. f[p] = "." \/ f[p] \in LengthChars \cup TerminalChars
  BY <1>3, <1>4
<1>6. f[w] = "*" \/ f[w] \in DigitChars \ {"0"} \/ w = p
  BY <1>1
<1>7. f[w] \notin FlagChars
  BY <1>5, <1>6, Classes
<1>8. Skip(f, a + 1, FlagChars) = w
  <2>1. \A q \in a + 1 .. w - 1 : At(f, q) \in FlagChars
    BY <1>1, <1>2
  <2>2. At(f, w) \notin FlagChars /\ w \in a + 1 .. Len(f) + 1
    BY <1>2, <1>7
  <2> QED
    BY <2>1, <2>2, SkipIs
<1>9. (IF At(f, w) = "*" THEN w + 1 ELSE Skip(f, w, DigitChars)) = p
  <2>1. CASE p = w + 1 /\ f[w] = "*"
    BY <1>2, <2>1
  <2>2. CASE /\ \A q \in w .. p - 1 : f[q] \in DigitChars
             /\ p > w => f[w] # "0"
    <3>1. \A q \in w .. p - 1 : At(f, q) \in DigitChars
      BY <1>2, <2>2
    <3>2. At(f, p) \notin DigitChars /\ p \in w .. Len(f) + 1
      BY <1>2, <1>5, Classes
    <3>3. Skip(f, w, DigitChars) = p
      BY <3>1, <3>2, SkipIs
    <3>4. w = p \/ f[w] \in DigitChars
      BY <2>2
    <3>5. At(f, w) # "*"
      BY <1>2, <1>5, <3>4, Classes
    <3> QED
      BY <3>3, <3>5
  <2> QED
    BY <1>1, <2>1, <2>2
<1>10. /\ At(f, p) = "." <=> type # kSTRING_WITH_NO_PRECISION
       /\ At(f, p) = "." /\ At(f, p + 1) = "*" <=>
            type = kSTRING_WITH_DYNAMIC_PRECISION
       /\ ~(At(f, p) = "." /\ At(f, p + 1) = "*") /\ At(f, p) = "." =>
            /\ Skip(f, p + 1, DigitChars) = l
            /\ type = Number(SubSeq(f, p + 1, l - 1)) /\ type \in Nat
       /\ At(f, p) # "." => l = p
       /\ At(f, p) = "." /\ At(f, p + 1) = "*" => l = p + 2
  <2> USE DEF kSTRING_WITH_NO_PRECISION, kSTRING_WITH_DYNAMIC_PRECISION
  <2>1. CASE l = p /\ type = kSTRING_WITH_NO_PRECISION
    <3>1. At(f, p) # "."
      BY <1>2, <1>3, <2>1, Classes
    <3> QED
      BY <2>1, <3>1
  <2>2. CASE /\ l = p + 2 /\ f[p] = "." /\ f[p + 1] = "*"
             /\ type = kSTRING_WITH_DYNAMIC_PRECISION
    <3>1. At(f, p) = "." /\ At(f, p + 1) = "*"
      <4>1. p + 1 \in 1 .. n
        BY <2>2
      <4> QED
        BY <1>2, <2>2, <4>1
    <3> QED
      BY <2>2, <3>1
  <2>3. CASE /\ l > p /\ f[p] = "."
             /\ \A q \in p + 1 .. l - 1 : f[q] \in DigitChars
             /\ type = Number(SubSeq(f, p + 1, l - 1)) /\ type \in Nat
    <3>1. \A q \in p + 1 .. l - 1 : At(f, q) \in DigitChars
      BY <1>2, <2>3
    <3>2. At(f, l) \notin DigitChars /\ l \in p + 1 .. Len(f) + 1
      BY <1>2, <1>3, <2>3, Classes
    <3>3. Skip(f, p + 1, DigitChars) = l
      BY <3>1, <3>2, SkipIs
    <3>4. p + 1 = l \/ f[p + 1] \in DigitChars
      BY <2>3
    <3>5. At(f, p + 1) # "*" /\ At(f, p) = "."
      <4>1. p + 1 \in 1 .. n
        BY <2>3
      <4>2. f[p + 1] # "*"
        BY <1>3, <3>4, Classes
      <4> QED
        BY <1>2, <2>3, <4>1, <4>2
    <3>6. type # -1 /\ type # -2
      BY <2>3
    <3> QED
      BY <2>3, <3>3, <3>5, <3>6
  <2> QED
    BY <1>1, <2>1, <2>2, <2>3
<1>11. Skip(f, l, LengthChars) = t
  <2>1. \A q \in l .. t - 1 : At(f, q) \in LengthChars
    BY <1>1, <1>2
  <2>2. At(f, t) \notin LengthChars /\ t \in l .. Len(f) + 1
    BY <1>1, <1>2, Classes
  <2> QED
    BY <2>1, <2>2, SkipIs
<1>12. (IF At(f, p) = "." /\ At(f, p + 1) = "*" THEN p + 2
        ELSE IF At(f, p) = "." THEN Skip(f, p + 1, DigitChars) ELSE p) = l
  BY <1>10
<1>13. Scan(f, a + 1) =
         [stars |-> (IF At(f, w) = "*" THEN <<kDYNAMIC_WIDTH>> ELSE <<>>) \o
                    (IF At(f, p) = "." /\ At(f, p + 1) = "*"
                     THEN <<kDYNAMIC_PRECISION>> ELSE <<>>),
          dynamic |-> At(f, p) = "." /\ At(f, p + 1) = "*",
          precision |-> IF At(f, p) = "." /\ ~(At(f, p) = "." /\
                                               At(f, p + 1) = "*")
                        THEN Number(SubSeq(f, p + 1, l - 1)) ELSE -1,
          terminal |-> t]
  BY <1>8, <1>9, <1>11, <1>12 DEF Scan
<1>14. At(f, w) = f[w]
  BY <1>2
<1> QED
  BY <1>10, <1>13, <1>14 
     DEF PartsFound, StarList, kSTRING_WITH_NO_PRECISION

\* What the parameter of a specifier is, and where process_fmt ends it.
\* What the parsers find at a specifier.
Supported(f, a, t, type) ==
  /\ At(f, a) = "%" /\ At(f, a + 1) # "%"
  /\ Rejected(f, Scan(f, a + 1)) <=> f[t] = "n"
  /\ TypeOf(f, Scan(f, a + 1)) = IF f[t] = "s" THEN type ELSE kNON_STRING
  /\ EndOfSpecifier(f, a) = t + 1

LEMMA SpecifierIsSupported ==
  ASSUME NEW S, NEW f \in Seq(S), NEW n \in Nat, n = Len(f),
         NEW a \in 1 .. n, NEW w \in 1 .. n, NEW p \in 1 .. n,
         NEW l \in 1 .. n, NEW t \in 1 .. n, NEW type \in Int,
         a < w, w <= p, p <= l, l <= t,
         Specifier(f, a, w, p, l, t, type)
  PROVE  Supported(f, a, t, type)
<1>1. \A q \in 1 .. n : At(f, q) = f[q] /\ f[q] \in Range(f)
  <2>1. DOMAIN f = 1 .. n
    BY LenProperties
  <2> QED
    BY <2>1 DEF At, Range
<1>2. f[t] \in TerminalChars \ {"%"} /\ At(f, t) = f[t]
  BY <1>1 DEF Specifier
<1>3. ASSUME NEW q \in a + 1 .. t - 1
      PROVE  f[q] \notin TerminalChars
  <2>1. q \in a + 1 .. w - 1 \/ q \in w .. p - 1 \/ q \in p .. l - 1
        \/ q \in l .. t - 1
    OBVIOUS
  <2>2. CASE q \in a + 1 .. w - 1
    <3>1. f[q] \in FlagChars
      BY <2>2 DEF Specifier
    <3> QED
      BY <3>1, Classes
  <2>3. CASE q \in w .. p - 1
    <3>1. f[q] = "*" \/ f[q] \in DigitChars
      BY <2>3 DEF Specifier
    <3> QED
      BY <3>1, Classes
  <2>4. CASE q \in p .. l - 1
    <3>1. f[q] \in {".", "*"} \/ f[q] \in DigitChars
      <4>1. l # p
        BY <2>4
      <4>2. CASE l = p + 2 /\ f[p] = "." /\ f[p + 1] = "*"
        BY <2>4, <4>2
      <4>3. CASE f[p] = "." /\ \A r \in p + 1 .. l - 1 : f[r] \in DigitChars
        <5>1. q = p \/ q \in p + 1 .. l - 1
          BY <2>4
        <5> QED
          BY <4>3, <5>1
      <4> QED
        BY <4>1, <4>2, <4>3 DEF Specifier
    <3> QED
      BY <3>1, Classes
  <2>5. CASE q \in l .. t - 1
    <3>1. f[q] \in LengthChars
      BY <2>5 DEF Specifier
    <3> QED
      BY <3>1, Classes
  <2> QED
    BY <2>1, <2>2, <2>3, <2>4, <2>5
<1>4. At(f, a) = "%" /\ At(f, a + 1) # "%"
  <2>1. a + 1 \in 1 .. n /\ (a + 1 \in a + 1 .. t - 1 \/ a + 1 = t)
    OBVIOUS
  <2>2. f[a + 1] # "%"
    BY <1>2, <1>3, <2>1 DEF TerminalChars, NonStringTerminals
  <2> QED
    BY <1>1, <2>1, <2>2 DEF Specifier
<1>5. Rejected(f, Scan(f, a + 1)) <=> f[t] = "n"
  <2>1. Scan(f, a + 1).terminal = t
    BY ScanFindsParts DEF PartsFound
  <2> QED
    BY <1>2, <2>1 DEF Rejected
<1>6. TypeOf(f, Scan(f, a + 1)) = IF f[t] = "s" THEN type ELSE kNON_STRING
  <2> DEFINE scan == Scan(f, a + 1)
  <2>1. PartsFound(scan, f[w] = "*", type, t)
    BY ScanFindsParts
  <2> HIDE DEF scan
  <2>2. /\ scan.terminal = t
        /\ scan.dynamic <=> type = kSTRING_WITH_DYNAMIC_PRECISION
        /\ type # kSTRING_WITH_DYNAMIC_PRECISION => scan.precision = type
    BY <2>1 DEF PartsFound
  <2>3. TypeOf(f, scan) = IF f[t] = "s" THEN type ELSE kNON_STRING
    BY <1>2, <2>2 DEF TypeOf, kSTRING_WITH_NO_PRECISION
  <2> QED
    BY <2>3 DEF scan
<1>7. EndOfSpecifier(f, a) = t + 1
  <2> DEFINE C == Range(f) \ TerminalChars
  <2>1. \A q \in a + 1 .. t - 1 : At(f, q) \in C
    BY <1>1, <1>3
  <2>2. At(f, t) \notin C /\ t \in a + 1 .. Len(f) + 1
    BY <1>2
  <2> HIDE DEF C
  <2>3. Skip(f, a + 1, C) = t
    BY <2>1, <2>2, SkipIs
  <2> QED
    BY <2>3 DEF C, EndOfSpecifier
<1> QED
  BY <1>4, <1>5, <1>6, <1>7 DEF Supported

-----------------------------------------------------------------------------
(* The recursive functions of the two parsers are defined for every string. *)

\* Where getParamInfo goes on.
Behind(f, pos) ==
  IF At(f, pos) # "%" THEN pos + 1
  ELSE IF At(f, pos + 1) = "%" THEN pos + 2
  ELSE Scan(f, pos + 1).terminal + 1

StarTypes == {kDYNAMIC_WIDTH, kDYNAMIC_PRECISION}

\* Wherever a scan begins, it ends in the string or at its NUL.
LEMMA ScanEnds ==
  ASSUME NEW S, NEW f \in Seq(S), NEW n \in Nat, n = Len(f), NEW pos \in 1 .. n
  PROVE  /\ Scan(f, pos + 1).terminal \in pos + 1 .. n + 1
         /\ Scan(f, pos + 1).stars \in Seq(StarTypes)
<1> DEFINE width == Skip(f, pos + 1, FlagChars)
           point == IF At(f, width) = "*" THEN width + 1
                    ELSE Skip(f, width, DigitChars)
           dynamic == At(f, point) = "." /\ At(f, point + 1) = "*"
           length == IF dynamic THEN point + 2
                     ELSE IF At(f, point) = "." THEN Skip(f, point + 1, DigitChars)
                     ELSE point
<1>1. \A q \in Nat : At(f, q) # "NUL" => q <= n
  BY DEF At
<1>2. width \in pos + 1 .. n + 1
  <2>1. pos + 1 \in Nat /\ pos + 1 <= Len(f) + 1 /\ "NUL" \notin FlagChars
    BY Classes
  <2> QED
    BY <2>1, SkipStops
<1> HIDE DEF width
<1>3. point \in pos + 1 .. n + 1
  <2>1. CASE At(f, width) = "*"
    BY <1>1, <1>2, <2>1
  <2>2. CASE At(f, width) # "*"
    <3>1. width \in Nat /\ width <= Len(f) + 1 /\ "NUL" \notin DigitChars
      BY <1>2, Classes
    <3>2. Skip(f, width, DigitChars) \in width .. Len(f) + 1
      BY <3>1, SkipStops
    <3> QED
      BY <1>2, <2>2, <3>2
  <2> QED
    BY <2>1, <2>2
<1> HIDE DEF point
<1>4. length \in pos + 1 .. n + 1
  <2>1. CASE dynamic
    <3>1. point + 1 <= n
      BY <1>1, <1>3, <2>1
    <3> QED
      BY <1>3, <2>1, <3>1
  <2>2. CASE ~dynamic /\ At(f, point) = "."
    <3>1. point + 1 \in Nat /\ point + 1 <= Len(f) + 1 /\ "NUL" \notin DigitChars
      BY <1>1, <1>3, <2>2, Classes
    <3>2. Skip(f, point + 1, DigitChars) \in point + 1 .. Len(f) + 1
      BY <3>1, SkipStops
    <3> QED
      BY <1>3, <2>2, <3>2
  <2>3. CASE ~dynamic /\ At(f, point) # "."
    BY <1>3, <2>3
  <2> QED
    BY <2>1, <2>2, <2>3
<1> HIDE DEF length
<1>5. Skip(f, length, LengthChars) \in pos + 1 .. n + 1
  <2>1. length \in Nat /\ length <= Len(f) + 1 /\ "NUL" \notin LengthChars
    BY <1>4, Classes
  <2>2. Skip(f, length, LengthChars) \in length .. Len(f) + 1
    BY <2>1, SkipStops
  <2> QED
    BY <1>4, <2>2
<1>6. Scan(f, pos + 1).terminal = Skip(f, length, LengthChars)
  BY DEF Scan, width, point, length
<1>7. Scan(f, pos + 1).stars =
        (IF At(f, width) = "*" THEN <<kDYNAMIC_WIDTH>> ELSE <<>>) \o
        (IF dynamic THEN <<kDYNAMIC_PRECISION>> ELSE <<>>)
  BY DEF Scan, width, point
<1>8. /\ (IF At(f, width) = "*" THEN <<kDYNAMIC_WIDTH>> ELSE <<>>)
           \in Seq(StarTypes)
      /\ (IF dynamic THEN <<kDYNAMIC_PRECISION>> ELSE <<>>) \in Seq(StarTypes)
  <2> HIDE DEF dynamic
  <2>1. kDYNAMIC_WIDTH \in StarTypes /\ kDYNAMIC_PRECISION \in StarTypes
    BY DEF StarTypes
  <2>2. <<kDYNAMIC_WIDTH>> \in Seq(StarTypes)
        /\ <<kDYNAMIC_PRECISION>> \in Seq(StarTypes) /\ <<>> \in Seq(StarTypes)
    BY <2>1
  <2> QED
    BY <2>2
<1>9. Scan(f, pos + 1).stars \in Seq(StarTypes)
  <2>1. \A x, y \in Seq(StarTypes) : x \o y \in Seq(StarTypes)
    BY ConcatProperties
  <2> QED
    BY <1>7, <1>8, <2>1
<1> QED
  BY <1>5, <1>6, <1>9

LEMMA BehindAdvances ==
  ASSUME NEW S, NEW f \in Seq(S), NEW n \in Nat, n = Len(f), NEW pos \in 1 .. n
  PROVE  Behind(f, pos) \in pos + 1 .. n + 2
<1>1. Scan(f, pos + 1).terminal \in pos + 1 .. n + 1
  BY ScanEnds
<1> QED
  BY <1>1 DEF Behind

\* From pos on, InfoAt depends on what is behind pos only.
LEMMA InfoIsLocal ==
  ASSUME NEW f, NEW n \in Nat, n = Len(f), NEW pos \in 1 .. n, NEW k, NEW g,
         NEW h, g[Behind(f, pos)] = h[Behind(f, pos)]
  PROVE  InfoAt(f, g, pos, k) = InfoAt(f, h, pos, k)
BY DEF InfoAt, Behind

LEMMA InfoIsDefined ==
  ASSUME NEW S, NEW f \in Seq(S), NEW n \in Nat, n = Len(f), NEW m \in Nat
  PROVE  \E info :
           /\ \A pos \in 1 .. n + 2, k \in 0 .. m :
                info[pos][k] = InfoAt(f, info, pos, k)
           /\ getParamInfo(f, m) = info[1][m]
<1> DEFINE D == 1 .. n + 2
           W == {kINVALID, kTHROW} \cup StarTypes \cup
                  {TypeOf(f, Scan(f, pos + 1)) : pos \in 1 .. n}
           V == [0 .. m -> W]
           v0 == [k \in 0 .. m |-> kINVALID]
           rank == [pos \in D |-> n + 2 - pos]
           val == [pos \in D |-> v0]
           next == [pos \in D |-> IF pos > n THEN pos ELSE Behind(f, pos)]
           step == [pos \in D |-> [v \in V |->
                     IF pos > n THEN v
                     ELSE [k \in 0 .. m |-> InfoAt(f, [q \in D |-> v], pos, k)]]]
<1>1. v0 \in V /\ val \in [D -> V]
  OBVIOUS
<1>2. \A pos \in 1 .. n : Behind(f, pos) \in pos + 1 .. n + 2
  BY BehindAdvances
<1>3. /\ rank \in [D -> 0 .. n + 2] /\ next \in [D -> D]
      /\ Descends(D, rank, {n + 1, n + 2}, next)
  BY <1>2 DEF Descends
<1>4. ASSUME NEW pos \in 1 .. n, NEW v \in V, NEW k \in 0 .. m
      PROVE  InfoAt(f, [q \in D |-> v], pos, k) \in W
  <2>1. \A q \in D, j \in 0 .. m : [r \in D |-> v][q][j] \in W
    OBVIOUS
  <2> DEFINE scan == Scan(f, pos + 1)  c == [r \in D |-> v]
  <2>2. scan.terminal + 1 \in D /\ scan.stars \in Seq(StarTypes)
    BY ScanEnds
  <2>3. PICK s \in Nat : s = Len(scan.stars)
    BY <2>2, LenProperties
  <2>4. pos + 1 \in D /\ pos + 2 \in D
    OBVIOUS
  <2>5. k < s => scan.stars[k + 1] \in W
    <3>1. k < s => k + 1 \in 1 .. s
      OBVIOUS
    <3> QED
      BY <2>2, <2>3, <3>1, ElementOfSeq
  <2>6. ~(k < s) /\ k # s => ParamsLeft(k, scan.stars) \in 0 .. m
    BY <2>3 DEF ParamsLeft
  <2>7. TypeOf(f, scan) \in W
    OBVIOUS
  <2>8. kINVALID \in W /\ kTHROW \in W
    OBVIOUS
  <2> HIDE DEF W, c, scan
  <2>9. InfoAt(f, c, pos, k) \in W
    BY <2>1, <2>2, <2>3, <2>4, <2>5, <2>6, <2>7, <2>8 DEF InfoAt, scan, c
  <2> QED
    BY <2>9 DEF c
<1> HIDE DEF W
<1>5. step \in [D -> [V -> V]]
  <2>1. ASSUME NEW pos \in D, NEW v \in V
        PROVE  (IF pos > n THEN v
                ELSE [k \in 0 .. m |-> InfoAt(f, [q \in D |-> v], pos, k)]) \in V
    <3>1. CASE pos > n
      BY <3>1
    <3>2. CASE ~(pos > n)
      BY <1>4, <3>2
    <3> QED
      BY <3>1, <3>2
  <2> HIDE DEF V
  <2> QED
    BY <2>1
<1> HIDE DEF V, v0, rank, val, next, step
<1>6. n + 2 \in Nat
  OBVIOUS
<1> HIDE DEF D
<1>7. PICK g \in [D -> V] : Recurs(D, g, {n + 1, n + 2}, val, next, step)
  BY <1>1, <1>3, <1>5, <1>6, Recursion
<1> USE DEF D
<1>8. ASSUME NEW pos \in D
      PROVE  g[pos] = [k \in 0 .. m |-> InfoAt(f, g, pos, k)]
  <2>1. CASE pos \in {n + 1, n + 2}
    <3>1. pos > Len(f)
      BY <2>1
    <3>2. \A k \in 0 .. m : InfoAt(f, g, pos, k) = kINVALID
      BY <3>1 DEF InfoAt
    <3>3. g[pos] = v0
      BY <1>7, <2>1 DEF val, Recurs
    <3> QED
      BY <3>2, <3>3 DEF v0
  <2>2. CASE pos \notin {n + 1, n + 2}
    <3>1. pos \in 1 .. n
      BY <2>2
    <3>2. PICK v \in V : v = g[Behind(f, pos)]
      BY <1>2, <3>1
    <3>3. g[pos] = [k \in 0 .. m |-> InfoAt(f, [q \in D |-> v], pos, k)]
      <4>1. g[pos] = step[pos][g[next[pos]]]
        BY <1>7, <2>2 DEF Recurs
      <4>2. g[next[pos]] = v /\ ~(pos > n)
        BY <3>1, <3>2 DEF next
      <4>3. step[pos][v] = [k \in 0 .. m |-> InfoAt(f, [q \in D |-> v], pos, k)]
        BY <4>2 DEF step
      <4> QED
        BY <4>1, <4>2, <4>3
    <3>4. [q \in D |-> v][Behind(f, pos)] = g[Behind(f, pos)]
      BY <1>2, <3>1, <3>2
    <3>5. \A k \in 0 .. m :
            InfoAt(f, [q \in D |-> v], pos, k) = InfoAt(f, g, pos, k)
      BY <3>1, <3>4, InfoIsLocal
    <3> QED
      BY <3>3, <3>5
  <2> QED
    BY <2>1, <2>2
<1>9. g = [pos \in 1 .. Len(f) + 2 |-> [k \in 0 .. m |-> InfoAt(f, g, pos, k)]]
  BY <1>8
<1> DEFINE Is(info) == info = [pos \in 1 .. Len(f) + 2 |->
                                 [k \in 0 .. m |-> InfoAt(f, info, pos, k)]]
           info == CHOOSE h : Is(h)
<1>10. Is(info)
  BY <1>9
<1>11. getParamInfo(f, m) = info[1][m]
  BY DEF getParamInfo
<1> HIDE DEF info
<1>12. \A pos \in 1 .. n + 2, k \in 0 .. m :
         info[pos][k] = InfoAt(f, info, pos, k)
  <2>1. \A pos \in D : info[pos] = [k \in 0 .. m |-> InfoAt(f, info, pos, k)]
    BY <1>10
  <2> QED
    BY <2>1
<1> QED
  BY <1>11, <1>12

\* process_fmt goes on in the string or behind its NUL.
LEMMA SpecifierEnds ==
  ASSUME NEW S, NEW f \in Seq(S), "NUL" \notin S, NEW n \in Nat, n = Len(f),
         NEW pos \in 1 .. n
  PROVE  EndOfSpecifier(f, pos) \in pos + 2 .. n + 2
<1>1. Range(f) \subseteq S
  <2>1. DOMAIN f = 1 .. n /\ \A q \in 1 .. n : f[q] \in S
    BY LenProperties, ElementOfSeq
  <2> QED
    BY <2>1 DEF Range
<1> DEFINE C == Range(f) \ TerminalChars
<1>2. "NUL" \notin C /\ pos + 1 \in Nat /\ pos + 1 <= Len(f) + 1
  BY <1>1
<1> HIDE DEF C
<1>3. Skip(f, pos + 1, C) \in pos + 1 .. n + 1
  BY <1>2, SkipStops
<1> QED
  BY <1>3 DEF EndOfSpecifier, C

LEMMA SplitIsLocal ==
  ASSUME NEW f, NEW n \in Nat, n = Len(f), NEW pos \in 1 .. n,
         NEW next, next = IF f[pos] # "%" THEN pos + 1
                          ELSE IF At(f, pos + 1) = "%" THEN pos + 2
                          ELSE EndOfSpecifier(f, pos),
         NEW g, NEW h, g[next] = h[next]
  PROVE  SplitAt(f, g, pos) = SplitAt(f, h, pos)
BY DEF SplitAt

LEMMA SplitIsDefined ==
  ASSUME NEW S, NEW f \in Seq(S), "NUL" \notin S, NEW n \in Nat, n = Len(f)
  PROVE  \E from :
           /\ \A pos \in 1 .. n + 2 : from[pos] = SplitAt(f, from, pos)
           /\ split(f) = from[1]
<1> DEFINE D == 1 .. n + 2
           W == {<<f[q]>> : q \in 1 .. n} \cup {<<"%">>} \cup
                  {SubSeq(f, q, EndOfSpecifier(f, q) - 1) : q \in 1 .. n}
           V == Seq(W)
           after(pos) == IF f[pos] # "%" THEN pos + 1
                         ELSE IF At(f, pos + 1) = "%" THEN pos + 2
                         ELSE EndOfSpecifier(f, pos)
           rank == [pos \in D |-> n + 2 - pos]
           val == [pos \in D |-> <<>>]
           next == [pos \in D |-> IF pos > n THEN pos ELSE after(pos)]
           step == [pos \in D |-> [v \in V |->
                     IF pos > n THEN v ELSE SplitAt(f, [q \in D |-> v], pos)]]
<1>1. \A pos \in 1 .. n : after(pos) \in pos + 1 .. n + 2
  <2> SUFFICES ASSUME NEW pos \in 1 .. n
               PROVE  after(pos) \in pos + 1 .. n + 2
    OBVIOUS
  <2>1. EndOfSpecifier(f, pos) \in pos + 2 .. n + 2
    BY SpecifierEnds
  <2> QED
    BY <2>1
<1> HIDE DEF after
<1>2. /\ rank \in [D -> 0 .. n + 2] /\ next \in [D -> D]
      /\ Descends(D, rank, {n + 1, n + 2}, next)
  BY <1>1 DEF Descends
<1>3. <<>> \in V /\ val \in [D -> V]
  OBVIOUS
<1>4. ASSUME NEW pos \in 1 .. n, NEW v \in V
      PROVE  SplitAt(f, [q \in D |-> v], pos) \in V
  <2>1. PICK z : z \in D /\ [q \in D |-> v][z] = v /\ z = after(pos)
    BY <1>1
  <2>2. /\ <<f[pos]>> \in W /\ <<"%">> \in W
        /\ SubSeq(f, pos, EndOfSpecifier(f, pos) - 1) \in W
    OBVIOUS
  <2> HIDE DEF W
  <2>3. \A s \in W : <<s>> \o v \in V
    <3>1. \A s \in W : <<s>> \in Seq(W)
      OBVIOUS
    <3> QED
      BY <3>1, ConcatProperties
  <2>4. ~(pos > Len(f))
    OBVIOUS
  <2> HIDE DEF V
  <2> QED
    BY <2>1, <2>2, <2>3, <2>4 DEF SplitAt, after
<1> HIDE DEF V, W
<1>5. step \in [D -> [V -> V]]
  <2>1. ASSUME NEW pos \in D, NEW v \in V
        PROVE  (IF pos > n THEN v ELSE SplitAt(f, [q \in D |-> v], pos)) \in V
    <3>1. CASE pos > n
      BY <3>1
    <3>2. CASE ~(pos > n)
      <4>1. pos \in 1 .. n
        BY <3>2
      <4>2. SplitAt(f, [q \in D |-> v], pos) \in V
        BY <1>4, <4>1
      <4> HIDE DEF D
      <4> QED
        BY <3>2, <4>2
    <3> QED
      BY <3>1, <3>2
  <2> QED
    BY <2>1
<1> HIDE DEF rank, val, next, step, D
<1>6. n + 2 \in Nat
  OBVIOUS
<1>7. PICK g \in [D -> V] : Recurs(D, g, {n + 1, n + 2}, val, next, step)
  BY <1>2, <1>3, <1>5, <1>6, Recursion
<1> USE DEF D
<1>8. ASSUME NEW pos \in D
      PROVE  g[pos] = SplitAt(f, g, pos)
  <2>1. CASE pos \in {n + 1, n + 2}
    <3>1. pos > Len(f)
      BY <2>1
    <3>2. SplitAt(f, g, pos) = <<>>
      BY <3>1 DEF SplitAt
    <3>3. g[pos] = <<>>
      BY <1>7, <2>1 DEF val, Recurs
    <3> QED
      BY <3>2, <3>3
  <2>2. CASE pos \notin {n + 1, n + 2}
    <3>1. pos \in 1 .. n
      BY <2>2
    <3>2. PICK z \in D : z = after(pos)
      BY <1>1, <3>1
    <3>3. PICK v \in V : v = g[z]
      BY <3>2
    <3>4. g[pos] = SplitAt(f, [q \in D |-> v], pos)
      <4>1. g[pos] = step[pos][g[next[pos]]]
        BY <1>7, <2>2 DEF Recurs
      <4>2. g[next[pos]] = v /\ ~(pos > n)
        BY <3>1, <3>2, <3>3 DEF next
      <4>3. step[pos][v] = SplitAt(f, [q \in D |-> v], pos)
        BY <4>2 DEF step
      <4> QED
        BY <4>1, <4>2, <4>3
    <3>5. [q \in D |-> v][z] = g[z]
      BY <3>2, <3>3
    <3>6. SplitAt(f, [q \in D |-> v], pos) = SplitAt(f, g, pos)
      <4>1. z = IF f[pos] # "%" THEN pos + 1
                ELSE IF At(f, pos + 1) = "%" THEN pos + 2
                ELSE EndOfSpecifier(f, pos)
        BY <3>2 DEF after
      <4> QED
        BY <3>1, <3>5, <4>1, SplitIsLocal
    <3> QED
      BY <3>4, <3>6
  <2> QED
    BY <2>1, <2>2
<1>9. g = [pos \in 1 .. Len(f) + 2 |-> SplitAt(f, g, pos)]
  BY <1>8
<1> DEFINE Is(from) == from = [pos \in 1 .. Len(f) + 2 |-> SplitAt(f, from, pos)]
           from == CHOOSE h : Is(h)
<1>10. Is(from)
  BY <1>9
<1>11. split(f) = from[1]
  BY DEF split
<1> HIDE DEF from
<1>12. \A pos \in 1 .. n + 2 : from[pos] = SplitAt(f, from, pos)
  BY <1>10
<1> QED
  BY <1>11, <1>12

\* The count ends where getParamInfo finds no parameter or a bad one; it does so
\* within the string if it does so behind as many parameters as characters.
LEMMA CountIsDefined ==
  ASSUME NEW f, NEW n \in Nat, n = Len(f),
         getParamInfo(f, n) \in {kINVALID, kTHROW}
  PROVE  \E count :
           /\ \A k \in 0 .. n : count[k] = CountAt(f, count, k)
           /\ countFmtParams(f) = count[0]
<1> DEFINE D == 0 .. n
           ends == {k \in D : getParamInfo(f, k) \in {kINVALID, kTHROW}}
           rank == [k \in D |-> n - k]
           val == [k \in D |-> IF getParamInfo(f, k) = kINVALID THEN k
                                                                ELSE kTHROW]
           next == [k \in D |-> IF k = n THEN n ELSE k + 1]
           step == [k \in D |-> [v \in Int |-> v]]
<1>1. n \in ends
  OBVIOUS
<1>2. val \in [D -> Int] /\ step \in [D -> [Int -> Int]] /\ next \in [D -> D]
  BY DEF kTHROW
<1>3. rank \in [D -> 0 .. n] /\ Descends(D, rank, ends, next)
  <2>1. rank \in [D -> 0 .. n]
    OBVIOUS
  <2>2. ASSUME NEW k \in D, k # n
        PROVE  rank[next[k]] < rank[k]
    <3>1. next[k] = k + 1 /\ k + 1 \in D
      BY <2>2
    <3> QED
      BY <3>1
  <2> HIDE DEF ends, rank, next
  <2> QED
    BY <1>1, <2>1, <2>2 DEF Descends
<1>4. 0 \in Int
  OBVIOUS
<1> HIDE DEF D, ends, rank, val, next, step
<1>5. PICK g \in [D -> Int] : Recurs(D, g, ends, val, next, step)
  BY <1>2, <1>3, <1>4, Recursion
<1>6. ASSUME NEW k \in D
      PROVE  g[k] = CountAt(f, g, k)
  <2>1. CASE k \in ends
    <3>1. g[k] = val[k] /\ getParamInfo(f, k) \in {kINVALID, kTHROW}
      BY <1>5, <2>1 DEF Recurs, ends
    <3> QED
      BY <3>1 DEF val, CountAt, kINVALID, kTHROW
  <2>2. CASE k \notin ends
    <3>1. k # n /\ k + 1 \in D /\ next[k] = k + 1
      BY <1>1, <2>2 DEF next, D
    <3>2. g[k] = step[k][g[k + 1]] /\ g[k + 1] \in Int
      BY <1>5, <2>2, <3>1 DEF Recurs
    <3>3. g[k] = g[k + 1]
      BY <3>2 DEF step
    <3>4. getParamInfo(f, k) # kINVALID /\ getParamInfo(f, k) # kTHROW
      BY <2>2 DEF ends
    <3> QED
      BY <3>3, <3>4 DEF CountAt
  <2> QED
    BY <2>1, <2>2
<1>7. g = [k \in 0 .. Len(f) |-> CountAt(f, g, k)]
  BY <1>6 DEF D
<1> DEFINE Is(count) == count = [k \in 0 .. Len(f) |-> CountAt(f, count, k)]
           count == CHOOSE h : Is(h)
<1>8. Is(count)
  BY <1>7
<1>9. countFmtParams(f) = count[0]
  BY DEF countFmtParams
<1> HIDE DEF count
<1>10. \A k \in 0 .. n : count[k] = CountAt(f, count, k)
  BY <1>8
<1> QED
  BY <1>9, <1>10

\* FlattenSeq, as the sequence of the sequences of the first k elements.
Flattens(flat, ss, n) ==
  /\ flat[1] = ss[1]
  /\ \A k \in 2 .. n : flat[k] = flat[k - 1] \o ss[k]
  /\ FlattenSeq(ss) = flat[n]

LEMMA FlattenIsDefined ==
  ASSUME NEW S, NEW n \in Nat \ {0}, NEW ss \in Seq(Seq(S)), n = Len(ss)
  PROVE  \E flat \in [1 .. n -> Seq(S)] : Flattens(flat, ss, n)
<1> DEFINE D == 1 .. n
           V == Seq(S)
           rank == [k \in D |-> k]
           val == [k \in D |-> ss[k]]
           next == [k \in D |-> IF k = 1 THEN 1 ELSE k - 1]
           step == [k \in D |-> [v \in V |-> v \o ss[k]]]
<1>1. \A k \in D : ss[k] \in V
  BY ElementOfSeq
<1>2. /\ <<>> \in V /\ val \in [D -> V] /\ next \in [D -> D]
      /\ rank \in [D -> 0 .. n] /\ Descends(D, rank, {1}, next)
  <2>1. next \in [D -> D] /\ rank \in [D -> 0 .. n]
    OBVIOUS
  <2>2. \A k \in D : k \in {1} \/ rank[next[k]] < rank[k]
    OBVIOUS
  <2>3. Descends(D, rank, {1}, next)
    BY <2>2 DEF Descends
  <2>4. <<>> \in V /\ val \in [D -> V]
    BY <1>1
  <2> QED
    BY <2>1, <2>3, <2>4
<1>3. step \in [D -> [V -> V]]
  <2>1. \A k \in D, v \in V : v \o ss[k] \in V
    BY <1>1, ConcatProperties
  <2> HIDE DEF V, D
  <2> QED
    BY <2>1
<1> HIDE DEF D, V, rank, val, next, step
<1>4. n \in Nat
  OBVIOUS
<1>5. PICK g \in [D -> V] : Recurs(D, g, {1}, val, next, step)
  BY <1>2, <1>3, <1>4, Recursion
<1>6. ASSUME NEW k \in D
      PROVE  g[k] = IF k = 1 THEN ss[k] ELSE g[k - 1] \o ss[k]
  <2>1. CASE k = 1
    BY <1>5, <2>1 DEF Recurs, val
  <2>2. CASE k # 1
    <3>1. next[k] = k - 1 /\ k - 1 \in D
      BY <2>2 DEF next, D
    <3>2. g[k] = step[k][g[k - 1]] /\ g[k - 1] \in V
      BY <1>5, <2>2, <3>1 DEF Recurs
    <3> QED
      BY <2>2, <3>2 DEF step
  <2> QED
    BY <2>1, <2>2
<1> DEFINE Is(h) == h = [k \in 1 .. Len(ss) |->
                           IF k = 1 THEN ss[k] ELSE h[k - 1] \o ss[k]]
           flat == CHOOSE h : Is(h)
<1>7. Is(g)
  BY <1>6 DEF D
<1>8. Is(flat)
  BY <1>7
<1>9. FlattenSeq(ss) = flat[n]
  <2>1. Len(ss) # 0
    OBVIOUS
  <2> QED
    BY <2>1 DEF FlattenSeq
<1> HIDE DEF flat
<1>10. \A k \in 1 .. n : flat[k] = IF k = 1 THEN ss[k] ELSE flat[k - 1] \o ss[k]
  BY <1>8
<1>11. \A k \in Nat : k \in {j \in Nat : j + 1 \in 1 .. n => flat[j + 1] \in V}
  <2> DEFINE T == {j \in Nat : j + 1 \in 1 .. n => flat[j + 1] \in V}
  <2>1. 0 \in T
    BY <1>1, <1>10 DEF D
  <2>2. ASSUME NEW j \in Nat, j \in T
        PROVE  j + 1 \in T
    <3> SUFFICES ASSUME (j + 1) + 1 \in 1 .. n
                 PROVE  flat[(j + 1) + 1] \in V
      OBVIOUS
    <3>1. j + 1 \in 1 .. n /\ (j + 1) + 1 # 1 /\ ((j + 1) + 1) - 1 = j + 1
      OBVIOUS
    <3>2. flat[j + 1] \in V /\ ss[(j + 1) + 1] \in V
      BY <1>1, <2>2, <3>1 DEF D
    <3>3. flat[(j + 1) + 1] = flat[j + 1] \o ss[(j + 1) + 1]
      BY <1>10, <3>1
    <3> QED
      BY <3>2, <3>3, ConcatProperties DEF V
  <2> HIDE DEF T
  <2> QED
    BY <2>1, <2>2, Induction DEF T
<1>12. \A k \in 1 .. n : flat[k] \in V
  <2>1. \A k \in 1 .. n : k - 1 \in Nat /\ (k - 1) + 1 = k
    OBVIOUS
  <2> QED
    BY <1>11, <2>1
<1>13. flat = [k \in 1 .. n |-> flat[k]]
  <2>1. flat = [k \in 1 .. n |-> IF k = 1 THEN ss[k] ELSE flat[k - 1] \o ss[k]]
    BY <1>8
  <2> QED
    BY <1>10, <2>1
<1>14. flat \in [1 .. n -> Seq(S)]
  BY <1>12, <1>13 DEF V
<1>15. flat[1] = ss[1]
  BY <1>10
<1>16. \A k \in 2 .. n : flat[k] = flat[k - 1] \o ss[k]
  <2>1. \A k \in 2 .. n : k \in 1 .. n /\ k # 1
    OBVIOUS
  <2> QED
    BY <1>10, <2>1
<1> QED
  BY <1>9, <1>14, <1>15, <1>16 DEF Flattens

\* base[k] counts the elements of the first k sequences of ss.
Counts(ss, n, base) ==
  base[0] = 0 /\ \A k \in 1 .. n : base[k] = base[k - 1] + Len(ss[k])

\* s is the concatenation of the first i sequences of ss.
Concatenates(s, ss, base, i) ==
  /\ Len(s) = base[i]
  /\ \A k \in 1 .. i :
       /\ base[k] <= base[i]
       /\ \A j \in 1 .. Len(ss[k]) : s[base[k - 1] + j] = ss[k][j]

LEMMA ConcatenatesNext ==
  ASSUME NEW S, NEW ss \in Seq(Seq(S)), NEW n \in Nat, n = Len(ss),
         NEW base \in [0 .. n -> Nat], Counts(ss, n, base),
         NEW i \in 1 .. n, i + 1 \in 1 .. n, NEW s \in Seq(S),
         Concatenates(s, ss, base, i)
  PROVE  Concatenates(s \o ss[i + 1], ss, base, i + 1)
<1>1. ss[i + 1] \in Seq(S)
  BY ElementOfSeq
<1>2. PICK m, c \in Nat : m = Len(s) /\ c = Len(ss[i + 1])
  BY <1>1, LenProperties
<1>3. /\ base[i] = m /\ base[i + 1] = m + c
  <2>1. (i + 1) - 1 = i
    OBVIOUS
  <2> QED
    BY <1>2, <2>1 DEF Counts, Concatenates
<1> DEFINE r == s \o ss[i + 1]
<1>4. /\ Len(r) = m + c
      /\ \A j \in 1 .. m + c : r[j] = IF j <= m THEN s[j] ELSE ss[i + 1][j - m]
  BY <1>1, <1>2, ConcatProperties
<1> HIDE DEF r
<1>5. ASSUME NEW k \in 1 .. i
      PROVE  /\ base[k] <= base[i + 1]
             /\ \A j \in 1 .. Len(ss[k]) : r[base[k - 1] + j] = ss[k][j]
  <2>1. k \in 1 .. n /\ k - 1 \in 0 .. n /\ k \in 0 .. n
    OBVIOUS
  <2>2. PICK b \in Nat : b = base[k - 1]
    BY <2>1
  <2>3. PICK d \in Nat : d = Len(ss[k])
    <3>1. ss[k] \in Seq(S)
      BY <2>1, ElementOfSeq
    <3> QED
      BY <3>1, LenProperties
  <2>4. base[k] = b + d
    BY <2>1, <2>2, <2>3 DEF Counts
  <2>5. b + d <= m
    <3>1. base[k] <= base[i]
      BY DEF Concatenates
    <3> QED
      BY <1>3, <2>4, <3>1
  <2>6. \A j \in 1 .. d : b + j \in 1 .. m + c /\ b + j <= m
    BY <1>2, <2>5
  <2>7. \A j \in 1 .. d : s[b + j] = ss[k][j]
    BY <2>2, <2>3 DEF Concatenates
  <2>8. \A j \in 1 .. d : r[b + j] = ss[k][j]
    BY <1>4, <2>6, <2>7
  <2>9. b + d <= m + c
    BY <1>2, <2>5
  <2> QED
    BY <1>3, <2>2, <2>3, <2>4, <2>8, <2>9
<1>6. /\ base[i + 1] <= base[i + 1]
      /\ \A j \in 1 .. Len(ss[i + 1]) : r[base[(i + 1) - 1] + j] = ss[i + 1][j]
  <2>1. (i + 1) - 1 = i
    OBVIOUS
  <2>2. \A j \in 1 .. c : m + j \in 1 .. m + c /\ ~(m + j <= m) /\ (m + j) - m = j
    OBVIOUS
  <2>3. \A j \in 1 .. c : r[m + j] = ss[i + 1][j]
    BY <1>4, <2>2
  <2>4. base[(i + 1) - 1] = m /\ Len(ss[i + 1]) = c
    BY <1>2, <1>3, <2>1
  <2>5. base[i + 1] <= base[i + 1]
    BY <1>3
  <2> QED
    BY <2>3, <2>4, <2>5
<1>7. \A k \in 1 .. i + 1 : k \in 1 .. i \/ k = i + 1
  OBVIOUS
<1>8. Len(r) = base[i + 1]
  BY <1>3, <1>4
<1>9. Concatenates(r, ss, base, i + 1)
  BY <1>5, <1>6, <1>7, <1>8 DEF Concatenates
<1> QED
  BY <1>9 DEF r

LEMMA FlattenConcatenates ==
  ASSUME NEW S, NEW ss \in Seq(Seq(S)), NEW n \in Nat, n = Len(ss)
  PROVE  \E base \in [0 .. n -> Nat] :
           /\ Counts(ss, n, base)
           /\ FlattenSeq(ss) \in Seq(S)
           /\ Concatenates(FlattenSeq(ss), ss, base, n)
<1>1. CASE n = 0
  <2>1. FlattenSeq(ss) = ss /\ ss = <<>>
    <3>1. ss = <<>>
      BY <1>1, EmptySeq
    <3>2. Len(ss) = 0
      BY <1>1
    <3> QED
      BY <3>1, <3>2 DEF FlattenSeq
  <2> DEFINE base == [k \in 0 .. n |-> 0]
  <2>2. base \in [0 .. n -> Nat] /\ Counts(ss, n, base)
    BY <1>1 DEF Counts
  <2>3. Concatenates(FlattenSeq(ss), ss, base, n)
    BY <1>1, <2>1 DEF Concatenates
  <2>4. FlattenSeq(ss) \in Seq(S)
    BY <2>1
  <2> QED
    BY <2>2, <2>3, <2>4
<1>2. CASE n # 0
  <2>1. n \in Nat \ {0}
    BY <1>2
  <2>2. PICK flat \in [1 .. n -> Seq(S)] :
          /\ flat[1] = ss[1]
          /\ \A k \in 2 .. n : flat[k] = flat[k - 1] \o ss[k]
          /\ FlattenSeq(ss) = flat[n]
    <3>1. PICK flat \in [1 .. n -> Seq(S)] : Flattens(flat, ss, n)
      BY <2>1, FlattenIsDefined
    <3> QED
      BY <3>1 DEF Flattens
  <2> DEFINE base == [k \in 0 .. n |-> IF k = 0 THEN 0 ELSE Len(flat[k])]
  <2>3. \A k \in 1 .. n : /\ flat[k] \in Seq(S) /\ Len(flat[k]) \in Nat
                          /\ ss[k] \in Seq(S) /\ Len(ss[k]) \in Nat
    BY LenProperties, ElementOfSeq
  <2>4. base \in [0 .. n -> Nat]
    BY <2>3
  <2>5. Counts(ss, n, base)
    <3>1. base[0] = 0
      OBVIOUS
    <3>2. ASSUME NEW k \in 1 .. n
          PROVE  base[k] = base[k - 1] + Len(ss[k])
      <4>1. CASE k = 1
        BY <2>2, <2>3, <4>1
      <4>2. CASE k # 1
        <5>1. k \in 2 .. n /\ k - 1 \in 1 .. n
          BY <4>2
        <5>2. Len(flat[k]) = Len(flat[k - 1]) + Len(ss[k])
          <6>1. flat[k] = flat[k - 1] \o ss[k]
            BY <2>2, <5>1
          <6>2. flat[k - 1] \in Seq(S) /\ ss[k] \in Seq(S)
            BY <2>3, <5>1
          <6> QED
            BY <6>1, <6>2, ConcatProperties
        <5>3. k # 0 /\ k - 1 # 0 /\ k \in 0 .. n /\ k - 1 \in 0 .. n
          BY <5>1
        <5> QED
          BY <5>2, <5>3
      <4> QED
        BY <4>1, <4>2
    <3> HIDE DEF base
    <3> QED
      BY <3>1, <3>2 DEF Counts
  <2>6. \A k \in 1 .. n : base[k] = Len(flat[k])
    OBVIOUS
  <2> HIDE DEF base
  <2> DEFINE T == {i \in Nat : i + 1 \in 1 .. n =>
                     Concatenates(flat[i + 1], ss, base, i + 1)}
  <2>7. 0 \in T
    <3>1. 1 \in 1 .. n /\ 0 + 1 = 1 /\ 1 - 1 = 0
      BY <2>1
    <3>2. base[1] = Len(flat[1]) /\ base[0] = 0 /\ Len(flat[1]) \in Nat
      BY <2>3, <2>5, <2>6, <3>1 DEF Counts
    <3>3. \A k \in 1 .. 1 : k = 1
      OBVIOUS
    <3>4. \A j \in 1 .. Len(ss[1]) : 0 + j = j
      BY <2>3, <3>1
    <3>5. Concatenates(flat[1], ss, base, 1)
      BY <2>2, <3>1, <3>2, <3>3, <3>4 DEF Concatenates
    <3> QED
      BY <3>1, <3>5
  <2>8. ASSUME NEW i \in Nat, i \in T
        PROVE  i + 1 \in T
    <3> SUFFICES ASSUME (i + 1) + 1 \in 1 .. n
                 PROVE  Concatenates(flat[(i + 1) + 1], ss, base, (i + 1) + 1)
      OBVIOUS
    <3>1. i + 1 \in 1 .. n /\ (i + 1) + 1 \in 2 .. n /\ ((i + 1) + 1) - 1 = i + 1
      OBVIOUS
    <3>2. Concatenates(flat[i + 1], ss, base, i + 1)
      BY <2>8, <3>1
    <3>3. flat[(i + 1) + 1] = flat[i + 1] \o ss[(i + 1) + 1]
      BY <2>2, <3>1
    <3>4. flat[i + 1] \in Seq(S)
      BY <2>3, <3>1
    <3> HIDE DEF T
    <3>5. Concatenates(flat[i + 1] \o ss[(i + 1) + 1], ss, base, (i + 1) + 1)
      BY <2>4, <2>5, <3>1, <3>2, <3>4, ConcatenatesNext
    <3> QED
      BY <3>3, <3>5
  <2> HIDE DEF T
  <2>9. n - 1 \in T
    <3>1. n - 1 \in Nat
      BY <2>1
    <3> QED
      BY <2>7, <2>8, <3>1, Induction
  <2>10. Concatenates(flat[n], ss, base, n)
    <3>1. (n - 1) + 1 = n /\ n \in 1 .. n
      BY <2>1
    <3> QED
      BY <2>9, <3>1 DEF T
  <2>11. FlattenSeq(ss) \in Seq(S)
    BY <2>1, <2>2
  <2> QED
    BY <2>2, <2>4, <2>5, <2>10, <2>11
<1> QED
  BY <1>1, <1>2

-----------------------------------------------------------------------------
(* The pieces of a format string. *)

ParamTypes ==
  {kTHROW, kDYNAMIC_WIDTH, kDYNAMIC_PRECISION, kNON_STRING,
   kSTRING_WITH_DYNAMIC_PRECISION, kSTRING_WITH_NO_PRECISION} \cup Nat
Pieces == [out : Seq(Characters), params : Seq(ParamTypes)]

IsText(f, a, b, piece) ==
  /\ b = a + 1 /\ f[a] \in Texts
  /\ piece.out = <<f[a]>> /\ piece.params = <<>>

IsPercent(f, a, b, piece) ==
  /\ b = a + 2 /\ f[a] = "%" /\ f[a + 1] = "%"
  /\ piece.out = <<"%">> /\ piece.params = <<>>

HasParts(f, a, b, piece, w, p, l, t, type) ==
  /\ a < w /\ w <= p /\ p <= l /\ l <= t /\ b = t + 1
  /\ Specifier(f, a, w, p, l, t, type)
  /\ piece.out = SubSeq(f, a, t)
  /\ piece.params = Append(StarList(f[w] = "*", type),
                           IF f[t] = "n" THEN kTHROW
                           ELSE IF f[t] = "s" THEN type ELSE kNON_STRING)

IsSpecifier(f, a, b, piece) ==
  \E w, p, l, t \in 1 .. Len(f), type \in Int :
    HasParts(f, a, b, piece, w, p, l, t, type)

\* The characters of f from a to b - 1 are the piece.
IsPiece(f, a, b, piece) ==
  /\ a \in 1 .. Len(f) /\ b \in 1 .. Len(f) + 1
  /\ \/ IsText(f, a, b, piece)
     \/ IsPercent(f, a, b, piece)
     \/ IsSpecifier(f, a, b, piece)

\* The types of the '*'s and behind them own.
StarsThenOwn(params, star, type, own) ==
  LET stars == StarList(star, type)
  IN /\ Len(stars) \in 0 .. 2
     /\ Len(stars) = (IF star THEN 1 ELSE 0) +
          (IF type = kSTRING_WITH_DYNAMIC_PRECISION THEN 1 ELSE 0)
     /\ \A j \in 1 .. Len(stars) : stars[j] \in StarTypes
     /\ Len(params) = Len(stars) + 1
     /\ \A j \in 1 .. Len(stars) : params[j] = stars[j]
     /\ params[Len(stars) + 1] = own

LEMMA SpecifierParams ==
  ASSUME NEW star \in BOOLEAN, NEW type \in Int, NEW own
  PROVE  StarsThenOwn(Append(StarList(star, type), own), star, type, own)
<1> DEFINE s1 == IF star THEN <<kDYNAMIC_WIDTH>> ELSE <<>>
           s2 == IF type = kSTRING_WITH_DYNAMIC_PRECISION
                 THEN <<kDYNAMIC_PRECISION>> ELSE <<>>
           stars == s1 \o s2
<1>1. kDYNAMIC_WIDTH \in StarTypes /\ kDYNAMIC_PRECISION \in StarTypes
  BY DEF StarTypes
<1>2. s1 \in Seq(StarTypes) /\ Len(s1) = IF star THEN 1 ELSE 0
  BY <1>1
<1>3. /\ s2 \in Seq(StarTypes)
      /\ Len(s2) = IF type = kSTRING_WITH_DYNAMIC_PRECISION THEN 1 ELSE 0
  BY <1>1
<1> HIDE DEF s1, s2
<1>4. stars \in Seq(StarTypes) /\ Len(stars) = Len(s1) + Len(s2)
  BY <1>2, <1>3, ConcatProperties
<1> HIDE DEF stars
<1>5. /\ stars \in Seq(StarTypes \cup {own})
      /\ \A j \in 1 .. Len(stars) : stars[j] \in StarTypes
  BY <1>4, ElementOfSeq, SeqMonotonic
<1>6. /\ Len(Append(stars, own)) = Len(stars) + 1
      /\ \A j \in 1 .. Len(stars) : Append(stars, own)[j] = stars[j]
      /\ Append(stars, own)[Len(stars) + 1] = own
  BY <1>5, AppendProperties
<1>7. Len(stars) \in 0 .. 2
  BY <1>2, <1>3, <1>4
<1>8. StarList(star, type) = stars
  BY DEF StarList, stars, s1, s2
<1> QED
  BY <1>2, <1>3, <1>4, <1>5, <1>6, <1>7, <1>8 DEF StarsThenOwn

\* Every parameter of a specifier but the last is a '*', and the last is
\* rejected if the terminal is 'n'.
SpecifierParts(f, a, b, piece, w, p, l, t, type, s) ==
  /\ a < w /\ w <= p /\ p <= l /\ l <= t /\ b = t + 1
  /\ Specifier(f, a, w, p, l, t, type)
  /\ piece.out = SubSeq(f, a, t)
  /\ s = Len(StarList(f[w] = "*", type)) /\ Len(piece.params) = s + 1
  /\ s = (IF f[w] = "*" THEN 1 ELSE 0) +
         (IF type = kSTRING_WITH_DYNAMIC_PRECISION THEN 1 ELSE 0)
  /\ \A j \in 1 .. s :
       /\ piece.params[j] = StarList(f[w] = "*", type)[j]
       /\ piece.params[j] \in StarTypes
  /\ piece.params[s + 1] = IF f[t] = "n" THEN kTHROW
                           ELSE IF f[t] = "s" THEN type ELSE kNON_STRING
  /\ piece.params[s + 1] = kTHROW <=> f[t] = "n"

LEMMA SpecifierHasParts ==
  ASSUME NEW f, NEW a, NEW b, NEW piece, IsSpecifier(f, a, b, piece)
  PROVE  \E w, p, l, t \in 1 .. Len(f), type \in Int, s \in 0 .. 2 :
           SpecifierParts(f, a, b, piece, w, p, l, t, type, s)
<1>1. PICK w, p, l, t \in 1 .. Len(f), type \in Int :
        /\ a < w /\ w <= p /\ p <= l /\ l <= t /\ b = t + 1
        /\ Specifier(f, a, w, p, l, t, type)
        /\ piece.out = SubSeq(f, a, t)
        /\ piece.params = Append(StarList(f[w] = "*", type),
                                 IF f[t] = "n" THEN kTHROW
                                 ELSE IF f[t] = "s" THEN type ELSE kNON_STRING)
  BY DEF IsSpecifier, HasParts
<1>2. PICK own : own = IF f[t] = "n" THEN kTHROW
                       ELSE IF f[t] = "s" THEN type ELSE kNON_STRING
  OBVIOUS
<1>3. PICK star \in BOOLEAN : star = (f[w] = "*")
  OBVIOUS
<1>4. StarsThenOwn(piece.params, star, type, own)
  BY <1>1, <1>2, <1>3, SpecifierParams
<1>5. own = kTHROW <=> f[t] = "n"
  <2>1. type # -7
    BY <1>1 DEF Specifier, kSTRING_WITH_NO_PRECISION,
                kSTRING_WITH_DYNAMIC_PRECISION
  <2> QED
    BY <1>2, <2>1 DEF kTHROW, kNON_STRING
<1>6. PICK s \in 0 .. 2 : s = Len(StarList(star, type))
  BY <1>4 DEF StarsThenOwn
<1>7. SpecifierParts(f, a, b, piece, w, p, l, t, type, s)
  BY <1>1, <1>2, <1>3, <1>4, <1>5, <1>6 DEF SpecifierParts, StarsThenOwn
<1> QED
  BY <1>7

\* getParamInfo at the beginning of a piece: parameter k is one of the piece's,
\* or is found behind it, unless the piece is not accepted.
LEMMA InfoAtPiece ==
  ASSUME NEW f \in Seq(Characters), NEW a, NEW b, NEW piece,
         IsPiece(f, a, b, piece), NEW info, NEW k \in Nat, NEW q \in Nat,
         q = Len(piece.params)
  PROVE  InfoAt(f, info, a, k) =
           IF k < q THEN piece.params[k + 1]
           ELSE IF \E j \in 1 .. q : piece.params[j] = kTHROW THEN kTHROW
           ELSE info[b][k - q]
<1>1. PICK n \in Nat : n = Len(f)
  BY LenProperties
<1>2. a \in 1 .. n /\ ~(a > Len(f)) /\ At(f, a) = f[a]
  BY <1>1 DEF IsPiece, At
<1>3. CASE IsText(f, a, b, piece)
  <2>1. q = 0 /\ f[a] # "%" /\ b = a + 1
    BY <1>3, GrammarAssumption DEF IsText
  <2>2. InfoAt(f, info, a, k) = info[b][k]
    BY <1>2, <2>1 DEF InfoAt
  <2>3. ~(k < q) /\ k - q = k /\ ~(\E j \in 1 .. q : piece.params[j] = kTHROW)
    BY <2>1
  <2> QED
    BY <2>2, <2>3
<1>4. CASE IsPercent(f, a, b, piece)
  <2>1. q = 0 /\ f[a] = "%" /\ f[a + 1] = "%" /\ b = a + 2
    BY <1>4 DEF IsPercent
  <2>2. At(f, a + 1) = "%"
    BY <1>1, <1>2, <2>1 DEF At, IsPiece
  <2>3. InfoAt(f, info, a, k) = info[b][k]
    BY <1>2, <2>1, <2>2 DEF InfoAt
  <2>4. ~(k < q) /\ k - q = k /\ ~(\E j \in 1 .. q : piece.params[j] = kTHROW)
    BY <2>1
  <2> QED
    BY <2>3, <2>4
<1>5. CASE IsSpecifier(f, a, b, piece)
  <2>1. PICK w, p, l, t \in 1 .. n, type \in Int, s \in 0 .. 2 :
          SpecifierParts(f, a, b, piece, w, p, l, t, type, s)
    BY <1>1, <1>5, SpecifierHasParts
  <2> DEFINE scan == Scan(f, a + 1)
  <2>2. /\ At(f, a) = "%" /\ At(f, a + 1) # "%"
        /\ Rejected(f, scan) <=> f[t] = "n"
        /\ TypeOf(f, scan) = IF f[t] = "s" THEN type ELSE kNON_STRING
    <3>1. a < w /\ w <= p /\ p <= l /\ l <= t /\ Specifier(f, a, w, p, l, t, type)
      BY <2>1 DEF SpecifierParts
    <3>2. Supported(f, a, t, type)
      BY <1>1, <1>2, <3>1, SpecifierIsSupported
    <3> QED
      BY <3>2 DEF Supported
  <2>3. /\ scan.terminal = t
        /\ scan.stars = StarList(f[w] = "*", type)
    <3>1. a < w /\ w <= p /\ p <= l /\ l <= t /\ Specifier(f, a, w, p, l, t, type)
      BY <2>1 DEF SpecifierParts
    <3>2. PartsFound(scan, f[w] = "*", type, t)
      BY <1>1, <1>2, <3>1, ScanFindsParts
    <3> QED
      BY <3>2 DEF PartsFound
  <2> HIDE DEF scan
  <2>4. /\ b = t + 1 /\ s = Len(scan.stars) /\ q = s + 1
        /\ \A j \in 1 .. s : piece.params[j] = scan.stars[j]
        /\ piece.params[s + 1] = IF f[t] = "n" THEN kTHROW
                                 ELSE IF f[t] = "s" THEN type ELSE kNON_STRING
        /\ piece.params[s + 1] = kTHROW <=> f[t] = "n"
        /\ \A j \in 1 .. s : piece.params[j] \in StarTypes
    BY <2>1, <2>3 DEF SpecifierParts
  <2>5. InfoAt(f, info, a, k) =
          IF k < s THEN scan.stars[k + 1]
          ELSE IF Rejected(f, scan) THEN kTHROW
          ELSE IF k = s THEN TypeOf(f, scan)
          ELSE info[t + 1][ParamsLeft(k, scan.stars)]
    BY <1>2, <2>2, <2>3, <2>4 DEF InfoAt, scan
  <2>6. (\E j \in 1 .. q : piece.params[j] = kTHROW) <=> f[t] = "n"
    <3>1. \A j \in 1 .. q : j \in 1 .. s \/ j = s + 1
      BY <2>4
    <3>2. s + 1 \in 1 .. q
      BY <2>4
    <3>3. kTHROW \notin StarTypes
      BY DEF StarTypes, kTHROW, kDYNAMIC_WIDTH, kDYNAMIC_PRECISION
    <3> QED
      BY <2>4, <3>1, <3>2, <3>3
  <2>7. CASE k < s
    <3>1. k + 1 \in 1 .. s /\ k < q
      BY <2>4, <2>7
    <3> QED
      BY <2>4, <2>5, <2>7, <3>1
  <2>8. CASE k = s
    <3>1. k < q /\ ~(k < s)
      BY <2>4, <2>8
    <3> QED
      BY <2>2, <2>4, <2>5, <2>8, <3>1
  <2>9. CASE k > s
    <3>1. ~(k < q) /\ ~(k < s) /\ k # s /\ (k - s) - 1 = k - q
      BY <2>4, <2>9
    <3>2. ParamsLeft(k, scan.stars) = k - q
      BY <2>4, <3>1 DEF ParamsLeft
    <3> QED
      BY <2>2, <2>4, <2>5, <2>6, <3>1, <3>2
  <2> QED
    BY <2>7, <2>8, <2>9
<1> QED
  BY <1>3, <1>4, <1>5 DEF IsPiece

\* process_fmt at the beginning of a piece.
LEMMA SplitAtPiece ==
  ASSUME NEW f \in Seq(Characters), NEW a, NEW b, NEW piece,
         IsPiece(f, a, b, piece), NEW from
  PROVE  SplitAt(f, from, a) = <<piece.out>> \o from[b]
<1>1. PICK n \in Nat : n = Len(f)
  BY LenProperties
<1>2. a \in 1 .. n /\ ~(a > Len(f)) /\ At(f, a) = f[a]
  BY <1>1 DEF IsPiece, At
<1>3. CASE IsText(f, a, b, piece)
  <2>1. f[a] # "%" /\ b = a + 1 /\ piece.out = <<f[a]>>
    BY <1>3, GrammarAssumption DEF IsText
  <2> QED
    BY <1>2, <2>1 DEF SplitAt
<1>4. CASE IsPercent(f, a, b, piece)
  <2>1. f[a] = "%" /\ f[a + 1] = "%" /\ b = a + 2 /\ piece.out = <<"%">>
    BY <1>4 DEF IsPercent
  <2>2. At(f, a + 1) = "%"
    BY <1>1, <1>2, <2>1 DEF At, IsPiece
  <2> QED
    BY <1>2, <2>1, <2>2 DEF SplitAt
<1>5. CASE IsSpecifier(f, a, b, piece)
  <2>1. PICK w, p, l, t \in 1 .. n, type \in Int, s \in 0 .. 2 :
          SpecifierParts(f, a, b, piece, w, p, l, t, type, s)
    BY <1>1, <1>5, SpecifierHasParts
  <2>2. /\ At(f, a) = "%" /\ At(f, a + 1) # "%"
        /\ EndOfSpecifier(f, a) = t + 1
    <3>1. a < w /\ w <= p /\ p <= l /\ l <= t /\ Specifier(f, a, w, p, l, t, type)
      BY <2>1 DEF SpecifierParts
    <3>2. Supported(f, a, t, type)
      BY <1>1, <1>2, <3>1, SpecifierIsSupported
    <3> QED
      BY <3>2 DEF Supported
  <2>3. b = t + 1 /\ piece.out = SubSeq(f, a, t) /\ (t + 1) - 1 = t
    BY <2>1 DEF SpecifierParts
  <2> QED
    BY <1>2, <2>2, <2>3 DEF SplitAt
<1> QED
  BY <1>3, <1>4, <1>5 DEF IsPiece

\* A piece has no more parameters than characters.
LEMMA PieceIsLong ==
  ASSUME NEW f \in Seq(Characters), NEW a, NEW b, NEW piece,
         IsPiece(f, a, b, piece), NEW q \in Nat, q = Len(piece.params)
  PROVE  a + q <= b
<1>1. PICK n \in Nat : n = Len(f) /\ a \in 1 .. n
  BY LenProperties DEF IsPiece
<1>2. CASE IsText(f, a, b, piece) \/ IsPercent(f, a, b, piece)
  BY <1>1, <1>2 DEF IsText, IsPercent
<1>3. CASE IsSpecifier(f, a, b, piece)
  <2>1. PICK w, p, l, t \in 1 .. n, type \in Int, s \in 0 .. 2 :
          SpecifierParts(f, a, b, piece, w, p, l, t, type, s)
    BY <1>1, <1>3, SpecifierHasParts
  <2>2. /\ a < w /\ w <= p /\ p <= l /\ l <= t /\ b = t + 1 /\ q = s + 1
        /\ s = (IF f[w] = "*" THEN 1 ELSE 0) +
               (IF type = kSTRING_WITH_DYNAMIC_PRECISION THEN 1 ELSE 0)
        /\ Specifier(f, a, w, p, l, t, type)
    BY <2>1 DEF SpecifierParts
  <2>3. f[w] = "*" => p >= w + 1 \/ l >= p + 1
    <3>1. CASE p = w
      <4>1. f[w] = "*" /\ l = p => f[w] \in LengthChars \cup TerminalChars
        BY <2>2, <3>1 DEF Specifier
      <4> QED
        BY <2>2, <3>1, <4>1, Classes
    <3> QED
      BY <2>2, <3>1
  <2>4. type = kSTRING_WITH_DYNAMIC_PRECISION => l = p + 2
    BY <2>2 DEF Specifier, kSTRING_WITH_DYNAMIC_PRECISION,
                kSTRING_WITH_NO_PRECISION
  <2> HIDE DEF kSTRING_WITH_DYNAMIC_PRECISION
  <2> QED
    BY <1>1, <2>2, <2>3, <2>4
<1> QED
  BY <1>2, <1>3 DEF IsPiece

-----------------------------------------------------------------------------
(* What the parsers make of a string that consists of pieces. *)

\* Piece k goes from cut[k - 1] up to cut[k].
CutInto(f, ps, cut) ==
  /\ cut \in [0 .. Len(ps) -> 1 .. Len(f) + 1]
  /\ cut[0] = 1 /\ cut[Len(ps)] = Len(f) + 1
  /\ \A k \in 1 .. Len(ps) : IsPiece(f, cut[k - 1], cut[k], ps[k])

\* process_fmt gives back the pieces.
LEMMA SplitGivesPieces ==
  ASSUME NEW f \in Seq(Characters), NEW ps \in Seq(Pieces), NEW cut,
         CutInto(f, ps, cut)
  PROVE  split(f) = [k \in DOMAIN ps |-> ps[k].out]
<1>1. PICK n, m \in Nat : n = Len(f) /\ m = Len(ps) /\ DOMAIN ps = 1 .. m
  BY LenProperties
<1>2. PICK from :
        /\ \A pos \in 1 .. n + 2 : from[pos] = SplitAt(f, from, pos)
        /\ split(f) = from[1]
  BY <1>1, NoNul, SplitIsDefined
<1>3. /\ cut \in [0 .. m -> 1 .. n + 1] /\ cut[0] = 1 /\ cut[m] = n + 1
      /\ \A k \in 1 .. m : IsPiece(f, cut[k - 1], cut[k], ps[k])
  BY <1>1 DEF CutInto
<1>4. \A k \in 1 .. m : ps[k].out \in Seq(Characters)
  <2>1. \A k \in 1 .. m : ps[k] \in Pieces
    BY <1>1, ElementOfSeq
  <2> QED
    BY <2>1 DEF Pieces
<1> DEFINE Rest(j) == [i \in 1 .. j |-> ps[(m - j) + i].out]
           T == {j \in Nat : j <= m => from[cut[m - j]] = Rest(j)}
<1>5. 0 \in T
  <2>1. from[n + 1] = <<>>
    <3>1. n + 1 \in 1 .. n + 2 /\ n + 1 > Len(f)
      BY <1>1
    <3> QED
      BY <1>2, <3>1 DEF SplitAt
  <2>2. Rest(0) = <<>> /\ m - 0 = m
    OBVIOUS
  <2> QED
    BY <1>3, <2>1, <2>2
<1>6. ASSUME NEW j \in Nat, j \in T
      PROVE  j + 1 \in T
  <2> SUFFICES ASSUME j + 1 <= m
               PROVE  from[cut[m - (j + 1)]] = Rest(j + 1)
    OBVIOUS
  <2>1. PICK c \in 0 .. m - 1 :
          /\ c = m - (j + 1) /\ c + 1 \in 1 .. m /\ (c + 1) - 1 = c
          /\ m - j = c + 1 /\ c \in 0 .. m
    OBVIOUS
  <2>2. PICK x : x = ps[c + 1].out
    OBVIOUS
  <2>3. from[cut[c]] = <<x>> \o from[cut[c + 1]]
    <3>1. IsPiece(f, cut[c], cut[c + 1], ps[c + 1])
      BY <1>3, <2>1
    <3>2. cut[c] \in 1 .. n + 2
      BY <1>3, <2>1
    <3>3. from[cut[c]] = SplitAt(f, from, cut[c])
      BY <1>2, <3>2
    <3>4. SplitAt(f, from, cut[c]) = <<ps[c + 1].out>> \o from[cut[c + 1]]
      <4>1. PICK a, b, piece : a = cut[c] /\ b = cut[c + 1] /\ piece = ps[c + 1]
        OBVIOUS
      <4>2. IsPiece(f, a, b, piece)
        BY <3>1, <4>1
      <4>3. SplitAt(f, from, a) = <<piece.out>> \o from[b]
        BY <4>2, SplitAtPiece
      <4> QED
        BY <4>1, <4>3
    <3> QED
      BY <2>2, <3>3, <3>4
  <2>4. from[cut[c + 1]] = Rest(j)
    BY <1>6, <2>1
  <2>5. \A i \in 1 .. j : (m - j) + i \in 1 .. m
    BY <2>1
  <2>6. Rest(j) \in [1 .. j -> Seq(Characters)]
    BY <1>4, <2>5
  <2>7. \A i \in 1 .. j : Rest(j)[i] = ps[(c + 1) + i].out
    BY <2>1
  <2>8. Rest(j + 1) = [i \in 1 .. j + 1 |-> ps[c + i].out]
    BY <2>1
  <2> HIDE DEF Rest, T
  <2>9. Rest(j) \in Seq(Seq(Characters)) /\ Len(Rest(j)) = j
    <3>1. Rest(j) \in Seq(Seq(Characters))
      BY <2>6, SeqDef
    <3>2. PICK y \in Nat : y = Len(Rest(j)) /\ 1 .. y = DOMAIN Rest(j)
      BY <3>1, LenProperties
    <3>3. 1 .. y = 1 .. j
      BY <2>6, <3>2
    <3>4. y = j
      BY <3>3
    <3> QED
      BY <3>1, <3>2, <3>4
  <2>10. <<x>> \in Seq(Seq(Characters)) /\ Len(<<x>>) = 1 /\ <<x>>[1] = x
    <3>1. x \in Seq(Characters)
      BY <1>4, <2>1, <2>2
    <3> QED
      BY <3>1
  <2>11. PICK r \in Seq(Seq(Characters)) : r = <<x>> \o Rest(j)
    BY <2>9, <2>10, ConcatProperties
  <2>12. /\ Len(r) = 1 + j
         /\ \A i \in 1 .. 1 + j :
              r[i] = IF i <= 1 THEN <<x>>[i] ELSE Rest(j)[i - 1]
    BY <2>9, <2>10, <2>11, ConcatProperties
  <2>13. ASSUME NEW i \in 1 .. j + 1
         PROVE  r[i] = ps[c + i].out
    <3>1. CASE i = 1
      BY <2>2, <2>10, <2>12, <3>1
    <3>2. CASE i # 1
      <4>1. /\ i \in 1 .. 1 + j /\ ~(i <= 1) /\ i - 1 \in 1 .. j
            /\ (c + 1) + (i - 1) = c + i
        BY <3>2
      <4> QED
        BY <2>7, <2>12, <4>1
    <3> QED
      BY <3>1, <3>2
  <2>14. r = [i \in 1 .. j + 1 |-> r[i]]
    <3>1. DOMAIN r = 1 .. Len(r)
      BY LenProperties
    <3>2. 1 .. Len(r) = 1 .. j + 1
      <4>1. Len(r) = j + 1
        BY <2>12
      <4> QED
        BY <4>1
    <3>3. r = [i \in DOMAIN r |-> r[i]]
      BY <2>11
    <3> QED
      BY <3>1, <3>2, <3>3
  <2>15. r = Rest(j + 1)
    BY <2>8, <2>13, <2>14
  <2> QED
    BY <2>1, <2>3, <2>4, <2>11, <2>15
<1> HIDE DEF T, Rest
<1>7. m \in T
  BY <1>5, <1>6, Induction
<1>8. from[cut[m - m]] = Rest(m)
  <2>1. m <= m
    OBVIOUS
  <2> QED
    BY <1>7, <2>1 DEF T
<1>9. m - m = 0 /\ \A i \in 1 .. m : (m - m) + i = i
  OBVIOUS
<1>10. Rest(m) = [k \in 1 .. m |-> ps[k].out]
  BY <1>9 DEF Rest
<1> QED
  BY <1>1, <1>2, <1>3, <1>8, <1>9, <1>10

\* The lists of their parameters.
ParamLists(ps) == [k \in DOMAIN ps |-> ps[k].params]

LEMMA ParamListsAreLists ==
  ASSUME NEW ps \in Seq(Pieces), NEW m \in Nat, m = Len(ps)
  PROVE  /\ ParamLists(ps) \in Seq(Seq(ParamTypes)) /\ Len(ParamLists(ps)) = m
         /\ \A k \in 1 .. m : /\ ParamLists(ps)[k] = ps[k].params
                              /\ ps[k].params \in Seq(ParamTypes)
<1>1. DOMAIN ps = 1 .. m
  BY LenProperties
<1>2. \A k \in 1 .. m : ps[k].params \in Seq(ParamTypes)
  <2>1. \A k \in 1 .. m : ps[k] \in Pieces
    BY ElementOfSeq
  <2> QED
    BY <2>1 DEF Pieces
<1>3. PICK ss : ss = ParamLists(ps)
  OBVIOUS
<1>4. ss = [k \in 1 .. m |-> ps[k].params]
  BY <1>1, <1>3 DEF ParamLists
<1>5. ss \in [1 .. m -> Seq(ParamTypes)]
  BY <1>2, <1>4
<1>6. ss \in Seq(Seq(ParamTypes))
  BY <1>5, SeqDef
<1>7. PICK y \in Nat : y = Len(ss) /\ 1 .. y = DOMAIN ss
  BY <1>6, LenProperties
<1>8. 1 .. y = 1 .. m
  BY <1>5, <1>7
<1>9. y = m
  BY <1>8
<1> QED
  BY <1>2, <1>3, <1>4, <1>6, <1>7, <1>9

Throws(params, c) == \E j \in 1 .. c : params[j] = kTHROW

\* Behind b of the parameters v is known, unless it is the value of x for the
\* parameters that are left.
Reached(v, x, params, m, b) ==
  \/ b <= m /\ ~Throws(params, b) /\ v = x[m - b]
  \/ m < b /\ v = params[m + 1]
  \/ Throws(params, b) /\ v = kTHROW

LEMMA ReachedNext ==
  ASSUME NEW v, NEW x, NEW y, NEW params, NEW own, NEW m \in Nat,
         NEW b \in Nat, NEW q \in Nat, Reached(v, x, params, m, b),
         \A j \in 1 .. q : params[b + j] = own[j],
         \A d \in 0 .. m : x[d] = IF d < q THEN own[d + 1]
                                  ELSE IF Throws(own, q) THEN kTHROW
                                  ELSE y[d - q]
  PROVE  Reached(v, y, params, m, b + q)
<1>1. Throws(params, b + q) <=> Throws(params, b) \/ Throws(own, q)
  <2>1. ASSUME NEW j \in 1 .. b + q
        PROVE  j \in 1 .. b \/ (j - b \in 1 .. q /\ b + (j - b) = j)
    OBVIOUS
  <2>2. ASSUME Throws(params, b + q)
        PROVE  Throws(params, b) \/ Throws(own, q)
    <3>1. PICK j \in 1 .. b + q : params[j] = kTHROW
      BY <2>2 DEF Throws
    <3>2. CASE j \in 1 .. b
      BY <3>1, <3>2 DEF Throws
    <3>3. CASE j - b \in 1 .. q /\ b + (j - b) = j
      <4>1. own[j - b] = kTHROW
        BY <3>1, <3>3
      <4> QED
        BY <3>3, <4>1 DEF Throws
    <3> QED
      BY <2>1, <3>2, <3>3
  <2>3. Throws(params, b) => Throws(params, b + q)
    BY DEF Throws
  <2>4. ASSUME Throws(own, q)
        PROVE  Throws(params, b + q)
    <3>1. PICK j \in 1 .. q : own[j] = kTHROW
      BY <2>4 DEF Throws
    <3>2. b + j \in 1 .. b + q /\ params[b + j] = kTHROW
      BY <3>1
    <3> QED
      BY <3>2 DEF Throws
  <2> QED
    BY <2>2, <2>3, <2>4
<1>2. CASE b <= m /\ ~Throws(params, b) /\ v = x[m - b]
  <2>1. PICK d \in 0 .. m : d = m - b /\ v = x[d]
    BY <1>2
  <2>2. CASE d < q
    <3>1. d + 1 \in 1 .. q /\ b + (d + 1) = m + 1 /\ m < b + q
      BY <2>1, <2>2
    <3>2. v = own[d + 1] /\ params[b + (d + 1)] = own[d + 1]
      BY <2>1, <2>2, <3>1
    <3> QED
      BY <3>1, <3>2 DEF Reached
  <2>3. CASE ~(d < q) /\ Throws(own, q)
    <3>1. v = kTHROW
      BY <2>1, <2>3
    <3> QED
      BY <1>1, <2>3, <3>1 DEF Reached
  <2>4. CASE ~(d < q) /\ ~Throws(own, q)
    <3>1. b + q <= m /\ d - q = m - (b + q)
      BY <2>1, <2>4
    <3>2. v = y[d - q]
      BY <2>1, <2>4
    <3> QED
      BY <1>1, <1>2, <2>4, <3>1, <3>2 DEF Reached
  <2> QED
    BY <2>2, <2>3, <2>4
<1>3. CASE m < b /\ v = params[m + 1]
  BY <1>3 DEF Reached
<1>4. CASE Throws(params, b) /\ v = kTHROW
  BY <1>1, <1>4 DEF Reached
<1> QED
  BY <1>2, <1>3, <1>4 DEF Reached

\* What getParamInfo answers for parameter m of params.
Answer(v, params, m) ==
  \/ Len(params) <= m /\ ~Throws(params, Len(params)) /\ v = kINVALID
  \/ m < Len(params) /\ v = params[m + 1]
  \/ Throws(params, Len(params)) /\ v = kTHROW

LEMMA AnswersParam ==
  ASSUME NEW f \in Seq(Characters), NEW ps \in Seq(Pieces), NEW cut,
         CutInto(f, ps, cut), NEW n \in Nat, n = Len(ps), NEW params,
         NEW base \in [0 .. n -> Nat], Counts(ParamLists(ps), n, base),
         Concatenates(params, ParamLists(ps), base, n), NEW m \in Nat
  PROVE  Answer(getParamInfo(f, m), params, m)
<1>1. PICK z \in Nat : z = Len(f)
  BY LenProperties
<1>2. PICK info : /\ \A pos \in 1 .. z + 2, k \in 0 .. m :
                       info[pos][k] = InfoAt(f, info, pos, k)
                  /\ getParamInfo(f, m) = info[1][m]
  BY <1>1, InfoIsDefined
<1>3. PICK v : v = getParamInfo(f, m) /\ v = info[1][m]
  BY <1>2
<1>4. /\ cut \in [0 .. n -> 1 .. z + 1] /\ cut[0] = 1 /\ cut[n] = z + 1
      /\ \A k \in 1 .. n : IsPiece(f, cut[k - 1], cut[k], ps[k])
  BY <1>1 DEF CutInto
<1> DEFINE T == {k \in Nat :
                   k <= n => Reached(v, info[cut[k]], params, m, base[k])}
<1>5. 0 \in T
  <2>1. base[0] = 0 /\ cut[0] = 1
    BY <1>4 DEF Counts
  <2>2. 0 <= m /\ ~Throws(params, 0) /\ m - 0 = m
    BY DEF Throws
  <2>3. Reached(v, info[cut[0]], params, m, base[0])
    BY <1>3, <2>1, <2>2 DEF Reached
  <2> QED
    BY <2>3
<1>6. ASSUME NEW k \in Nat, k \in T
      PROVE  k + 1 \in T
  <2> SUFFICES ASSUME k + 1 <= n
               PROVE  Reached(v, info[cut[k + 1]], params, m, base[k + 1])
    OBVIOUS
  <2>1. /\ k + 1 \in 1 .. n /\ (k + 1) - 1 = k /\ k \in 0 .. n /\ k <= n
    OBVIOUS
  <2>2. Reached(v, info[cut[k]], params, m, base[k])
    BY <1>6, <2>1
  <2> HIDE DEF T
  <2>3. PICK own : own = ps[k + 1].params
    OBVIOUS
  <2>4. own \in Seq(ParamTypes) /\ ParamLists(ps)[k + 1] = own
    BY <2>1, <2>3, ParamListsAreLists
  <2>5. PICK q \in Nat : q = Len(own)
    BY <2>4, LenProperties
  <2>6. PICK b \in Nat : b = base[k]
    BY <2>1
  <2>7. base[k + 1] = b + q
    BY <2>1, <2>4, <2>5, <2>6 DEF Counts
  <2>8. \A j \in 1 .. q : params[b + j] = own[j]
    BY <2>1, <2>4, <2>5, <2>6 DEF Concatenates
  <2>9. ASSUME NEW d \in 0 .. m
        PROVE  info[cut[k]][d] = IF d < q THEN own[d + 1]
                                 ELSE IF Throws(own, q) THEN kTHROW
                                 ELSE info[cut[k + 1]][d - q]
    <3>1. cut[k] \in 1 .. z + 2
      <4>1. cut[k] \in 1 .. z + 1
        BY <1>4, <2>1
      <4> QED
        BY <4>1
    <3>2. info[cut[k]][d] = InfoAt(f, info, cut[k], d)
      BY <1>2, <3>1
    <3>3. IsPiece(f, cut[k], cut[k + 1], ps[k + 1])
      BY <1>4, <2>1
    <3>4. InfoAt(f, info, cut[k], d) =
            IF d < q THEN own[d + 1]
            ELSE IF \E j \in 1 .. q : own[j] = kTHROW THEN kTHROW
            ELSE info[cut[k + 1]][d - q]
      BY <2>3, <2>5, <3>3, InfoAtPiece
    <3> QED
      BY <3>2, <3>4 DEF Throws
  <2>10. PICK x, y : x = info[cut[k]] /\ y = info[cut[k + 1]]
    OBVIOUS
  <2>11. \A d \in 0 .. m : x[d] = IF d < q THEN own[d + 1]
                                   ELSE IF Throws(own, q) THEN kTHROW
                                   ELSE y[d - q]
    BY <2>9, <2>10
  <2>12. Reached(v, x, params, m, b)
    BY <2>2, <2>6, <2>10
  <2>13. Reached(v, y, params, m, b + q)
    BY <2>8, <2>11, <2>12, ReachedNext
  <2> QED
    BY <2>7, <2>10, <2>13
<1> HIDE DEF T
<1>7. n \in T
  BY <1>5, <1>6, Induction
<1>8. Reached(v, info[z + 1], params, m, base[n])
  <2>1. n <= n
    OBVIOUS
  <2> QED
    BY <1>4, <1>7, <2>1 DEF T
<1>9. Len(params) = base[n] /\ base[n] \in Nat
  BY DEF Concatenates
<1>10. ASSUME NEW d \in 0 .. m
       PROVE  info[z + 1][d] = kINVALID
  <2>1. z + 1 \in 1 .. z + 2 /\ z + 1 > Len(f)
    BY <1>1
  <2>2. info[z + 1][d] = InfoAt(f, info, z + 1, d)
    BY <1>2, <2>1
  <2> QED
    BY <2>1, <2>2 DEF InfoAt
<1>11. base[n] <= m => m - base[n] \in 0 .. m
  BY <1>9
<1> QED
  BY <1>3, <1>8, <1>9, <1>10, <1>11 DEF Reached, Answer

\* A string has no fewer characters than parameters.
LEMMA ParamsFit ==
  ASSUME NEW f \in Seq(Characters), NEW ps \in Seq(Pieces), NEW cut,
         CutInto(f, ps, cut), NEW n \in Nat, n = Len(ps),
         NEW base \in [0 .. n -> Nat], Counts(ParamLists(ps), n, base)
  PROVE  base[n] <= Len(f)
<1>1. PICK z \in Nat : z = Len(f)
  BY LenProperties
<1>2. /\ cut \in [0 .. n -> 1 .. z + 1] /\ cut[0] = 1 /\ cut[n] = z + 1
      /\ \A k \in 1 .. n : IsPiece(f, cut[k - 1], cut[k], ps[k])
  BY <1>1 DEF CutInto
<1> DEFINE T == {k \in Nat : k <= n => base[k] + 1 <= cut[k]}
<1>3. 0 \in T
  BY <1>2 DEF Counts
<1>4. ASSUME NEW k \in Nat, k \in T
      PROVE  k + 1 \in T
  <2> SUFFICES ASSUME k + 1 <= n
               PROVE  base[k + 1] + 1 <= cut[k + 1]
    OBVIOUS
  <2>1. /\ k + 1 \in 1 .. n /\ (k + 1) - 1 = k /\ k \in 0 .. n /\ k <= n
        /\ k + 1 \in 0 .. n
    OBVIOUS
  <2>2. base[k] + 1 <= cut[k]
    BY <1>4, <2>1
  <2> HIDE DEF T
  <2>3. PICK q \in Nat : q = Len(ps[k + 1].params)
                         /\ q = Len(ParamLists(ps)[k + 1])
    <3>1. PICK own : own = ps[k + 1].params
      OBVIOUS
    <3>2. own \in Seq(ParamTypes) /\ ParamLists(ps)[k + 1] = own
      BY <2>1, <3>1, ParamListsAreLists
    <3>3. PICK q \in Nat : q = Len(own)
      BY <3>2, LenProperties
    <3> QED
      BY <3>1, <3>2, <3>3
  <2>4. base[k + 1] = base[k] + q
    BY <2>1, <2>3 DEF Counts
  <2>5. IsPiece(f, cut[k], cut[k + 1], ps[k + 1])
    BY <1>2, <2>1
  <2>6. cut[k] + q <= cut[k + 1]
    BY <2>3, <2>5, PieceIsLong
  <2>7. base[k] \in Nat /\ cut[k] \in Nat /\ cut[k + 1] \in Nat
    <3>1. base[k] \in Nat
      BY <2>1
    <3>2. cut[k] \in 1 .. z + 1 /\ cut[k + 1] \in 1 .. z + 1
      BY <1>2, <2>1
    <3>3. 1 .. z + 1 \subseteq Nat
      OBVIOUS
    <3> QED
      BY <3>1, <3>2, <3>3
  <2>8. \A b, c, d \in Nat : b + 1 <= c /\ c + q <= d => (b + q) + 1 <= d
    OBVIOUS
  <2>9. (base[k] + q) + 1 <= cut[k + 1]
    BY <2>2, <2>6, <2>7, <2>8
  <2> QED
    BY <2>4, <2>9
<1> HIDE DEF T
<1>5. n \in T
  BY <1>3, <1>4, Induction
<1>6. base[n] + 1 <= cut[n]
  <2>1. n <= n
    OBVIOUS
  <2> QED
    BY <1>5, <2>1 DEF T
<1>7. base[n] \in Nat
  OBVIOUS
<1> QED
  BY <1>1, <1>2, <1>6, <1>7

\* The answers to the end of the count, for params that nothing rejects: params
\* one after the other, and behind them that there are no more.
LEMMA CountOfAccepted ==
  ASSUME NEW f, NEW n \in Nat, n = Len(f), NEW params \in Seq(ParamTypes),
         NEW c \in Nat, c = Len(params), c <= n, ~Throws(params, c),
         \A m \in Nat : Answer(getParamInfo(f, m), params, m)
  PROVE  countFmtParams(f) = c /\ analyzeFormatString(f) = params
<1>1. getParamInfo(f, c) = kINVALID
  BY DEF Answer
<1>2. ASSUME NEW m \in 0 .. c - 1
      PROVE  /\ getParamInfo(f, m) = params[m + 1]
             /\ getParamInfo(f, m) # kINVALID /\ getParamInfo(f, m) # kTHROW
  <2>1. m \in Nat /\ m < c /\ m + 1 \in 1 .. c
    OBVIOUS
  <2>2. getParamInfo(f, m) = params[m + 1]
    BY <2>1 DEF Answer
  <2>3. params[m + 1] # kTHROW
    BY <2>1 DEF Throws
  <2>4. params[m + 1] \in ParamTypes
    BY <2>1, ElementOfSeq
  <2>5. \A type \in ParamTypes : type # kINVALID
    BY DEF ParamTypes, kTHROW, kDYNAMIC_WIDTH, kDYNAMIC_PRECISION, kNON_STRING,
           kSTRING_WITH_DYNAMIC_PRECISION, kSTRING_WITH_NO_PRECISION, kINVALID
  <2> QED
    BY <2>2, <2>3, <2>4, <2>5
<1>3. getParamInfo(f, n) \in {kINVALID, kTHROW}
  <2>1. ~(n < c)
    OBVIOUS
  <2> QED
    BY <2>1 DEF Answer
<1>4. PICK count : /\ \A k \in 0 .. n : count[k] = CountAt(f, count, k)
                   /\ countFmtParams(f) = count[0]
  BY <1>3, CountIsDefined
<1> DEFINE T == {j \in Nat : j <= c => count[c - j] = c}
<1>5. 0 \in T
  <2>1. c \in 0 .. n /\ c - 0 = c
    OBVIOUS
  <2>2. count[c] = c
    BY <1>1, <1>4, <2>1 DEF CountAt
  <2> QED
    BY <2>1, <2>2
<1>6. ASSUME NEW j \in Nat, j \in T
      PROVE  j + 1 \in T
  <2> SUFFICES ASSUME j + 1 <= c
               PROVE  count[c - (j + 1)] = c
    OBVIOUS
  <2> HIDE DEF T
  <2>1. PICK k \in 0 .. c - 1 : k = c - (j + 1) /\ k + 1 = c - j /\ k \in 0 .. n
    <3>1. c - (j + 1) \in 0 .. c - 1 /\ (c - (j + 1)) + 1 = c - j
      OBVIOUS
    <3>2. \A k \in 0 .. c - 1 : k \in 0 .. n
      OBVIOUS
    <3> QED
      BY <3>1, <3>2
  <2>2. count[k + 1] = c
    <3>1. j <= c
      OBVIOUS
    <3> QED
      BY <1>6, <2>1, <3>1 DEF T
  <2>3. count[k] = count[k + 1]
    BY <1>2, <1>4, <2>1 DEF CountAt
  <2> QED
    BY <2>1, <2>2, <2>3
<1> HIDE DEF T
<1>7. c \in T
  BY <1>5, <1>6, Induction
<1>8. countFmtParams(f) = c
  <2>1. c <= c /\ c - c = 0
    OBVIOUS
  <2> QED
    BY <1>4, <1>7, <2>1 DEF T
<1>9. analyzeFormatString(f) = [k \in 1 .. c |-> params[k]]
  <2>1. \A k \in 1 .. c : k - 1 \in 0 .. c - 1 /\ (k - 1) + 1 = k
    OBVIOUS
  <2>2. \A k \in 1 .. c : getParamInfo(f, k - 1) = params[k]
    BY <1>2, <2>1
  <2> QED
    BY <1>8, <2>2 DEF analyzeFormatString
<1>10. params = [k \in 1 .. c |-> params[k]]
  BY LenProperties
<1> QED
  BY <1>8, <1>9, <1>10

\* The same for params with one that is rejected: the count gets there.
LEMMA CountOfRejected ==
  ASSUME NEW f, NEW n \in Nat, n = Len(f), NEW params \in Seq(ParamTypes),
         NEW c \in Nat, c = Len(params), c <= n, Throws(params, c),
         \A m \in Nat : Answer(getParamInfo(f, m), params, m)
  PROVE  countFmtParams(f) = kTHROW
<1>1. ASSUME NEW m \in Nat
      PROVE  getParamInfo(f, m) # kINVALID
  <2>1. CASE m < c /\ getParamInfo(f, m) = params[m + 1]
    <3>1. m + 1 \in 1 .. c
      BY <2>1
    <3>2. params[m + 1] \in ParamTypes
      BY <3>1, ElementOfSeq
    <3>3. \A type \in ParamTypes : type # kINVALID
      BY DEF ParamTypes, kTHROW, kDYNAMIC_WIDTH, kDYNAMIC_PRECISION, kNON_STRING,
             kSTRING_WITH_DYNAMIC_PRECISION, kSTRING_WITH_NO_PRECISION, kINVALID
    <3> QED
      BY <2>1, <3>2, <3>3
  <2>2. CASE getParamInfo(f, m) = kTHROW
    BY <2>2 DEF kTHROW, kINVALID
  <2> QED
    BY <2>1, <2>2 DEF Answer
<1>2. getParamInfo(f, n) = kTHROW
  <2>1. ~(n < c)
    OBVIOUS
  <2> QED
    BY <2>1 DEF Answer
<1>3. PICK count : /\ \A k \in 0 .. n : count[k] = CountAt(f, count, k)
                   /\ countFmtParams(f) = count[0]
  BY <1>2, CountIsDefined
<1> DEFINE T == {j \in Nat : j <= n => count[n - j] = kTHROW}
<1>4. 0 \in T
  <2>1. n \in 0 .. n /\ n - 0 = n
    OBVIOUS
  <2>2. count[n] = kTHROW
    BY <1>1, <1>2, <1>3, <2>1 DEF CountAt
  <2> QED
    BY <2>1, <2>2
<1>5. ASSUME NEW j \in Nat, j \in T
      PROVE  j + 1 \in T
  <2> SUFFICES ASSUME j + 1 <= n
               PROVE  count[n - (j + 1)] = kTHROW
    OBVIOUS
  <2>1. PICK k \in 0 .. n : k = n - (j + 1) /\ k + 1 = n - j
    OBVIOUS
  <2>2. count[k + 1] = kTHROW
    BY <1>5, <2>1
  <2> HIDE DEF T
  <2>3. count[k] = kTHROW
    BY <1>1, <1>3, <2>1, <2>2 DEF CountAt
  <2> QED
    BY <2>1, <2>3
<1> HIDE DEF T
<1>6. n \in T
  BY <1>4, <1>5, Induction
<1>7. n <= n /\ n - n = 0
  OBVIOUS
<1> QED
  BY <1>3, <1>6, <1>7 DEF T

\* The parsers find the parameters and pieces of the string they are of.
LEMMA ParsersFindPieces ==
  ASSUME NEW f \in Seq(Characters), NEW ps \in Seq(Pieces), NEW cut,
         CutInto(f, ps, cut), NEW params, params = FlattenSeq(ParamLists(ps))
  PROVE  IF kTHROW \in Range(params) THEN countFmtParams(f) = kTHROW
         ELSE analyzeFormatString(f) = params
<1>1. PICK n, z \in Nat : n = Len(ps) /\ z = Len(f)
  BY LenProperties
<1>2. ParamLists(ps) \in Seq(Seq(ParamTypes)) /\ Len(ParamLists(ps)) = n
  BY <1>1, ParamListsAreLists
<1>3. PICK base \in [0 .. n -> Nat] :
        /\ Counts(ParamLists(ps), n, base)
        /\ params \in Seq(ParamTypes)
        /\ Concatenates(params, ParamLists(ps), base, n)
  BY <1>2, FlattenConcatenates
<1>4. PICK c \in Nat : c = Len(params) /\ c = base[n] /\ DOMAIN params = 1 .. c
  BY <1>3, LenProperties DEF Concatenates
<1>5. c <= z
  BY <1>1, <1>3, <1>4, ParamsFit
<1>6. ASSUME NEW m \in Nat
      PROVE  Answer(getParamInfo(f, m), params, m)
  BY <1>1, <1>3, AnswersParam
<1>7. kTHROW \in Range(params) <=> Throws(params, c)
  BY <1>4 DEF Range, Throws
<1>8. CASE Throws(params, c)
  <2>1. countFmtParams(f) = kTHROW
    BY <1>1, <1>3, <1>4, <1>5, <1>6, <1>8, CountOfRejected
  <2> QED
    BY <1>7, <1>8, <2>1
<1>9. CASE ~Throws(params, c)
  <2>1. analyzeFormatString(f) = params
    BY <1>1, <1>3, <1>4, <1>5, <1>6, <1>9, CountOfAccepted
  <2> QED
    BY <1>7, <1>9, <2>1
<1> QED
  BY <1>8, <1>9

-----------------------------------------------------------------------------
(* A piece stays one when another is appended. *)

\* What is written is a subsequence.
ReadsBack(S, f, a, s, m) ==
  /\ SubSeq(f, a, a + m - 1) = s
  /\ \A q \in a .. a + m - 1 : f[q] = s[q - a + 1] /\ f[q] \in S

LEMMA WrittenIsSubSeq ==
  ASSUME NEW S, NEW f \in Seq(S), NEW a \in Nat \ {0}, NEW s \in Seq(S),
         NEW m \in Nat, m = Len(s), Written(f, a, s)
  PROVE  ReadsBack(S, f, a, s, m)
<1>1. PICK n \in Nat : n = Len(f)
  BY LenProperties
<1>2. a + m <= n + 1 /\ \A j \in 1 .. m : f[a + (j - 1)] = s[j]
  BY <1>1 DEF Written
<1>3. ASSUME NEW q \in a .. a + m - 1
      PROVE  f[q] = s[q - a + 1] /\ f[q] \in S
  <2>1. q - a + 1 \in 1 .. m /\ a + ((q - a + 1) - 1) = q
    OBVIOUS
  <2>2. f[q] = s[q - a + 1]
    BY <1>2, <2>1
  <2>3. s[q - a + 1] \in S
    BY <2>1, ElementOfSeq
  <2> QED
    BY <2>2, <2>3
<1>4. a \in Int /\ a + m - 1 \in Int
  OBVIOUS
<1>5. PICK r : r = SubSeq(f, a, a + m - 1)
  OBVIOUS
<1>6. /\ r \in Seq(S)
      /\ Len(r) = IF a <= a + m - 1 THEN (a + m - 1) - a + 1 ELSE 0
      /\ \A i \in 1 .. (a + m - 1) - a + 1 : r[i] = f[a + i - 1]
  BY <1>3, <1>4, <1>5, SubSeqProperties
<1>7. Len(r) = m
  BY <1>6
<1>8. ASSUME NEW i \in 1 .. m
      PROVE  r[i] = s[i]
  <2>1. i \in 1 .. (a + m - 1) - a + 1 /\ a + i - 1 = a + (i - 1)
    OBVIOUS
  <2> QED
    BY <1>2, <1>6, <2>1
<1>9. r = [i \in 1 .. m |-> r[i]] /\ s = [i \in 1 .. m |-> s[i]]
  BY <1>6, <1>7, LenProperties
<1>10. r = s
  BY <1>8, <1>9
<1> QED
  BY <1>3, <1>5, <1>10 DEF ReadsBack

LEMMA SpecifierKept ==
  ASSUME NEW f \in Seq(Characters), NEW s \in Seq(Characters),
         NEW n \in Nat, n = Len(f), NEW a \in 1 .. n, NEW w \in 1 .. n,
         NEW p \in 1 .. n, NEW l \in 1 .. n, NEW t \in 1 .. n, NEW type \in Int,
         a < w, w <= p, p <= l, l <= t,
         Specifier(f, a, w, p, l, t, type)
  PROVE  Specifier(f \o s, a, w, p, l, t, type)
<1>1. PICK g : g = f \o s
  OBVIOUS
<1>2. \A q \in 1 .. n : g[q] = f[q]
  BY <1>1, WrittenAtEnd
<1>3. g[a] = "%" /\ g[t] \in TerminalChars \ {"%"}
  BY <1>2 DEF Specifier
<1>4. /\ \A q \in a + 1 .. w - 1 : g[q] \in FlagChars
      /\ \A q \in l .. t - 1 : g[q] \in LengthChars
  <2>1. /\ \A q \in a + 1 .. w - 1 : f[q] \in FlagChars
        /\ \A q \in l .. t - 1 : f[q] \in LengthChars
    BY DEF Specifier
  <2>2. /\ \A q \in a + 1 .. w - 1 : q \in 1 .. n
        /\ \A q \in l .. t - 1 : q \in 1 .. n
    OBVIOUS
  <2> QED
    BY <1>2, <2>1, <2>2
<1>5. \/ p = w + 1 /\ g[w] = "*"
      \/ /\ \A q \in w .. p - 1 : g[q] \in DigitChars
         /\ p > w => g[w] # "0"
  <2>1. CASE p = w + 1 /\ f[w] = "*"
    BY <1>2, <2>1
  <2>2. CASE /\ \A q \in w .. p - 1 : f[q] \in DigitChars
             /\ p > w => f[w] # "0"
    <3>1. \A q \in w .. p - 1 : q \in 1 .. n
      OBVIOUS
    <3> QED
      BY <1>2, <2>2, <3>1
  <2> QED
    BY <2>1, <2>2 DEF Specifier
<1>6. \/ l = p /\ type = kSTRING_WITH_NO_PRECISION
      \/ /\ l = p + 2 /\ g[p] = "." /\ g[p + 1] = "*"
         /\ type = kSTRING_WITH_DYNAMIC_PRECISION
      \/ /\ l > p /\ g[p] = "." /\ \A q \in p + 1 .. l - 1 : g[q] \in DigitChars
         /\ type = Number(SubSeq(g, p + 1, l - 1)) /\ type \in Nat
  <2>1. CASE l = p /\ type = kSTRING_WITH_NO_PRECISION
    BY <2>1
  <2>2. CASE /\ l = p + 2 /\ f[p] = "." /\ f[p + 1] = "*"
             /\ type = kSTRING_WITH_DYNAMIC_PRECISION
    <3>1. p + 1 \in 1 .. n
      BY <2>2
    <3> QED
      BY <1>2, <2>2, <3>1
  <2>3. CASE /\ l > p /\ f[p] = "."
             /\ \A q \in p + 1 .. l - 1 : f[q] \in DigitChars
             /\ type = Number(SubSeq(f, p + 1, l - 1)) /\ type \in Nat
    <3>1. p + 1 \in 1 .. n /\ l - 1 \in 1 .. n
      BY <2>3
    <3>2. SubSeq(g, p + 1, l - 1) = SubSeq(f, p + 1, l - 1)
      BY <1>1, <3>1, SubSeqOfConcat1
    <3>3. \A q \in p + 1 .. l - 1 : q \in 1 .. n
      OBVIOUS
    <3>4. \A q \in p + 1 .. l - 1 : g[q] \in DigitChars
      BY <1>2, <2>3, <3>3
    <3> QED
      BY <1>2, <2>3, <3>2, <3>4
  <2> QED
    BY <2>1, <2>2, <2>3 DEF Specifier
<1>7. Specifier(g, a, w, p, l, t, type)
  BY <1>3, <1>4, <1>5, <1>6 DEF Specifier
<1> QED
  BY <1>1, <1>7

LEMMA PieceKept ==
  ASSUME NEW f \in Seq(Characters), NEW s \in Seq(Characters), NEW a, NEW b,
         NEW piece, IsPiece(f, a, b, piece)
  PROVE  IsPiece(f \o s, a, b, piece)
<1>1. PICK n, m \in Nat : n = Len(f) /\ m = Len(s)
  BY LenProperties
<1>2. PICK g : g = f \o s
  OBVIOUS
<1>3. Len(g) = n + m /\ \A q \in 1 .. n : g[q] = f[q]
  BY <1>1, <1>2, WrittenAtEnd
<1>4. a \in 1 .. n /\ b \in 1 .. n + 1
  BY <1>1 DEF IsPiece
<1>5. a \in 1 .. n + m /\ b \in 1 .. (n + m) + 1
  BY <1>4
<1>6. CASE IsText(f, a, b, piece)
  <2>1. IsText(g, a, b, piece)
    BY <1>3, <1>4, <1>6 DEF IsText
  <2> QED
    BY <1>2, <1>3, <1>5, <2>1 DEF IsPiece
<1>7. CASE IsPercent(f, a, b, piece)
  <2>1. a + 1 \in 1 .. n
    BY <1>4, <1>7 DEF IsPercent
  <2>2. IsPercent(g, a, b, piece)
    BY <1>3, <1>4, <1>7, <2>1 DEF IsPercent
  <2> QED
    BY <1>2, <1>3, <1>5, <2>2 DEF IsPiece
<1>8. CASE IsSpecifier(f, a, b, piece)
  <2>1. PICK w, p, l, t \in 1 .. n, type \in Int :
          /\ a < w /\ w <= p /\ p <= l /\ l <= t /\ b = t + 1
          /\ Specifier(f, a, w, p, l, t, type)
          /\ piece.out = SubSeq(f, a, t)
          /\ piece.params = Append(StarList(f[w] = "*", type),
                                   IF f[t] = "n" THEN kTHROW
                                   ELSE IF f[t] = "s" THEN type
                                   ELSE kNON_STRING)
    BY <1>1, <1>8 DEF IsSpecifier, HasParts
  <2>2. Specifier(g, a, w, p, l, t, type)
    BY <1>1, <1>2, <1>4, <2>1, SpecifierKept
  <2>3. SubSeq(g, a, t) = SubSeq(f, a, t)
    BY <1>1, <1>2, <1>4, SubSeqOfConcat1
  <2>4. g[w] = f[w] /\ g[t] = f[t]
    BY <1>3
  <2>5. w \in 1 .. n + m /\ p \in 1 .. n + m /\ l \in 1 .. n + m
        /\ t \in 1 .. n + m
    OBVIOUS
  <2>6. IsSpecifier(g, a, b, piece)
    <3>1. piece.out = SubSeq(g, a, t)
      BY <2>1, <2>3
    <3>2. piece.params = Append(StarList(g[w] = "*", type),
                                IF g[t] = "n" THEN kTHROW
                                ELSE IF g[t] = "s" THEN type ELSE kNON_STRING)
      BY <2>1, <2>4
    <3>3. a < w /\ w <= p /\ p <= l /\ l <= t /\ b = t + 1
      BY <2>1
    <3>4. Len(g) = n + m
      BY <1>3
    <3>5. HasParts(g, a, b, piece, w, p, l, t, type)
      BY <2>2, <3>1, <3>2, <3>3 DEF HasParts
    <3> QED
      BY <2>5, <3>4, <3>5 DEF IsSpecifier
  <2> QED
    BY <1>2, <1>3, <1>5, <2>6 DEF IsPiece
<1> QED
  BY <1>6, <1>7, <1>8 DEF IsPiece

LEMMA CutAppended ==
  ASSUME NEW f \in Seq(Characters), NEW ps \in Seq(Pieces), NEW cut,
         CutInto(f, ps, cut), NEW s \in Seq(Characters), NEW piece \in Pieces,
         IsPiece(f \o s, Len(f) + 1, Len(f \o s) + 1, piece)
  PROVE  \E c : CutInto(f \o s, Append(ps, piece), c)
<1>1. PICK n, m, k \in Nat : n = Len(f) /\ m = Len(s) /\ k = Len(ps)
  BY LenProperties
<1>2. PICK g : g = f \o s
  OBVIOUS
<1>3. Len(g) = n + m
  BY <1>1, <1>2, WrittenAtEnd
<1>4. PICK qs : qs = Append(ps, piece)
  OBVIOUS
<1>5. /\ Len(qs) = k + 1 /\ qs[k + 1] = piece
      /\ \A i \in 1 .. k : qs[i] = ps[i]
  BY <1>1, <1>4, AppendProperties
<1>6. /\ cut \in [0 .. k -> 1 .. n + 1] /\ cut[0] = 1 /\ cut[k] = n + 1
      /\ \A i \in 1 .. k : IsPiece(f, cut[i - 1], cut[i], ps[i])
  BY <1>1 DEF CutInto
<1> DEFINE c == [i \in 0 .. k + 1 |-> IF i = k + 1 THEN (n + m) + 1 ELSE cut[i]]
<1>7. c \in [0 .. k + 1 -> 1 .. (n + m) + 1]
  <2>1. \A i \in 0 .. k : cut[i] \in 1 .. n + 1
    BY <1>6
  <2>2. \A i \in 1 .. n + 1 : i \in 1 .. (n + m) + 1
    OBVIOUS
  <2>3. \A i \in 0 .. k + 1 : i = k + 1 \/ i \in 0 .. k
    OBVIOUS
  <2>4. (n + m) + 1 \in 1 .. (n + m) + 1
    OBVIOUS
  <2> QED
    BY <2>1, <2>2, <2>3, <2>4
<1>8. /\ c[k + 1] = (n + m) + 1
      /\ \A i \in 0 .. k : c[i] = cut[i]
  OBVIOUS
<1> HIDE DEF c
<1>9. ASSUME NEW i \in 1 .. k + 1
      PROVE  IsPiece(g, c[i - 1], c[i], qs[i])
  <2>1. CASE i = k + 1
    <3>1. (k + 1) - 1 = k /\ k \in 0 .. k
      OBVIOUS
    <3>2. c[k] = n + 1
      BY <1>6, <1>8, <3>1
    <3>3. IsPiece(g, n + 1, (n + m) + 1, piece)
      BY <1>1, <1>2, <1>3
    <3> QED
      BY <1>5, <1>8, <2>1, <3>1, <3>2, <3>3
  <2>2. CASE i # k + 1
    <3>1. i \in 1 .. k /\ i \in 0 .. k /\ i - 1 \in 0 .. k
      BY <2>2
    <3>2. IsPiece(f, cut[i - 1], cut[i], ps[i])
      BY <1>6, <3>1
    <3>3. IsPiece(g, cut[i - 1], cut[i], ps[i])
      BY <1>2, <3>2, PieceKept
    <3> QED
      BY <1>5, <1>8, <3>1, <3>3
  <2> QED
    BY <2>1, <2>2
<1>10. c[0] = 1
  BY <1>6, <1>8
<1>11. CutInto(g, qs, c)
  BY <1>3, <1>5, <1>7, <1>8, <1>9, <1>10 DEF CutInto
<1> QED
  BY <1>2, <1>4, <1>11

-----------------------------------------------------------------------------
(* What the actions append is a piece. *)

\* Five sequences written one behind the other, and behind them c.
WrittenInOrder(g, a, x1, x2, x3, x4, x5, c, w, p, l, t) ==
  /\ w = a + Len(x1) + Len(x2) /\ p = w + Len(x3) /\ l = p + Len(x4)
  /\ t = l + Len(x5)
  /\ Written(g, a, x1) /\ Written(g, a + Len(x1), x2) /\ Written(g, w, x3)
  /\ Written(g, p, x4) /\ Written(g, l, x5) /\ t <= Len(g) /\ g[t] = c

InTurn(x1, x2, x3, x4, x5, x6) == x1 \o x2 \o x3 \o x4 \o x5 \o x6

SequenceInTurn(S, x, x1, x2, x3, x4, x5, x6) ==
  /\ x \in Seq(S)
  /\ Len(x) = ((((Len(x1) + Len(x2)) + Len(x3)) + Len(x4)) + Len(x5)) + Len(x6)

LEMMA InTurnIsSequence ==
  ASSUME NEW S, NEW x1 \in Seq(S), NEW x2 \in Seq(S), NEW x3 \in Seq(S),
         NEW x4 \in Seq(S), NEW x5 \in Seq(S), NEW x6 \in Seq(S),
         NEW x, x = InTurn(x1, x2, x3, x4, x5, x6)
  PROVE  SequenceInTurn(S, x, x1, x2, x3, x4, x5, x6)
<1>1. PICK y2 \in Seq(S) : y2 = x1 \o x2 /\ Len(y2) = Len(x1) + Len(x2)
  BY ConcatProperties
<1>2. PICK y3 \in Seq(S) : y3 = y2 \o x3 /\ Len(y3) = Len(y2) + Len(x3)
  BY ConcatProperties
<1>3. PICK y4 \in Seq(S) : y4 = y3 \o x4 /\ Len(y4) = Len(y3) + Len(x4)
  BY ConcatProperties
<1>4. PICK y5 \in Seq(S) : y5 = y4 \o x5 /\ Len(y5) = Len(y4) + Len(x5)
  BY ConcatProperties
<1>5. PICK y6 \in Seq(S) : y6 = y5 \o x6 /\ Len(y6) = Len(y5) + Len(x6)
  BY ConcatProperties
<1>6. x = y6
  BY <1>1, <1>2, <1>3, <1>4, <1>5 DEF InTurn
<1> QED
  BY <1>1, <1>2, <1>3, <1>4, <1>5, <1>6 DEF SequenceInTurn

PositionsAfter(a, n1, n2, n3, n4, n5, w, p, l, t) ==
  /\ w = a + (n1 + n2) /\ p = a + ((n1 + n2) + n3)
  /\ l = a + (((n1 + n2) + n3) + n4)
  /\ t = a + ((((n1 + n2) + n3) + n4) + n5)
  /\ w \in Nat \ {0} /\ p \in Nat \ {0} /\ l \in Nat \ {0} /\ t \in Nat \ {0}

LEMMA PositionsAreSums ==
  ASSUME NEW a \in Nat \ {0}, NEW n1 \in Nat, NEW n2 \in Nat, NEW n3 \in Nat,
         NEW n4 \in Nat, NEW n5 \in Nat, NEW w, w = a + n1 + n2,
         NEW p, p = w + n3, NEW l, l = p + n4, NEW t, t = l + n5
  PROVE  PositionsAfter(a, n1, n2, n3, n4, n5, w, p, l, t)
BY DEF PositionsAfter

LEMMA ConcatIsWritten ==
  ASSUME NEW S, NEW g \in Seq(S), NEW a \in Nat \ {0},
         NEW x1 \in Seq(S), NEW x2 \in Seq(S), NEW x3 \in Seq(S),
         NEW x4 \in Seq(S), NEW x5 \in Seq(S), NEW c \in S,
         NEW x6, x6 = <<c>>, NEW x, x = InTurn(x1, x2, x3, x4, x5, x6),
         Written(g, a, x),
         NEW w, w = a + Len(x1) + Len(x2), NEW p, p = w + Len(x3),
         NEW l, l = p + Len(x4), NEW t, t = l + Len(x5)
  PROVE  WrittenInOrder(g, a, x1, x2, x3, x4, x5, c, w, p, l, t)
<1>1. PICK n1, n2, n3, n4, n5 \in Nat :
        /\ n1 = Len(x1) /\ n2 = Len(x2) /\ n3 = Len(x3) /\ n4 = Len(x4)
        /\ n5 = Len(x5)
  BY LenProperties
<1>2. PICK y2 \in Seq(S) : y2 = x1 \o x2 /\ Len(y2) = n1 + n2
  BY <1>1, ConcatProperties
<1>3. PICK y3 \in Seq(S) : y3 = y2 \o x3 /\ Len(y3) = (n1 + n2) + n3
  <2>1. y2 \o x3 \in Seq(S) /\ Len(y2 \o x3) = Len(y2) + Len(x3)
    BY ConcatProperties
  <2>2. Len(y2) + Len(x3) = (n1 + n2) + n3
    BY <1>1, <1>2
  <2> QED
    BY <2>1, <2>2
<1>4. PICK y4 \in Seq(S) : y4 = y3 \o x4 /\ Len(y4) = ((n1 + n2) + n3) + n4
  <2>1. y3 \o x4 \in Seq(S) /\ Len(y3 \o x4) = Len(y3) + Len(x4)
    BY ConcatProperties
  <2>2. Len(y3) + Len(x4) = ((n1 + n2) + n3) + n4
    BY <1>1, <1>3
  <2> QED
    BY <2>1, <2>2
<1>5. PICK y5 \in Seq(S) : y5 = y4 \o x5 /\ Len(y5) = (((n1 + n2) + n3) + n4) + n5
  <2>1. y4 \o x5 \in Seq(S) /\ Len(y4 \o x5) = Len(y4) + Len(x5)
    BY ConcatProperties
  <2>2. Len(y4) + Len(x5) = (((n1 + n2) + n3) + n4) + n5
    BY <1>1, <1>4
  <2> QED
    BY <2>1, <2>2
<1>6. <<c>> \in Seq(S) /\ Len(<<c>>) = 1 /\ <<c>>[1] = c
  OBVIOUS
<1>7. PICK y \in Seq(S) :
        y = y5 \o <<c>> /\ Len(y) = ((((n1 + n2) + n3) + n4) + n5) + 1
  <2>1. y5 \o <<c>> \in Seq(S) /\ Len(y5 \o <<c>>) = Len(y5) + Len(<<c>>)
    BY <1>6, ConcatProperties
  <2>2. Len(y5) + Len(<<c>>) = ((((n1 + n2) + n3) + n4) + n5) + 1
    BY <1>5, <1>6
  <2> QED
    BY <2>1, <2>2
<1>8. y = x
  BY <1>2, <1>3, <1>4, <1>5, <1>7 DEF InTurn
<1>9. /\ w = a + n1 + n2 /\ p = w + n3 /\ l = p + n4 /\ t = l + n5
      /\ w = a + (n1 + n2) /\ p = a + ((n1 + n2) + n3)
      /\ l = a + (((n1 + n2) + n3) + n4)
      /\ t = a + ((((n1 + n2) + n3) + n4) + n5)
      /\ w \in Nat \ {0} /\ p \in Nat \ {0} /\ l \in Nat \ {0} /\ t \in Nat \ {0}
  <2>1. w = a + n1 + n2 /\ p = w + n3 /\ l = p + n4 /\ t = l + n5
    BY <1>1
  <2>2. PositionsAfter(a, n1, n2, n3, n4, n5, w, p, l, t)
    BY <2>1, PositionsAreSums
  <2> QED
    BY <2>1, <2>2 DEF PositionsAfter
<1>10. Written(g, a, y5 \o <<c>>)
  BY <1>7, <1>8
<1>11. Written(g, a, y5) /\ Written(g, t, <<c>>)
  <2>1. Written(g, a, y5) /\ Written(g, a + Len(y5), <<c>>)
    BY <1>6, <1>10, WrittenConcat
  <2> QED
    BY <1>5, <1>9, <2>1
<1>12. Written(g, a, y4) /\ Written(g, l, x5)
  <2>1. Written(g, a, y4) /\ Written(g, a + Len(y4), x5)
    BY <1>5, <1>11, WrittenConcat
  <2> QED
    BY <1>4, <1>9, <2>1
<1>13. Written(g, a, y3) /\ Written(g, p, x4)
  <2>1. Written(g, a, y3) /\ Written(g, a + Len(y3), x4)
    BY <1>4, <1>12, WrittenConcat
  <2> QED
    BY <1>3, <1>9, <2>1
<1>14. Written(g, a, y2) /\ Written(g, w, x3)
  <2>1. Written(g, a, y2) /\ Written(g, a + Len(y2), x3)
    BY <1>3, <1>13, WrittenConcat
  <2> QED
    BY <1>2, <1>9, <2>1
<1>15. Written(g, a, x1) /\ Written(g, a + n1, x2)
  BY <1>1, <1>2, <1>14, WrittenConcat
<1>16. t <= Len(g) /\ g[t] = c
  <2>1. PICK z \in Nat : z = Len(g)
    BY LenProperties
  <2>2. t + 1 <= z + 1 /\ \A j \in 1 .. 1 : g[t + (j - 1)] = <<c>>[j]
    BY <1>6, <1>11, <2>1 DEF Written
  <2>3. 1 \in 1 .. 1 /\ t + (1 - 1) = t
    BY <1>9
  <2>4. g[t] = c
    BY <1>6, <2>2, <2>3
  <2>5. t <= z
    BY <1>9, <2>2
  <2> QED
    BY <2>1, <2>4, <2>5
<1>17. WrittenInOrder(g, a, x1, x2, x3, x4, x5, c, w, p, l, t)
  BY <1>1, <1>9, <1>11, <1>12, <1>13, <1>14, <1>15, <1>16 DEF WrittenInOrder
<1> QED
  BY <1>17

\* The width and the precision of the grammar, as sequences.
IsWidth(width) ==
  \/ width = <<"*">>
  \/ width \in Seq(DigitChars) /\ (width # <<>> => width[1] # "0")

IsPrecision(string, type) ==
  \/ string = <<>> /\ type = kSTRING_WITH_NO_PRECISION
  \/ string = <<".", "*">> /\ type = kSTRING_WITH_DYNAMIC_PRECISION
  \/ /\ string # <<>> /\ string[1] = "."
     /\ \A k \in 2 .. Len(string) : string[k] \in DigitChars
     /\ type = Number(Tail(string)) /\ type \in Nat

LEMMA GrammarHolds ==
  ASSUME NEW flags \in Flags, NEW width \in Widths, NEW precision \in Precisions,
         NEW length \in Lengths, NEW terminal \in Terminals
  PROVE  /\ flags \in Seq(Characters) /\ flags \in Seq(FlagChars)
         /\ width \in Seq(Characters) /\ IsWidth(width)
         /\ precision.string \in Seq(Characters)
         /\ IsPrecision(precision.string, precision.type)
         /\ precision.type \in Int
         /\ length \in Seq(Characters) /\ length \in Seq(LengthChars)
         /\ terminal \in TerminalChars \ {"%"} /\ terminal \in Characters
<1>1. /\ FlagChars \subseteq Characters /\ DigitChars \subseteq Characters
      /\ LengthChars \subseteq Characters /\ TerminalChars \subseteq Characters
      /\ "*" \in Characters /\ "." \in Characters /\ "%" \in Characters
      /\ {"."} \cup DigitChars \subseteq Characters
  BY DEF Characters
<1>2. /\ flags \in Seq(FlagChars) /\ length \in Seq(LengthChars)
      /\ terminal \in TerminalChars \ {"%"}
  BY GrammarAssumption
<1>3. flags \in Seq(Characters) /\ length \in Seq(Characters)
      /\ terminal \in Characters
  <2>1. Seq(FlagChars) \subseteq Seq(Characters)
        /\ Seq(LengthChars) \subseteq Seq(Characters)
    BY <1>1, SeqMonotonic
  <2> QED
    BY <1>1, <1>2, <2>1
<1>4. IsWidth(width)
  BY GrammarAssumption DEF IsWidth
<1>5. width \in Seq(Characters)
  <2>1. <<"*">> \in Seq(Characters)
    BY <1>1
  <2>2. Seq(DigitChars) \subseteq Seq(Characters)
    BY <1>1, SeqMonotonic
  <2> QED
    BY <1>4, <2>1, <2>2 DEF IsWidth
<1>6. CASE precision = [string |-> <<>>, type |-> kSTRING_WITH_NO_PRECISION]
  <2>1. precision.string = <<>> /\ precision.type = kSTRING_WITH_NO_PRECISION
    BY <1>6
  <2>2. <<>> \in Seq(Characters) /\ kSTRING_WITH_NO_PRECISION \in Int
    BY DEF kSTRING_WITH_NO_PRECISION
  <2> QED
    BY <1>2, <1>3, <1>4, <1>5, <2>1, <2>2 DEF IsPrecision
<1>7. CASE precision = [string |-> <<".", "*">>,
                        type |-> kSTRING_WITH_DYNAMIC_PRECISION]
  <2>1. precision.string = <<".", "*">>
        /\ precision.type = kSTRING_WITH_DYNAMIC_PRECISION
    BY <1>7
  <2>2. <<".", "*">> \in Seq(Characters) /\ kSTRING_WITH_DYNAMIC_PRECISION \in Int
    BY <1>1 DEF kSTRING_WITH_DYNAMIC_PRECISION
  <2> QED
    BY <1>2, <1>3, <1>4, <1>5, <2>1, <2>2 DEF IsPrecision
<1>8. CASE /\ precision.string \in Seq({"."} \cup DigitChars)
           /\ precision.string # <<>> /\ precision.string[1] = "."
           /\ \A k \in 2 .. Len(precision.string) :
                precision.string[k] \in DigitChars
           /\ precision.type = Number(Tail(precision.string))
           /\ precision.type \in Nat
  <2>1. Seq({"."} \cup DigitChars) \subseteq Seq(Characters)
    BY <1>1, SeqMonotonic
  <2>2. precision.string \in Seq(Characters)
    BY <1>8, <2>1
  <2>3. precision.type \in Int
    BY <1>8
  <2> QED
    BY <1>2, <1>3, <1>4, <1>5, <1>8, <2>2, <2>3 DEF IsPrecision
<1> QED
  BY <1>6, <1>7, <1>8, GrammarAssumption

SpecifierString(flags, width, precision, length, terminal) ==
  <<"%">> \o flags \o width \o precision.string \o length \o <<terminal>>

SpecifierInOrder(g, a, flags, width, precision, length, terminal, w, p, l, t) ==
  WrittenInOrder(g, a, <<"%">>, flags, width, precision.string, length, terminal,
                 w, p, l, t)

SpecifierOfLength(g, a, flags, width, precision, length, terminal, n) ==
  \E w, p, l, t \in Nat \ {0} :
    /\ SpecifierInOrder(g, a, flags, width, precision, length, terminal,
                        w, p, l, t)
    /\ n = t - a + 1

LEMMA SpecifierIsWritten ==
  ASSUME NEW g \in Seq(Characters), NEW a \in Nat \ {0},
         NEW flags \in Flags, NEW width \in Widths, NEW precision \in Precisions,
         NEW length \in Lengths, NEW terminal \in Terminals,
         NEW s, s = SpecifierString(flags, width, precision, length, terminal)
  PROVE  /\ s \in Seq(Characters)
         /\ Written(g, a, s) =>
              SpecifierOfLength(g, a, flags, width, precision, length, terminal,
                                Len(s))
<1>1. PICK x4 : x4 = precision.string
  OBVIOUS
<1>2. /\ flags \in Seq(Characters) /\ width \in Seq(Characters)
      /\ x4 \in Seq(Characters) /\ length \in Seq(Characters)
      /\ terminal \in Characters
  BY <1>1, GrammarHolds
<1>3. "%" \in Characters
  BY DEF Characters
<1> DEFINE x1 == <<"%">>  x6 == <<terminal>>
<1>4. x1 \in Seq(Characters) /\ x6 \in Seq(Characters)
  BY <1>2, <1>3
<1>5. s = x1 \o flags \o width \o x4 \o length \o x6
  BY <1>1 DEF SpecifierString
<1>6. s = InTurn(x1, flags, width, x4, length, x6) /\ x6 = <<terminal>>
  BY <1>5 DEF InTurn
<1> HIDE DEF x1, x6
<1>7. /\ s \in Seq(Characters)
      /\ Len(s) = ((((Len(x1) + Len(flags)) + Len(width)) + Len(x4))
                     + Len(length)) + Len(x6)
  <2>1. s = InTurn(x1, flags, width, x4, length, x6)
    BY <1>6
  <2>2. /\ flags \in Seq(Characters) /\ width \in Seq(Characters)
        /\ x4 \in Seq(Characters) /\ length \in Seq(Characters)
    BY <1>2
  <2>3. SequenceInTurn(Characters, s, x1, flags, width, x4, length, x6)
    BY <1>4, <2>1, <2>2, InTurnIsSequence, Zenon
  <2> QED
    BY <2>3 DEF SequenceInTurn
<1>8. ASSUME Written(g, a, s)
      PROVE  SpecifierOfLength(g, a, flags, width, precision, length, terminal,
                               Len(s))
  <2>1. PICK w, p, l, t \in Nat \ {0} :
          /\ WrittenInOrder(g, a, x1, flags, width, x4, length, terminal,
                            w, p, l, t)
          /\ Len(s) = t - a + 1
    <3>1. PICK n1, n2, n3, n4, n5 \in Nat :
            /\ n1 = Len(x1) /\ n2 = Len(flags) /\ n3 = Len(width)
            /\ n4 = Len(x4) /\ n5 = Len(length)
      BY <1>2, <1>4, LenProperties
    <3>2. PICK w, p, l, t \in Nat \ {0} :
            /\ w = a + n1 + n2 /\ p = w + n3 /\ l = p + n4 /\ t = l + n5
      OBVIOUS
    <3>3. w = a + Len(x1) + Len(flags)
      BY <3>1, <3>2
    <3>4. p = w + Len(width)
      BY <3>1, <3>2
    <3>5. l = p + Len(x4)
      BY <3>1, <3>2
    <3>6. t = l + Len(length)
      BY <3>1, <3>2
    <3>7. WrittenInOrder(g, a, x1, flags, width, x4, length, terminal, w, p, l, t)
      BY <1>2, <1>4, <1>6, <1>8, <3>3, <3>4, <3>5, <3>6, ConcatIsWritten, Zenon
    <3>8. Len(s) = t - a + 1
      <4>1. Len(x6) = 1
        BY DEF x6
      <4>2. Len(s) = ((((n1 + n2) + n3) + n4) + n5) + 1
        BY <1>7, <3>1, <4>1
      <4>3. t = a + ((((n1 + n2) + n3) + n4) + n5)
        BY <3>2
      <4> QED
        BY <4>2, <4>3
    <3> QED
      BY <3>2, <3>7, <3>8
  <2>2. SpecifierInOrder(g, a, flags, width, precision, length, terminal,
                         w, p, l, t)
    BY <1>1, <2>1 DEF SpecifierInOrder, x1
  <2> QED
    BY <2>1, <2>2 DEF SpecifierOfLength
<1> QED
  BY <1>7, <1>8

\* The parts that begin at a, w, p, l and t are those of a specifier.
FollowsGrammar(g, a, width, type, terminal, w, p, l, t) ==
  /\ a < w /\ w <= p /\ p <= l /\ l <= t /\ t <= Len(g)
  /\ Specifier(g, a, w, p, l, t, type)
  /\ g[w] = "*" <=> width = <<"*">>
  /\ g[t] = terminal

LEMMA GrammarIsSpecifier ==
  ASSUME NEW g \in Seq(Characters), NEW a \in Nat \ {0},
         NEW flags \in Flags, NEW width \in Widths, NEW precision \in Precisions,
         NEW length \in Lengths, NEW terminal \in Terminals,
         NEW w \in Nat \ {0}, NEW p \in Nat \ {0}, NEW l \in Nat \ {0},
         NEW t \in Nat \ {0},
         SpecifierInOrder(g, a, flags, width, precision, length, terminal,
                          w, p, l, t)
  PROVE  FollowsGrammar(g, a, width, precision.type, terminal, w, p, l, t)
<1>1. PICK string, type : string = precision.string /\ type = precision.type
  OBVIOUS
<1>2. /\ flags \in Seq(Characters) /\ flags \in Seq(FlagChars)
      /\ width \in Seq(Characters) /\ IsWidth(width)
      /\ string \in Seq(Characters) /\ IsPrecision(string, type) /\ type \in Int
      /\ length \in Seq(Characters) /\ length \in Seq(LengthChars)
      /\ terminal \in TerminalChars \ {"%"}
  BY <1>1, GrammarHolds
<1>3. PICK n2, n3, n4, n5 \in Nat :
        /\ n2 = Len(flags) /\ n3 = Len(width) /\ n4 = Len(string)
        /\ n5 = Len(length)
  BY <1>2, LenProperties
<1> DEFINE x1 == <<"%">>
<1>4. x1 \in Seq(Characters) /\ Len(x1) = 1 /\ x1[1] = "%"
  <2>1. "%" \in Characters
    BY DEF Characters
  <2> QED
    BY <2>1
<1>5. /\ Written(g, a, x1) /\ Written(g, a + Len(x1), flags)
      /\ Written(g, w, width) /\ Written(g, p, string) /\ Written(g, l, length)
      /\ t <= Len(g) /\ g[t] = terminal
      /\ w = a + Len(x1) + Len(flags) /\ p = w + Len(width)
      /\ l = p + Len(string) /\ t = l + Len(length)
  BY <1>1 DEF SpecifierInOrder, WrittenInOrder
<1> HIDE DEF x1
<1>6. /\ Written(g, a, x1) /\ Written(g, a + 1, flags)
      /\ Written(g, w, width) /\ Written(g, p, string) /\ Written(g, l, length)
      /\ t <= Len(g) /\ g[t] = terminal
  BY <1>4, <1>5
<1>7. w = a + 1 + n2 /\ p = w + n3 /\ l = p + n4 /\ t = l + n5
  BY <1>3, <1>4, <1>5
<1>8. a < w /\ w <= p /\ p <= l /\ l <= t
  BY <1>7
<1>9. g[a] = "%"
  <2>1. \A j \in 1 .. 1 : g[a + (j - 1)] = x1[j]
    BY <1>4, <1>6 DEF Written
  <2>2. 1 \in 1 .. 1 /\ a + (1 - 1) = a
    OBVIOUS
  <2> QED
    BY <1>4, <2>1, <2>2
<1>10. \A q \in a + 1 .. w - 1 : g[q] \in FlagChars
  <2> SUFFICES ASSUME NEW q \in a + 1 .. w - 1
               PROVE  g[q] \in FlagChars
    OBVIOUS
  <2>1. q \in a + 1 .. (a + 1) + n2 - 1 /\ q - (a + 1) + 1 \in 1 .. n2
    BY <1>7
  <2>2. g[q] = flags[q - (a + 1) + 1]
    <3>1. a + 1 \in Nat \ {0}
      OBVIOUS
    <3>2. \A r \in a + 1 .. (a + 1) + n2 - 1 : g[r] = flags[r - (a + 1) + 1]
      <4>1. /\ flags \in Seq(Characters) /\ n2 \in Nat /\ n2 = Len(flags)
            /\ Written(g, a + 1, flags)
        BY <1>2, <1>3, <1>6
      <4>2. ReadsBack(Characters, g, a + 1, flags, n2)
        BY <3>1, <4>1, WrittenIsSubSeq
      <4> QED
        BY <4>2 DEF ReadsBack
    <3> QED
      BY <2>1, <3>2
  <2> QED
    BY <1>2, <1>3, <2>1, <2>2, ElementOfSeq
<1>11. \A q \in l .. t - 1 : g[q] \in LengthChars
  <2> SUFFICES ASSUME NEW q \in l .. t - 1
               PROVE  g[q] \in LengthChars
    OBVIOUS
  <2>1. q \in l .. l + n5 - 1 /\ q - l + 1 \in 1 .. n5
    BY <1>7
  <2>2. g[q] = length[q - l + 1]
    <3>1. \A r \in l .. l + n5 - 1 : g[r] = length[r - l + 1]
      <4>1. /\ length \in Seq(Characters) /\ n5 \in Nat /\ n5 = Len(length)
            /\ Written(g, l, length)
        BY <1>2, <1>3, <1>6
      <4>2. ReadsBack(Characters, g, l, length, n5)
        BY <4>1, WrittenIsSubSeq
      <4> QED
        BY <4>2 DEF ReadsBack
    <3> QED
      BY <2>1, <3>1
  <2> QED
    BY <1>2, <1>3, <2>1, <2>2, ElementOfSeq
<1>12. \A q \in w .. p - 1 : q - w + 1 \in 1 .. n3 /\ g[q] = width[q - w + 1]
  <2> SUFFICES ASSUME NEW q \in w .. p - 1
               PROVE  q - w + 1 \in 1 .. n3 /\ g[q] = width[q - w + 1]
    OBVIOUS
  <2>1. q \in w .. w + n3 - 1 /\ q - w + 1 \in 1 .. n3
    BY <1>7
  <2>2. \A r \in w .. w + n3 - 1 : g[r] = width[r - w + 1]
    <3>1. /\ width \in Seq(Characters) /\ n3 \in Nat /\ n3 = Len(width)
          /\ Written(g, w, width)
      BY <1>2, <1>3, <1>6
    <3>2. ReadsBack(Characters, g, w, width, n3)
      BY <3>1, WrittenIsSubSeq
    <3> QED
      BY <3>2 DEF ReadsBack
  <2> QED
    BY <2>1, <2>2
<1>13. /\ \A q \in p .. l - 1 : q - p + 1 \in 1 .. n4 /\ g[q] = string[q - p + 1]
       /\ string = SubSeq(g, p, l - 1)
  <2>1. SubSeq(g, p, p + n4 - 1) = string
        /\ \A q \in p .. p + n4 - 1 : g[q] = string[q - p + 1]
    <3>1. /\ string \in Seq(Characters) /\ n4 \in Nat /\ n4 = Len(string)
          /\ Written(g, p, string)
      BY <1>2, <1>3, <1>6
    <3>2. ReadsBack(Characters, g, p, string, n4)
      BY <3>1, WrittenIsSubSeq
    <3> QED
      BY <3>2 DEF ReadsBack
  <2>2. p + n4 - 1 = l - 1
    BY <1>7
  <2>3. \A q \in p .. l - 1 : q - p + 1 \in 1 .. n4
    BY <1>7
  <2> QED
    BY <2>1, <2>2, <2>3
<1>14. \/ width = <<"*">> /\ p = w + 1 /\ g[w] = "*"
       \/ /\ width # <<"*">> /\ \A q \in w .. p - 1 : g[q] \in DigitChars
          /\ p > w => g[w] # "0"
  <2>1. CASE width = <<"*">>
    <3>1. n3 = 1 /\ width[1] = "*"
      BY <1>3, <2>1
    <3>2. w \in w .. p - 1 /\ w - w + 1 = 1 /\ p = w + 1
      BY <1>7, <3>1
    <3> QED
      BY <1>12, <2>1, <3>1, <3>2
  <2>2. CASE width # <<"*">> /\ width \in Seq(DigitChars)
             /\ (width # <<>> => width[1] # "0")
    <3>1. \A q \in w .. p - 1 : g[q] \in DigitChars
      <4>1. \A j \in 1 .. n3 : width[j] \in DigitChars
        BY <1>3, <2>2, ElementOfSeq
      <4> QED
        BY <1>12, <4>1
    <3>2. ASSUME p > w
          PROVE  g[w] # "0"
      <4>1. w \in w .. p - 1 /\ w - w + 1 = 1 /\ n3 # 0
        BY <1>7, <3>2
      <4>2. width # <<>>
        BY <1>3, <4>1
      <4>3. g[w] = width[w - w + 1]
        BY <1>12, <4>1
      <4> QED
        BY <2>2, <4>1, <4>2, <4>3
    <3> QED
      BY <2>2, <3>1, <3>2
  <2> QED
    BY <1>2, <2>1, <2>2 DEF IsWidth
<1>15. \/ l = p /\ type = kSTRING_WITH_NO_PRECISION
       \/ /\ l = p + 2 /\ g[p] = "." /\ g[p + 1] = "*"
          /\ type = kSTRING_WITH_DYNAMIC_PRECISION
       \/ /\ l > p /\ g[p] = "." /\ \A q \in p + 1 .. l - 1 : g[q] \in DigitChars
          /\ type = Number(SubSeq(g, p + 1, l - 1)) /\ type \in Nat
  <2>1. CASE string = <<>> /\ type = kSTRING_WITH_NO_PRECISION
    <3>1. n4 = 0
      BY <1>3, <2>1
    <3> QED
      BY <1>7, <2>1, <3>1
  <2>2. CASE string = <<".", "*">> /\ type = kSTRING_WITH_DYNAMIC_PRECISION
    <3>1. n4 = 2 /\ string[1] = "." /\ string[2] = "*"
      BY <1>3, <2>2
    <3>2. /\ p \in p .. l - 1 /\ p - p + 1 = 1 /\ l = p + 2
          /\ p + 1 \in p .. l - 1 /\ (p + 1) - p + 1 = 2
      BY <1>7, <3>1
    <3>3. g[p] = "." /\ g[p + 1] = "*"
      <4>1. g[p] = string[p - p + 1] /\ g[p + 1] = string[(p + 1) - p + 1]
        BY <1>13, <3>2
      <4> QED
        BY <3>1, <3>2, <4>1
    <3> QED
      BY <2>2, <3>2, <3>3
  <2>3. CASE /\ string # <<>> /\ string[1] = "."
             /\ \A k \in 2 .. Len(string) : string[k] \in DigitChars
             /\ type = Number(Tail(string)) /\ type \in Nat
    <3>1. n4 # 0
      BY <1>2, <1>3, <2>3, EmptySeq
    <3>2. p \in p .. l - 1 /\ p - p + 1 = 1 /\ l > p
      BY <1>7, <3>1
    <3>3. g[p] = "."
      <4>1. g[p] = string[p - p + 1]
        BY <1>13, <3>2
      <4> QED
        BY <2>3, <3>2, <4>1
    <3>4. ASSUME NEW q \in p + 1 .. l - 1
          PROVE  g[q] \in DigitChars
      <4>1. q \in p .. l - 1 /\ q - p + 1 \in 2 .. n4
        BY <1>7
      <4>2. g[q] = string[q - p + 1]
        BY <1>13, <4>1
      <4> QED
        BY <1>3, <2>3, <4>1, <4>2
    <3>5. Tail(string) = SubSeq(g, p + 1, l - 1)
      <4>1. PICK z \in Nat : z = Len(g)
        BY LenProperties
      <4>2. p \in 1 .. z /\ l - 1 \in p .. z
        BY <1>6, <1>8, <3>2, <4>1
      <4>3. Tail(SubSeq(g, p, l - 1)) = SubSeq(g, p + 1, l - 1)
        BY <4>1, <4>2, HeadTailOfSubSeq
      <4> QED
        BY <1>13, <4>3
    <3> QED
      BY <2>3, <3>2, <3>3, <3>4, <3>5
  <2> QED
    BY <1>2, <2>1, <2>2, <2>3 DEF IsPrecision
<1>16. g[t] \in TerminalChars \ {"%"}
  BY <1>2, <1>6
<1>17. Specifier(g, a, w, p, l, t, type)
  BY <1>9, <1>10, <1>11, <1>14, <1>15, <1>16 DEF Specifier
<1>18. g[w] = "*" <=> width = <<"*">>
  <2> SUFFICES ASSUME width # <<"*">>
               PROVE  g[w] # "*"
    BY <1>14
  <2>1. p > w => g[w] \in DigitChars
    BY <1>14
  <2>2. l = p \/ g[p] = "."
    BY <1>15
  <2>3. g[l] \in LengthChars \cup TerminalChars
    BY <1>8, <1>11, <1>16
  <2>4. CASE p > w
    BY <2>1, <2>4, Classes
  <2>5. CASE p = w
    BY <2>2, <2>3, <2>5, Classes
  <2> QED
    BY <1>8, <2>4, <2>5
<1> QED
  BY <1>1, <1>6, <1>8, <1>17, <1>18 DEF FollowsGrammar

LEMMA GrammarParams ==
  ASSUME NEW flags \in Flags, NEW width \in Widths, NEW precision \in Precisions,
         NEW length \in Lengths, NEW terminal \in Terminals
  PROVE  /\ Stars(width, precision) = StarList(width = <<"*">>, precision.type)
         /\ Append(Stars(width, precision), Own(precision, terminal))
              \in Seq(ParamTypes)
<1>1. Stars(width, precision) = StarList(width = <<"*">>, precision.type)
  BY DEF Stars, StarList
<1>2. precision.type \in ParamTypes
  <2>1. IsPrecision(precision.string, precision.type)
    BY GrammarHolds
  <2> QED
    BY <2>1 DEF IsPrecision, ParamTypes
<1>3. Own(precision, terminal) \in ParamTypes
  BY <1>2 DEF Own, ParamTypes
<1>4. PICK s1, s2 :
        /\ s1 = IF width = <<"*">> THEN <<kDYNAMIC_WIDTH>> ELSE <<>>
        /\ s2 = IF precision.type = kSTRING_WITH_DYNAMIC_PRECISION
                THEN <<kDYNAMIC_PRECISION>> ELSE <<>>
        /\ Stars(width, precision) = s1 \o s2
  BY DEF Stars
<1>5. s1 \in Seq(ParamTypes) /\ s2 \in Seq(ParamTypes)
  <2>1. kDYNAMIC_WIDTH \in ParamTypes /\ kDYNAMIC_PRECISION \in ParamTypes
    BY DEF ParamTypes
  <2>2. <<kDYNAMIC_WIDTH>> \in Seq(ParamTypes)
        /\ <<kDYNAMIC_PRECISION>> \in Seq(ParamTypes) /\ <<>> \in Seq(ParamTypes)
    BY <2>1
  <2> QED
    BY <1>4, <2>2
<1>6. Stars(width, precision) \in Seq(ParamTypes)
  BY <1>4, <1>5, ConcatProperties
<1> QED
  BY <1>1, <1>3, <1>6, AppendProperties

SpecifierPiece(flags, width, precision, length, terminal) ==
  [out |-> SpecifierString(flags, width, precision, length, terminal),
   params |-> Append(Stars(width, precision), Own(precision, terminal))]

LEMMA SpecifierAppended ==
  ASSUME NEW f \in Seq(Characters), NEW flags \in Flags, NEW width \in Widths,
         NEW precision \in Precisions, NEW length \in Lengths,
         NEW terminal \in Terminals, NEW string,
         string = SpecifierString(flags, width, precision, length, terminal),
         NEW piece,
         piece = SpecifierPiece(flags, width, precision, length, terminal)
  PROVE  /\ string \in Seq(Characters) /\ piece \in Pieces
         /\ IsPiece(f \o string, Len(f) + 1, Len(f \o string) + 1, piece)
<1>1. precision.type \in Int
  BY GrammarHolds
<1>2. string \in Seq(Characters)
  <2>1. 1 \in Nat \ {0}
    OBVIOUS
  <2> QED
    BY <2>1, SpecifierIsWritten
<1>3. PICK n, m \in Nat : n = Len(f) /\ m = Len(string)
  BY <1>2, LenProperties
<1>4. PICK g \in Seq(Characters) :
        g = f \o string /\ Written(g, n + 1, string) /\ Len(g) = n + m
  BY <1>2, <1>3, WrittenAtEnd
<1>5. PICK a \in Nat \ {0} : a = n + 1
  OBVIOUS
<1>6. PICK w, p, l, t \in Nat \ {0} :
         /\ SpecifierInOrder(g, a, flags, width, precision, length, terminal,
                             w, p, l, t)
         /\ Len(string) = t - a + 1
  <2>1. Written(g, a, string)
    BY <1>4, <1>5
  <2>2. SpecifierOfLength(g, a, flags, width, precision, length, terminal,
                          Len(string))
    BY <2>1, SpecifierIsWritten
  <2> QED
    BY <2>2 DEF SpecifierOfLength
<1>7. /\ a < w /\ w <= p /\ p <= l /\ l <= t /\ t <= Len(g)
      /\ Specifier(g, a, w, p, l, t, precision.type)
      /\ g[w] = "*" <=> width = <<"*">>
      /\ g[t] = terminal
  <2>1. SpecifierInOrder(g, a, flags, width, precision, length, terminal,
                         w, p, l, t)
    BY <1>6
  <2>2. FollowsGrammar(g, a, width, precision.type, terminal, w, p, l, t)
    BY <1>6, <2>1, GrammarIsSpecifier
  <2> QED
    BY <2>2 DEF FollowsGrammar
<1>8. /\ t = n + m /\ a \in 1 .. n + m /\ w \in 1 .. n + m /\ p \in 1 .. n + m
      /\ l \in 1 .. n + m /\ t \in 1 .. n + m
  <2>1. m = t - a + 1
    BY <1>3, <1>6
  <2>2. t = n + m
    BY <1>5, <2>1
  <2>3. a < w /\ w <= p /\ p <= l /\ l <= t
    BY <1>7
  <2> QED
    BY <2>2, <2>3
<1>9. SubSeq(g, a, t) = string
  <2>1. SubSeq(g, a, a + m - 1) = string
    <3>1. Written(g, a, string)
      BY <1>4, <1>5
    <3>2. m \in Nat /\ m = Len(string)
      BY <1>3
    <3>3. ReadsBack(Characters, g, a, string, m)
      BY <1>2, <3>1, <3>2, WrittenIsSubSeq
    <3> QED
      BY <3>3 DEF ReadsBack
  <2>2. a + m - 1 = t
    BY <1>5, <1>8
  <2> QED
    BY <2>1, <2>2
<1>10. piece = [out |-> string,
                params |-> Append(Stars(width, precision),
                                  Own(precision, terminal))]
  BY DEF SpecifierPiece
<1>11. piece.params = Append(StarList(g[w] = "*", precision.type),
                             IF g[t] = "n" THEN kTHROW
                             ELSE IF g[t] = "s" THEN precision.type
                             ELSE kNON_STRING)
  <2>1. Stars(width, precision) = StarList(g[w] = "*", precision.type)
    <3>1. PICK star1, star2 \in BOOLEAN :
            star1 = (g[w] = "*") /\ star2 = (width = <<"*">>) /\ star1 = star2
      BY <1>7
    <3> QED
      BY <3>1, GrammarParams
  <2>2. Own(precision, terminal) =
          IF g[t] = "n" THEN kTHROW
          ELSE IF g[t] = "s" THEN precision.type ELSE kNON_STRING
    BY <1>7 DEF Own
  <2> QED
    BY <1>10, <2>1, <2>2
<1>12. IsSpecifier(g, a, t + 1, piece)
  <2>1. /\ w \in 1 .. Len(g) /\ p \in 1 .. Len(g) /\ l \in 1 .. Len(g)
        /\ t \in 1 .. Len(g)
    BY <1>4, <1>8
  <2>2. piece.out = SubSeq(g, a, t)
    BY <1>9, <1>10
  <2>3. PICK type \in Int : type = precision.type
    BY <1>1
  <2>4. Specifier(g, a, w, p, l, t, type)
    BY <1>7, <2>3
  <2>5. piece.params = Append(StarList(g[w] = "*", type),
                              IF g[t] = "n" THEN kTHROW
                              ELSE IF g[t] = "s" THEN type ELSE kNON_STRING)
    BY <1>11, <2>3
  <2>6. a < w /\ w <= p /\ p <= l /\ l <= t
    BY <1>7
  <2>7. HasParts(g, a, t + 1, piece, w, p, l, t, type)
    BY <2>2, <2>4, <2>5, <2>6 DEF HasParts
  <2> QED
    BY <2>1, <2>7 DEF IsSpecifier
<1>13. IsPiece(g, n + 1, (n + m) + 1, piece)
  <2>1. n + 1 \in 1 .. n + m /\ (n + m) + 1 \in 1 .. (n + m) + 1
    BY <1>5, <1>8
  <2> QED
    BY <1>4, <1>5, <1>8, <1>12, <2>1 DEF IsPiece
<1>14. piece \in Pieces
  <2>1. piece.params \in Seq(ParamTypes)
    BY <1>10, GrammarParams
  <2> QED
    BY <1>2, <1>10, <2>1 DEF Pieces
<1> QED
  BY <1>2, <1>3, <1>4, <1>13, <1>14

LEMMA TextAppended ==
  ASSUME NEW f \in Seq(Characters), NEW c \in Texts,
         NEW piece, piece = [out |-> <<c>>, params |-> <<>>]
  PROVE  /\ <<c>> \in Seq(Characters) /\ piece \in Pieces
         /\ IsPiece(f \o <<c>>, Len(f) + 1, Len(f \o <<c>>) + 1, piece)
<1> DEFINE s == <<c>>
<1>1. s \in Seq(Characters) /\ Len(s) = 1 /\ s[1] = c
  <2>1. c \in Characters
    BY DEF Characters
  <2> QED
    BY <2>1
<1> HIDE DEF s
<1>2. PICK n \in Nat : n = Len(f)
  BY LenProperties
<1>3. PICK g : g = f \o s /\ Written(g, n + 1, s) /\ Len(g) = n + 1
  <2>1. /\ Written(f \o s, Len(f) + 1, s)
        /\ Len(f \o s) = Len(f) + Len(s)
    BY <1>1, <1>2, WrittenAtEnd
  <2>2. Len(f) + 1 = n + 1 /\ Len(f) + Len(s) = n + 1
    BY <1>1, <1>2
  <2> QED
    BY <2>1, <2>2
<1>4. g[n + 1] = c
  <2>1. \A j \in 1 .. 1 : g[(n + 1) + (j - 1)] = s[j]
    BY <1>1, <1>3 DEF Written
  <2>2. 1 \in 1 .. 1 /\ (n + 1) + (1 - 1) = n + 1
    OBVIOUS
  <2> QED
    BY <1>1, <2>1, <2>2
<1>5. piece.out = <<c>> /\ piece.params = <<>>
  OBVIOUS
<1>6. IsText(g, n + 1, (n + 1) + 1, piece)
  BY <1>4, <1>5 DEF IsText
<1>7. IsPiece(g, n + 1, (n + 1) + 1, piece)
  <2>1. n + 1 \in 1 .. n + 1 /\ (n + 1) + 1 \in 1 .. (n + 1) + 1
    OBVIOUS
  <2> QED
    BY <1>3, <1>6, <2>1 DEF IsPiece
<1>8. piece \in Pieces
  <2>1. <<>> \in Seq(ParamTypes)
    OBVIOUS
  <2> QED
    BY <1>1, <2>1 DEF Pieces, s
<1> QED
  BY <1>1, <1>2, <1>3, <1>7, <1>8 DEF s

LEMMA PercentAppended ==
  ASSUME NEW f \in Seq(Characters),
         NEW piece, piece = [out |-> <<"%">>, params |-> <<>>]
  PROVE  /\ <<"%", "%">> \in Seq(Characters) /\ piece \in Pieces
         /\ IsPiece(f \o <<"%", "%">>, Len(f) + 1, Len(f \o <<"%", "%">>) + 1,
                    piece)
<1> DEFINE s == <<"%", "%">>
<1>1. "%" \in Characters
  BY DEF Characters
<1>2. s \in Seq(Characters) /\ Len(s) = 2 /\ s[1] = "%" /\ s[2] = "%"
  BY <1>1
<1> HIDE DEF s
<1>3. PICK n \in Nat : n = Len(f)
  BY LenProperties
<1>4. PICK g : g = f \o s /\ Written(g, n + 1, s) /\ Len(g) = n + 2
  <2>1. /\ Written(f \o s, Len(f) + 1, s)
        /\ Len(f \o s) = Len(f) + Len(s)
    BY <1>2, <1>3, WrittenAtEnd
  <2>2. Len(f) + 1 = n + 1 /\ Len(f) + Len(s) = n + 2
    BY <1>2, <1>3
  <2> QED
    BY <2>1, <2>2
<1>5. g[n + 1] = "%" /\ g[n + 2] = "%"
  <2>1. \A j \in 1 .. 2 : g[(n + 1) + (j - 1)] = s[j]
    BY <1>2, <1>4 DEF Written
  <2>2. /\ 1 \in 1 .. 2 /\ (n + 1) + (1 - 1) = n + 1
        /\ 2 \in 1 .. 2 /\ (n + 1) + (2 - 1) = n + 2
    OBVIOUS
  <2> QED
    BY <1>2, <2>1, <2>2
<1>6. piece.out = <<"%">> /\ piece.params = <<>>
  OBVIOUS
<1>7. (n + 1) + 1 = n + 2 /\ (n + 1) + 2 = (n + 2) + 1
  OBVIOUS
<1>8. IsPercent(g, n + 1, (n + 2) + 1, piece)
  BY <1>5, <1>6, <1>7 DEF IsPercent
<1>9. IsPiece(g, n + 1, (n + 2) + 1, piece)
  <2>1. n + 1 \in 1 .. n + 2 /\ (n + 2) + 1 \in 1 .. (n + 2) + 1
    OBVIOUS
  <2> QED
    BY <1>4, <1>8, <2>1 DEF IsPiece
<1>10. piece \in Pieces
  <2>1. <<>> \in Seq(ParamTypes) /\ <<"%">> \in Seq(Characters)
    BY <1>1
  <2> QED
    BY <2>1 DEF Pieces
<1> QED
  BY <1>2, <1>3, <1>4, <1>9, <1>10 DEF s

-----------------------------------------------------------------------------
(* The theorems. *)

\* The format string can be cut into the pieces it was built from.
IInv ==
  /\ fmt \in Seq(Characters)
  /\ pieces \in Seq(Pieces)
  /\ \E cut : CutInto(fmt, pieces, cut)

LEMMA PieceAppended ==
  ASSUME IInv, NEW string \in Seq(Characters), NEW out, NEW params,
         [out |-> out, params |-> params] \in Pieces,
         IsPiece(fmt \o string, Len(fmt) + 1, Len(fmt \o string) + 1,
                 [out |-> out, params |-> params]),
         AppendPiece(string, out, params)
  PROVE  IInv'
<1>1. PICK piece \in Pieces : piece = [out |-> out, params |-> params]
  OBVIOUS
<1>2. fmt' = fmt \o string /\ pieces' = Append(pieces, piece)
  BY <1>1 DEF AppendPiece
<1>3. fmt \in Seq(Characters) /\ pieces \in Seq(Pieces)
  BY DEF IInv
<1>4. PICK cut : CutInto(fmt, pieces, cut)
  BY DEF IInv
<1>5. \E c : CutInto(fmt', pieces', c)
  <2>1. \E c : CutInto(fmt \o string, Append(pieces, piece), c)
    BY <1>1, <1>3, <1>4, CutAppended
  <2> QED
    BY <1>2, <2>1
<1>6. fmt' \in Seq(Characters)
  BY <1>2, <1>3, ConcatProperties
<1>7. pieces' \in Seq(Pieces)
  BY <1>2, <1>3, AppendProperties
<1> QED
  BY <1>5, <1>6, <1>7 DEF IInv

\* Every behaviour of the model keeps the format string a concatenation of
\* pieces of the printf grammar, for every choice of texts, flags, widths,
\* precisions, lengths and terminals of the grammar and any number of pieces.
THEOREM Invariance == Spec => []IInv
<1>1. Init => IInv
  <2> SUFFICES ASSUME Init
               PROVE  IInv
    OBVIOUS
  <2>1. fmt = <<>> /\ pieces = <<>> /\ Len(fmt) = 0 /\ Len(pieces) = 0
    BY DEF Init
  <2>2. CutInto(fmt, pieces, [k \in 0 .. 0 |-> 1])
    BY <2>1 DEF CutInto
  <2> QED
    BY <2>1, <2>2 DEF IInv
<1>2. IInv /\ [Next]_vars => IInv'
  <2> SUFFICES ASSUME IInv, [Next]_vars
               PROVE  IInv'
    OBVIOUS
  <2>1. fmt \in Seq(Characters)
    BY DEF IInv
  <2>2. CASE AppendText
    <3>1. PICK c \in Texts : AppendPiece(<<c>>, <<c>>, <<>>)
      BY <2>2 DEF AppendText
    <3> QED
      BY <2>1, <3>1, TextAppended, PieceAppended
  <2>3. CASE AppendPercent
    <3>1. AppendPiece(<<"%", "%">>, <<"%">>, <<>>)
      BY <2>3 DEF AppendPercent
    <3> QED
      BY <2>1, <3>1, PercentAppended, PieceAppended
  <2>4. CASE AppendSpecifier
    <3>1. PICK flags \in Flags, width \in Widths, precision \in Precisions,
               length \in Lengths, terminal \in Terminals :
            AppendPiece(
              SpecifierString(flags, width, precision, length, terminal),
              SpecifierString(flags, width, precision, length, terminal),
              Append(Stars(width, precision), Own(precision, terminal)))
      BY <2>4 DEF AppendSpecifier, SpecifierString
    <3>2. PICK string, params :
            /\ string = SpecifierString(flags, width, precision, length, terminal)
            /\ params = Append(Stars(width, precision), Own(precision, terminal))
            /\ AppendPiece(string, string, params)
      BY <3>1
    <3>3. PICK piece :
            piece = SpecifierPiece(flags, width, precision, length, terminal)
      OBVIOUS
    <3>4. piece = [out |-> string, params |-> params]
      BY <3>2, <3>3 DEF SpecifierPiece
    <3>5. /\ string \in Seq(Characters) /\ piece \in Pieces
          /\ IsPiece(fmt \o string, Len(fmt) + 1, Len(fmt \o string) + 1, piece)
      <4>1. string = SpecifierString(flags, width, precision, length, terminal)
        BY <3>2
      <4> QED
        BY <2>1, <3>3, <4>1, SpecifierAppended
    <3> QED
      BY <3>2, <3>4, <3>5, PieceAppended
  <2>5. CASE UNCHANGED vars
    BY <2>5 DEF vars, IInv
  <2> QED
    BY <2>2, <2>3, <2>4, <2>5 DEF Next
<1> QED
  BY <1>1, <1>2, PTL DEF Spec

LEMMA ParsersAnswer == IInv => FindsItsParams /\ RejectsUnsupported /\ SplitsAlike
<1> SUFFICES ASSUME IInv
             PROVE  FindsItsParams /\ RejectsUnsupported /\ SplitsAlike
  OBVIOUS
<1>1. PICK cut : CutInto(fmt, pieces, cut)
  BY DEF IInv
<1>2. fmt \in Seq(Characters) /\ pieces \in Seq(Pieces)
  BY DEF IInv
<1>3. Params = FlattenSeq(ParamLists(pieces))
  BY DEF Params, ParamLists
<1>4. IF kTHROW \in Range(Params) THEN countFmtParams(fmt) = kTHROW
      ELSE analyzeFormatString(fmt) = Params
  BY <1>1, <1>2, <1>3, ParsersFindPieces
<1>5. split(fmt) = [k \in DOMAIN pieces |-> pieces[k].out]
  BY <1>1, <1>2, SplitGivesPieces
<1> QED
  BY <1>4, <1>5 DEF FindsItsParams, RejectsUnsupported, SplitsAlike, Accepted

\* At compile time countFmtParams and analyzeFormatString find the number and
\* the types of the parameters of every accepted format, whatever surrounds its
\* specifiers.
THEOREM ParametersFound == Spec => []FindsItsParams
BY Invariance, ParsersAnswer, PTL

\* A format with a specifier that is not supported does not compile, wherever
\* the specifier stands: the count does not end before it gets there.
THEOREM UnsupportedRejected == Spec => []RejectsUnsupported
BY Invariance, ParsersAnswer, PTL

\* process_fmt splits every accepted format into the text and specifiers that
\* getParamInfo has found the parameters of.
THEOREM ParsersAgree == Spec => []SplitsAlike
BY Invariance, ParsersAnswer, PTL

=============================================================================
