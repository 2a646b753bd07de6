---------------------------- MODULE MCWitLocale -----------------------------
(***************************************************************************)
(* WitLocale for TLC.  The multi-byte locale has the middle dot and the    *)
(* no-break space, which share their first byte in UTF-8.                  *)
(***************************************************************************)
EXTENDS WitLocale

Comma == 20
Lead == Other
Dot2 == 21

German == [dp |-> <<Comma>>, sep |-> <<Point>>, tagged |-> FALSE]
American == [dp |-> <<Point>>, sep |-> <<Comma>>, tagged |-> FALSE]
TwoBytes == [dp |-> <<Lead, Dot2>>, sep |-> <<Lead, Comma>>, tagged |-> FALSE]
Ungrouped == [dp |-> <<Comma>>, sep |-> <<>>, tagged |-> FALSE]
CLocale == [dp |-> <<Point>>, sep |-> <<>>, tagged |-> TRUE]
OwnDot == [dp |-> <<Point>>, sep |-> <<>>, tagged |-> FALSE]
Ambiguous == [dp |-> <<Comma>>, sep |-> <<Comma>>, tagged |-> FALSE]
AllLocales == {German, American, TwoBytes, Ungrouped, CLocale, OwnDot, Ambiguous}

Repeating(n) == [tag |-> "repeat", size |-> n]
FirstThen(n, m) == [tag |-> "first_then_repeat", first |-> n, next |-> m]
Explicit(groups, last) == [tag |-> "explicit", groups |-> groups, repeatLast |-> last]
AllRules == {Repeating(0), Repeating(2), FirstThen(2, 1), FirstThen(1, 3),
             Explicit(<<1, 2>>, FALSE), Explicit(<<2, 1>>, TRUE), Explicit(<<>>, TRUE)}

\* A sign, one to five digits, a fraction, an exponent, each or not; hexadecimal numbers; words.
PrintedSigns == {<<>>, <<Minus>>, <<Plus>>, <<Space>>}
PrintedDigits == {SubSeq(<<1, 2, 3, 4, 5>>, 1, n) : n \in 1 .. 5}
PrintedNumbers ==
  {s \o d \o f \o e : s \in PrintedSigns, d \in PrintedDigits,
                      f \in {<<>>, <<Point, 6>>}, e \in {<<>>, <<Exp, Minus, 7>>}}
  \cup {s \o <<0, HexMark, 1>> \o f \o <<Power, Plus, 3>> :
           s \in PrintedSigns, f \in {<<>>, <<Point, 8>>}}
  \cup {s \o <<Inf>> : s \in PrintedSigns} \cup {<<Nan>>}

TypedBytes == {1, Minus, Point, Comma, Exp, Lead, Nan}
TypedTexts == UNION {[1 .. n -> TypedBytes] : n \in 0 .. 5} \cup {<<Space, 1>>}
=============================================================================
