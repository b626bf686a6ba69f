--------------------------- MODULE MCConversions ---------------------------
(***************************************************************************)
(* The conversions for TLC: IDs of a few characters, and calendars of      *)
(* which one is spelled in two ways and one is unknown.                    *)
(***************************************************************************)
EXTENDS Conversions

CONSTANTS
  MaxID,  \* bounds the characters of an ID
  uk, UK, us, target, unknown

\* Letters of the reserved prefix, the delimiter, and one of neither kind.
Characters == {"o", "O", "b", "j", "#", "x"}
ShortIDs == UNION {[1 .. n -> Characters] : n \in 0 .. MaxID}

InCapitals ==
  [s \in {uk, UK, us, target, unknown} |->
     CASE s \in {uk, UK} -> 2 [] s = us -> 3 [] s = target -> 1 [] s = unknown -> 4]
=============================================================================
