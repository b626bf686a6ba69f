---------------------------- MODULE MCExcelCalls ----------------------------
(***************************************************************************)
(* An instance of CallingRanges for TLC: two cells of a row, the range of  *)
(* both, and a cell on a sheet whose name RangeReference cannot parse.     *)
(***************************************************************************)
EXTENDS CallingRanges, TLC

CONSTANTS left, right, both, odd

AddressCells == (left :> {1}) @@ (right :> {2}) @@ (both :> {1, 2}) @@ (odd :> {3})

MessageSymmetry == Permutations(Messages)
=============================================================================
