-------------------------- MODULE MCSerialization --------------------------
(***************************************************************************)
(* An instance of Serialization for TLC: one instrument and its engine in  *)
(* two groups, which may contain themselves and each other.                *)
(***************************************************************************)
EXTENDS Serialization

CONSTANTS engineA, swap, book, desk

Listed == {<<swap, engineA>>, <<engineA, swap>>, <<None, book>>}
SavedLists == {<<desk>>, <<engineA, book>>, <<None>>}
FileSymmetry == Permutations(Paths)
=============================================================================
