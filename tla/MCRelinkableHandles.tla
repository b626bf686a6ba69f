------------------------ MODULE MCRelinkableHandles ------------------------
(***************************************************************************)
(* An instance of RelinkableHandles, with the coercions, for TLC.          *)
(***************************************************************************)
EXTENDS Coercions, TLC

\* IDs and allocations of a kind are interchangeable.
HandleSymmetry == Permutations(Handles) \cup Permutations(Targets) \cup Permutations(Objects)
=============================================================================
