--------------------------- MODULE MCRepositoryXL ---------------------------
(***************************************************************************)
(* Instances of RepositoryXL for TLC: a quote, a curve built from it and   *)
(* an instrument built from either, stored by two cells and by VBA.        *)
(***************************************************************************)
EXTENDS RepositoryXL, TLC

CONSTANTS quote, curve, instrument

LayeredUses == (quote :> {}) @@ (curve :> {quote}) @@ (instrument :> {quote, curve})

TwoLayers == (quote :> {}) @@ (curve :> {quote})

\* Wrappers, and cells, are interchangeable.
XLSymmetry == Permutations(Wrappers) \cup Permutations(CellRanges)
=============================================================================
