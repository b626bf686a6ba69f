---------------------------- MODULE MCRepository ----------------------------
(***************************************************************************)
(* Instances of Repository for TLC: a quote, a curve built from it and an  *)
(* instrument built from either; and two objects that may name each other. *)
(***************************************************************************)
EXTENDS RepositoryRefinement, TLC

CONSTANTS quote, curve, instrument

\* Clients that name only objects built before: the references are acyclic.
LayeredUses == (quote :> {}) @@ (curve :> {quote}) @@ (instrument :> {quote, curve})

TwoLayers == (quote :> {}) @@ (curve :> {quote})

\* Clients that may name any object, itself included.
AnyUses == [id \in Ids |-> Ids]

\* Wrappers are interchangeable allocations.
WrapperSymmetry == Permutations(Wrappers)
=============================================================================
