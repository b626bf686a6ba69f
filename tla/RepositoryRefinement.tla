------------------------ MODULE RepositoryRefinement ------------------------
(***************************************************************************)
(* How the repository implements ObjectStore: the refinement mapping.      *)
(* The promise holds of repositories from which nothing is deleted: what   *)
(* deletion does to it is the run RepositoryStale.                         *)
(***************************************************************************)
EXTENDS Repository

StoredIds == {id \in Ids : Exists(id)}

\* The precedents and the sources of each stored object, by ID.
PrecedentIds == [id \in Ids |-> IF Exists(id) THEN precedents[objectMap[id]] ELSE {}]
UsedIds == [id \in Ids |->
  IF Exists(id) THEN {p \in precedents[objectMap[id]] : objectMap[p] \in builtFrom[objectMap[id]]}
                ELSE {}]

\* The wrapper that the retrieval of the call's own activation is recreating.
Recreating == IF Len(stack) > 1 THEN {stack[2].wrapper} ELSE {}

Given == {storedAs[w] : w \in stack[1].got \ Recreating}

AskingOutright == stack # <<>> /\ stack[1].kind \in {"retrieve", "construct"}

\* What the running call retrieves, as a client or to build the object it stores.
AskedIds ==
  CASE crashed -> {}
    [] ~crashed /\ held # None -> held.precedents
    [] ~crashed /\ held = None /\ AskingOutright ->
         stack[1].todo \cup {storedAs[w] : w \in stack[1].got}
    [] OTHER -> {}

TakenIds ==
  CASE crashed -> {}
    [] ~crashed /\ held # None /\ held.ready -> held.precedents
    [] ~crashed /\ ~(held # None /\ held.ready) /\ AskingOutright -> Given
    [] OTHER -> {}

Promised == INSTANCE ObjectStore WITH
  stored <- StoredIds, precedents <- PrecedentIds, uses <- UsedIds,
  asked <- AskedIds, taken <- TakenIds

\* The repository keeps the promise of the class comment of ObjectWrapper: every
\* object that a call is given is current, at whatever depth and in whatever
\* order objects are recreated on the way, and overwriting an object makes
\* outdated exactly what rests on it.
ImplementsObjectStore == Promised!Spec
=============================================================================
