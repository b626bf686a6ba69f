---------------------------- MODULE ObjectStore ----------------------------
(***************************************************************************)
(* What the object store promises its clients (oh/objectwrapper.hpp, class *)
(* comment), with none of the machinery that keeps the promise: no         *)
(* wrappers, observer links, dirty flags or recursion.                     *)
(*                                                                         *)
(* A client asks for some objects, takes them one by one and may then      *)
(* store an object built from all of them.  An object is current if it and *)
(* all that it rests on were built from the present objects of their       *)
(* precedents; only current objects are ever handed out, and only objects  *)
(* that are not current are ever built anew.                               *)
(***************************************************************************)
CONSTANT Ids

VARIABLES
  stored,      \* the IDs that name an object
  precedents,  \* ID -> the IDs its object is to be built from
  uses,        \* ID -> those whose present objects it was built from
  asked,       \* the IDs the running call has asked for
  taken        \* those whose objects it has been given

call == <<asked, taken>>
objects == <<stored, precedents, uses>>
vars == <<objects, call>>

\* The object of id, and all that it rests on, are up to date.
Current(id) ==
  \E S \in SUBSET stored :
    id \in S /\ \A x \in S : uses[x] = precedents[x] /\ precedents[x] \subseteq S

Init ==
  /\ stored = {}
  /\ precedents = [id \in Ids |-> {}]
  /\ uses = [id \in Ids |-> {}]
  /\ asked = {} /\ taken = {}

Ask(ids) ==
  /\ asked = {}
  /\ asked' = ids
  /\ UNCHANGED <<objects, taken>>

Take(id) ==
  /\ id \in asked \ taken /\ Current(id)
  /\ taken' = taken \cup {id}
  /\ UNCHANGED <<objects, asked>>

\* Whatever was built from the former object of id no longer uses the present one.
Renewed(id, ps) == uses' = [x \in Ids |-> IF x = id THEN ps ELSE uses[x] \ {id}]

\* An object that is not current is built anew from precedents that are; the call
\* may be given it at once.
Refresh(id) ==
  /\ id \in stored /\ ~Current(id)
  /\ \A p \in precedents[id] : Current(p)
  /\ Renewed(id, precedents[id])
  /\ taken' = taken \/ (id \in asked \ taken /\ taken' = taken \cup {id})
  /\ UNCHANGED <<stored, precedents, asked>>

\* The client stores an object built from all that it asked for.
Store(id) ==
  /\ taken = asked /\ id \notin asked
  /\ stored' = stored \cup {id}
  /\ precedents' = [precedents EXCEPT ![id] = asked]
  /\ Renewed(id, asked)
  /\ asked' = {} /\ taken' = {}

\* The call returns, or fails.
End ==
  /\ asked' = {} /\ taken' = {}
  /\ UNCHANGED objects

\* A new process starts with nothing stored.
Restart == stored' = {} /\ precedents' = [id \in Ids |-> {}] /\ uses' = [id \in Ids |-> {}]
           /\ asked' = {} /\ taken' = {}

Next ==
  \/ \E ids \in SUBSET Ids : Ask(ids)
  \/ \E id \in Ids : Take(id) \/ Refresh(id) \/ Store(id)
  \/ End
  \/ Restart

Spec == Init /\ [][Next]_vars
=============================================================================
