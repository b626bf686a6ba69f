----------------------------- MODULE Coercions -----------------------------
(***************************************************************************)
(* What a function is given for the ID of a relinkable handle, or of an    *)
(* object that handles link to: the coercions of generated functions       *)
(* (oh/conversions/coerce.hpp, qlo/conversions/coerce*.hpp) on the state   *)
(* of RelinkableHandles.                                                   *)
(*                                                                         *)
(* A conversion returns a singleton, or nothing if it leaves the object to *)
(* the next one; an exception is the value Throws.                         *)
(***************************************************************************)
EXTENDS RelinkableHandles

Throws == [throws |-> TRUE]

\* Coerce::operator(): the first conversion that succeeds decides.
Coerced(conversions, in) ==
  LET succeeds == {i \in DOMAIN conversions : conversions[i][in] # {}}
  IN IF succeeds = {} THEN Throws
     ELSE LET first == CHOOSE i \in succeeds : \A j \in succeeds : i <= j
          IN CHOOSE out \in conversions[first][in] : TRUE

\* The IDs that retrieveObject finds, without recreating the object first.
Retrievable ==
  {t \in Targets : Exists(t)} \cup {h \in Handles : stored[h] # None /\ h \notin dirty}

Linking(h) == object[stored[h]]

OnObjects(out(_)) == [id \in Retrievable |-> IF id \in Targets THEN {out(id)} ELSE {}]
OnHandles(out(_)) == [id \in Retrievable |-> IF id \in Handles THEN {out(id)} ELSE {}]

Itself(id) == [id |-> id, present |-> TRUE]

\* object() of a handle, and the currentLink() of its library handle.
HandleObject(h) == IF Linking(h).object_ = None THEN Throws ELSE Linking(h).object_
HandleLink(h) == IF Linking(h).handle_ = None THEN Throws ELSE Linking(h).handle_

objectToObject == OnObjects(Itself)
handleToObject == OnHandles(HandleObject)
objectToLibrary == OnObjects(Itself)
handleToLibrary == OnHandles(HandleLink)

\* A handle is passed on as it is, and follows its links from then on; an object is
\* wrapped in a handle of its own, which links to it for good.
objectToHandle == OnHandles(LAMBDA h : [shared |-> stored[h]])
wrapObject == OnObjects(LAMBDA t : [wrapped |-> Itself(t)])

CoerceObject(id) == Coerced(<<objectToObject, handleToObject>>, id)
CoerceLibrary(id) == Coerced(<<objectToLibrary, handleToLibrary>>, id)

\* The empty ID is an empty handle.
CoerceHandle(id) ==
  IF id = None THEN [wrapped |-> None] ELSE Coerced(<<objectToHandle, wrapObject>>, id)

\* What a library function finds behind the handle it is given.
Behind(handle) ==
  IF "shared" \in DOMAIN handle THEN object[handle.shared].handle_ ELSE handle.wrapped

-----------------------------------------------------------------------------

\* Functions that take the same ID as an object, as a library object and as a handle
\* work on the same object, unless they throw, however the handle has been relinked,
\* mislinked or loaded in between; and what CurrentLink names can be had.
CoercionsAgree ==
  \A id \in Retrievable :
    LET asObject == CoerceObject(id)  asLibrary == CoerceLibrary(id)
    IN /\ asObject # Throws => asObject = asLibrary
       /\ Behind(CoerceHandle(id)) = IF asLibrary = Throws THEN None ELSE asLibrary
       /\ id \in Handles /\ Linking(id).currentLink # None => asLibrary # Throws
=============================================================================
