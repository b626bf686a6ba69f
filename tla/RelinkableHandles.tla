------------------------- MODULE RelinkableHandles -------------------------
(***************************************************************************)
(* Relinkable handles (qlo/handleimpl.hpp), which a client points at one   *)
(* object after another, and their way through a file: saving, loading and *)
(* the processor that restores their links once everything is loaded       *)
(* (oh/serializationfactory.cpp, qlo/serialization/processor.cpp).         *)
(*                                                                         *)
(* The store is reduced to what handles see of Repository: an object is    *)
(* stored, stored anew or deleted under its ID, and a handle that observes *)
(* it becomes dirty when it is stored anew.                                *)
(***************************************************************************)
EXTENDS Naturals, Sequences, FiniteSets

CONSTANTS
  Handles,   \* IDs under which clients store relinkable handles
  Targets,   \* IDs of the objects that they link to
  Objects,   \* RelinkableHandleImpl allocations
  None,      \* a null pointer, or the empty ID
  MaxFile    \* bounds the objects in a file

Ids == Handles \cup Targets

ASSUME HandlesAssumption ==
  /\ Handles \cap Targets = {} /\ None \notin Ids \cup Objects
  /\ None \notin [id: Targets, present: BOOLEAN]
  /\ MaxFile \in Nat

VARIABLES
  exists,    \* the targets in the repository
  stored,    \* handle ID -> its object in the repository
  object,    \* the fields of each handle object
  dirty,     \* the handles whose wrapper is dirty
  observes,  \* handle ID -> the targets that its wrapper observes
  handles,   \* RelinkableHandleProcessor::handles
  file,      \* what was saved last
  load       \* the running call to loadObject

vars == <<exists, stored, object, dirty, observes, handles, file, load>>

\* present: it is the object stored under that ID now.
Link == [id: Targets, present: BOOLEAN] \cup {None}

\* behind is no field of the code but history, and no guard reads it: a linkTo threw
\* after it had set handle_, and none has set CurrentLink since.
Fields == [currentLink: Targets \cup {None}, object_: Link, handle_: Link, behind: BOOLEAN]
NoFields == [currentLink |-> None, object_ |-> None, handle_ |-> None, behind |-> FALSE]

Pending == [link: Targets \cup {None}, handle: Objects]
Saved == [id: Ids, link: Targets \cup {None}]
Load == [overwrite: BOOLEAN, todo: Seq(Saved)] \cup {None}

TypeOK ==
  /\ exists \subseteq Targets
  /\ stored \in [Handles -> Objects \cup {None}]
  /\ object \in [Objects -> Fields]
  /\ dirty \subseteq Handles
  /\ observes \in [Handles -> SUBSET Targets]
  /\ handles \in Seq(Pending)
  /\ file \in Seq(Saved)
  /\ load \in Load
  /\ \A o \in Objects : LET l == object[o].handle_
       IN l # None /\ l.present => l.id \in exists

Init ==
  /\ exists = {}
  /\ stored = [h \in Handles |-> None]
  /\ object = [o \in Objects |-> NoFields]
  /\ dirty = {}
  /\ observes = [h \in Handles |-> {}]
  /\ handles = <<>>
  /\ file = <<>>
  /\ load = None

-----------------------------------------------------------------------------
(* Linking *)

Idle == load = None

HandleObjects == {stored[h] : h \in Handles} \ {None}
InUse == HandleObjects \cup {handles[i].handle : i \in DOMAIN handles}

\* Unused allocations hold nothing.
Cleared(fields, used) == [o \in Objects |-> IF o \in used THEN fields[o] ELSE NoFields]

Exists(id) == id \in exists

Current(id) == [id |-> id, present |-> TRUE]

\* MUTANT of Linkable: whatever the ID, something is found.
LinkableAlways(id) == TRUE

\* linkTo has what it needs: the empty ID, or one of an object that can be retrieved.
Linkable(id) == id = None \/ Exists(id)

\* MUTANT of Linked: a library handle that is linked stays so.
LinkedOnce(fields, id) ==
  IF id = None THEN [fields EXCEPT !.currentLink = None, !.behind = FALSE]
  ELSE [currentLink |-> id, object_ |-> Current(id), behind |-> FALSE,
        handle_ |-> IF fields.handle_ = None THEN Current(id) ELSE fields.handle_]

\* linkTo when it returns: the empty ID changes CurrentLink only.
Linked(fields, id) ==
  IF id = None THEN [fields EXCEPT !.currentLink = None, !.behind = FALSE]
  ELSE [currentLink |-> id, object_ |-> Current(id), handle_ |-> Current(id), behind |-> FALSE]

\* MUTANT of LinkThrows: CurrentLink is set before the object is retrieved.
LinkThrowsEarly(fields, id) ==
  IF id = None THEN {} ELSE {[fields EXCEPT !.currentLink = id]}

\* linkTo when it throws.  No object is retrieved, because the ID is unknown or the
\* object cannot be recreated: nothing has changed.  Or QuantLib, which sets the
\* link of handle_ and then notifies its observers if it is another one, passes on
\* that an observer threw: CurrentLink is not set.  getLibraryObject, between the
\* two, does not throw: no object that a handle accepts is without its library
\* object, which each of their constructors sets.
LinkThrows(fields, id) ==
  IF id = None THEN {}
  ELSE {fields} \cup
       IF Exists(id) /\ fields.handle_ # Current(id)
         THEN {[fields EXCEPT !.object_ = Current(id), !.handle_ = Current(id), !.behind = TRUE]}
         ELSE {}

LinkOutcomes(fields, id) ==
  LinkThrows(fields, id) \cup IF Linkable(id) THEN {Linked(fields, id)} ELSE {}

\* retrieveObject clears the pointer it was given before it rejects the type.
Mislinked(fields) == [fields EXCEPT !.object_ = None]

\* qlRelinkableHandleLinkTo; a dirty handle is recreated first.  The ID may also
\* be that of an object of another type, such as a handle.
LinkTo(h, id) ==
  /\ Idle /\ stored[h] # None /\ h \notin dirty
  /\ \E fields \in IF id \notin Handles THEN LinkOutcomes(object[stored[h]], id)
                    ELSE IF stored[id] # None THEN {Mislinked(object[stored[h]])}
                    ELSE {object[stored[h]]} :
       object' = [object EXCEPT ![stored[h]] = fields]
  /\ UNCHANGED <<exists, stored, dirty, observes, handles, file, load>>

-----------------------------------------------------------------------------
(* The store *)

\* The objects that were linked to the object stored as t now link to the past.
Outdated(t) ==
  LET Past(link) == IF link # None /\ link.id = t THEN [link EXCEPT !.present = FALSE] ELSE link
  IN [o \in Objects |-> [object[o] EXCEPT !.object_ = Past(@), !.handle_ = Past(@)]]

StoreTarget(t) ==
  /\ exists' = exists \cup {t}
  /\ object' = Outdated(t)
  /\ dirty' = dirty \cup {h \in Handles : stored[h] # None /\ Exists(t) /\ t \in observes[h]}
  /\ UNCHANGED <<stored, observes>>

Store(t) == Idle /\ StoreTarget(t) /\ UNCHANGED <<handles, file, load>>

\* Its observers stay registered with a wrapper that no store resets again.
DeleteTarget(t) ==
  /\ Idle /\ Exists(t)
  /\ exists' = exists \ {t}
  /\ object' = Outdated(t)
  /\ observes' = [h \in Handles |-> observes[h] \ {t}]
  /\ UNCHANGED <<stored, dirty, handles, file, load>>

\* h has a new object that links to id and whose wrapper observes it.
StoreHandle(h, o, id) ==
  /\ o \notin InUse
  /\ stored' = [stored EXCEPT ![h] = o]
  /\ dirty' = dirty \ {h}
  /\ observes' = [observes EXCEPT ![h] = {id} \ {None}]

\* The generated constructor: an unknown ID is an error.  Nobody observes the library
\* handle of a new object yet.
CreateHandle(h, id) ==
  /\ Idle
  /\ Linkable(id)
  /\ UNCHANGED <<exists, handles, file, load>>
  /\ \E o \in Objects :
       /\ StoreHandle(h, o, id)
       /\ object' = Cleared([object EXCEPT ![o] = Linked(NoFields, id)], InUse')

DeleteHandle(h) ==
  /\ Idle /\ stored[h] # None
  /\ stored' = [stored EXCEPT ![h] = None]
  /\ dirty' = dirty \ {h}
  /\ observes' = [observes EXCEPT ![h] = {}]
  /\ UNCHANGED <<exists, handles, file, load>>
  /\ object' = Cleared(object, InUse')

\* Retrieving a dirty handle recreates it with its CurrentLink; its wrapper
\* observes what it did.
Recreate(h) ==
  /\ Idle /\ h \in dirty
  /\ LET id == object[stored[h]].currentLink
     IN /\ Linkable(id)
        /\ UNCHANGED <<exists, observes, handles, file, load>>
        /\ \E o \in Objects \ InUse :
             /\ stored' = [stored EXCEPT ![h] = o]
             /\ object' = Cleared([object EXCEPT ![o] = Linked(NoFields, id)], InUse')
  /\ dirty' = dirty \ {h}

-----------------------------------------------------------------------------
(* Saving and loading *)

SavedAs(id) ==
  [id |-> id, link |-> IF id \in Handles THEN object[stored[id]].currentLink ELSE None]

\* saveObject retrieves the objects and writes the properties of each once.
Save(list) ==
  /\ Idle /\ list # <<>>
  /\ \A i, j \in DOMAIN list : i # j => list[i] # list[j]
  /\ \A i \in DOMAIN list : IF list[i] \in Handles
                              THEN stored[list[i]] # None /\ list[i] \notin dirty
                              ELSE Exists(list[i])
  /\ file' = [i \in DOMAIN list |-> SavedAs(list[i])]
  /\ UNCHANGED <<exists, stored, object, dirty, observes, handles, load>>

\* Objects bounds the loads that can fail and leave handles put aside.
Fits ==
  Cardinality(InUse) + Cardinality({i \in DOMAIN file : file[i].id \in Handles})
    <= Cardinality(Objects)

StartLoad(overwrite) ==
  /\ Idle /\ file # <<>> /\ Fits
  /\ load' = [overwrite |-> overwrite, todo |-> file]
  /\ UNCHANGED <<exists, stored, object, dirty, observes, handles, file>>

Loading == load # None /\ load.todo # <<>>
Entry == Head(load.todo)
InRepository(id) == IF id \in Handles THEN stored[id] # None ELSE Exists(id)
Refused == InRepository(Entry.id) /\ ~load.overwrite

\* restoreObject throws: the load is over, the processor keeps what it has.
LoadFails ==
  /\ Loading /\ Refused
  /\ load' = None
  /\ UNCHANGED <<exists, stored, object, dirty, observes, handles, file>>

LoadTarget ==
  /\ Loading /\ ~Refused /\ Entry.id \in Targets
  /\ StoreTarget(Entry.id)
  /\ load' = [load EXCEPT !.todo = Tail(@)]
  /\ UNCHANGED <<handles, file>>

\* MUTANT of LoadHandle: CurrentLink is read after it was blanked.
LoadHandleBlank ==
  /\ Loading /\ ~Refused /\ Entry.id \in Handles
  /\ \E o \in Objects :
       /\ StoreHandle(Entry.id, o, None)
       /\ handles' = Append(handles, [link |-> None, handle |-> o])
  /\ object' = Cleared(object, InUse')
  /\ load' = [load EXCEPT !.todo = Tail(@)]
  /\ UNCHANGED <<exists, file>>

\* RelinkableHandleProcessor::process: the handle is created with a blank link,
\* and the saved one put aside.
LoadHandle ==
  /\ Loading /\ ~Refused /\ Entry.id \in Handles
  /\ \E o \in Objects :
       /\ StoreHandle(Entry.id, o, None)
       /\ handles' = Append(handles, [link |-> Entry.link, handle |-> o])
  /\ object' = Cleared(object, InUse')
  /\ load' = [load EXCEPT !.todo = Tail(@)]
  /\ UNCHANGED <<exists, file>>

\* linkTo has returned for the first n handles put aside.
LinkedUpTo(n) ==
  [o \in Objects |->
     LET mine == {i \in 1 .. n : handles[i].handle = o}
     IN IF mine = {} THEN object[o]
        ELSE Linked(object[o], handles[CHOOSE i \in mine : TRUE].link)]

\* RelinkableHandleProcessor::postProcess: linkTo for each handle put aside, and then
\* the list is cleared.
PostProcess ==
  /\ load # None /\ load.todo = <<>>
  /\ \A i \in DOMAIN handles : Linkable(handles[i].link)
  /\ handles' = <<>>
  /\ load' = None
  /\ UNCHANGED <<exists, stored, dirty, observes, file>>
  /\ object' = Cleared(LinkedUpTo(Len(handles)), InUse')

\* linkTo throws for one of them: the load fails, with the list as it is.
PostProcessFails ==
  /\ load # None /\ load.todo = <<>>
  /\ \E n \in DOMAIN handles :
       LET last == handles[n]
       IN /\ \A i \in 1 .. n - 1 : Linkable(handles[i].link)
          /\ \E fields \in LinkThrows(object[last.handle], last.link) :
               object' = [LinkedUpTo(n - 1) EXCEPT ![last.handle] = fields]
  /\ load' = None
  /\ UNCHANGED <<exists, stored, dirty, observes, handles, file>>

-----------------------------------------------------------------------------

Lists == UNION {[1 .. n -> Ids] : n \in 1 .. MaxFile}

Next ==
  \/ \E t \in Targets : Store(t) \/ DeleteTarget(t)
  \/ \E h \in Handles : DeleteHandle(h) \/ Recreate(h)
  \/ \E h \in Handles, id \in Targets \cup {None} : CreateHandle(h, id)
  \/ \E h \in Handles, id \in Ids \cup {None} : LinkTo(h, id)
  \/ \E list \in Lists : Save(list)
  \/ \E overwrite \in BOOLEAN : StartLoad(overwrite)
  \/ LoadFails \/ LoadTarget \/ LoadHandle \/ PostProcess \/ PostProcessFails

Spec == Init /\ [][Next]_vars

-----------------------------------------------------------------------------
(* Properties *)

\* The library handle of every handle object links to an object that was stored
\* under the ID that CurrentLink gives, whichever calls failed half way; CurrentLink
\* can be behind only after a linkTo whose observers threw, and until one returns.
LinkAsNamed ==
  \A o \in Objects : LET f == object[o]
    IN IF f.behind THEN f.handle_ # None
       ELSE f.currentLink # None => f.handle_ # None /\ f.handle_.id = f.currentLink

\* A load that succeeds leaves every handle of the file with the link it was saved
\* with, to the present object of that ID, wherever in the file that object was.
LoadLinks ==
  [][load # None /\ load' = None /\ handles' = <<>> /\ load.todo = <<>> =>
       \A i \in DOMAIN file : file[i].id \in Handles =>
         LET f == object'[stored[file[i].id]]
         IN /\ f.currentLink = file[i].link
            /\ f.currentLink # None => f.handle_ = [id |-> f.currentLink, present |-> TRUE]]_vars
=============================================================================
