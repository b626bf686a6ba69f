---------------------------- MODULE RepositoryXL ----------------------------
(***************************************************************************)
(* The object store in Excel (ohxl/repositoryxl.cpp, callingrange.cpp,     *)
(* objectwrapperxl.cpp): Repository, where every object also resides in    *)
(* the calling range of the cell that stored it, and garbage collection of *)
(* the objects whose cell was deleted.                                     *)
(*                                                                         *)
(* A range of CellRanges is a worksheet cell, named when it first calls;   *)
(* any other is the one that all VBA callers share.  The key of a          *)
(* destroyed range stands again for the next, new, one.                    *)
(***************************************************************************)
EXTENDS Repository

CONSTANTS
  Ranges,      \* CallingRange allocations
  CellRanges   \* those of worksheet cells, which the user may delete

ASSUME RepositoryXLAssumption ==
  /\ CellRanges \subseteq Ranges /\ None \notin Ranges
  /\ ~SplitConstruction

VARIABLES
  callingRanges,  \* the keys in callingRanges_
  valid,          \* CallingRange::valid(): the name still refers to a cell
  home,           \* ObjectWrapperXL::callingRange_
  residents,      \* CallingRange::residentObjects_: range -> ID -> weak_ptr
  gc              \* the activation of collectGarbage, None if there is none

xlVars == <<callingRanges, valid, home, residents, gc>>
varsXL == <<vars, xlVars>>

\* todo are the invalid ranges to visit, range the one being cleared; next is
\* where the iterator over its residents points, None at the end; passed are the
\* IDs before it.
Collection == [deletePermanent: BOOLEAN, todo: SUBSET Ranges, range: Ranges \cup {None},
               next: Ids \cup {None}, passed: SUBSET Ids]

ASSUME NoneIsNoCollection == None \notin Collection

TypeOKXL ==
  /\ TypeOK
  /\ callingRanges \subseteq Ranges
  /\ valid \in [Ranges -> BOOLEAN]
  /\ home \in [Wrappers -> Ranges \cup {None}]
  /\ \A w \in Wrappers : home[w] # None <=> w \in live
  /\ residents \in [Ranges -> [Ids -> Wrappers \cup {None}]]
  /\ gc \in Collection \cup {None}

InitXLVars ==
  /\ callingRanges = {}
  /\ valid = [r \in Ranges |-> TRUE]
  /\ home = [w \in Wrappers |-> None]
  /\ residents = [r \in Ranges |-> [id \in Ids |-> None]]
  /\ gc = None

InitXL == Init /\ InitXLVars

-----------------------------------------------------------------------------
(* Calling ranges *)

Residents(r) == {id \in Ids : residents[r][id] # None}

\* No shared_ptr to a CallingRange of this key.
Unnamed(r) == r \notin callingRanges /\ \A w \in live : home[w] # r

\* The range of a cell that has called before and still exists, or a new one.
MayCallFrom(r) == Unnamed(r) \/ (r \in callingRanges /\ valid[r])

\* getCallingRange: a new range stays in the map whatever becomes of the call.
GetCallingRange(r) ==
  /\ MayCallFrom(r)
  /\ callingRanges' = callingRanges \cup {r}
  /\ valid' = [valid EXCEPT ![r] = TRUE]

\* The user deletes the cell: its name no longer refers to a range.
DeleteCell(r) ==
  /\ MayCall /\ gc = None
  /\ r \in CellRanges /\ ~Unnamed(r) /\ valid[r]
  /\ valid' = [valid EXCEPT ![r] = FALSE]
  /\ UNCHANGED <<vars, callingRanges, home, residents, gc>>

-----------------------------------------------------------------------------
(* Storing *)

StoreNewXL(r) ==
  /\ StoreNew /\ GetCallingRange(r)
  /\ \E w \in live' \ live :
       /\ home' = [home EXCEPT ![w] = r]
       /\ residents' = [residents EXCEPT ![r][held.id] = w]
  /\ UNCHANGED gc

\* MUTANT of Move: the object leaves its old range and enters no other.
MoveUnlisted(w, r) ==
  /\ home' = [home EXCEPT ![w] = r]
  /\ residents' = [residents EXCEPT ![home[w]][storedAs[w]] = None]

\* MUTANT of Move: resetCaller leaves the wrapper without a range.
MoveHomeless(w, r) ==
  /\ home' = [home EXCEPT ![w] = None]
  /\ residents' = [residents EXCEPT ![home[w]][storedAs[w]] = None, ![r][storedAs[w]] = w]

\* resetCaller and registerObject: wrapper w moves to range r.
Move(w, r) ==
  /\ home' = [home EXCEPT ![w] = r]
  /\ residents' = [residents EXCEPT ![home[w]][storedAs[w]] = None, ![r][storedAs[w]] = w]

\* An object moves from its old range to the one that stores it anew; only then
\* does overwrite matter.
StoreOverXL(r, overwrite) ==
  /\ StoreOver /\ GetCallingRange(r)
  /\ LET w == objectMap[held.id]
     IN IF home[w] = r THEN UNCHANGED <<home, residents>> ELSE overwrite /\ Move(w, r)
  /\ UNCHANGED gc

\* storeObject throws: a cell that cannot be named, an ID that initializeID
\* rejects, or one that resides in another cell.
StoreRefusedXL(r) ==
  /\ DropHeld
  /\ \/ Unnamed(r) /\ UNCHANGED <<callingRanges, valid>>
     \/ /\ GetCallingRange(r)
        /\ Exists(held.id) => home[objectMap[held.id]] # r
  /\ UNCHANGED <<home, residents, gc>>

\* MUTANT of Unregister: the entry of the wrapper's range is left behind.
UnregisterNothing(w) == UNCHANGED residents

\* unregisterObject erases by ID, whichever wrapper the entry has by then.
Unregister(w) == residents' = [residents EXCEPT ![home[w]][storedAs[w]] = None]

-----------------------------------------------------------------------------
(* Destruction *)

\* ~ObjectWrapperXL erases the very entry that the iterator of a running
\* clearResidentObjects points at.
Dangles(w) ==
  gc # None /\ gc.range = home[w] /\ gc.next = storedAs[w] /\ gc.next # None

DestroyXL(w) ==
  /\ Destroy(w) /\ ~Dangles(w)
  /\ Unregister(w)
  /\ home' = [home EXCEPT ![w] = None]
  /\ UNCHANGED <<callingRanges, valid, gc>>

\* Undefined behaviour: the iterator is used after its entry was erased.
DanglingIterator ==
  /\ stack = <<>> /\ ~crashed /\ \E w \in Garbage : Dangles(w)
  /\ crashed' = TRUE
  /\ UNCHANGED <<objectMap, live, objectVars, dirty, builtFrom, links, held, stack, xlVars>>

RestartXL ==
  /\ Restart
  /\ callingRanges' = {}
  /\ valid' = [r \in Ranges |-> TRUE]
  /\ home' = [w \in Wrappers |-> None]
  /\ residents' = [r \in Ranges |-> [id \in Ids |-> None]]
  /\ gc' = None

\* RepositoryXL::clear, when Excel closes the addin.
Clear ==
  /\ MayCall /\ gc = None
  /\ Erase(Ids)
  /\ callingRanges' = {}
  /\ UNCHANGED <<live, objectVars, dirty, builtFrom, links, held, stack, crashed>>
  /\ UNCHANGED <<valid, home, residents, gc>>

-----------------------------------------------------------------------------
(* Garbage collection *)

\* collectGarbage passes over the ranges that are valid.
CollectGarbage(deletePermanent) ==
  /\ MayCall /\ gc = None
  /\ gc' = [deletePermanent |-> deletePermanent,
            todo |-> {r \in callingRanges : ~valid[r]},
            range |-> None, next |-> None, passed |-> {}]
  /\ UNCHANGED <<vars, callingRanges, valid, home, residents>>

\* Destructors run before the collection goes on.
Collecting == gc # None /\ stack = <<>> /\ Garbage = {} /\ ~crashed

\* ++i leads to a resident not yet passed; which one depends on the spelling of
\* the IDs.
Advance(collection, ids) ==
  \E next \in (IF ids = {} THEN {None} ELSE ids) : gc' = [collection EXCEPT !.next = next]

\* clearResidentObjects of one more range.
CollectRange ==
  /\ Collecting /\ gc.range = None
  /\ \E r \in gc.todo :
       Advance([gc EXCEPT !.todo = @ \ {r}, !.range = r, !.passed = {}], Residents(r))
  /\ UNCHANGED <<vars, callingRanges, valid, home, residents>>

AtResident == Collecting /\ gc.range # None /\ gc.next # None

\* MUTANT of Spared: permanent objects are never spared.
SparedNever == FALSE

\* MUTANT of Spared: permanent objects are spared whatever deletePermanent says.
SparedRegardless == permanent[residents[gc.range][gc.next]]

\* A permanent resident that this collection keeps.
Spared == ~gc.deletePermanent /\ permanent[residents[gc.range][gc.next]]

Passed == [gc EXCEPT !.passed = @ \cup {gc.next}]
Ahead == Residents(gc.range) \ Passed.passed

\* MUTANT of CollectSpares: the iterator stays on the permanent object.
CollectStays ==
  /\ AtResident /\ Spared
  /\ UNCHANGED <<vars, callingRanges, valid, home, residents, gc>>

CollectSpares ==
  /\ AtResident /\ Spared
  /\ Advance(Passed, Ahead)
  /\ UNCHANGED <<vars, callingRanges, valid, home, residents>>

\* The iterator moves on before deleteObject; without deletePermanent the entry
\* is erased here, with it by the destructor.
CollectResident ==
  /\ AtResident /\ ~Spared /\ Exists(gc.next)
  /\ Erase({gc.next})
  /\ residents' = IF gc.deletePermanent THEN residents
                  ELSE [residents EXCEPT ![gc.range][gc.next] = None]
  /\ Advance(Passed, Ahead)
  /\ UNCHANGED <<live, objectVars, dirty, builtFrom, links, held, stack, crashed>>
  /\ UNCHANGED <<callingRanges, valid, home>>

\* deleteObject throws when the map does not have the ID, out of collectGarbage.
CollectFails ==
  /\ AtResident /\ ~Spared /\ ~Exists(gc.next)
  /\ gc' = None
  /\ UNCHANGED <<vars, callingRanges, valid, home, residents>>

\* What is left of the residents is cleared with deletePermanent; a range without
\* residents leaves the map.
FinishRange ==
  /\ Collecting /\ gc.range # None /\ gc.next = None
  /\ residents' = IF gc.deletePermanent
                  THEN [residents EXCEPT ![gc.range] = [id \in Ids |-> None]]
                  ELSE residents
  /\ callingRanges' = {r \in callingRanges : r = gc.range =>
                         \E id \in Ids : residents'[r][id] # None}
  /\ gc' = [gc EXCEPT !.range = None, !.passed = {}]
  /\ UNCHANGED <<vars, valid, home>>

FinishCollection ==
  /\ Collecting /\ gc.range = None /\ gc.todo = {}
  /\ gc' = None
  /\ UNCHANGED <<vars, callingRanges, valid, home, residents>>

-----------------------------------------------------------------------------

StepXL ==
  \/ /\ \/ RetrieveNext \/ FinishRecreate \/ CallFails \/ FinishRetrieve \/ FinishConstruct
        \/ NotifyNext \/ FinishUpdate \/ FinishReset
     /\ UNCHANGED xlVars
  \/ \E w \in Wrappers : DestroyXL(w)
  \/ DanglingIterator
  \/ CollectRange \/ CollectSpares \/ CollectResident \/ CollectFails
  \/ FinishRange \/ FinishCollection

CallXL ==
  \/ /\ gc = None
     /\ \/ \E id \in Ids : Retrieve(id)
        \/ /\ \E r \in Ranges : MayCallFrom(r)
           /\ \E id \in Ids, perm \in BOOLEAN : \E ps \in SUBSET Uses[id] :
                Construct(id, ps, perm)
        \/ Delete
     /\ UNCHANGED xlVars
  \/ \E r \in Ranges : \/ StoreNewXL(r) \/ StoreRefusedXL(r)
                        \/ \E overwrite \in BOOLEAN : StoreOverXL(r, overwrite)
  \/ \E r \in Ranges : DeleteCell(r)
  \/ \E deletePermanent \in BOOLEAN : CollectGarbage(deletePermanent)
  \/ Clear

NextXL == StepXL \/ CallXL \/ RestartXL

SpecXL == InitXL /\ [][NextXL]_varsXL

FairSpecXL == SpecXL /\ WF_varsXL(StepXL)

-----------------------------------------------------------------------------
(* Properties *)

\* An entry of a resident list is for a live wrapper of that ID and that range:
\* whatever moves, replaces or destroys objects, ~ObjectWrapperXL and resetCaller
\* keep the lists free of wrappers that are gone or live elsewhere.
ResidentsLive ==
  \A r \in Ranges, id \in Ids : LET w == residents[r][id]
    IN w # None => w \in live /\ storedAs[w] = id /\ home[w] = r

\* Every stored object is among the residents of its calling range, and between
\* calls that range is in the map, where garbage collection looks for it.
StoredIsResident ==
  \A id \in Ids : Exists(id) =>
    LET r == home[objectMap[id]]
    IN residents[r][id] = objectMap[id] /\ (Quiet => r \in callingRanges)

\* A garbage collection that ends leaves no stored object whose cell was deleted,
\* save the permanent ones it was to keep: "Delete all objects orphaned by the
\* deletion of the calling cell.  By default this function does not delete
\* permanent objects."
OrphansCollected ==
  [][gc # None /\ gc' = None /\ ~crashed =>
       \A w \in Stored : valid[home[w]] \/ (~gc.deletePermanent /\ permanent[w])]_varsXL

\* A garbage collection takes only "objects orphaned by the deletion of the calling
\* cell", and permanent ones only if told to.
OnlyOrphansCollected ==
  [][gc # None => \A w \in Stored : w \notin Stored' /\ ~crashed =>
       ~valid[home[w]] /\ (gc.deletePermanent \/ ~permanent[w])]_varsXL

\* Incrementing the iterator before deleteObject keeps it valid.
IteratorSurvives == ~crashed

\* A garbage collection ends, of its own accord or with an error, unless the process
\* dies of it: each resident is visited once although deletions change the list.
CollectionEnds == gc # None ~> gc = None \/ crashed
=============================================================================
