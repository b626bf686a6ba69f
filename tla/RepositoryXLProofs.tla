------------------------- MODULE RepositoryXLProofs -------------------------
(***************************************************************************)
(* Proofs about RepositoryXL for any IDs, wrappers and cells: the lists of *)
(* residents, and, where users delete cells and not objects, what garbage  *)
(* collection takes.                                                       *)
(***************************************************************************)
EXTENDS RepositoryXL, RepositoryProofs

\* The inductive invariant of the resident lists.
ResidenceInv == MemoryInv /\ TypeOKXL /\ ResidentsLive

\* The residents of a range in the map are stored, save those that the running
\* collection, which takes permanent objects too, has deleted.
ListedIsStored ==
  \A r \in callingRanges, id \in Ids : residents[r][id] # None =>
    \/ objectMap[id] = residents[r][id]
    \/ /\ gc # None /\ gc.range = r /\ id \in gc.passed
       /\ objectMap[id] = None /\ gc.deletePermanent

\* Stored objects are among the residents of their range, which is in the map.
StoredIsListed ==
  \A id \in Ids : Exists(id) =>
    /\ residents[home[objectMap[id]]][id] = objectMap[id]
    /\ home[objectMap[id]] \in callingRanges

\* A wrapper that lives on because others observe it is in a range from which
\* nothing is stored any more: no other wrapper has taken its place in the list.
UnstoredIsGone ==
  \A w \in live \ Stored :
    /\ storedAs[w] \in Ids
    /\ ~(home[w] \in callingRanges /\ valid[home[w]])
    /\ residents[home[w]][storedAs[w]] \in {None, w}

\* A collection runs alone, over invalid ranges of the map, and what is orphaned
\* lies ahead of it, unless it is to stay.
CollectionRuns == gc # None =>
  /\ held = None /\ stack = <<>>
  /\ gc.todo \subseteq callingRanges /\ \A r \in gc.todo : ~valid[r] /\ r # gc.range
  /\ gc.range # None => gc.range \in callingRanges /\ ~valid[gc.range]
  /\ \A w \in Stored :
       valid[home[w]] \/ home[w] \in gc.todo \cup {gc.range}
         \/ (~gc.deletePermanent /\ permanent[w])

\* In the range being cleared: the iterator is at a resident not yet passed, or has
\* passed them all; those passed are deleted or to stay.
RangeCleared == gc # None /\ gc.range # None =>
  /\ gc.next # None => gc.next \in Residents(gc.range) \ gc.passed
  /\ gc.next = None => Residents(gc.range) \subseteq gc.passed
  /\ \A id \in gc.passed : LET w == residents[gc.range][id]
       IN w # None => IF gc.deletePermanent THEN objectMap[id] = None ELSE permanent[w]

\* The inductive invariant of sheets whose users delete cells, never objects.
SheetInv ==
  /\ ResidenceInv /\ Deletable = {}
  /\ ListedIsStored /\ StoredIsListed /\ UnstoredIsGone /\ CollectionRuns /\ RangeCleared

-----------------------------------------------------------------------------
(* The memory of the object store *)

LEMMA DropHeldSafe == ASSUME MemoryInv, DropHeld PROVE MemoryInv'
<1>1. TypeOK' /\ stack = <<>> /\ stack' = <<>>
  BY DEF MemoryInv, TypeOK, DropHeld, CanStore, Quiet, objectVars, links
<1>2. FramesSafe'
  BY <1>1, EmptyStack DEF FramesSafe
<1> QED
  BY <1>1, <1>2, SameMemory DEF MemoryInv, DropHeld, objectVars

LEMMA EraseSafe ==
  ASSUME MemoryInv, NEW ids, Erase(ids), stack = <<>>,
         UNCHANGED <<live, objectVars, dirty, builtFrom, links, held, stack, crashed>>
  PROVE  MemoryInv'
<1>1. TypeOK'
  BY DEF MemoryInv, Erase, TypeOK, objectVars, links
<1>2. LinksMatch' /\ FramesSafe'
  BY EmptyStack DEF MemoryInv, LinksMatch, FramesSafe, links
<1>3. MapSafe'
  BY DEF MemoryInv, MapSafe, Erase, Exists, objectVars
<1> QED
  BY <1>1, <1>2, <1>3 DEF MemoryInv

LEMMA CrashSafe ==
  ASSUME MemoryInv, stack = <<>>, crashed' = TRUE,
         UNCHANGED <<objectMap, live, objectVars, dirty, builtFrom, links, held, stack>>
  PROVE  MemoryInv'
<1>1. TypeOK' /\ LinksMatch' /\ MapSafe'
  BY SameMemory DEF MemoryInv, TypeOK, objectVars, links
<1>2. FramesSafe'
  BY EmptyStack DEF FramesSafe
<1> QED
  BY <1>1, <1>2 DEF MemoryInv

\* The steps inside calls of the object store, and those that begin one.
Inner ==
  \/ RetrieveNext \/ FinishRecreate \/ CallFails \/ FinishRetrieve \/ FinishConstruct
  \/ NotifyNext \/ FinishUpdate \/ FinishReset

Begin ==
  \/ \E id \in Ids : Retrieve(id)
  \/ \E id \in Ids, perm \in BOOLEAN : \E ps \in SUBSET Uses[id] : Construct(id, ps, perm)

LEMMA CallsApart ==
  ASSUME Inner \/ Begin
  PROVE  UNCHANGED <<objectMap, live, objectVars>> /\ (Inner => stack # <<>>)
BY DEF Inner, Begin, RetrieveNext, FinishRecreate, CallFails, FinishRetrieve, FinishConstruct,
       NotifyNext, FinishUpdate, FinishReset, Retrieving, Notifying, Retrieve, Construct

LEMMA CallsSafe == ASSUME MemoryInv, Inner \/ Begin PROVE MemoryInv'
BY RetrieveSafe, ConstructSafe, NotifySafe, StoreSafe DEF Inner, Begin

\* The store's own variables follow its rules, whatever Excel adds.
LEMMA MemoryStepXL == ASSUME MemoryInv, [NextXL]_varsXL PROVE MemoryInv'
<1>1. CASE CallXL
  <2>1. CASE \E r \in Ranges : \/ StoreNewXL(r) \/ StoreRefusedXL(r)
                               \/ \E overwrite \in BOOLEAN : StoreOverXL(r, overwrite)
    BY <2>1, StoreSafe, DropHeldSafe DEF StoreNewXL, StoreRefusedXL, StoreOverXL
  <2>2. CASE Clear
    BY <2>2, EraseSafe DEF Clear, MayCall, Quiet
  <2>3. CASE \/ \E r \in Ranges : DeleteCell(r)
             \/ \E deletePermanent \in BOOLEAN : CollectGarbage(deletePermanent)
    BY <2>3, StutterSafe DEF DeleteCell, CollectGarbage
  <2> QED
    BY <1>1, <2>1, <2>2, <2>3, CallsSafe, DeleteSafe DEF CallXL, Begin
<1>2. CASE StepXL
  <2>1. CASE DanglingIterator
    BY <2>1, CrashSafe DEF DanglingIterator
  <2>2. CASE CollectResident
    BY <2>2, EraseSafe DEF CollectResident, AtResident, Collecting
  <2>3. CASE CollectRange \/ CollectSpares \/ CollectFails \/ FinishRange \/ FinishCollection
    BY <2>3, StutterSafe DEF CollectRange, CollectSpares, CollectFails, FinishRange, FinishCollection
  <2>4. CASE \E w \in Wrappers : DestroyXL(w)
    BY <2>4, DeleteSafe DEF DestroyXL
  <2> QED
    BY <1>2, <2>1, <2>2, <2>3, <2>4, CallsSafe DEF StepXL, Inner
<1>3. CASE RestartXL
  BY <1>3, DeleteSafe DEF RestartXL
<1>4. CASE UNCHANGED varsXL
  BY <1>4, StutterSafe DEF varsXL
<1> QED
  BY <1>1, <1>2, <1>3, <1>4 DEF NextXL

-----------------------------------------------------------------------------
(* The lists of residents *)

LEMMA ResidenceInitSafe == ASSUME InitXL PROVE ResidenceInv
<1>1. MemoryInv
  BY InitSafe DEF InitXL
<1>2. live = {}
  BY DEF InitXL, Init
<1> QED
  BY <1>1, <1>2, RepositoryXLAssumption
  DEF MemoryInv, InitXL, InitXLVars, ResidenceInv, TypeOKXL, ResidentsLive

\* What remains to be shown of a step that leaves the wrappers as they are.
LEMMA ListsSafe ==
  ASSUME ResidenceInv, MemoryInv', UNCHANGED <<live, storedAs, home>>,
         callingRanges' \subseteq Ranges, valid' \in [Ranges -> BOOLEAN],
         residents' \in [Ranges -> [Ids -> Wrappers \cup {None}]],
         \A r \in Ranges, id \in Ids : residents'[r][id] \in {None, residents[r][id]},
         gc' \in Collection \cup {None}
  PROVE  ResidenceInv'
BY RepositoryAssumption DEF MemoryInv, ResidenceInv, TypeOKXL, ResidentsLive

LEMMA StoreNewSafeXL ==
  ASSUME ResidenceInv, MemoryInv', NEW r \in Ranges, StoreNewXL(r)
  PROVE  ResidenceInv'
<1>1. PICK w \in live' \ live :
        /\ home' = [home EXCEPT ![w] = r]
        /\ residents' = [residents EXCEPT ![r][held.id] = w]
  BY DEF StoreNewXL
<1>2. /\ w \in Wrappers /\ w \notin live /\ held.id \in Ids
      /\ live' = live \cup {w} /\ storedAs' = [storedAs EXCEPT ![w] = held.id]
  BY <1>1 DEF StoreNewXL, StoreNew, CanStore, SetObject, ResidenceInv, MemoryInv, TypeOK, HeldObject
<1>3. /\ residents' \in [Ranges -> [Ids -> Wrappers \cup {None}]]
      /\ residents'[r][held.id] = w
      /\ \A q \in Ranges, id \in Ids :
           q # r \/ id # held.id => residents'[q][id] = residents[q][id]
  BY <1>1, <1>2 DEF ResidenceInv, TypeOKXL
<1>4. /\ home'[w] = r /\ storedAs'[w] = held.id
      /\ \A x \in Wrappers \ {w} : home'[x] = home[x] /\ storedAs'[x] = storedAs[x]
      /\ home' \in [Wrappers -> Ranges \cup {None}]
  BY <1>1, <1>2 DEF ResidenceInv, MemoryInv, TypeOKXL, TypeOK
<1>5. TypeOKXL'
  BY <1>2, <1>3, <1>4, RepositoryXLAssumption
  DEF StoreNewXL, GetCallingRange, ResidenceInv, MemoryInv, TypeOKXL
<1>6. ResidentsLive'
  <2> SUFFICES ASSUME NEW q \in Ranges, NEW id \in Ids, residents'[q][id] # None
               PROVE  /\ residents'[q][id] \in live'
                      /\ storedAs'[residents'[q][id]] = id /\ home'[residents'[q][id]] = q
    BY DEF ResidentsLive
  <2>1. CASE q = r /\ id = held.id
    BY <1>2, <1>3, <1>4, <2>1
  <2>2. CASE q # r \/ id # held.id
    <3>1. /\ residents'[q][id] = residents[q][id] /\ residents[q][id] \in live
          /\ storedAs[residents[q][id]] = id /\ home[residents[q][id]] = q
      BY <1>3, <2>2 DEF ResidenceInv, ResidentsLive
    <3> QED
      BY <1>2, <1>4, <3>1 DEF ResidenceInv, MemoryInv, TypeOK
  <2> QED
    BY <2>1, <2>2
<1> QED
  BY <1>5, <1>6 DEF ResidenceInv

\* Wherever a wrapper moves, it is listed there and nowhere else.
LEMMA MoveSafeXL ==
  ASSUME ResidenceInv, NEW w \in live, NEW r \in Ranges, home[w] # r, Move(w, r)
  PROVE  /\ residents' \in [Ranges -> [Ids -> Wrappers \cup {None}]]
         /\ home' \in [Wrappers -> Ranges \cup {None}]
         /\ home'[w] = r /\ \A x \in Wrappers \ {w} : home'[x] = home[x]
         /\ storedAs[w] \in Ids => residents'[r][storedAs[w]] = w
         /\ \A q \in Ranges, id \in Ids :
              residents'[q][id] = IF id = storedAs[w] /\ q = r THEN w
                                  ELSE IF id = storedAs[w] /\ q = home[w] THEN None
                                  ELSE residents[q][id]
<1>1. w \in Wrappers /\ home[w] \in Ranges
  BY DEF ResidenceInv, MemoryInv, TypeOKXL, TypeOK
<1>2. home' \in [Wrappers -> Ranges \cup {None}] /\ home'[w] = r
      /\ \A x \in Wrappers \ {w} : home'[x] = home[x]
  BY <1>1 DEF Move, ResidenceInv, TypeOKXL
<1>3. residents' = [residents EXCEPT ![home[w]][storedAs[w]] = None, ![r][storedAs[w]] = w]
  BY DEF Move
<1>4. residents \in [Ranges -> [Ids -> Wrappers \cup {None}]]
  BY DEF ResidenceInv, TypeOKXL
<1>5. residents' \in [Ranges -> [Ids -> Wrappers \cup {None}]]
  BY <1>1, <1>3, <1>4
<1>6. \A q \in Ranges, id \in Ids :
        residents'[q][id] = IF id = storedAs[w] /\ q = r THEN w
                            ELSE IF id = storedAs[w] /\ q = home[w] THEN None
                            ELSE residents[q][id]
  BY <1>1, <1>3, <1>4
<1> QED
  BY <1>2, <1>5, <1>6

LEMMA StoreOverSafeXL ==
  ASSUME ResidenceInv, MemoryInv', NEW r \in Ranges, NEW overwrite, StoreOverXL(r, overwrite)
  PROVE  ResidenceInv'
<1> DEFINE w == objectMap[held.id]
<1>1. /\ held.id \in Ids /\ w \in live /\ w \in Wrappers /\ storedAs[w] = held.id
      /\ storedAs' = [storedAs EXCEPT ![w] = held.id] /\ UNCHANGED <<objectMap, live>>
  BY DEF StoreOverXL, StoreOver, CanStore, SetObject, Exists, ResidenceInv, MemoryInv,
         TypeOK, HeldObject, MapSafe
<1>2. storedAs' = storedAs
  BY <1>1 DEF ResidenceInv, MemoryInv, TypeOK
<1>3. callingRanges' \subseteq Ranges /\ valid' \in [Ranges -> BOOLEAN] /\ UNCHANGED gc
  BY DEF StoreOverXL, GetCallingRange, ResidenceInv, TypeOKXL
<1>4. CASE home[w] = r
  <2>1. UNCHANGED <<home, residents>>
    BY <1>4 DEF StoreOverXL
  <2> QED
    BY <1>1, <1>2, <1>3, <2>1, ListsSafe DEF ResidenceInv, TypeOKXL
<1>5. CASE home[w] # r
  <2>1. Move(w, r)
    BY <1>5 DEF StoreOverXL
  <2> HIDE DEF w
  <2>2. TypeOKXL'
    BY <1>1, <1>3, <1>5, <2>1, MoveSafeXL, RepositoryXLAssumption
    DEF MemoryInv, ResidenceInv, TypeOKXL
  <2>3. ResidentsLive'
    <3> SUFFICES ASSUME NEW q \in Ranges, NEW id \in Ids, residents'[q][id] # None
                 PROVE  /\ residents'[q][id] \in live'
                        /\ storedAs'[residents'[q][id]] = id /\ home'[residents'[q][id]] = q
      BY DEF ResidentsLive
    <3>1. CASE residents'[q][id] = w /\ q = r /\ id = storedAs[w]
      BY <1>1, <1>2, <1>5, <2>1, <3>1, MoveSafeXL
    <3>2. CASE residents'[q][id] = residents[q][id] /\ ~(id = storedAs[w] /\ q = home[w])
      <4>1. /\ residents[q][id] \in live
            /\ storedAs[residents[q][id]] = id /\ home[residents[q][id]] = q
        BY <3>2 DEF ResidenceInv, ResidentsLive
      <4>2. residents[q][id] # w /\ residents[q][id] \in Wrappers
        BY <3>2, <4>1 DEF ResidenceInv, MemoryInv, TypeOK
      <4> QED
        BY <1>1, <1>2, <1>5, <2>1, <3>2, <4>1, <4>2, MoveSafeXL
    <3> QED
      BY <1>1, <1>5, <2>1, <3>1, <3>2, MoveSafeXL
  <2> QED
    BY <2>2, <2>3 DEF ResidenceInv
<1> QED
  BY <1>4, <1>5

\* What ~ObjectWrapperXL erases is never the entry of a wrapper in another range.
LEMMA DestroySafeXL ==
  ASSUME ResidenceInv, MemoryInv', NEW w \in Wrappers, DestroyXL(w)
  PROVE  ResidenceInv'
<1>1. /\ w \in live /\ live' = live \ {w} /\ storedAs' = [storedAs EXCEPT ![w] = None]
      /\ home' = [home EXCEPT ![w] = None]
      /\ residents' = [residents EXCEPT ![home[w]][storedAs[w]] = None]
      /\ UNCHANGED <<callingRanges, valid, gc>>
  BY DEF DestroyXL, Destroy, Garbage, Unregister
<1>2. home[w] \in Ranges
  BY <1>1 DEF ResidenceInv, TypeOKXL
<1>3. /\ residents' \in [Ranges -> [Ids -> Wrappers \cup {None}]]
      /\ \A r \in Ranges, id \in Ids :
           residents'[r][id] = IF r = home[w] /\ id = storedAs[w] THEN None ELSE residents[r][id]
  BY <1>1, <1>2 DEF ResidenceInv, TypeOKXL
<1>4. TypeOKXL'
  BY <1>1, <1>3, RepositoryXLAssumption DEF MemoryInv, ResidenceInv, TypeOKXL
<1>5. ResidentsLive'
  <2> SUFFICES ASSUME NEW r \in Ranges, NEW id \in Ids, residents'[r][id] # None
               PROVE  /\ residents'[r][id] \in live'
                      /\ storedAs'[residents'[r][id]] = id /\ home'[residents'[r][id]] = r
    BY DEF ResidentsLive
  <2>1. /\ residents'[r][id] = residents[r][id] /\ residents[r][id] \in live
        /\ storedAs[residents[r][id]] = id /\ home[residents[r][id]] = r
        /\ ~(r = home[w] /\ id = storedAs[w])
    BY <1>3 DEF ResidenceInv, ResidentsLive
  <2>2. residents[r][id] # w /\ residents[r][id] \in Wrappers
    BY <2>1 DEF ResidenceInv, MemoryInv, TypeOK
  <2> QED
    BY <1>1, <2>1, <2>2 DEF ResidenceInv, MemoryInv, TypeOK, TypeOKXL
<1> QED
  BY <1>4, <1>5 DEF ResidenceInv

LEMMA RestartSafeXL == ASSUME ResidenceInv, MemoryInv', RestartXL PROVE ResidenceInv'
<1>1. live' = {}
  BY DEF RestartXL, Restart
<1> QED
  BY <1>1 DEF MemoryInv, RestartXL, ResidenceInv, TypeOKXL, ResidentsLive

\* Where the iterator goes, and what it leaves.
LEMMA AdvanceProperties ==
  ASSUME NEW collection \in Collection, NEW ids \in SUBSET Ids, Advance(collection, ids)
  PROVE  /\ gc' \in Collection
         /\ gc'.deletePermanent = collection.deletePermanent
         /\ gc'.todo = collection.todo /\ gc'.range = collection.range
         /\ gc'.passed = collection.passed
         /\ gc'.next \in IF ids = {} THEN {None} ELSE ids
BY DEF Advance, Collection

LEMMA ResidentsAreIds == Residents(gc.range) \in SUBSET Ids /\ Ahead \in SUBSET Ids
BY DEF Residents, Ahead

\* CollectRange and what comes after a resident, with the fields of the collection.
LEMMA CollectRangeProperties ==
  ASSUME ResidenceInv, CollectRange
  PROVE  \E r \in gc.todo :
           /\ gc' \in Collection
           /\ gc'.deletePermanent = gc.deletePermanent
           /\ gc'.todo = gc.todo \ {r} /\ gc'.range = r /\ gc'.passed = {}
           /\ gc'.next \in IF Residents(r) = {} THEN {None} ELSE Residents(r)
<1>1. gc \in Collection
  BY DEF CollectRange, Collecting, ResidenceInv, TypeOKXL
<1>2. PICK r \in gc.todo :
        Advance([gc EXCEPT !.todo = @ \ {r}, !.range = r, !.passed = {}], Residents(r))
  BY DEF CollectRange
<1> DEFINE c == [gc EXCEPT !.todo = @ \ {r}, !.range = r, !.passed = {}]
<1>3. /\ c \in Collection /\ c.deletePermanent = gc.deletePermanent
      /\ c.todo = gc.todo \ {r} /\ c.range = r /\ c.passed = {}
  BY <1>1, <1>2 DEF Collection
<1>4. Residents(r) \in SUBSET Ids
  BY DEF Residents
<1> HIDE DEF c
<1>5. Advance(c, Residents(r))
  BY <1>2 DEF c
<1> QED
  BY <1>3, <1>4, <1>5, AdvanceProperties

LEMMA NextResidentProperties ==
  ASSUME ResidenceInv, AtResident, Advance(Passed, Ahead)
  PROVE  /\ gc \in Collection /\ gc.range \in Ranges /\ gc.next \in Ids
         /\ gc' \in Collection
         /\ gc'.deletePermanent = gc.deletePermanent
         /\ gc'.todo = gc.todo /\ gc'.range = gc.range
         /\ gc'.passed = gc.passed \cup {gc.next}
         /\ Ahead = Residents(gc.range) \ gc'.passed
         /\ gc'.next \in IF Ahead = {} THEN {None} ELSE Ahead
<1>1. gc \in Collection /\ gc.range \in Ranges /\ gc.next \in Ids
  BY DEF AtResident, Collecting, ResidenceInv, TypeOKXL, Collection
<1>2. /\ Passed \in Collection /\ Passed.deletePermanent = gc.deletePermanent
      /\ Passed.todo = gc.todo /\ Passed.range = gc.range
      /\ Passed.passed = gc.passed \cup {gc.next}
  BY <1>1 DEF Passed, Collection
<1>3. Ahead \in SUBSET Ids
  BY ResidentsAreIds
<1> QED
  BY <1>1, <1>2, <1>3, AdvanceProperties DEF Ahead

LEMMA FinishRangeProperties ==
  ASSUME ResidenceInv, FinishRange
  PROVE  /\ gc \in Collection /\ gc.range \in Ranges /\ gc.next = None
         /\ gc' \in Collection
         /\ gc'.deletePermanent = gc.deletePermanent
         /\ gc'.todo = gc.todo /\ gc'.range = None /\ gc'.next = None
BY DEF FinishRange, Collecting, ResidenceInv, TypeOKXL, Collection

\* Steps of a garbage collection keep to its type.
LEMMA CollectionSafe ==
  ASSUME ResidenceInv, MemoryInv',
         \/ \E deletePermanent \in BOOLEAN : CollectGarbage(deletePermanent)
         \/ CollectRange \/ CollectSpares \/ CollectResident \/ CollectFails
         \/ FinishRange \/ FinishCollection
  PROVE  ResidenceInv'
<1>1. UNCHANGED <<live, storedAs, home, valid>>
  BY DEF CollectGarbage, CollectRange, CollectSpares, CollectResident, CollectFails, FinishRange,
         FinishCollection, vars, objectVars
<1>2. gc' \in Collection \cup {None}
  <2>1. CASE \E deletePermanent \in BOOLEAN : CollectGarbage(deletePermanent)
    BY <2>1 DEF CollectGarbage, ResidenceInv, TypeOKXL, Collection
  <2>2. CASE CollectSpares \/ CollectResident
    BY <2>2, NextResidentProperties DEF CollectSpares, CollectResident
  <2>3. CASE CollectFails \/ FinishCollection
    BY <2>3 DEF CollectFails, FinishCollection
  <2> QED
    BY <2>1, <2>2, <2>3, CollectRangeProperties, FinishRangeProperties
<1>3. CASE CollectResident
  BY <1>1, <1>2, <1>3, ListsSafe DEF CollectResident, ResidenceInv, TypeOKXL
<1>4. CASE FinishRange
  <2>1. /\ residents' \in [Ranges -> [Ids -> Wrappers \cup {None}]]
        /\ \A r \in Ranges, id \in Ids : residents'[r][id] \in {None, residents[r][id]}
    BY <1>4 DEF FinishRange, ResidenceInv, TypeOKXL
  <2>2. callingRanges' \subseteq callingRanges
    BY <1>4 DEF FinishRange
  <2> QED
    BY <1>1, <1>2, <2>1, <2>2, ListsSafe DEF ResidenceInv, TypeOKXL
<1>5. CASE UNCHANGED <<callingRanges, residents>>
  BY <1>1, <1>2, <1>5, ListsSafe DEF ResidenceInv, TypeOKXL
<1> QED
  BY <1>3, <1>4, <1>5
  DEF CollectGarbage, CollectRange, CollectSpares, CollectFails, FinishCollection

LEMMA SameResidence ==
  ASSUME ResidenceInv, MemoryInv', UNCHANGED <<live, storedAs, home, residents, gc>>,
         callingRanges' \subseteq Ranges, valid' \in [Ranges -> BOOLEAN]
  PROVE  ResidenceInv'
BY ListsSafe DEF ResidenceInv, TypeOKXL

LEMMA ResidenceStepSafe == ASSUME ResidenceInv, [NextXL]_varsXL PROVE ResidenceInv'
<1>1. MemoryInv'
  BY MemoryStepXL DEF ResidenceInv
<1>2. callingRanges \subseteq Ranges /\ valid \in [Ranges -> BOOLEAN]
  BY DEF ResidenceInv, TypeOKXL
<1>3. CASE Inner /\ UNCHANGED xlVars
  BY <1>1, <1>2, <1>3, CallsApart, SameResidence DEF xlVars, objectVars
<1>4. CASE DanglingIterator \/ UNCHANGED varsXL
  BY <1>1, <1>2, <1>4, SameResidence DEF DanglingIterator, varsXL, vars, xlVars, objectVars
<1>5. CASE CallXL
  <2>1. CASE (Begin \/ Delete) /\ UNCHANGED xlVars
    <3>1. UNCHANGED <<live, storedAs>>
      BY <2>1, CallsApart DEF Delete, DeleteObjects, DeleteAllObjects, objectVars
    <3> QED
      BY <1>1, <1>2, <2>1, <3>1, SameResidence DEF xlVars
  <2>2. CASE Clear \/ \E r \in Ranges : DeleteCell(r) \/ StoreRefusedXL(r)
    BY <1>1, <1>2, <2>2, SameResidence
    DEF Clear, DeleteCell, StoreRefusedXL, GetCallingRange, DropHeld, vars, objectVars
  <2> QED
    BY <1>1, <1>5, <2>1, <2>2, StoreNewSafeXL, StoreOverSafeXL, CollectionSafe DEF CallXL, Begin
<1>6. CASE StepXL
  BY <1>1, <1>3, <1>4, <1>6, DestroySafeXL, CollectionSafe DEF StepXL, Inner
<1> QED
  BY <1>1, <1>4, <1>5, <1>6, RestartSafeXL DEF NextXL

-----------------------------------------------------------------------------
(* Sheets whose users delete cells *)

\* What the invariant says of what is stored, listed and running, with the wrappers'
\* types: the facts that the steps below start from.
LEMMA SheetTypes ==
  ASSUME ResidenceInv
  PROVE  /\ objectMap \in [Ids -> Wrappers \cup {None}] /\ live \subseteq Wrappers
         /\ storedAs \in [Wrappers -> Ids \cup {None}] /\ permanent \in [Wrappers -> BOOLEAN]
         /\ callingRanges \subseteq Ranges /\ valid \in [Ranges -> BOOLEAN]
         /\ home \in [Wrappers -> Ranges \cup {None}]
         /\ \A w \in live : home[w] \in Ranges
         /\ residents \in [Ranges -> [Ids -> Wrappers \cup {None}]]
         /\ None \notin Wrappers /\ None \notin Ids /\ None \notin Ranges
         /\ \A id \in Ids : objectMap[id] # None =>
              objectMap[id] \in live /\ storedAs[objectMap[id]] = id
         /\ \A r \in Ranges, id \in Ids : residents[r][id] # None =>
              /\ residents[r][id] \in live /\ residents[r][id] \in Wrappers
              /\ storedAs[residents[r][id]] = id /\ home[residents[r][id]] = r
<1>1. \A w \in live : home[w] \in Ranges
  BY DEF ResidenceInv, MemoryInv, TypeOK, TypeOKXL
<1> QED
  BY <1>1, RepositoryAssumption, RepositoryXLAssumption
  DEF ResidenceInv, MemoryInv, TypeOK, TypeOKXL, MapSafe, Exists, ResidentsLive

\* A stored wrapper is stored under its ID, and only there.
LEMMA StoredWrapper ==
  ASSUME ResidenceInv, NEW w \in Stored
  PROVE  /\ w \in live /\ w \in Wrappers /\ home[w] \in Ranges
         /\ storedAs[w] \in Ids /\ objectMap[storedAs[w]] = w
         /\ \A id \in Ids : objectMap[id] = w => id = storedAs[w]
BY SheetTypes DEF Stored

\* Steps that leave alone all that the invariant is about.
LEMMA SameSheet ==
  ASSUME SheetInv, ResidenceInv', UNCHANGED <<objectMap, live, storedAs, permanent, xlVars>>,
         gc = None \/ UNCHANGED <<held, stack>>
  PROVE  SheetInv'
<1>1. ListedIsStored' /\ StoredIsListed' /\ UnstoredIsGone'
  BY DEF SheetInv, ListedIsStored, StoredIsListed, UnstoredIsGone, Stored, Exists, xlVars
<1>2. CollectionRuns'
  BY DEF SheetInv, CollectionRuns, Stored, xlVars
<1>3. RangeCleared'
  BY DEF SheetInv, RangeCleared, Residents, xlVars
<1> QED
  BY <1>1, <1>2, <1>3 DEF SheetInv

\* Where nothing is deleted but cells, no object is.
LEMMA NothingDeleted ==
  ASSUME SheetInv, Delete PROVE UNCHANGED <<objectMap, live, objectVars>>
<1>1. ~ \E list \in DeletionLists : DeleteObjects(list)
  <2> SUFFICES ASSUME NEW n \in 1 .. Cardinality(Ids), NEW list \in [1 .. n -> {}] PROVE FALSE
    BY DEF SheetInv, DeletionLists
  <2>1. n \in Nat /\ 1 <= n
    OBVIOUS
  <2>2. 1 \in 1 .. n
    BY <2>1
  <2> QED
    BY <2>2
<1>2. Ids = {} /\ \E deletePermanent \in BOOLEAN : DeleteAllObjects(deletePermanent)
  BY <1>1 DEF Delete, SheetInv
<1>3. objectMap' = objectMap
  BY <1>2, SheetTypes DEF DeleteAllObjects, Erase, SheetInv
<1> QED
  BY <1>2, <1>3 DEF DeleteAllObjects

\* A range from which a cell may store has no wrapper that lives on unstored.
LEMMA CallersAreClean ==
  ASSUME SheetInv, NEW r \in Ranges, MayCallFrom(r)
  PROVE  /\ \A w \in live : home[w] = r => w \in Stored
         /\ r \notin callingRanges => \A id \in Ids : residents[r][id] = None
BY SheetTypes DEF SheetInv, UnstoredIsGone, MayCallFrom, Unnamed

LEMMA StoreNewKeepsSheet ==
  ASSUME SheetInv, ResidenceInv', NEW r \in Ranges, StoreNewXL(r)
  PROVE  SheetInv'
<1>1. PICK w \in live' \ live :
        /\ home' = [home EXCEPT ![w] = r]
        /\ residents' = [residents EXCEPT ![r][held.id] = w]
  BY DEF StoreNewXL
<1>2. /\ w \in Wrappers /\ w \notin live /\ held # None /\ held.id \in Ids
      /\ objectMap[held.id] = None /\ objectMap' = [objectMap EXCEPT ![held.id] = w]
      /\ live' = live \cup {w} /\ storedAs' = [storedAs EXCEPT ![w] = held.id]
  BY <1>1 DEF StoreNewXL, StoreNew, CanStore, SetObject, Exists, SheetInv, ResidenceInv,
              MemoryInv, TypeOK, HeldObject
<1>3. /\ MayCallFrom(r) /\ callingRanges' = callingRanges \cup {r}
      /\ valid' = [valid EXCEPT ![r] = TRUE] /\ UNCHANGED gc /\ gc = None
  BY <1>2 DEF StoreNewXL, GetCallingRange, SheetInv, CollectionRuns
<1>4. /\ home'[w] = r /\ storedAs'[w] = held.id /\ objectMap'[held.id] = w
      /\ \A x \in live : home'[x] = home[x] /\ storedAs'[x] = storedAs[x]
      /\ \A id \in Ids \ {held.id} : objectMap'[id] = objectMap[id]
      /\ residents'[r][held.id] = w
      /\ \A q \in Ranges, id \in Ids :
           q # r \/ id # held.id => residents'[q][id] = residents[q][id]
  BY <1>1, <1>2, SheetTypes DEF SheetInv
<1>5. /\ w \in Stored' /\ \A x \in Stored : x \in Stored'
      /\ \A x \in live : home[x] = r => x \in Stored
      /\ r \notin callingRanges => \A id \in Ids : residents[r][id] = None
  BY <1>2, <1>3, <1>4, SheetTypes, CallersAreClean DEF Stored, SheetInv
<1>6. ListedIsStored'
  <2> SUFFICES ASSUME NEW q \in callingRanges', NEW id \in Ids, residents'[q][id] # None
               PROVE  objectMap'[id] = residents'[q][id]
    BY DEF ListedIsStored
  <2>1. CASE q # r \/ id # held.id
    <3>1. q \in callingRanges /\ residents'[q][id] = residents[q][id]
      BY <1>3, <1>4, <1>5, <2>1, SheetTypes DEF SheetInv
    <3>2. objectMap[id] = residents[q][id]
      BY <1>3, <3>1 DEF SheetInv, ListedIsStored
    <3> QED
      BY <1>2, <1>4, <3>1, <3>2
  <2> QED
    BY <1>4, <2>1
<1>7. StoredIsListed'
  <2> SUFFICES ASSUME NEW id \in Ids, objectMap'[id] # None
               PROVE  /\ residents'[home'[objectMap'[id]]][id] = objectMap'[id]
                      /\ home'[objectMap'[id]] \in callingRanges'
    BY DEF StoredIsListed, Exists
  <2>1. CASE id # held.id
    <3>1. /\ objectMap'[id] = objectMap[id] /\ objectMap[id] \in live
          /\ residents[home[objectMap[id]]][id] = objectMap[id]
          /\ home[objectMap[id]] \in callingRanges
      BY <1>4, <2>1, SheetTypes DEF SheetInv, StoredIsListed, Exists
    <3> QED
      BY <1>3, <1>4, <2>1, <3>1, SheetTypes DEF SheetInv
  <2> QED
    BY <1>3, <1>4, <2>1
<1>8. UnstoredIsGone'
  <2> SUFFICES ASSUME NEW x \in live' \ Stored'
               PROVE  /\ storedAs'[x] \in Ids
                      /\ ~(home'[x] \in callingRanges' /\ valid'[home'[x]])
                      /\ residents'[home'[x]][storedAs'[x]] \in {None, x}
    BY DEF UnstoredIsGone
  <2>1. x \in live \ Stored /\ home[x] # r /\ home[x] \in Ranges /\ x \in Wrappers
    BY <1>2, <1>5, SheetTypes DEF SheetInv
  <2>2. /\ storedAs[x] \in Ids /\ ~(home[x] \in callingRanges /\ valid[home[x]])
        /\ residents[home[x]][storedAs[x]] \in {None, x}
    BY <2>1 DEF SheetInv, UnstoredIsGone
  <2>3. residents'[home[x]] = residents[home[x]] /\ valid'[home[x]] = valid[home[x]]
    BY <1>1, <1>3, <2>1, SheetTypes DEF SheetInv
  <2> QED
    BY <1>3, <1>4, <2>1, <2>2, <2>3
<1> QED
  BY <1>3, <1>6, <1>7, <1>8 DEF SheetInv, CollectionRuns, RangeCleared

LEMMA StoreOverKeepsSheet ==
  ASSUME SheetInv, ResidenceInv', NEW r \in Ranges, NEW overwrite, StoreOverXL(r, overwrite)
  PROVE  SheetInv'
<1> DEFINE w == objectMap[held.id]
<1>1. /\ held # None /\ held.id \in Ids /\ w \in Stored /\ w \in live /\ storedAs[w] = held.id
      /\ storedAs' = [storedAs EXCEPT ![w] = held.id] /\ UNCHANGED <<objectMap, live>>
  BY SheetTypes
  DEF StoreOverXL, StoreOver, CanStore, SetObject, Exists, Stored, SheetInv, ResidenceInv,
      MemoryInv, TypeOK, HeldObject
<1>2. UNCHANGED <<storedAs, Stored>>
  BY <1>1, SheetTypes DEF SheetInv, Stored
<1>3. /\ MayCallFrom(r) /\ callingRanges' = callingRanges \cup {r}
      /\ valid' = [valid EXCEPT ![r] = TRUE] /\ UNCHANGED gc /\ gc = None
  BY <1>1 DEF StoreOverXL, GetCallingRange, SheetInv, CollectionRuns
<1>4. \/ home[w] = r /\ home' = home /\ residents' = residents
      \/ home[w] # r /\ Move(w, r)
  <2>1. CASE home[w] = r
    BY <2>1 DEF StoreOverXL
  <2>2. CASE home[w] # r
    BY <2>2 DEF StoreOverXL
  <2> QED
    BY <2>1, <2>2
<1> HIDE DEF w
<1>5. /\ home'[w] = r /\ \A x \in Wrappers \ {w} : home'[x] = home[x]
      /\ \A q \in Ranges, id \in Ids :
           residents'[q][id] = IF id = held.id /\ q = r THEN w
                               ELSE IF id = held.id /\ q = home[w] THEN None
                               ELSE residents[q][id]
  <2>1. CASE home[w] # r /\ Move(w, r)
    BY <1>1, <2>1, MoveSafeXL DEF SheetInv
  <2>2. CASE home' = home /\ residents' = residents /\ home[w] = r
    BY <1>1, <2>2 DEF w, SheetInv, StoredIsListed, Exists, Stored
  <2> QED
    BY <1>4, <2>1, <2>2
<1>6. /\ \A x \in live : home[x] = r => x \in Stored
      /\ r \notin callingRanges => \A id \in Ids : residents[r][id] = None
  BY <1>3, CallersAreClean
<1>7. objectMap[held.id] = w /\ \A id \in Ids : objectMap[id] = w => id = held.id
  BY <1>1, StoredWrapper DEF w, SheetInv
<1>8. ListedIsStored'
  <2> SUFFICES ASSUME NEW q \in callingRanges', NEW id \in Ids, residents'[q][id] # None
               PROVE  objectMap[id] = residents'[q][id]
    BY <1>1 DEF ListedIsStored
  <2>1. q \in Ranges
    BY <1>3, SheetTypes DEF SheetInv
  <2>2. CASE id = held.id /\ q = r
    BY <1>5, <1>7, <2>1, <2>2
  <2>3. CASE ~(id = held.id /\ q = r)
    <3>1. residents'[q][id] = residents[q][id]
      BY <1>5, <2>1, <2>3
    <3> QED
      BY <1>3, <1>6, <3>1 DEF SheetInv, ListedIsStored
  <2> QED
    BY <2>2, <2>3
<1>9. StoredIsListed'
  <2> SUFFICES ASSUME NEW id \in Ids, objectMap[id] # None
               PROVE  /\ residents'[home'[objectMap[id]]][id] = objectMap[id]
                      /\ home'[objectMap[id]] \in callingRanges'
    BY <1>1 DEF StoredIsListed, Exists
  <2>1. CASE id = held.id
    BY <1>3, <1>5, <1>7, <2>1
  <2>2. CASE id # held.id
    <3>1. /\ objectMap[id] # w /\ objectMap[id] \in Wrappers /\ home[objectMap[id]] \in Ranges
          /\ residents[home[objectMap[id]]][id] = objectMap[id]
          /\ home[objectMap[id]] \in callingRanges
      BY <1>7, <2>2, SheetTypes DEF SheetInv, StoredIsListed, Exists
    <3> QED
      BY <1>3, <1>5, <2>2, <3>1
  <2> QED
    BY <2>1, <2>2
<1>10. UnstoredIsGone'
  <2> SUFFICES ASSUME NEW x \in live \ Stored
               PROVE  /\ storedAs'[x] \in Ids
                      /\ ~(home'[x] \in callingRanges' /\ valid'[home'[x]])
                      /\ residents'[home'[x]][storedAs'[x]] \in {None, x}
    BY <1>1, <1>2 DEF UnstoredIsGone
  <2>1. x # w /\ home[x] # r /\ home[x] \in Ranges /\ x \in Wrappers
    BY <1>1, <1>6, SheetTypes DEF SheetInv
  <2>2. /\ storedAs[x] \in Ids /\ ~(home[x] \in callingRanges /\ valid[home[x]])
        /\ residents[home[x]][storedAs[x]] \in {None, x}
    BY DEF SheetInv, UnstoredIsGone
  <2>3. valid'[home[x]] = valid[home[x]] /\ home'[x] = home[x]
    BY <1>3, <1>5, <2>1, SheetTypes DEF SheetInv
  <2> QED
    BY <1>2, <1>3, <1>5, <2>1, <2>2, <2>3
<1> QED
  BY <1>3, <1>8, <1>9, <1>10 DEF SheetInv, CollectionRuns, RangeCleared

\* A cell that calls for the first time, or whose cell is deleted, and no object with it.
LEMMA RangesKeepSheet ==
  ASSUME SheetInv, ResidenceInv', gc = None, gc' = None, NEW r \in Ranges,
         UNCHANGED <<objectMap, live, storedAs, home, residents>>,
         \/ MayCallFrom(r) /\ callingRanges' = callingRanges \cup {r}
              /\ valid' = [valid EXCEPT ![r] = TRUE]
         \/ UNCHANGED callingRanges /\ valid' = [valid EXCEPT ![r] = FALSE]
         \/ UNCHANGED <<callingRanges, valid>>
  PROVE  SheetInv'
<1>1. /\ callingRanges \subseteq callingRanges'
      /\ \A q \in callingRanges' : q \in callingRanges \/ (q = r /\ MayCallFrom(r))
      /\ \A q \in Ranges : q # r \/ ~MayCallFrom(r) => (valid'[q] => valid[q])
  BY SheetTypes DEF SheetInv
<1>2. MayCallFrom(r) =>
        /\ \A w \in live : home[w] = r => w \in Stored
        /\ r \notin callingRanges => \A id \in Ids : residents[r][id] = None
  BY CallersAreClean
<1>3. ListedIsStored' /\ StoredIsListed'
  BY <1>1, <1>2 DEF SheetInv, ListedIsStored, StoredIsListed, Exists
<1>4. UnstoredIsGone'
  <2> SUFFICES ASSUME NEW x \in live \ Stored
               PROVE  ~(home[x] \in callingRanges' /\ valid'[home[x]])
    BY DEF SheetInv, UnstoredIsGone, Stored
  <2>1. ~(home[x] \in callingRanges /\ valid[home[x]]) /\ home[x] \in Ranges
    BY SheetTypes DEF SheetInv, UnstoredIsGone
  <2> QED
    BY <1>1, <1>2, <2>1
<1> QED
  BY <1>3, <1>4 DEF SheetInv, CollectionRuns, RangeCleared

LEMMA RefusedKeepsSheet ==
  ASSUME SheetInv, ResidenceInv', NEW r \in Ranges, StoreRefusedXL(r) \/ DeleteCell(r)
  PROVE  SheetInv'
<1>1. UNCHANGED <<objectMap, live, storedAs, home, residents, gc>>
  BY DEF StoreRefusedXL, DropHeld, DeleteCell, vars, objectVars
<1>2. gc = None
  BY DEF StoreRefusedXL, DropHeld, CanStore, DeleteCell, SheetInv, CollectionRuns
<1>3. \/ MayCallFrom(r) /\ callingRanges' = callingRanges \cup {r}
           /\ valid' = [valid EXCEPT ![r] = TRUE]
      \/ UNCHANGED callingRanges /\ valid' = [valid EXCEPT ![r] = FALSE]
      \/ UNCHANGED <<callingRanges, valid>>
  BY DEF StoreRefusedXL, GetCallingRange, DeleteCell
<1> QED
  BY <1>1, <1>2, <1>3, RangesKeepSheet

\* After RepositoryXL::clear no range is in the map; what lives on is listed where
\* it was.
LEMMA ClearKeepsSheet == ASSUME SheetInv, ResidenceInv', Clear PROVE SheetInv'
<1>1. /\ callingRanges' = {} /\ gc = None /\ gc' = None
      /\ \A id \in Ids : objectMap'[id] = None
      /\ UNCHANGED <<live, storedAs, home, residents>>
  BY DEF Clear, Erase, objectVars
<1>2. ListedIsStored' /\ StoredIsListed'
  BY <1>1 DEF ListedIsStored, StoredIsListed, Exists
<1>3. UnstoredIsGone'
  <2> SUFFICES ASSUME NEW w \in live
               PROVE  storedAs[w] \in Ids /\ residents[home[w]][storedAs[w]] \in {None, w}
    BY <1>1 DEF UnstoredIsGone
  <2>1. CASE w \in Stored
    BY <2>1, StoredWrapper DEF SheetInv, StoredIsListed, Exists, Stored
  <2> QED
    BY <2>1 DEF SheetInv, UnstoredIsGone
<1> QED
  BY <1>1, <1>2, <1>3 DEF SheetInv, CollectionRuns, RangeCleared

\* A collection begins: all that is orphaned lies ahead of it.
LEMMA BeginKeepsSheet ==
  ASSUME SheetInv, ResidenceInv', NEW deletePermanent \in BOOLEAN, CollectGarbage(deletePermanent)
  PROVE  SheetInv'
<1>1. /\ UNCHANGED <<objectMap, live, storedAs, permanent, home, residents, callingRanges, valid>>
      /\ held' = None /\ stack' = <<>> /\ gc = None
      /\ gc'.range = None /\ gc'.todo = {r \in callingRanges : ~valid[r]}
  BY RepositoryXLAssumption DEF CollectGarbage, MayCall, Quiet, vars, objectVars
<1>2. ListedIsStored' /\ StoredIsListed' /\ UnstoredIsGone' /\ RangeCleared'
  BY <1>1 DEF SheetInv, ListedIsStored, StoredIsListed, UnstoredIsGone, RangeCleared, Stored, Exists
<1>3. \A w \in Stored : home[w] \in callingRanges
  BY DEF SheetInv, StoredIsListed, Exists, Stored
<1>4. CollectionRuns'
  BY <1>1, <1>3, SheetTypes DEF SheetInv, CollectionRuns, Stored
<1> QED
  BY <1>2, <1>4 DEF SheetInv

\* What is destroyed is not stored: only its own entry goes, or none, and the entry
\* that the iterator points at stays.
LEMMA DestroyKeepsSheet ==
  ASSUME SheetInv, ResidenceInv', NEW w \in Wrappers, DestroyXL(w)
  PROVE  SheetInv'
<1>1. /\ w \in live \ Stored /\ live' = live \ {w} /\ stack' = stack
      /\ storedAs' = [storedAs EXCEPT ![w] = None] /\ home' = [home EXCEPT ![w] = None]
      /\ permanent' = [permanent EXCEPT ![w] = FALSE]
      /\ residents' = [residents EXCEPT ![home[w]][storedAs[w]] = None]
      /\ ~Dangles(w) /\ UNCHANGED <<objectMap, callingRanges, valid, gc>>
      /\ held = None => held' = None
  BY DEF DestroyXL, Destroy, ForgetObjectOf, Garbage, Unregister
<1>2. /\ home[w] \in Ranges /\ storedAs[w] \in Ids
      /\ residents[home[w]][storedAs[w]] \in {None, w}
      /\ Stored' = Stored
      /\ \A x \in Stored : home'[x] = home[x] /\ permanent'[x] = permanent[x] /\ x # w
  <2>1. Stored' = Stored
    BY <1>1 DEF Stored
  <2>2. /\ home[w] \in Ranges /\ storedAs[w] \in Ids
        /\ residents[home[w]][storedAs[w]] \in {None, w}
    BY <1>1, SheetTypes DEF SheetInv, UnstoredIsGone
  <2>3. ASSUME NEW x \in Stored PROVE home'[x] = home[x] /\ permanent'[x] = permanent[x] /\ x # w
    BY <1>1, SheetTypes, StoredWrapper DEF SheetInv
  <2> QED
    BY <2>1, <2>2, <2>3
<1>3. \A r \in Ranges, id \in Ids :
        residents'[r][id] = IF r = home[w] /\ id = storedAs[w] THEN None ELSE residents[r][id]
  BY <1>1, <1>2, SheetTypes DEF SheetInv
<1>4. ListedIsStored'
  BY <1>1, <1>3, SheetTypes DEF SheetInv, ListedIsStored
<1>5. StoredIsListed'
  <2> SUFFICES ASSUME NEW id \in Ids, objectMap[id] # None
               PROVE  /\ residents'[home'[objectMap[id]]][id] = objectMap[id]
                      /\ home'[objectMap[id]] \in callingRanges
    BY <1>1 DEF StoredIsListed, Exists
  <2>1. /\ residents[home[objectMap[id]]][id] = objectMap[id]
        /\ home[objectMap[id]] \in callingRanges /\ home[objectMap[id]] \in Ranges
        /\ objectMap[id] \in Stored
    BY SheetTypes DEF SheetInv, StoredIsListed, Exists, Stored
  <2> QED
    BY <1>1, <1>2, <1>3, <2>1
<1>6. UnstoredIsGone'
  <2> SUFFICES ASSUME NEW x \in live \ Stored, x # w
               PROVE  /\ storedAs'[x] \in Ids
                      /\ ~(home'[x] \in callingRanges /\ valid[home'[x]])
                      /\ residents'[home'[x]][storedAs'[x]] \in {None, x}
    BY <1>1, <1>2 DEF UnstoredIsGone
  <2>1. /\ storedAs[x] \in Ids /\ home[x] \in Ranges
        /\ ~(home[x] \in callingRanges /\ valid[home[x]])
        /\ residents[home[x]][storedAs[x]] \in {None, x}
    BY SheetTypes DEF SheetInv, UnstoredIsGone
  <2>2. storedAs'[x] = storedAs[x] /\ home'[x] = home[x]
    BY <1>1, SheetTypes DEF SheetInv
  <2> QED
    BY <1>3, <2>1, <2>2
<1>7. CollectionRuns'
  BY <1>1, <1>2 DEF SheetInv, CollectionRuns
<1>8. RangeCleared'
  <2> SUFFICES ASSUME gc # None, gc.range # None
               PROVE  /\ gc.next # None => gc.next \in Residents(gc.range)' \ gc.passed
                      /\ gc.next = None => Residents(gc.range)' \subseteq gc.passed
                      /\ \A id \in gc.passed : LET x == residents'[gc.range][id]
                           IN x # None => IF gc.deletePermanent THEN objectMap[id] = None
                                                                ELSE permanent'[x]
    BY <1>1 DEF RangeCleared, Residents
  <2>1. gc \in Collection /\ gc.range \in Ranges /\ gc.passed \subseteq Ids
    BY DEF SheetInv, ResidenceInv, TypeOKXL, Collection
  <2>2. gc.next # None => gc.next \in Residents(gc.range)' \ gc.passed
    <3> SUFFICES ASSUME gc.next # None PROVE gc.next \in Residents(gc.range)' \ gc.passed
      OBVIOUS
    <3>1. /\ gc.next \in Ids /\ gc.next \notin gc.passed
          /\ residents[gc.range][gc.next] # None
      BY DEF SheetInv, RangeCleared, Residents
    <3>2. ~(gc.range = home[w] /\ gc.next = storedAs[w])
      BY <1>1 DEF Dangles
    <3> QED
      BY <1>1, <1>3, <2>1, <3>1, <3>2 DEF Residents
  <2>3. gc.next = None => Residents(gc.range)' \subseteq gc.passed
    BY <1>1, <1>3, <2>1 DEF SheetInv, RangeCleared, Residents
  <2>4. ASSUME NEW id \in gc.passed, residents'[gc.range][id] # None
        PROVE  IF gc.deletePermanent THEN objectMap[id] = None
                                     ELSE permanent'[residents'[gc.range][id]]
    <3>1. /\ residents'[gc.range][id] = residents[gc.range][id]
          /\ ~(gc.range = home[w] /\ id = storedAs[w])
      BY <1>3, <2>1, <2>4
    <3>2. residents[gc.range][id] # w /\ residents[gc.range][id] \in Wrappers
      BY <2>1, <2>4, <3>1, SheetTypes DEF SheetInv
    <3>3. permanent'[residents[gc.range][id]] = permanent[residents[gc.range][id]]
      BY <1>1, <3>2, SheetTypes DEF SheetInv
    <3> QED
      BY <2>4, <3>1, <3>3 DEF SheetInv, RangeCleared
  <2> QED
    BY <2>2, <2>3, <2>4
<1> QED
  BY <1>4, <1>5, <1>6, <1>7, <1>8 DEF SheetInv

\* What the running collection has orphaned or is to keep, as its fields change.
LEMMA CollectRangeKeepsSheet ==
  ASSUME SheetInv, ResidenceInv', CollectRange PROVE SheetInv'
<1>1. PICK r \in gc.todo :
        /\ gc'.deletePermanent = gc.deletePermanent
        /\ gc'.todo = gc.todo \ {r} /\ gc'.range = r /\ gc'.passed = {}
        /\ gc'.next \in IF Residents(r) = {} THEN {None} ELSE Residents(r)
  BY CollectRangeProperties DEF SheetInv
<1>2. /\ gc # None /\ gc.range = None /\ held = None /\ stack = <<>>
      /\ UNCHANGED <<objectMap, live, storedAs, permanent, held, stack, callingRanges, valid,
                     home, residents>>
  BY DEF CollectRange, Collecting, vars, objectVars, SheetInv, CollectionRuns
<1>3. r \in callingRanges /\ ~valid[r]
  BY <1>1, <1>2 DEF SheetInv, CollectionRuns
<1>4. \A q \in callingRanges : q # None
  BY SheetTypes DEF SheetInv
<1>5. ListedIsStored'
  <2> SUFFICES ASSUME NEW q \in callingRanges, NEW id \in Ids, residents[q][id] # None
               PROVE  objectMap[id] = residents[q][id]
    BY <1>2 DEF ListedIsStored
  <2> QED
    BY <1>2, <1>4 DEF SheetInv, ListedIsStored
<1>6. StoredIsListed' /\ UnstoredIsGone'
  BY <1>2 DEF SheetInv, StoredIsListed, UnstoredIsGone, Stored, Exists
<1>7. CollectionRuns'
  <2>1. \A w \in Stored : \/ valid[home[w]] \/ home[w] \in gc.todo
                          \/ ~gc.deletePermanent /\ permanent[w]
    BY <1>2, SheetTypes, StoredWrapper DEF SheetInv, CollectionRuns
  <2>2. Stored' = Stored
    BY <1>2 DEF Stored
  <2>3. gc.todo \subseteq callingRanges /\ \A q \in gc.todo : ~valid[q]
    BY <1>2 DEF SheetInv, CollectionRuns
  <2>4. \A w \in Stored : \/ valid[home[w]] \/ home[w] \in gc'.todo \cup {gc'.range}
                          \/ ~gc'.deletePermanent /\ permanent[w]
    BY <1>1, <2>1
  <2> QED
    BY <1>1, <1>2, <1>3, <2>2, <2>3, <2>4 DEF CollectionRuns
<1>8. RangeCleared'
  BY <1>1, <1>2, SheetTypes DEF RangeCleared, Residents, SheetInv
<1> QED
  BY <1>5, <1>6, <1>7, <1>8 DEF SheetInv

\* The object that the iterator is at is stored, and is the one that is listed.
LEMMA ResidentIsStored ==
  ASSUME SheetInv, AtResident
  PROVE  /\ gc.range \in callingRanges /\ gc.range \in Ranges /\ ~valid[gc.range]
         /\ gc.next \in Ids /\ gc.next \notin gc.passed
         /\ objectMap[gc.next] # None /\ objectMap[gc.next] = residents[gc.range][gc.next]
         /\ home[objectMap[gc.next]] = gc.range /\ storedAs[objectMap[gc.next]] = gc.next
<1>1. /\ gc.range \in callingRanges /\ ~valid[gc.range]
      /\ gc.next \in Ids /\ gc.next \notin gc.passed /\ residents[gc.range][gc.next] # None
  BY DEF AtResident, Collecting, SheetInv, CollectionRuns, RangeCleared, Residents
<1>2. objectMap[gc.next] = residents[gc.range][gc.next]
  BY <1>1 DEF SheetInv, ListedIsStored
<1> QED
  BY <1>1, <1>2, SheetTypes DEF SheetInv

\* The iterator passes a resident: the lists do not grow.
LEMMA PassedKeepsCleared ==
  ASSUME SheetInv, AtResident, Advance(Passed, Ahead),
         \A id \in Ids : residents'[gc.range][id] # None =>
           residents'[gc.range][id] = residents[gc.range][id],
         \A id \in Ids \ {gc.next} : /\ residents'[gc.range][id] = residents[gc.range][id]
                                     /\ objectMap'[id] = objectMap[id],
         UNCHANGED permanent,
         residents'[gc.range][gc.next] # None =>
           IF gc.deletePermanent THEN objectMap'[gc.next] = None
                                 ELSE permanent[residents[gc.range][gc.next]]
  PROVE  RangeCleared'
<1>1. /\ gc \in Collection /\ gc.range \in Ranges /\ gc.next \in Ids
      /\ gc'.deletePermanent = gc.deletePermanent /\ gc'.range = gc.range
      /\ gc'.passed = gc.passed \cup {gc.next}
      /\ Ahead = Residents(gc.range) \ gc'.passed
      /\ gc'.next \in IF Ahead = {} THEN {None} ELSE Ahead
  BY NextResidentProperties DEF SheetInv
<1>2. /\ gc'.passed \subseteq Ids /\ gc # None /\ gc.range # None
      /\ \A id \in gc.passed : residents[gc.range][id] # None =>
           IF gc.deletePermanent THEN objectMap[id] = None ELSE permanent[residents[gc.range][id]]
  BY <1>1 DEF Collection, AtResident, Collecting, SheetInv, RangeCleared
<1>3. Residents(gc.range)' \ gc'.passed = Residents(gc.range) \ gc'.passed
  BY <1>1 DEF Residents
<1>4. \A id \in gc'.passed : residents'[gc.range][id] # None =>
        IF gc.deletePermanent THEN objectMap'[id] = None ELSE permanent'[residents'[gc.range][id]]
  BY <1>1, <1>2
<1>5. \A id \in Residents(gc.range) : id # None
  BY RepositoryAssumption DEF Residents
<1>6. gc'.next # None => gc'.next \in Residents(gc.range)' \ gc'.passed
  BY <1>1, <1>3
<1>7. gc'.next = None => Residents(gc.range)' \subseteq gc'.passed
  BY <1>1, <1>3, <1>5
<1> QED
  BY <1>1, <1>4, <1>6, <1>7 DEF RangeCleared

LEMMA SparesKeepsSheet == ASSUME SheetInv, ResidenceInv', CollectSpares PROVE SheetInv'
<1>1. /\ AtResident /\ Spared /\ Advance(Passed, Ahead) /\ gc # None
      /\ UNCHANGED <<objectMap, live, storedAs, permanent, held, stack, callingRanges, valid,
                     home, residents>>
  BY DEF CollectSpares, AtResident, Collecting, vars, objectVars
<1>2. /\ gc' \in Collection /\ gc'.deletePermanent = gc.deletePermanent
      /\ gc'.todo = gc.todo /\ gc'.range = gc.range /\ gc'.passed = gc.passed \cup {gc.next}
  BY <1>1, NextResidentProperties DEF SheetInv
<1>3. gc' # None
  BY <1>2, NoneIsNoCollection
<1>4. ListedIsStored' /\ StoredIsListed' /\ UnstoredIsGone' /\ CollectionRuns'
  BY <1>1, <1>2, <1>3
  DEF SheetInv, ListedIsStored, StoredIsListed, UnstoredIsGone, CollectionRuns, Stored, Exists
<1>5. RangeCleared'
  BY <1>1, PassedKeepsCleared DEF Spared
<1> QED
  BY <1>4, <1>5 DEF SheetInv

LEMMA ResidentKeepsSheet == ASSUME SheetInv, ResidenceInv', CollectResident PROVE SheetInv'
<1> DEFINE w == objectMap[gc.next]
<1>1. /\ AtResident /\ Erase({gc.next}) /\ Advance(Passed, Ahead) /\ gc # None
      /\ UNCHANGED <<live, storedAs, permanent, held, stack, callingRanges, valid, home>>
      /\ residents' = IF gc.deletePermanent THEN residents
                      ELSE [residents EXCEPT ![gc.range][gc.next] = None]
  BY DEF CollectResident, AtResident, Collecting, objectVars
<1>2. /\ gc' \in Collection /\ gc'.deletePermanent = gc.deletePermanent
      /\ gc'.todo = gc.todo /\ gc'.range = gc.range /\ gc'.passed = gc.passed \cup {gc.next}
  BY <1>1, NextResidentProperties DEF SheetInv
<1>3. /\ gc' # None /\ gc.range \in Ranges /\ gc.range \in callingRanges /\ ~valid[gc.range]
      /\ gc.next \in Ids /\ w \in Stored /\ w # None /\ w = residents[gc.range][gc.next]
      /\ home[w] = gc.range /\ storedAs[w] = gc.next
  BY <1>1, <1>2, NoneIsNoCollection, ResidentIsStored DEF Stored
<1>4. /\ \A id \in Ids : objectMap'[id] = IF id = gc.next THEN None ELSE objectMap[id]
      /\ \A r \in Ranges, id \in Ids :
           residents'[r][id] = IF r = gc.range /\ id = gc.next /\ ~gc.deletePermanent THEN None
                               ELSE residents[r][id]
  BY <1>1, <1>3, SheetTypes DEF Erase, SheetInv
<1> HIDE DEF w
<1>5. Stored' = Stored \ {w}
  <2>1. \A id \in Ids : objectMap[id] = w <=> id = gc.next
    BY <1>3, StoredWrapper DEF w, SheetInv
  <2> QED
    BY <1>3, <1>4, <2>1 DEF Stored
<1>6. ListedIsStored'
  <2> SUFFICES ASSUME NEW r \in callingRanges, NEW id \in Ids, residents'[r][id] # None
               PROVE  \/ objectMap'[id] = residents'[r][id]
                      \/ /\ gc'.range = r /\ id \in gc'.passed
                         /\ objectMap'[id] = None /\ gc'.deletePermanent
    BY <1>1, <1>3 DEF ListedIsStored
  <2>1. r \in Ranges /\ residents'[r][id] = residents[r][id]
    BY <1>4, SheetTypes DEF SheetInv
  <2>2. CASE id = gc.next /\ r = gc.range
    BY <1>2, <1>4, <2>1, <2>2
  <2>3. CASE id = gc.next /\ r # gc.range
    <3>1. objectMap[id] = residents[r][id]
      BY <2>1, <2>3 DEF SheetInv, ListedIsStored
    <3>2. home[residents[r][id]] = r
      BY <2>1, SheetTypes DEF SheetInv
    <3> QED
      BY <1>3, <2>3, <3>1, <3>2 DEF w
  <2>4. CASE id # gc.next
    BY <1>2, <1>4, <2>1, <2>4 DEF SheetInv, ListedIsStored
  <2> QED
    BY <2>2, <2>3, <2>4
<1>7. StoredIsListed'
  <2> SUFFICES ASSUME NEW id \in Ids, id # gc.next, objectMap[id] # None
               PROVE  /\ residents'[home[objectMap[id]]][id] = objectMap[id]
                      /\ home[objectMap[id]] \in callingRanges
    BY <1>1, <1>4 DEF StoredIsListed, Exists
  <2> QED
    BY <1>4, SheetTypes DEF SheetInv, StoredIsListed, Exists
<1>8. UnstoredIsGone'
  <2> SUFFICES ASSUME NEW x \in live, x \notin Stored \/ x = w
               PROVE  /\ storedAs[x] \in Ids
                      /\ ~(home[x] \in callingRanges /\ valid[home[x]])
                      /\ residents'[home[x]][storedAs[x]] \in {None, x}
    BY <1>1, <1>5 DEF UnstoredIsGone
  <2>1. /\ storedAs[x] \in Ids /\ home[x] \in Ranges
        /\ ~(home[x] \in callingRanges /\ valid[home[x]])
        /\ residents[home[x]][storedAs[x]] \in {None, x}
    BY <1>3, SheetTypes DEF SheetInv, UnstoredIsGone
  <2> QED
    BY <1>4, <2>1
<1>9. CollectionRuns'
  BY <1>1, <1>2, <1>3, <1>5 DEF SheetInv, CollectionRuns
<1>10. RangeCleared'
  BY <1>1, <1>3, <1>4, PassedKeepsCleared
<1> QED
  BY <1>6, <1>7, <1>8, <1>9, <1>10 DEF SheetInv

\* A collection never fails: what it is to delete is stored.
LEMMA NeverFails == ASSUME SheetInv PROVE ~CollectFails
BY ResidentIsStored DEF CollectFails, Exists

LEMMA FinishRangeKeepsSheet == ASSUME SheetInv, ResidenceInv', FinishRange PROVE SheetInv'
<1>1. /\ gc # None /\ gc.range \in callingRanges /\ gc.range \in Ranges /\ gc.range # None
      /\ ~valid[gc.range] /\ gc.next = None
      /\ UNCHANGED <<objectMap, live, storedAs, permanent, held, stack, valid, home>>
  BY SheetTypes
  DEF FinishRange, Collecting, vars, objectVars, SheetInv, CollectionRuns
<1>2. /\ gc' \in Collection /\ gc'.deletePermanent = gc.deletePermanent
      /\ gc'.todo = gc.todo /\ gc'.range = None /\ gc' # None
  BY FinishRangeProperties, NoneIsNoCollection DEF SheetInv
<1>3. \A r \in Ranges, id \in Ids :
        residents'[r][id] = IF r = gc.range /\ gc.deletePermanent THEN None ELSE residents[r][id]
  BY <1>1, SheetTypes DEF FinishRange, SheetInv
<1>4. /\ callingRanges' \subseteq callingRanges
      /\ \A r \in callingRanges : r \notin callingRanges' =>
           r = gc.range /\ \A id \in Ids : residents'[r][id] = None
  BY DEF FinishRange
<1>5. \A id \in Ids : residents[gc.range][id] # None =>
        IF gc.deletePermanent THEN objectMap[id] = None ELSE permanent[residents[gc.range][id]]
  BY <1>1 DEF SheetInv, RangeCleared, Residents
<1>6. ListedIsStored'
  <2> SUFFICES ASSUME NEW r \in callingRanges, NEW id \in Ids, residents'[r][id] # None
               PROVE  objectMap[id] = residents'[r][id]
    BY <1>1, <1>4 DEF ListedIsStored
  <2>1. residents'[r][id] = residents[r][id] /\ ~(r = gc.range /\ gc.deletePermanent)
    BY <1>3, SheetTypes DEF SheetInv
  <2> QED
    BY <2>1 DEF SheetInv, ListedIsStored
<1>7. ASSUME NEW id \in Ids, objectMap[id] # None
      PROVE  /\ residents'[home[objectMap[id]]][id] = objectMap[id]
             /\ home[objectMap[id]] \in callingRanges'
             /\ home[objectMap[id]] = gc.range => ~gc.deletePermanent /\ permanent[objectMap[id]]
  <2>1. /\ residents[home[objectMap[id]]][id] = objectMap[id]
        /\ home[objectMap[id]] \in callingRanges /\ home[objectMap[id]] \in Ranges
    BY <1>7, SheetTypes DEF SheetInv, StoredIsListed, Exists
  <2>2. home[objectMap[id]] = gc.range => ~gc.deletePermanent /\ permanent[objectMap[id]]
    BY <1>5, <1>7, <2>1
  <2>3. residents'[home[objectMap[id]]][id] = objectMap[id]
    BY <1>3, <2>1, <2>2
  <2> QED
    BY <1>4, <1>7, <2>1, <2>2, <2>3
<1>8. StoredIsListed'
  BY <1>1, <1>7 DEF StoredIsListed, Exists
<1>9. UnstoredIsGone'
  <2> SUFFICES ASSUME NEW x \in live \ Stored
               PROVE  /\ storedAs[x] \in Ids
                      /\ ~(home[x] \in callingRanges' /\ valid[home[x]])
                      /\ residents'[home[x]][storedAs[x]] \in {None, x}
    BY <1>1 DEF UnstoredIsGone, Stored
  <2>1. /\ storedAs[x] \in Ids /\ home[x] \in Ranges
        /\ ~(home[x] \in callingRanges /\ valid[home[x]])
        /\ residents[home[x]][storedAs[x]] \in {None, x}
    BY SheetTypes DEF SheetInv, UnstoredIsGone
  <2> QED
    BY <1>3, <1>4, <2>1
<1>10. CollectionRuns'
  <2>1. \A w \in Stored : \/ valid[home[w]] \/ home[w] \in gc.todo
                          \/ ~gc.deletePermanent /\ permanent[w]
    <3> SUFFICES ASSUME NEW w \in Stored, home[w] = gc.range
                 PROVE  ~gc.deletePermanent /\ permanent[w]
      BY <1>1 DEF SheetInv, CollectionRuns
    <3>1. storedAs[w] \in Ids /\ objectMap[storedAs[w]] = w /\ w # None
      BY StoredWrapper, SheetTypes DEF SheetInv
    <3> QED
      BY <1>7, <3>1
  <2>2. held = None /\ stack = <<>> /\ \A r \in gc.todo : r \in callingRanges' /\ ~valid[r] /\ r # None
    BY <1>1, <1>4, SheetTypes DEF SheetInv, CollectionRuns
  <2>3. Stored' = Stored
    BY <1>1 DEF Stored
  <2> QED
    BY <1>1, <1>2, <2>1, <2>2, <2>3 DEF CollectionRuns
<1> QED
  BY <1>2, <1>6, <1>8, <1>9, <1>10 DEF SheetInv, RangeCleared

\* The collection ends, or the process starts again.
LEMMA EndKeepsSheet ==
  ASSUME SheetInv, ResidenceInv', FinishCollection \/ RestartXL PROVE SheetInv'
<1>1. CASE FinishCollection
  <2>1. /\ gc # None /\ gc' = None /\ gc.range = None
        /\ UNCHANGED <<objectMap, live, storedAs, callingRanges, valid, home, residents>>
    BY <1>1 DEF FinishCollection, Collecting, vars, objectVars
  <2>2. ListedIsStored'
    BY <2>1, SheetTypes DEF SheetInv, ListedIsStored
  <2> QED
    BY <2>1, <2>2
    DEF SheetInv, StoredIsListed, UnstoredIsGone, CollectionRuns, RangeCleared, Stored, Exists
<1>2. CASE RestartXL
  BY <1>2
  DEF RestartXL, Restart, SheetInv, ListedIsStored, StoredIsListed, UnstoredIsGone, CollectionRuns,
      RangeCleared, Exists
<1> QED
  BY <1>1, <1>2

LEMMA SheetInitSafe == ASSUME InitXL, Deletable = {} PROVE SheetInv
BY ResidenceInitSafe
DEF InitXL, Init, InitXLVars, SheetInv, ListedIsStored, StoredIsListed, UnstoredIsGone,
    CollectionRuns, RangeCleared, Exists

LEMMA SheetStepSafe == ASSUME SheetInv, [NextXL]_varsXL PROVE SheetInv'
<1>1. ResidenceInv'
  BY ResidenceStepSafe DEF SheetInv
<1>2. CASE Inner /\ UNCHANGED xlVars
  <2>1. gc = None
    BY <1>2, CallsApart DEF SheetInv, CollectionRuns
  <2> QED
    BY <1>1, <1>2, <2>1, CallsApart, SameSheet DEF objectVars
<1>3. CASE gc = None /\ (Begin \/ Delete) /\ UNCHANGED xlVars
  BY <1>1, <1>3, CallsApart, NothingDeleted, SameSheet DEF objectVars
<1>4. CASE DanglingIterator \/ UNCHANGED varsXL
  BY <1>1, <1>4, SameSheet DEF DanglingIterator, varsXL, vars, objectVars
<1>5. CASE CallXL
  BY <1>1, <1>3, <1>5, StoreNewKeepsSheet, StoreOverKeepsSheet, RefusedKeepsSheet,
     ClearKeepsSheet, BeginKeepsSheet DEF CallXL, Begin
<1>6. CASE StepXL
  BY <1>1, <1>2, <1>4, <1>6, DestroyKeepsSheet, CollectRangeKeepsSheet, SparesKeepsSheet,
     ResidentKeepsSheet, NeverFails, FinishRangeKeepsSheet, EndKeepsSheet DEF StepXL, Inner
<1> QED
  BY <1>1, <1>4, <1>5, <1>6, EndKeepsSheet DEF NextXL

-----------------------------------------------------------------------------
(* Theorems *)

\* Whatever is stored, moved, deleted and collected, in whatever order, the lists of
\* residents and the wrappers agree.
THEOREM ResidenceInvariant == SpecXL => []ResidenceInv
<1>1. InitXL => ResidenceInv
  BY ResidenceInitSafe
<1>2. ResidenceInv /\ [NextXL]_varsXL => ResidenceInv'
  BY ResidenceStepSafe
<1> QED
  BY <1>1, <1>2, PTL DEF SpecXL

\* Every variable of the Excel object store keeps its type; a wrapper has a calling
\* range exactly while it lives.
THEOREM TypeCorrectXL == SpecXL => []TypeOKXL
<1>1. ResidenceInv => TypeOKXL
  BY DEF ResidenceInv
<1> QED
  BY <1>1, ResidenceInvariant, PTL

\* No list of residents ever has a wrapper that is gone or lives elsewhere.
THEOREM ResidentsAlwaysLive == SpecXL => []ResidentsLive
<1>1. ResidenceInv => ResidentsLive
  BY DEF ResidenceInv
<1> QED
  BY <1>1, ResidenceInvariant, PTL

\* Where users delete cells, and functions delete nothing but through collections,
\* lists, map and wrappers agree, whatever a collection finds and whoever observes
\* what it deletes.
THEOREM SheetInvariant == SpecXL /\ Deletable = {} => []SheetInv
<1>1. InitXL /\ Deletable = {} => SheetInv
  BY SheetInitSafe
<1>2. SheetInv /\ [NextXL]_varsXL => SheetInv'
  BY SheetStepSafe
<1> QED
  BY <1>1, <1>2, PTL DEF SpecXL

\* Every stored object is among the residents of its calling range, where garbage
\* collection finds it.
THEOREM StoredStayResident == SpecXL /\ Deletable = {} => []StoredIsResident
<1>1. SheetInv => StoredIsResident
  BY DEF SheetInv, StoredIsListed, StoredIsResident
<1> QED
  BY <1>1, SheetInvariant, PTL

LEMMA OrphansTaken ==
  ASSUME SheetInv, [NextXL]_varsXL, gc # None, gc' = None, ~crashed, NEW w \in Stored
  PROVE  valid[home[w]] \/ (~gc.deletePermanent /\ permanent[w])
<1>1. ~RestartXL /\ ~UNCHANGED varsXL /\ ~CollectFails /\ ~CallXL
  BY NeverFails, RepositoryXLAssumption
  DEF RestartXL, Restart, varsXL, xlVars, CallXL, SheetInv, CollectionRuns, StoreNewXL, StoreNew,
      StoreRefusedXL, DropHeld, StoreOverXL, StoreOver, CanStore, DeleteCell, CollectGarbage, Clear
<1>2. ~(Inner /\ UNCHANGED xlVars) /\ ~DanglingIterator /\ \A x \in Wrappers : ~DestroyXL(x)
  BY DEF xlVars, DanglingIterator, DestroyXL
<1>3. /\ ~CollectSpares /\ ~CollectResident
      /\ ~CollectRange /\ ~FinishRange
  BY CollectRangeProperties, NextResidentProperties, FinishRangeProperties, NoneIsNoCollection
  DEF SheetInv, CollectSpares, CollectResident
<1>4. FinishCollection
  BY <1>1, <1>2, <1>3 DEF NextXL, StepXL, Inner
<1>5. gc.range = None /\ gc.todo = {} /\ home[w] # None
  BY <1>4, StoredWrapper, SheetTypes DEF FinishCollection, SheetInv
<1> QED
  BY <1>5 DEF SheetInv, CollectionRuns

\* A garbage collection that ends has taken all the objects of deleted cells, save the
\* permanent ones that it was to keep.
THEOREM AllOrphansTaken == SpecXL /\ Deletable = {} => OrphansCollected
<1>1. SheetInv /\ [NextXL]_varsXL =>
        [gc # None /\ gc' = None /\ ~crashed =>
           \A w \in Stored : valid[home[w]] \/ (~gc.deletePermanent /\ permanent[w])]_varsXL
  BY OrphansTaken
<1> QED
  BY <1>1, SheetInvariant, PTL DEF SpecXL, OrphansCollected

LEMMA OrphanTaken ==
  ASSUME SheetInv, [NextXL]_varsXL, gc # None, ~crashed, NEW w \in Stored, w \notin Stored'
  PROVE  ~valid[home[w]] /\ (gc.deletePermanent \/ ~permanent[w])
<1>1. UNCHANGED objectMap => FALSE
  BY DEF Stored
<1>2. ~RestartXL /\ ~CallXL
  BY DEF RestartXL, Restart, CallXL, SheetInv, CollectionRuns, StoreNewXL, StoreNew,
         StoreRefusedXL, DropHeld, StoreOverXL, StoreOver, CanStore, DeleteCell, CollectGarbage, Clear
<1>3. ~Inner /\ ~UNCHANGED varsXL /\ ~DanglingIterator /\ \A x \in Wrappers : ~DestroyXL(x)
  BY <1>1, CallsApart DEF varsXL, vars, DanglingIterator, DestroyXL, Destroy
<1>4. ~CollectSpares /\ ~CollectRange /\ ~FinishRange /\ ~CollectFails /\ ~FinishCollection
  BY <1>1 DEF CollectSpares, CollectRange, FinishRange, CollectFails, FinishCollection, vars
<1>5. CollectResident
  BY <1>2, <1>3, <1>4 DEF NextXL, StepXL, Inner
<1>6. w = objectMap[gc.next]
  BY <1>5, StoredWrapper DEF CollectResident, Erase, SheetInv, Stored
<1>7. AtResident /\ ~Spared
  BY <1>5 DEF CollectResident
<1>8. home[w] = gc.range /\ ~valid[gc.range] /\ w = residents[gc.range][gc.next]
  BY <1>6, <1>7, ResidentIsStored
<1>9. permanent[w] \in BOOLEAN
  BY StoredWrapper, SheetTypes DEF SheetInv
<1> QED
  BY <1>7, <1>8, <1>9 DEF Spared

\* A garbage collection takes nothing but objects of deleted cells, and permanent ones
\* only if told to.
THEOREM OnlyOrphansTaken == SpecXL /\ Deletable = {} => OnlyOrphansCollected
<1>1. SheetInv /\ [NextXL]_varsXL =>
        [gc # None => \A w \in Stored : w \notin Stored' /\ ~crashed =>
           ~valid[home[w]] /\ (gc.deletePermanent \/ ~permanent[w])]_varsXL
  BY OrphanTaken
<1> QED
  BY <1>1, SheetInvariant, PTL DEF SpecXL, OnlyOrphansCollected
=============================================================================
