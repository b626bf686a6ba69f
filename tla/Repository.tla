----------------------------- MODULE Repository -----------------------------
(***************************************************************************)
(* The object store at the heart of ObjectHandler: the map from object IDs *)
(* to ObjectWrappers (oh/repository.cpp), the wrappers' dirty flags        *)
(* (oh/objectwrapper.hpp) and the observer links between them              *)
(* (oh/observable.hpp), with the generated function that builds an object  *)
(* from its precedents and stores it.                                      *)
(*                                                                         *)
(* The program is single-threaded: one client call runs at a time, but a   *)
(* call recurses through the links, to recreate dirty precedents and to    *)
(* notify observers.  `stack' is that recursion, one frame per C++         *)
(* activation, and each action is one step of the innermost frame.         *)
(***************************************************************************)
EXTENDS Naturals, Sequences, FiniteSets

CONSTANTS
  Ids,                \* the IDs under which clients store objects
  Wrappers,           \* ObjectWrapper allocations: bounds those alive at once
  None,               \* a null pointer
  Uses,               \* Uses[id]: the IDs an object stored as id may be built from
  Deletable,          \* the IDs that clients delete
  SplitConstruction,  \* TRUE: C++ clients, which build and store in two calls
  MaxDepth            \* the frames that fit in the C++ stack

ASSUME RepositoryAssumption ==
  /\ None \notin Wrappers /\ None \notin Ids
  /\ Uses \in [Ids -> SUBSET Ids]
  /\ Deletable \subseteq Ids
  /\ SplitConstruction \in BOOLEAN
  /\ MaxDepth \in Nat \ {0}

VARIABLES
  objectMap,    \* ID -> wrapper, None where the map has no entry
  live,         \* the wrappers whose destructor has not run
  storedAs,     \* the ID each wrapper was created for
  precedents,   \* getPrecedentObjects() of the wrapper's object
  permanent,    \* permanent() of the wrapper's object
  dirty,        \* ObjectWrapper::dirty_
  builtFrom,    \* the wrappers whose present object was used to build this one's
  observables,  \* Observer::observables_, shared_ptrs
  observers,    \* Observable::observers_, raw pointers
  held,         \* the object a client has built, or is building, to store
  stack,        \* activations of the running call, innermost last
  crashed       \* the recursion exhausted the C++ stack

links == <<observables, observers>>
objectVars == <<storedAs, precedents, permanent>>
vars == <<objectMap, live, objectVars, dirty, builtFrom, links, held, stack, crashed>>

-----------------------------------------------------------------------------
(* Types *)

Frame == [kind: {"retrieve", "construct", "recreate", "reset", "update"},
          wrapper: Wrappers \cup {None},
          todo: SUBSET (Ids \cup Wrappers),  \* IDs to retrieve, or observers to update
          got: SUBSET Wrappers]              \* wrappers whose objects were retrieved

HeldObject == [id: Ids, precedents: SUBSET Ids, permanent: BOOLEAN,
               builtFrom: SUBSET Wrappers, ready: BOOLEAN]

ASSUME NoneIsNoObject == None \notin HeldObject

TypeOK ==
  /\ objectMap \in [Ids -> Wrappers \cup {None}]
  /\ live \subseteq Wrappers
  /\ storedAs \in [Wrappers -> Ids \cup {None}]
  /\ precedents \in [Wrappers -> SUBSET Ids]
  /\ permanent \in [Wrappers -> BOOLEAN]
  /\ dirty \in [Wrappers -> BOOLEAN]
  /\ builtFrom \in [Wrappers -> SUBSET Wrappers]
  /\ observables \in [Wrappers -> SUBSET Wrappers]
  /\ observers \in [Wrappers -> SUBSET Wrappers]
  /\ held \in HeldObject \cup {None}
  /\ stack \in Seq(Frame)
  /\ crashed \in BOOLEAN

Init ==
  /\ objectMap = [id \in Ids |-> None]
  /\ live = {}
  /\ storedAs = [w \in Wrappers |-> None]
  /\ precedents = [w \in Wrappers |-> {}]
  /\ permanent = [w \in Wrappers |-> FALSE]
  /\ dirty = [w \in Wrappers |-> FALSE]
  /\ builtFrom = [w \in Wrappers |-> {}]
  /\ observables = [w \in Wrappers |-> {}]
  /\ observers = [w \in Wrappers |-> {}]
  /\ held = None
  /\ stack = <<>>
  /\ crashed = FALSE

-----------------------------------------------------------------------------
(* Reading the state *)

Exists(id) == objectMap[id] # None
Stored == {objectMap[id] : id \in Ids} \ {None}

\* MUTANT of Garbage: observers_ holds shared_ptrs, so that both ends of a link
\* keep each other.
GarbageKeptByBoth == {w \in live : w \notin Stored /\
                        \A h \in live : w \notin observables[h] \cup observers[h]}

\* Wrappers that no shared_ptr keeps: neither the map nor an observer.
Garbage == {w \in live : w \notin Stored /\ \A h \in live : w \notin observables[h]}

Top == stack[Len(stack)]
Pop == SubSeq(stack, 1, Len(stack) - 1)
Replace(frame) == Append(Pop, frame)

Building == held # None /\ ~held.ready

\* No call is running and every destructor has run.
Quiet == stack = <<>> /\ Garbage = {} /\ ~crashed

\* A generated function stores what it built before it returns; the C++ API
\* lets other calls come between.
MayCall == Quiet /\ (SplitConstruction \/ held = None)

-----------------------------------------------------------------------------
(* Recursion *)

\* Enter another activation; beyond MaxDepth the process dies of stack overflow.
Enter(base, frame) ==
  IF Len(base) < MaxDepth
    THEN stack' = Append(base, frame) /\ UNCHANGED crashed
    ELSE stack' = <<>> /\ crashed' = TRUE

Activation(kind, w, todo) == [kind |-> kind, wrapper |-> w, todo |-> todo, got |-> {}]

\* Wrapper w now has another object: nothing is built from its present one.
ForgetObjectOf(w, from) ==
  /\ builtFrom' = [x \in Wrappers |-> IF x = w THEN from ELSE builtFrom[x] \ {w}]
  /\ held' = IF held = None THEN None ELSE [held EXCEPT !.builtFrom = @ \ {w}]

-----------------------------------------------------------------------------
(* Observer links *)

\* MUTANT of Register: the old registrations are dropped on one side only.
RegisterWithoutUnregister(w, targets) ==
  /\ observables' = [observables EXCEPT ![w] = targets]
  /\ observers' = [o \in Wrappers |-> observers[o] \cup (IF o \in targets THEN {w} ELSE {})]

\* unregisterWithAll(), then registerWith() each of targets.
Register(w, targets) ==
  /\ observables' = [observables EXCEPT ![w] = targets]
  /\ observers' = [o \in Wrappers |->
       (IF o \in observables[w] THEN observers[o] \ {w} ELSE observers[o])
         \cup (IF o \in targets THEN {w} ELSE {})]

\* MUTANT of UnregisterWithAll: ~ObjectWrapper leaves its raw pointers behind.
ReleaseObservables(w) ==
  observables' = [observables EXCEPT ![w] = {}] /\ UNCHANGED observers

\* ~ObjectWrapper: unregisterWithAll(), which also releases the observables.
UnregisterWithAll(w) == Register(w, {})

\* MUTANT of RegisterObserver: a precedent that has an observer is passed over.
RegisterWithUnobserved(w, m, ids) ==
  Register(w, {m[p] : p \in {q \in ids : m[q] # None /\ observers[m[q]] = {}}})

\* MUTANT of RegisterObserver: an unknown precedent is taken for a null pointer.
RegisterWithUnknown(w, m, ids) == Register(w, {m[p] : p \in ids})

\* Repository::registerObserver: w registers with the wrappers the map m has for
\* its precedents, in the order of their IDs, and throws at the first unknown
\* one; which known ones come before it depends on how the IDs are spelled.
RegisterObserver(w, m, ids) ==
  LET known == {p \in ids : m[p] # None}
  IN \E done \in SUBSET known :
       /\ known = ids => done = ids
       /\ Register(w, {m[p] : p \in done})

-----------------------------------------------------------------------------
(* Retrieval *)

\* retrieveObject(id) called by a client.
Retrieve(id) ==
  /\ MayCall
  /\ Enter(<<>>, Activation("retrieve", None, {id}))
  /\ UNCHANGED <<objectMap, live, objectVars, dirty, builtFrom, links, held>>

Retrieving == stack # <<>> /\ Top.kind \in {"retrieve", "construct", "recreate"}

\* MUTANT of Recreation: the creator also looks up the object under its own ID.
RecreationOfItself(w) == Activation("recreate", w, precedents[w] \cup {storedAs[w]})

\* The creator retrieves the precedents that the properties name.
Recreation(w) == Activation("recreate", w, precedents[w])

\* MUTANT of RetrieveNext: the reference is taken before the object is recreated.
RetrieveNextStale ==
  /\ Retrieving
  /\ \E id \in Top.todo \cap Ids :
       LET w == objectMap[id]
           rest == [Top EXCEPT !.todo = @ \ {id}]
       IN /\ Exists(id)
          /\ IF dirty[w]
               THEN Enter(Replace(rest), Recreation(w))
               ELSE stack' = Replace([rest EXCEPT !.got = @ \cup {w}]) /\ UNCHANGED crashed
  /\ UNCHANGED <<objectMap, live, objectVars, dirty, builtFrom, links, held>>

\* MUTANT of RetrieveNext: what a recreation retrieves is not recreated in turn.
RetrieveNextShallow ==
  /\ Retrieving
  /\ \E id \in Top.todo \cap Ids :
       LET w == objectMap[id]
           taken == Replace([Top EXCEPT !.todo = @ \ {id}, !.got = @ \cup {w}])
       IN /\ Exists(id)
          /\ IF dirty[w] /\ Top.kind # "recreate"
               THEN Enter(taken, Recreation(w))
               ELSE stack' = taken /\ UNCHANGED crashed
  /\ UNCHANGED <<objectMap, live, objectVars, dirty, builtFrom, links, held>>

\* retrieveObjectImpl of one more ID: a dirty wrapper is recreated first, from
\* the IDs of its precedents.
RetrieveNext ==
  /\ Retrieving
  /\ \E id \in Top.todo \cap Ids :
       LET w == objectMap[id]
           taken == Replace([Top EXCEPT !.todo = @ \ {id}, !.got = @ \cup {w}])
       IN /\ Exists(id)
          /\ IF dirty[w]
               THEN Enter(taken, Recreation(w))
               ELSE stack' = taken /\ UNCHANGED crashed
  /\ UNCHANGED <<objectMap, live, objectVars, dirty, builtFrom, links, held>>

\* ObjectWrapper::recreate: the creator has its precedents and returns a new
\* object with the same properties.  Neither the observers nor the links change.
FinishRecreate ==
  /\ Retrieving /\ Top.kind = "recreate" /\ Top.todo = {}
  /\ dirty' = [dirty EXCEPT ![Top.wrapper] = FALSE]
  /\ ForgetObjectOf(Top.wrapper, Top.got)
  /\ stack' = Pop
  /\ UNCHANGED <<objectMap, live, objectVars, links, crashed>>

\* An ID that is unknown or names another type, or a constructor that rejects
\* its arguments: the exception unwinds every activation of the call.
CallFails ==
  /\ Retrieving
  /\ stack' = <<>>
  /\ held' = IF Building THEN None ELSE held
  /\ UNCHANGED <<objectMap, live, objectVars, dirty, builtFrom, links, crashed>>

FinishRetrieve ==
  /\ Retrieving /\ Top.kind = "retrieve" /\ Top.todo = {}
  /\ stack' = <<>>
  /\ UNCHANGED <<objectMap, live, objectVars, dirty, builtFrom, links, held, crashed>>

-----------------------------------------------------------------------------
(* Building and storing an object *)

\* A generated function retrieves the precedents it was given ...
Construct(id, ps, perm) ==
  /\ MayCall /\ held = None
  /\ held' = [id |-> id, precedents |-> ps, permanent |-> perm,
              builtFrom |-> {}, ready |-> FALSE]
  /\ Enter(<<>>, Activation("construct", None, ps))
  /\ UNCHANGED <<objectMap, live, objectVars, dirty, builtFrom, links>>

\* ... and builds the object from them.
FinishConstruct ==
  /\ Retrieving /\ Top.kind = "construct" /\ Top.todo = {}
  /\ held' = [held EXCEPT !.ready = TRUE, !.builtFrom = Top.got]
  /\ stack' = <<>>
  /\ UNCHANGED <<objectMap, live, objectVars, dirty, builtFrom, links, crashed>>

CanStore == Quiet /\ held # None /\ held.ready

SetObject(w) ==
  /\ storedAs' = [storedAs EXCEPT ![w] = held.id]
  /\ precedents' = [precedents EXCEPT ![w] = held.precedents]
  /\ permanent' = [permanent EXCEPT ![w] = held.permanent]

\* storeObject under a new ID: the map has the wrapper before it registers.
StoreNew ==
  /\ CanStore /\ ~Exists(held.id)
  /\ \E w \in Wrappers \ live :
       /\ objectMap' = [objectMap EXCEPT ![held.id] = w]
       /\ live' = live \cup {w}
       /\ SetObject(w)
       /\ dirty' = [dirty EXCEPT ![w] = FALSE]
       /\ builtFrom' = [builtFrom EXCEPT ![w] = held.builtFrom]
       /\ RegisterObserver(w, objectMap', held.precedents)
  /\ held' = None
  /\ UNCHANGED <<stack, crashed>>

\* storeObject over an existing object: ObjectWrapper::reset takes the object
\* and notifies; the wrapper registers with its new precedents afterwards.
StoreOver ==
  /\ CanStore /\ Exists(held.id)
  /\ LET w == objectMap[held.id]
     IN /\ SetObject(w)
        /\ dirty' = [dirty EXCEPT ![w] = FALSE]
        /\ builtFrom' = [x \in Wrappers |-> IF x = w THEN held.builtFrom \ {w}
                                                      ELSE builtFrom[x] \ {w}]
        /\ Enter(<<>>, Activation("reset", w, observers[w]))
  /\ held' = None
  /\ UNCHANGED <<objectMap, live, links>>

\* The call ends without storing the object, which is destroyed.
DropHeld ==
  /\ CanStore
  /\ held' = None
  /\ UNCHANGED <<objectMap, live, objectVars, dirty, builtFrom, links, stack, crashed>>

\* storeObject without overwrite refuses an ID in use, and allocates nothing when
\* memory is exhausted; a C++ client may also drop the object it built.
StoreRefused ==
  /\ DropHeld
  /\ Exists(held.id) \/ live = Wrappers \/ SplitConstruction

-----------------------------------------------------------------------------
(* Notification *)

Notifying == stack # <<>> /\ Top.kind \in {"reset", "update"}

\* MUTANT of NotifyNext: update() does not pass the notification on.
NotifyNextOnly ==
  /\ Notifying
  /\ \E o \in Top.todo \cap Wrappers :
       Enter(Replace([Top EXCEPT !.todo = @ \ {o}]), Activation("update", o, {}))
  /\ UNCHANGED <<objectMap, live, objectVars, dirty, builtFrom, links, held>>

\* MUTANT of NotifyNext: the iteration does not advance.
NotifySame ==
  /\ Notifying
  /\ \E o \in Top.todo \cap Wrappers : Enter(stack, Activation("update", o, observers[o]))
  /\ UNCHANGED <<objectMap, live, objectVars, dirty, builtFrom, links, held>>

\* notifyObservers calls update() on one more observer, which notifies its own
\* observers first.
NotifyNext ==
  /\ Notifying
  /\ \E o \in Top.todo \cap Wrappers :
       Enter(Replace([Top EXCEPT !.todo = @ \ {o}]), Activation("update", o, observers[o]))
  /\ UNCHANGED <<objectMap, live, objectVars, dirty, builtFrom, links, held>>

\* ... and only then sets its dirty flag.
FinishUpdate ==
  /\ Notifying /\ Top.kind = "update" /\ Top.todo = {}
  /\ dirty' = [dirty EXCEPT ![Top.wrapper] = TRUE]
  /\ stack' = Pop
  /\ UNCHANGED <<objectMap, live, objectVars, builtFrom, links, held, crashed>>

FinishReset ==
  /\ Notifying /\ Top.kind = "reset" /\ Top.todo = {}
  /\ RegisterObserver(Top.wrapper, objectMap, precedents[Top.wrapper])
  /\ stack' = <<>>
  /\ UNCHANGED <<objectMap, live, objectVars, dirty, builtFrom, held, crashed>>

-----------------------------------------------------------------------------
(* Deletion *)

Erase(ids) == objectMap' = [id \in Ids |-> IF id \in ids THEN None ELSE objectMap[id]]

\* deleteObject(list) erases one ID after another and throws at the first that
\* the map does not have; deleteObject(id) is the list of one.
DeleteObjects(list) ==
  /\ MayCall /\ list # <<>>
  /\ \E n \in 0 .. Len(list) :
       LET Known(i) == Exists(list[i]) /\ \A j \in 1 .. i - 1 : list[j] # list[i]
       IN /\ \A i \in 1 .. n : Known(i)
          /\ n < Len(list) => ~Known(n + 1)
          /\ Erase({list[i] : i \in 1 .. n})
  /\ UNCHANGED <<live, objectVars, dirty, builtFrom, links, held, stack, crashed>>

\* The lists that clients pass are at most as long as there are IDs.
DeletionLists == UNION {[1 .. n -> Deletable] : n \in 1 .. Cardinality(Ids)}

DeleteAllObjects(deletePermanent) ==
  /\ MayCall
  /\ Erase({id \in Ids : Exists(id) /\ (deletePermanent \/ ~permanent[objectMap[id]])})
  /\ UNCHANGED <<live, objectVars, dirty, builtFrom, links, held, stack, crashed>>

\* The destructor of a wrapper that lost its last shared_ptr.  It drops its own
\* shared_ptrs, which may leave others to destroy.  Its fields are cleared for
\* the next allocation.
Destroy(w) ==
  /\ stack = <<>> /\ w \in Garbage
  /\ live' = live \ {w}
  /\ UnregisterWithAll(w)
  /\ storedAs' = [storedAs EXCEPT ![w] = None]
  /\ precedents' = [precedents EXCEPT ![w] = {}]
  /\ permanent' = [permanent EXCEPT ![w] = FALSE]
  /\ dirty' = [dirty EXCEPT ![w] = FALSE]
  /\ ForgetObjectOf(w, {})
  /\ UNCHANGED <<objectMap, stack, crashed>>

\* After a crash the client starts a new process with an empty repository.
Restart ==
  /\ crashed
  /\ objectMap' = [id \in Ids |-> None]
  /\ live' = {}
  /\ storedAs' = [w \in Wrappers |-> None]
  /\ precedents' = [w \in Wrappers |-> {}]
  /\ permanent' = [w \in Wrappers |-> FALSE]
  /\ dirty' = [w \in Wrappers |-> FALSE]
  /\ builtFrom' = [w \in Wrappers |-> {}]
  /\ observables' = [w \in Wrappers |-> {}]
  /\ observers' = [w \in Wrappers |-> {}]
  /\ held' = None
  /\ stack' = <<>>
  /\ crashed' = FALSE

-----------------------------------------------------------------------------
(* The steps inside a call, and the calls *)

Step ==
  \/ RetrieveNext \/ FinishRecreate \/ CallFails \/ FinishRetrieve \/ FinishConstruct
  \/ NotifyNext \/ FinishUpdate \/ FinishReset
  \/ \E w \in Wrappers : Destroy(w)

Call ==
  \/ \E id \in Ids : Retrieve(id)
  \/ \E id \in Ids, perm \in BOOLEAN : \E ps \in SUBSET Uses[id] : Construct(id, ps, perm)
  \/ StoreNew \/ StoreOver \/ StoreRefused

Delete ==
  \/ \E list \in DeletionLists : DeleteObjects(list)
  \/ Deletable = Ids /\ \E deletePermanent \in BOOLEAN : DeleteAllObjects(deletePermanent)

Next == Step \/ Call \/ Delete \/ Restart

Spec == Init /\ [][Next]_vars

\* A call that has begun runs: nothing preempts it.
FairSpec == Spec /\ WF_vars(Step)

-----------------------------------------------------------------------------
(* Properties *)

\* The links are symmetric and only between live wrappers: notifyObservers never
\* follows a raw pointer to a destroyed wrapper, whatever the order of stores,
\* deletions and cascading destructors (observable.hpp).
LinksMatch ==
  /\ \A w, o \in Wrappers : w \in observers[o] <=> o \in observables[w]
  /\ \A w \in Wrappers : observables[w] # {} => w \in live /\ observables[w] \subseteq live

\* Every wrapper the map has, or that an activation is working on, is live and
\* stored under its own ID.
NoUseAfterFree ==
  /\ \A id \in Ids : Exists(id) => objectMap[id] \in live /\ storedAs[objectMap[id]] = id
  /\ \A i \in 1 .. Len(stack) : stack[i].wrapper # None => stack[i].wrapper \in live

\* Between calls, a stored wrapper that is dirty has only dirty observers: no
\* notification got lost on the way down (objectwrapper.hpp update).
DirtinessPropagates ==
  Quiet => \A o \in Stored : dirty[o] => \A w \in observers[o] : dirty[w]

\* Between calls, a clean wrapper's object is built from the present objects of
\* those of its precedents that it observes: what a retrieval returns is up to
\* date with them (objectwrapper.hpp, class comment).
FreshWhereObserved ==
  Quiet => \A w \in Stored : ~dirty[w] =>
    \A p \in precedents[w] : Exists(p) /\ objectMap[p] \in observables[w] =>
      objectMap[p] \in builtFrom[w]

\* What the class comment of ObjectWrapper promises of every retrieval: the
\* object reflects the present state of all the precedents that exist.
AlwaysFresh ==
  Quiet => \A w \in Stored : ~dirty[w] =>
    \A p \in precedents[w] : Exists(p) => objectMap[p] \in builtFrom[w]

\* Between calls, a stored wrapper observes a wrapper for each of its precedents:
\* "ObjectWrapper registers as an Observer of its Object's precedents".
RegisteredWithAll ==
  Quiet => \A w \in Stored : \A p \in precedents[w] :
    \E o \in observables[w] : storedAs[o] = p

\* Between calls, once the map is empty no wrapper is left in memory: observer
\* links keep nothing alive on their own.
NothingLeaks == Quiet /\ Stored = {} => live = {}

\* The recursion of notifications and recreations ends within the C++ stack.
NoRunaway == ~crashed

\* Every call returns, with its result or an error.
CallsReturn == stack # <<>> ~> stack = <<>>
=============================================================================
