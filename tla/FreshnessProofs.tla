-------------------------- MODULE FreshnessProofs --------------------------
(***************************************************************************)
(* Proofs about Repository, for clients whose references go down by layers *)
(* that fit in the stack, and who store what they build at once, as        *)
(* generated functions do: what is retrieved is up to date, with           *)
(* deletions, with regard to what it observes, and without them altogether;*)
(* the recursion ends within the stack; nothing leaks; and, without        *)
(* deletions, the repository implements ObjectStore, so that what a call   *)
(* was given stays up to date until the call ends.                         *)
(***************************************************************************)
EXTENDS RepositoryProofs, RepositoryRefinement, WellFoundedInduction

\* An object is ranked above those it may be built from.
Layered(rank) ==
  /\ ~SplitConstruction
  /\ rank \in [Ids -> 0 .. MaxDepth - 2]
  /\ \A id \in Ids : \A p \in Uses[id] : rank[p] < rank[id]

Rank(rank, w) == rank[storedAs[w]]

Kind == stack[1].kind

\* The wrapper that has a new object and is still registered for the old one.
Resetting(w) == stack # <<>> /\ Kind = "reset" /\ stack[1].wrapper = w

\* The wrappers that the running notification has yet to mark dirty.
Pending(w) ==
  /\ stack # <<>> /\ Kind = "reset"
  /\ \/ \E i \in 1 .. Len(stack) : w \in stack[i].todo
     \/ \E i \in 2 .. Len(stack) : w = stack[i].wrapper

\* A wrapper observes wrappers of all of its precedents, and no others.
Registered ==
  /\ \A w \in live : storedAs[w] \in Ids /\ precedents[w] \subseteq Uses[storedAs[w]]
  /\ \A w \in Wrappers : \A o \in observables[w] :
       /\ storedAs[o] \in Uses[storedAs[w]]
       /\ Resetting(w) \/ storedAs[o] \in precedents[w]
  /\ \A w \in live : Resetting(w) \/
       \A p \in precedents[w] : \E o \in observables[w] : storedAs[o] = p

\* The object of an ID is in order, and is among those that another was built from.
InOrder(p, from) == Exists(p) /\ ~dirty[objectMap[p]] /\ objectMap[p] \in from

\* What a client has built, and is about to store, is up to date.
HeldInOrder ==
  held # None =>
    /\ held.precedents \subseteq Uses[held.id]
    /\ held.ready => stack = <<>> /\ \A p \in held.precedents : InOrder(p, held.builtFrom)
    /\ ~held.ready => stack # <<>> /\ Kind = "construct"

\* What observes a dirty wrapper is dirty itself.
DirtyBelow ==
  \A w \in Wrappers : \A o \in observables[w] \cap Stored :
    dirty[o] => dirty[w] \/ Resetting(w)

\* What is clean, and will be, is built from what it observes.
UpToDate ==
  \A w \in Wrappers : \A o \in observables[w] \cap Stored :
    dirty[w] \/ Pending(w) \/ Resetting(w) \/ o \in builtFrom[w]

\* An activation has retrieved those of ids that it is not yet to retrieve.
HasRetrieved(f, ids) ==
  /\ f.todo \subseteq ids
  /\ \A p \in ids \ f.todo : Exists(p) /\ objectMap[p] \in f.got

\* The wrapper that the activation after the ith is working on.
Above(i, w) == i < Len(stack) /\ w = stack[i + 1].wrapper

\* Retrieval goes down in rank, through wrappers that are dirty until recreated.
Retrieves(rank) ==
  /\ \A i \in 1 .. Len(stack) : \A w \in stack[i].got : ~dirty[w] \/ Above(i, w)
  /\ Kind = "construct" => held # None /\ HasRetrieved(stack[1], held.precedents)
  /\ \A i \in 2 .. Len(stack) :
       LET w == stack[i].wrapper
       IN /\ stack[i].kind = "recreate"
          /\ w \in Stored /\ dirty[w] /\ HasRetrieved(stack[i], precedents[w])
          /\ Rank(rank, w) + i <= MaxDepth
          /\ \A j \in 2 .. i - 1 : Rank(rank, w) < Rank(rank, stack[j].wrapper)

\* Notification goes up in rank from the wrapper that has a new object.
Notifies(rank) ==
  /\ stack[1].wrapper \in live
  /\ \A p \in precedents[stack[1].wrapper] : InOrder(p, builtFrom[stack[1].wrapper])
  /\ \A i \in 1 .. Len(stack) : stack[i].todo \subseteq observers[stack[i].wrapper]
  /\ \A i \in 2 .. Len(stack) :
       LET w == stack[i].wrapper
       IN /\ stack[i].kind = "update"
          /\ Rank(rank, w) >= Rank(rank, stack[1].wrapper) + i - 1
          /\ \A x \in observers[w] : dirty[x] \/ x \in stack[i].todo \/ Above(i, x)

Activations(rank) ==
  stack # <<>> =>
    \/ Kind \in {"retrieve", "construct"} /\ Retrieves(rank)
    \/ Kind = "reset" /\ Notifies(rank)

\* The inductive invariant, next to MemoryInv.
FreshInv(rank) ==
  /\ Layered(rank) /\ ~crashed
  /\ Registered /\ HeldInOrder /\ DirtyBelow /\ UpToDate /\ Activations(rank)

-----------------------------------------------------------------------------
(* Layers *)

\* The wrapper of an ID in the map is stored, and is the only one under that ID.
LEMMA StoredIsMapped ==
  ASSUME TypeOK, MapSafe
  PROVE  /\ \A id \in Ids : Exists(id) => /\ objectMap[id] \in Stored
                                          /\ objectMap[id] \in Wrappers
                                          /\ storedAs[objectMap[id]] = id
         /\ \A w \in Stored : /\ w \in live /\ w \in Wrappers /\ storedAs[w] \in Ids
                              /\ Exists(storedAs[w]) /\ objectMap[storedAs[w]] = w
BY DEF TypeOK, MapSafe, Stored, Exists

\* Among live wrappers there is one of the highest rank.
LEMMA HighestRank ==
  ASSUME NEW rank, NEW S, S # {}, NEW n \in Nat, \A w \in S : Rank(rank, w) \in 0 .. n
  PROVE  \E w \in S : \A x \in S : Rank(rank, x) <= Rank(rank, w)
<1> DEFINE below == {n - Rank(rank, w) : w \in S}
<1>1. below \subseteq Nat /\ below # {}
  OBVIOUS
<1>2. PICK m \in below : \A k \in below : ~(<<k, m>> \in OpToRel(<, Nat))
  <2> HIDE DEF below
  <2> QED
    BY <1>1, NatLessThanWellFounded, WFMin
<1>3. \A k \in below : ~(k < m)
  BY <1>1, <1>2 DEF OpToRel
<1>4. PICK w \in S : m = n - Rank(rank, w)
  BY <1>2
<1>5. ASSUME NEW x \in S PROVE Rank(rank, x) <= Rank(rank, w)
  <2>1. ~(n - Rank(rank, x) < n - Rank(rank, w))
    BY <1>3, <1>4
  <2> QED
    BY <2>1
<1> QED
  BY <1>5

-----------------------------------------------------------------------------
(* Activations *)

\* The stack with its top replaced.
LEMMA ReplacedTop ==
  ASSUME stack \in Seq(Frame), stack # <<>>, NEW f \in Frame
  PROVE  /\ Replace(f) \in Seq(Frame) /\ Len(Replace(f)) = Len(stack)
         /\ \A i \in 1 .. Len(stack) - 1 : Replace(f)[i] = stack[i]
         /\ Replace(f)[Len(stack)] = f
<1>1. /\ Append(Pop, f) \in Seq(Frame)
      /\ Len(Append(Pop, f)) = Len(Pop) + 1
      /\ \A i \in 1 .. Len(Pop) : Append(Pop, f)[i] = Pop[i]
      /\ Append(Pop, f)[Len(Pop) + 1] = f
  BY PopIsBelow
<1> QED
  BY <1>1, PopIsBelow DEF Replace

\* One more activation, when the stack has room for it.
LEMMA Entered ==
  ASSUME NEW base \in Seq(Frame), NEW f \in Frame, Enter(base, f), Len(base) < MaxDepth
  PROVE  /\ crashed' = crashed
         /\ stack' \in Seq(Frame) /\ stack' # <<>> /\ Len(stack') = Len(base) + 1
         /\ \A i \in 1 .. Len(base) : stack'[i] = base[i]
         /\ stack'[Len(base) + 1] = f
<1>1. stack' = Append(base, f) /\ crashed' = crashed
  BY DEF Enter
<1>2. /\ Append(base, f) \in Seq(Frame) /\ Append(base, f) # <<>>
      /\ Len(Append(base, f)) = Len(base) + 1
      /\ \A i \in 1 .. Len(base) : Append(base, f)[i] = base[i]
      /\ Append(base, f)[Len(base) + 1] = f
  OBVIOUS
<1> QED
  BY <1>1, <1>2

\* The first activation of a call.
LEMMA EnteredFirst ==
  ASSUME NEW f \in Frame, Enter(<<>>, f)
  PROVE  crashed' = crashed /\ stack' # <<>> /\ Len(stack') = 1 /\ stack'[1] = f
<1>1. <<>> \in Seq(Frame) /\ Len(<<>>) = 0
  OBVIOUS
<1>2. Len(<<>>) < MaxDepth
  BY <1>1, RepositoryAssumption
<1>3. crashed' = crashed /\ stack' # <<>> /\ Len(stack') = 0 + 1 /\ stack'[0 + 1] = f
  BY <1>1, <1>2, Entered
<1> QED
  BY <1>3

\* Nothing is being reset between calls, nor during retrieval.
LEMMA NothingPends ==
  ASSUME stack = <<>> \/ Kind # "reset"
  PROVE  \A w : ~Resetting(w) /\ ~Pending(w)
BY DEF Resetting, Pending

\* Steps that change activations only, or the object that is held.
LEMMA SameOrder ==
  ASSUME TypeOK, Registered, DirtyBelow, UpToDate,
         UNCHANGED <<objectMap, live, storedAs, precedents, dirty, builtFrom, observables>>,
         \A w \in Wrappers : Resetting(w)' = Resetting(w) /\ (Pending(w) => Pending(w)')
  PROVE  Registered' /\ DirtyBelow' /\ UpToDate'
<1>1. live \subseteq Wrappers /\ Stored' = Stored
  BY DEF TypeOK, Stored
<1>2. Registered'
  BY <1>1 DEF Registered
<1>3. DirtyBelow'
  BY <1>1 DEF DirtyBelow
<1>4. UpToDate'
  BY <1>1 DEF UpToDate
<1> QED
  BY <1>2, <1>3, <1>4

\* The call that runs is no store unless it is storing what nobody holds any more.
LEMMA HeldInCall ==
  ASSUME HeldInOrder, stack # <<>>
  PROVE  /\ held # None => ~held.ready /\ Kind = "construct"
         /\ Building \/ held = None
BY DEF HeldInOrder, Building

\* Activations after the first are recreations or updates.
LEMMA FirstActivation ==
  ASSUME NEW rank, TypeOK, Activations(rank), stack # <<>>
  PROVE  /\ Top.kind \in {"retrieve", "construct", "reset"} => Len(stack) = 1 /\ Top = stack[1]
         /\ Top.kind \in {"retrieve", "construct", "recreate"} =>
              Kind \in {"retrieve", "construct"} /\ Retrieves(rank)
         /\ Top.kind \in {"reset", "update"} => Kind = "reset" /\ Notifies(rank)
         /\ Top.kind \in {"recreate", "update"} => Len(stack) \in 2 .. Len(stack)
<1>1. stack \in Seq(Frame) /\ Len(stack) \in Nat \ {0}
  BY PopIsBelow DEF TypeOK
<1>2. CASE Len(stack) = 1
  BY <1>2 DEF Activations, Top, Kind
<1>3. CASE Len(stack) \in 2 .. Len(stack)
  BY <1>1, <1>3 DEF Activations, Retrieves, Notifies, Top, Kind
<1>4. Len(stack) = 1 \/ Len(stack) \in 2 .. Len(stack)
  BY SMTT(30), <1>1
<1> QED
  BY <1>2, <1>3, <1>4

-----------------------------------------------------------------------------
(* Calls that begin, and retrievals that end *)

\* Retrieval begins with nothing retrieved.
LEMMA BeginFresh ==
  ASSUME NEW rank, FreshInv(rank), MemoryInv,
         \/ \E id \in Ids : Retrieve(id)
         \/ \E id \in Ids, perm \in BOOLEAN : \E ps \in SUBSET Uses[id] : Construct(id, ps, perm)
  PROVE  FreshInv(rank)'
<1>1. /\ TypeOK /\ Registered /\ DirtyBelow /\ UpToDate /\ HeldInOrder /\ ~crashed
      /\ Layered(rank) /\ Layered(rank)'
  BY DEF FreshInv, MemoryInv, Layered
<1>2. ASSUME stack = <<>>, held = None \/ held' # None, Kind' \in {"retrieve", "construct"},
             UNCHANGED <<objectMap, live, objectVars, dirty, builtFrom, links>>
      PROVE  Registered' /\ DirtyBelow' /\ UpToDate'
  <2>1. \A w : Resetting(w)' = Resetting(w) /\ (Pending(w) => Pending(w)')
    BY <1>2, NothingPends DEF Resetting, Pending, Kind
  <2> QED
    BY <1>1, <1>2, <2>1, SameOrder DEF objectVars, links
<1>3. ASSUME NEW id \in Ids, Retrieve(id)
      PROVE  FreshInv(rank)'
  <2> DEFINE f == Activation("retrieve", None, {id})
  <2>1. f \in Frame /\ f.kind = "retrieve" /\ f.got = {}
    BY DEF Activation, Frame
  <2>2. /\ Enter(<<>>, f) /\ stack = <<>> /\ held = None /\ held' = None
        /\ UNCHANGED <<objectMap, live, objectVars, dirty, builtFrom, links>>
    BY <1>1, <1>3 DEF Retrieve, MayCall, Quiet, Layered
  <2> HIDE DEF f
  <2>3. crashed' = crashed /\ stack' # <<>> /\ Len(stack') = 1 /\ stack'[1] = f
    BY <2>1, <2>2, EnteredFirst
  <2>4. Kind' = "retrieve" /\ Activations(rank)'
    BY <2>1, <2>3 DEF Activations, Retrieves, Kind
  <2>5. HeldInOrder'
    BY <2>2 DEF HeldInOrder
  <2> QED
    BY <1>1, <1>2, <2>2, <2>3, <2>4, <2>5 DEF FreshInv
<1>4. ASSUME NEW id \in Ids, NEW perm \in BOOLEAN, NEW ps \in SUBSET Uses[id],
             Construct(id, ps, perm)
      PROVE  FreshInv(rank)'
  <2> DEFINE f == Activation("construct", None, ps)
             h == [id |-> id, precedents |-> ps, permanent |-> perm,
                   builtFrom |-> {}, ready |-> FALSE]
  <2>1. ps \in SUBSET Ids
    BY RepositoryAssumption
  <2>2. f \in Frame /\ f.kind = "construct" /\ f.got = {} /\ f.todo = ps
    BY <2>1 DEF Activation, Frame
  <2>3. h \in HeldObject /\ h.id = id /\ h.precedents = ps /\ ~h.ready
    BY <2>1 DEF HeldObject
  <2>4. /\ Enter(<<>>, f) /\ stack = <<>> /\ held' = h
        /\ UNCHANGED <<objectMap, live, objectVars, dirty, builtFrom, links>>
    BY <1>4 DEF Construct, MayCall, Quiet
  <2> HIDE DEF f, h
  <2>5. crashed' = crashed /\ stack' # <<>> /\ Len(stack') = 1 /\ stack'[1] = f
    BY <2>2, <2>4, EnteredFirst
  <2>6. held' # None
    BY <2>3, <2>4, NoneIsNoObject
  <2>7. Kind' = "construct" /\ Activations(rank)'
    BY <2>2, <2>3, <2>4, <2>5, <2>6 DEF Activations, Retrieves, HasRetrieved, Kind
  <2>8. HeldInOrder'
    BY <2>3, <2>4, <2>5, <2>7 DEF HeldInOrder
  <2> QED
    BY <1>1, <1>2, <2>4, <2>5, <2>6, <2>7, <2>8 DEF FreshInv
<1> QED
  BY <1>3, <1>4

\* Retrievals that end leave the order that they found.
LEMMA EndFresh ==
  ASSUME NEW rank, FreshInv(rank), MemoryInv,
         CallFails \/ FinishRetrieve \/ FinishConstruct \/ StoreRefused
  PROVE  FreshInv(rank)'
<1>1. /\ TypeOK /\ Registered /\ DirtyBelow /\ UpToDate /\ HeldInOrder /\ ~crashed
      /\ Layered(rank) /\ Layered(rank)' /\ Activations(rank)
  BY DEF FreshInv, MemoryInv, Layered
<1>2. /\ stack' = <<>> /\ crashed' = crashed
      /\ UNCHANGED <<objectMap, live, objectVars, dirty, builtFrom, links>>
  BY DEF CallFails, FinishRetrieve, FinishConstruct, StoreRefused, DropHeld, CanStore, Quiet
<1>3. stack = <<>> \/ Kind \in {"retrieve", "construct"}
  BY <1>1, FirstActivation
     DEF CallFails, FinishRetrieve, FinishConstruct, Retrieving, StoreRefused, DropHeld, CanStore,
         Quiet
<1>4. Registered' /\ DirtyBelow' /\ UpToDate'
  <2>1. \A w : Resetting(w)' = Resetting(w) /\ (Pending(w) => Pending(w)')
    BY <1>2, <1>3, NothingPends DEF Resetting, Pending
  <2> QED
    BY <1>1, <1>2, <2>1, SameOrder DEF objectVars, links
<1>5. Activations(rank)'
  BY <1>2 DEF Activations
<1>6. CASE CallFails \/ StoreRefused \/ FinishRetrieve
  <2>1. held' = None
    <3>1. CASE CallFails
      BY <1>1, <3>1, HeldInCall DEF CallFails, Retrieving
    <3>2. CASE FinishRetrieve
      BY <1>1, <3>2, HeldInCall, FirstActivation DEF FinishRetrieve, Retrieving, Kind
    <3> QED
      BY <1>6, <3>1, <3>2 DEF StoreRefused, DropHeld
  <2> QED
    BY <1>1, <1>2, <1>4, <1>5, <2>1 DEF FreshInv, HeldInOrder
<1>7. CASE FinishConstruct
  <2>1. /\ stack # <<>> /\ Top.kind = "construct" /\ Top.todo = {}
        /\ held' = [held EXCEPT !.ready = TRUE, !.builtFrom = Top.got]
    BY <1>7 DEF FinishConstruct, Retrieving
  <2>2. /\ Len(stack) = 1 /\ Top = stack[1]
        /\ held # None /\ HasRetrieved(stack[1], held.precedents)
        /\ \A w \in Top.got : ~dirty[w]
    BY <1>1, <2>1, FirstActivation DEF Retrieves, Above, Kind
  <2>3. \A p \in held.precedents : InOrder(p, Top.got)
    BY <2>1, <2>2 DEF HasRetrieved, InOrder
  <2>4. /\ held'.id = held.id /\ held'.precedents = held.precedents
        /\ held'.ready /\ held'.builtFrom = Top.got
    BY <1>1, <2>1, <2>2 DEF TypeOK, HeldObject
  <2>5. HeldInOrder'
    BY <1>1, <1>2, <2>2, <2>3, <2>4 DEF HeldInOrder, InOrder, Exists
  <2> QED
    BY <1>1, <1>2, <1>4, <1>5, <2>5 DEF FreshInv
<1> QED
  BY <1>6, <1>7

-----------------------------------------------------------------------------
(* Retrieval *)

\* The top of a retrieval once it has the object of one more ID.
Taken(f, id) == [f EXCEPT !.todo = @ \ {id}, !.got = @ \cup {objectMap[id]}]

LEMMA TakenFrame ==
  ASSUME NEW f \in Frame, NEW id \in Ids, Exists(id), objectMap[id] \in Wrappers
  PROVE  /\ Taken(f, id) \in Frame
         /\ Taken(f, id).kind = f.kind /\ Taken(f, id).wrapper = f.wrapper
         /\ Taken(f, id).todo = f.todo \ {id}
         /\ Taken(f, id).got = f.got \cup {objectMap[id]}
         /\ \A ids : HasRetrieved(f, ids) => HasRetrieved(Taken(f, id), ids)
<1>1. /\ Taken(f, id) \in Frame
      /\ Taken(f, id).kind = f.kind /\ Taken(f, id).wrapper = f.wrapper
      /\ Taken(f, id).todo = f.todo \ {id}
      /\ Taken(f, id).got = f.got \cup {objectMap[id]}
  BY DEF Frame, Taken
<1> QED
  BY <1>1 DEF HasRetrieved

\* What a retrieval that goes one down works on: a dirty wrapper, and below those that
\* are being recreated.
LEMMA BelowAll ==
  ASSUME NEW rank, Layered(rank), MemoryInv, Registered, stack # <<>>, Retrieves(rank),
         Top.kind \in {"retrieve", "construct", "recreate"},
         NEW id \in Top.todo \cap Ids, Exists(id)
  PROVE  /\ Len(stack) < MaxDepth /\ Rank(rank, objectMap[id]) \in Nat
         /\ Rank(rank, objectMap[id]) + Len(stack) + 1 <= MaxDepth
         /\ \A j \in 2 .. Len(stack) :
              Rank(rank, objectMap[id]) < Rank(rank, stack[j].wrapper)
<1>1. /\ stack \in Seq(Frame) /\ Len(stack) \in Nat \ {0}
      /\ Top = stack[Len(stack)] /\ MaxDepth \in Nat
  BY PopIsBelow, RepositoryAssumption DEF MemoryInv, TypeOK, Top
<1>2. storedAs[objectMap[id]] = id /\ rank[id] \in 0 .. MaxDepth - 2
  BY StoredIsMapped DEF MemoryInv, Layered
<1>3. CASE Len(stack) = 1
  BY <1>1, <1>2, <1>3 DEF Rank
<1>4. CASE Len(stack) \in 2 .. Len(stack)
  <2> DEFINE v == stack[Len(stack)].wrapper
  <2>1. /\ v \in Stored /\ HasRetrieved(Top, precedents[v])
        /\ Rank(rank, v) + Len(stack) <= MaxDepth
        /\ \A j \in 2 .. Len(stack) - 1 : Rank(rank, v) < Rank(rank, stack[j].wrapper)
    BY <1>1, <1>4 DEF Retrieves
  <2>2. v \in live /\ storedAs[v] \in Ids
    BY <2>1, StoredIsMapped DEF MemoryInv
  <2>3. id \in Uses[storedAs[v]]
    BY <2>1, <2>2 DEF HasRetrieved, Registered
  <2>4. rank[id] < Rank(rank, v) /\ Rank(rank, v) \in 0 .. MaxDepth - 2
    BY <2>2, <2>3 DEF Layered, Rank
  <2>5. \A j \in 2 .. Len(stack) - 1 : Rank(rank, stack[j].wrapper) \in 0 .. MaxDepth - 2
    <3> TAKE j \in 2 .. Len(stack) - 1
    <3>1. stack[j].wrapper \in Stored
      BY <1>1 DEF Retrieves
    <3>2. storedAs[stack[j].wrapper] \in Ids
      BY <3>1, StoredIsMapped DEF MemoryInv
    <3> QED
      BY <3>2 DEF Layered, Rank
  <2>6. \A j \in 2 .. Len(stack) : j = Len(stack) \/ j \in 2 .. Len(stack) - 1
    BY <1>1
  <2>7. Rank(rank, objectMap[id]) = rank[id]
    BY <1>2 DEF Rank
  <2>8. Len(stack) < MaxDepth /\ rank[id] + Len(stack) + 1 <= MaxDepth
    <3> HIDE DEF v
    <3> QED
      BY <1>1, <1>2, <2>1, <2>4
  <2>9. \A j \in 2 .. Len(stack) : rank[id] < Rank(rank, stack[j].wrapper)
    <3> TAKE j \in 2 .. Len(stack)
    <3>1. CASE j = Len(stack)
      BY <2>4, <3>1
    <3>2. CASE j \in 2 .. Len(stack) - 1
      BY <1>2, <2>1, <2>4, <2>5, <3>2
    <3> QED
      BY <2>6, <3>1, <3>2
  <2> QED
    BY <1>2, <2>7, <2>8, <2>9
<1>5. Len(stack) = 1 \/ Len(stack) \in 2 .. Len(stack)
  <2>1. \A n \in Nat \ {0} : n = 1 \/ n \in 2 .. n
    OBVIOUS
  <2> QED
    BY <1>1, <2>1
<1> QED
  BY <1>3, <1>4, <1>5

\* The stack after a retrieval: one more activation if the wrapper is dirty.
LEMMA RetrievedStack ==
  ASSUME NEW rank, FreshInv(rank), MemoryInv, RetrieveNext
  PROVE  \E id \in Top.todo \cap Ids :
           /\ Exists(id) /\ crashed' = crashed /\ stack' # <<>>
           /\ Len(stack') = IF dirty[objectMap[id]] THEN Len(stack) + 1 ELSE Len(stack)
           /\ \A i \in 1 .. Len(stack) - 1 : stack'[i] = stack[i]
           /\ stack'[Len(stack)] = Taken(Top, id)
           /\ dirty[objectMap[id]] => stack'[Len(stack) + 1] = Recreation(objectMap[id])
<1>1. /\ TypeOK /\ MapSafe /\ Registered /\ Layered(rank) /\ Activations(rank)
  BY DEF FreshInv, MemoryInv
<1>2. stack # <<>> /\ Top.kind \in {"retrieve", "construct", "recreate"}
  BY DEF RetrieveNext, Retrieving
<1>3. stack \in Seq(Frame) /\ Len(stack) \in Nat \ {0} /\ Top = stack[Len(stack)] /\ Top \in Frame
  BY <1>1, <1>2, PopIsBelow DEF TypeOK, Top
<1>4. PICK id \in Top.todo \cap Ids :
        /\ Exists(id)
        /\ LET w == objectMap[id]
               taken == Replace([Top EXCEPT !.todo = @ \ {id}, !.got = @ \cup {w}])
           IN IF dirty[w] THEN Enter(taken, Recreation(w))
                          ELSE stack' = taken /\ UNCHANGED crashed
  BY DEF RetrieveNext
<1> DEFINE w == objectMap[id]
<1>5. w \in Wrappers /\ Taken(Top, id) \in Frame /\ Recreation(w) \in Frame
  <2>1. w \in Wrappers
    BY <1>1, <1>4, StoredIsMapped
  <2> QED
    BY <1>1, <1>3, <1>4, <2>1, TakenFrame DEF Recreation, Activation, Frame, TypeOK
<1>6. PICK g, f : g = Taken(Top, id) /\ f = Recreation(w)
  OBVIOUS
<1>7. /\ Replace(g) \in Seq(Frame) /\ Len(Replace(g)) = Len(stack)
      /\ \A i \in 1 .. Len(stack) - 1 : Replace(g)[i] = stack[i]
      /\ Replace(g)[Len(stack)] = g
  BY <1>2, <1>3, <1>5, <1>6, ReplacedTop
<1>8. IF dirty[w] THEN Enter(Replace(g), f) ELSE stack' = Replace(g) /\ crashed' = crashed
  BY <1>4, <1>6 DEF Taken
<1>9. /\ crashed' = crashed /\ stack' # <<>>
      /\ Len(stack') = IF dirty[w] THEN Len(stack) + 1 ELSE Len(stack)
      /\ \A i \in 1 .. Len(stack) - 1 : stack'[i] = stack[i]
      /\ stack'[Len(stack)] = g
      /\ dirty[w] => stack'[Len(stack) + 1] = f
  <2> HIDE DEF w
  <2>1. CASE dirty[w]
    <3>1. Len(stack) < MaxDepth
      BY <1>1, <1>2, <1>4, BelowAll, FirstActivation
    <3>2. Len(Replace(g)) < MaxDepth /\ Enter(Replace(g), f) /\ f \in Frame
      BY <1>5, <1>6, <1>7, <1>8, <2>1, <3>1
    <3>3. /\ crashed' = crashed /\ stack' # <<>> /\ Len(stack') = Len(stack) + 1
          /\ \A i \in 1 .. Len(stack) : stack'[i] = Replace(g)[i]
          /\ stack'[Len(stack) + 1] = f
      BY <1>7, <3>2, Entered
    <3> QED
      BY <1>3, <1>7, <2>1, <3>3
  <2>2. CASE ~dirty[w]
    BY <1>3, <1>7, <1>8, <2>2
  <2> QED
    BY <2>1, <2>2
<1> QED
  BY <1>4, <1>6, <1>9

LEMMA RetrieveNextFresh ==
  ASSUME NEW rank, FreshInv(rank), MemoryInv, RetrieveNext
  PROVE  FreshInv(rank)'
<1>1. /\ TypeOK /\ MapSafe /\ Registered /\ DirtyBelow /\ UpToDate /\ HeldInOrder /\ ~crashed
      /\ Layered(rank) /\ Layered(rank)' /\ Activations(rank)
  BY DEF FreshInv, MemoryInv, Layered
<1>2. /\ stack # <<>> /\ Top.kind \in {"retrieve", "construct", "recreate"}
      /\ UNCHANGED <<objectMap, live, objectVars, dirty, builtFrom, links, held>>
  BY DEF RetrieveNext, Retrieving
<1>3. Kind \in {"retrieve", "construct"} /\ Retrieves(rank)
  BY <1>1, <1>2, FirstActivation
<1>4. stack \in Seq(Frame) /\ Len(stack) \in Nat \ {0} /\ Top = stack[Len(stack)] /\ Top \in Frame
  BY <1>1, <1>2, PopIsBelow DEF TypeOK, Top
<1>5. PICK id \in Top.todo \cap Ids :
        /\ Exists(id) /\ crashed' = crashed /\ stack' # <<>>
        /\ Len(stack') = IF dirty[objectMap[id]] THEN Len(stack) + 1 ELSE Len(stack)
        /\ \A i \in 1 .. Len(stack) - 1 : stack'[i] = stack[i]
        /\ stack'[Len(stack)] = Taken(Top, id)
        /\ dirty[objectMap[id]] => stack'[Len(stack) + 1] = Recreation(objectMap[id])
  BY RetrievedStack
<1>6. PICK w : w = objectMap[id]
  OBVIOUS
<1>7. PICK g : g = Taken(Top, id)
  OBVIOUS
<1>8. w \in Stored /\ w \in Wrappers
  BY <1>1, <1>5, <1>6, StoredIsMapped
<1>9. /\ g.kind = Top.kind /\ g.wrapper = Top.wrapper
      /\ g.got = Top.got \cup {w}
      /\ \A ids : HasRetrieved(Top, ids) => HasRetrieved(g, ids)
  BY <1>4, <1>5, <1>6, <1>7, <1>8, TakenFrame
<1>10. PICK f : f = Recreation(w)
  OBVIOUS
<1>11. /\ f.kind = "recreate" /\ f.wrapper = w
       /\ f.todo = precedents[w] /\ f.got = {}
  BY <1>10 DEF Recreation, Activation
<1>12. /\ Rank(rank, w) \in Nat
       /\ Rank(rank, w) + Len(stack) + 1 <= MaxDepth
       /\ \A j \in 2 .. Len(stack) : Rank(rank, w) < Rank(rank, stack[j].wrapper)
  BY <1>1, <1>2, <1>3, <1>5, <1>6, BelowAll
\* The stack after the step: the frames below the top, the top itself, and one more if
\* the wrapper is dirty.
<1>13. /\ crashed' = crashed /\ stack' # <<>> /\ Len(stack') \in Nat
       /\ Len(stack') = IF dirty[w] THEN Len(stack) + 1 ELSE Len(stack)
       /\ \A i \in 1 .. Len(stack) - 1 : stack'[i] = stack[i]
       /\ stack'[Len(stack)] = g
       /\ dirty[w] => stack'[Len(stack) + 1] = f
  BY <1>4, <1>5, <1>6, <1>7, <1>10
<1>14. \A i \in 1 .. Len(stack) :
         /\ stack'[i].kind = stack[i].kind /\ stack'[i].wrapper = stack[i].wrapper
         /\ stack'[i].got = stack[i].got \cup IF i = Len(stack) THEN {w} ELSE {}
         /\ \A ids : HasRetrieved(stack[i], ids) => HasRetrieved(stack'[i], ids)
  <2> TAKE i \in 1 .. Len(stack)
  <2>1. i = Len(stack) \/ i \in 1 .. Len(stack) - 1
    BY <1>4
  <2> QED
    BY <1>4, <1>9, <1>13, <2>1
<1>15. Kind' = Kind
  BY <1>4, <1>14 DEF Kind
<1>16. Retrieves(rank)'
  <2>1. ASSUME NEW i \in 1 .. Len(stack'), NEW x \in stack'[i].got
        PROVE  ~dirty[x] \/ Above(i, x)'
    <3>1. CASE i = Len(stack) + 1
      BY <1>4, <1>11, <1>13, <2>1, <3>1
    <3>2. CASE i = Len(stack) /\ x = w
      BY <1>4, <1>11, <1>13, <3>2 DEF Above
    <3>3. CASE i \in 1 .. Len(stack) /\ x \in stack[i].got
      <4>1. ~dirty[x] \/ Above(i, x)
        BY <1>3, <3>3 DEF Retrieves
      <4> QED
        BY <1>4, <1>13, <1>14, <3>3, <4>1 DEF Above
    <3> QED
      BY <1>4, <1>13, <1>14, <2>1, <3>1, <3>2, <3>3
  <2>2. Kind' = "construct" => held' # None /\ HasRetrieved(stack'[1], held'.precedents)
    BY <1>2, <1>3, <1>4, <1>14, <1>15 DEF Retrieves
  <2>3. ASSUME NEW i \in 2 .. Len(stack')
        PROVE  LET v == stack'[i].wrapper
               IN /\ stack'[i].kind = "recreate"
                  /\ v \in Stored /\ dirty[v] /\ HasRetrieved(stack'[i], precedents[v])
                  /\ Rank(rank, v) + i <= MaxDepth
                  /\ \A j \in 2 .. i - 1 : Rank(rank, v) < Rank(rank, stack'[j].wrapper)
    <3>1. CASE i = Len(stack) + 1
      <4>1. dirty[w] /\ stack'[i] = f
        BY <1>4, <1>13, <2>3, <3>1
      <4>2. HasRetrieved(f, precedents[w])
        BY <1>11 DEF HasRetrieved
      <4>3. \A j \in 2 .. i - 1 : j \in 1 .. Len(stack) /\ j \in 2 .. Len(stack)
        BY <1>4, <3>1
      <4>4. \A j \in 2 .. i - 1 : Rank(rank, w) < Rank(rank, stack'[j].wrapper)
        BY <1>12, <1>14, <4>3
      <4>5. Rank(rank, w) + i <= MaxDepth
        BY <1>4, <1>12, <3>1
      <4> QED
        BY <1>8, <1>11, <4>1, <4>2, <4>4, <4>5
    <3>2. CASE i \in 2 .. Len(stack)
      <4>1. i \in 1 .. Len(stack) /\ \A j \in 2 .. i - 1 : j \in 1 .. Len(stack)
        BY <1>4, <3>2
      <4> QED
        BY <1>3, <1>14, <3>2, <4>1 DEF Retrieves
    <3> QED
      BY <1>4, <1>13, <2>3, <3>1, <3>2
  <2> QED
    BY <1>2, <2>1, <2>2, <2>3 DEF Retrieves, HasRetrieved, Exists, Stored, Rank, objectVars
<1>17. Registered' /\ DirtyBelow' /\ UpToDate'
  <2>1. \A x : Resetting(x)' = Resetting(x) /\ (Pending(x) => Pending(x)')
    BY <1>3, <1>15, NothingPends DEF Resetting, Pending, Kind
  <2> QED
    BY <1>1, <1>2, <2>1, SameOrder DEF objectVars, links
<1>18. HeldInOrder'
  BY <1>1, <1>2, <1>13, <1>15, HeldInCall DEF HeldInOrder
<1>19. Activations(rank)'
  BY <1>3, <1>15, <1>16 DEF Activations
<1> QED
  BY <1>1, <1>13, <1>17, <1>18, <1>19 DEF FreshInv

\* A wrapper that is recreated has what it observes as it is now; what observes it is
\* dirty already.
LEMMA FinishRecreateFresh ==
  ASSUME NEW rank, FreshInv(rank), MemoryInv, FinishRecreate
  PROVE  FreshInv(rank)'
<1>1. /\ TypeOK /\ MapSafe /\ LinksMatch /\ Registered /\ DirtyBelow /\ UpToDate /\ HeldInOrder
      /\ ~crashed /\ Layered(rank) /\ Layered(rank)' /\ Activations(rank)
  BY DEF FreshInv, MemoryInv, Layered
<1>2. /\ stack # <<>> /\ Top.kind = "recreate" /\ Top.todo = {}
      /\ dirty' = [dirty EXCEPT ![Top.wrapper] = FALSE]
      /\ ForgetObjectOf(Top.wrapper, Top.got)
      /\ stack' = Pop /\ crashed' = crashed
      /\ UNCHANGED <<objectMap, live, objectVars, links>>
  BY DEF FinishRecreate, Retrieving
<1>3. /\ Kind \in {"retrieve", "construct"} /\ Retrieves(rank)
      /\ Len(stack) \in Nat \ {0} /\ Len(stack) \in 2 .. Len(stack)
      /\ Top = stack[Len(stack)] /\ Top \in Frame
      /\ Len(Pop) = Len(stack) - 1 /\ \A i \in 1 .. Len(Pop) : Pop[i] = stack[i]
  BY <1>1, <1>2, FirstActivation, PopIsBelow DEF TypeOK, Top
<1>4. PICK w : w = Top.wrapper
  OBVIOUS
<1>5. PICK got : got = Top.got
  OBVIOUS
<1>6. /\ w \in Stored /\ w \in live /\ w \in Wrappers /\ dirty[w]
      /\ \A p \in precedents[w] : Exists(p) /\ objectMap[p] \in got
      /\ \A j \in 2 .. Len(stack) - 1 : Rank(rank, w) < Rank(rank, stack[j].wrapper)
  BY <1>1, <1>2, <1>3, <1>4, <1>5, StoredIsMapped DEF Retrieves, HasRetrieved
<1>7. \A x \in got : ~dirty[x]
  BY <1>3, <1>5 DEF Retrieves, Above
<1>8. \A x \in Wrappers : dirty'[x] = IF x = w THEN FALSE ELSE dirty[x]
  BY <1>1, <1>2, <1>4 DEF TypeOK
<1>9. \A x \in Wrappers : builtFrom'[x] = IF x = w THEN got ELSE builtFrom[x] \ {w}
  BY <1>2, <1>4, <1>5 DEF ForgetObjectOf
<1>10. \A i \in 1 .. Len(stack') : i \in 1 .. Len(stack) - 1 /\ stack'[i] = stack[i]
  BY <1>2, <1>3
<1>11. Len(stack') = Len(stack) - 1 /\ 1 \in 1 .. Len(stack') /\ Kind' = Kind
  BY <1>2, <1>3, <1>10 DEF Kind
\* What w observes and is stored is the wrapper of one of its precedents.
<1>12. \A o \in observables[w] \cap Stored : o \in got
  <2> TAKE o \in observables[w] \cap Stored
  <2>1. storedAs[o] \in precedents[w]
    BY <1>1, <1>3, <1>6, NothingPends DEF Registered
  <2>2. objectMap[storedAs[o]] = o
    BY <1>1, StoredIsMapped
  <2> QED
    BY <1>6, <2>1, <2>2
<1>13. Stored' = Stored
  BY <1>2 DEF Stored
<1>14. Registered'
  <2>1. \A x : Resetting(x)' = Resetting(x)
    BY <1>3, <1>11, NothingPends DEF Resetting, Kind
  <2> QED
    BY <1>1, <1>2, <2>1 DEF Registered, objectVars, links, TypeOK
<1>15. DirtyBelow'
  <2> SUFFICES ASSUME NEW x \in Wrappers, NEW o \in observables[x] \cap Stored, dirty'[o]
               PROVE  dirty'[x]
    BY <1>2, <1>13 DEF DirtyBelow, links
  <2>1. o \in Wrappers
    BY <1>1, StoredIsMapped
  <2>2. o # w /\ dirty[o]
    BY <1>8, <2>1
  <2>3. x # w
    BY <1>7, <1>12, <2>2
  <2>4. dirty[x]
    BY <1>1, <1>3, <2>2, NothingPends DEF DirtyBelow
  <2> QED
    BY <1>8, <2>3, <2>4
<1>16. UpToDate'
  <2> SUFFICES ASSUME NEW x \in Wrappers, NEW o \in observables[x] \cap Stored
               PROVE  dirty'[x] \/ o \in builtFrom'[x]
    BY <1>2, <1>13 DEF UpToDate, links
  <2>1. CASE x = w
    BY <1>9, <1>12, <2>1
  <2>2. CASE x # w /\ o = w
    BY <1>1, <1>3, <1>6, <1>8, <2>2, NothingPends DEF DirtyBelow
  <2>3. CASE x # w /\ o # w
    BY <1>1, <1>3, <1>8, <1>9, <2>3, NothingPends DEF UpToDate
  <2> QED
    BY <2>1, <2>2, <2>3
<1>17. /\ Building \/ held = None
       /\ held # None => held \in HeldObject /\ ~held.ready /\ Kind = "construct"
       /\ held # None => /\ held'.id = held.id /\ held'.precedents = held.precedents
                         /\ ~held'.ready /\ held' # None
       /\ held = None => held' = None
  <2>1. held # None => held \in HeldObject /\ ~held.ready /\ Kind = "construct"
    BY <1>1, <1>2, HeldInCall DEF TypeOK
  <2>2. ASSUME held # None
        PROVE  /\ held'.id = held.id /\ held'.precedents = held.precedents /\ ~held'.ready
               /\ held' \in HeldObject
    <3>1. held' = [held EXCEPT !.builtFrom = @ \ {w}] /\ held \in HeldObject
      BY <1>2, <1>4, <2>1, <2>2 DEF ForgetObjectOf
    <3> QED
      BY <2>1, <2>2, <3>1 DEF HeldObject
  <2> QED
    BY <1>1, <1>2, <2>1, <2>2, HeldInCall, NoneIsNoObject DEF ForgetObjectOf
<1>18. HeldInOrder'
  BY <1>1, <1>10, <1>11, <1>17 DEF HeldInOrder
<1>19. Retrieves(rank)'
  <2>1. ASSUME NEW i \in 1 .. Len(stack'), NEW x \in stack'[i].got
        PROVE  ~dirty'[x] \/ Above(i, x)'
    <3>1. i \in 1 .. Len(stack) /\ x \in stack[i].got
      BY <1>3, <1>10, <2>1
    <3>2. x \in Wrappers
      <4>1. stack \in Seq(Frame)
        BY <1>1 DEF TypeOK
      <4>2. stack[i] \in Frame
        BY <3>1, <4>1
      <4> QED
        BY <3>1, <4>2 DEF Frame
    <3>3. CASE ~dirty[x]
      BY <1>8, <3>2, <3>3
    <3>4. CASE Above(i, x) /\ i = Len(stack) - 1
      <4>1. i + 1 = Len(stack)
        BY <1>3, <3>4
      <4>2. x = stack[Len(stack)].wrapper
        BY <3>4, <4>1 DEF Above
      <4>3. x = w
        BY <1>3, <1>4, <4>2
      <4> QED
        BY <1>6, <1>8, <4>3
    <3>5. CASE Above(i, x) /\ i # Len(stack) - 1
      <4>1. i + 1 \in 1 .. Len(stack') /\ i < Len(stack')
        BY <1>3, <1>10, <1>11, <2>1, <3>5
      <4> QED
        BY <1>10, <3>5, <4>1 DEF Above
    <3> QED
      BY <1>3, <3>1, <3>3, <3>4, <3>5 DEF Retrieves
  <2>2. Kind' = "construct" => held' # None /\ HasRetrieved(stack'[1], held'.precedents)
    BY <1>3, <1>10, <1>11, <1>17 DEF Retrieves
  <2>3. ASSUME NEW i \in 2 .. Len(stack')
        PROVE  LET v == stack'[i].wrapper
               IN /\ stack'[i].kind = "recreate"
                  /\ v \in Stored /\ dirty'[v] /\ HasRetrieved(stack'[i], precedents[v])
                  /\ Rank(rank, v) + i <= MaxDepth
                  /\ \A j \in 2 .. i - 1 : Rank(rank, v) < Rank(rank, stack'[j].wrapper)
    <3>1. i \in 2 .. Len(stack) /\ i \in 2 .. Len(stack) - 1 /\ stack'[i] = stack[i]
      BY <1>3, <1>10, <1>11, <2>3
    <3>2. \A j \in 2 .. i - 1 : j \in 1 .. Len(stack') /\ stack'[j] = stack[j]
      BY <1>3, <1>10, <1>11, <3>1
    <3>3. PICK v : v = stack[i].wrapper
      OBVIOUS
    <3>4. /\ stack[i].kind = "recreate" /\ v \in Stored /\ dirty[v]
          /\ HasRetrieved(stack[i], precedents[v]) /\ Rank(rank, v) + i <= MaxDepth
          /\ \A j \in 2 .. i - 1 : Rank(rank, v) < Rank(rank, stack[j].wrapper)
      BY <1>3, <3>1, <3>3 DEF Retrieves
    <3>5. v # w
      <4>1. Rank(rank, w) < Rank(rank, v)
        BY <1>6, <3>1, <3>3
      <4>2. Rank(rank, w) \in Nat
        BY <1>1, <1>6, StoredIsMapped DEF Layered, Rank
      <4> QED
        BY <4>1, <4>2
    <3>6. v \in Wrappers
      BY <1>1, <3>4, StoredIsMapped
    <3>7. dirty'[v]
      BY <1>8, <3>4, <3>5, <3>6
    <3> QED
      BY <3>1, <3>2, <3>3, <3>4, <3>7
  <2> QED
    BY <1>2, <2>1, <2>2, <2>3 DEF Retrieves, HasRetrieved, Exists, Stored, Rank, objectVars
<1>20. Activations(rank)'
  BY <1>3, <1>11, <1>19 DEF Activations
<1> QED
  BY <1>1, <1>2, <1>14, <1>15, <1>16, <1>18, <1>20 DEF FreshInv

-----------------------------------------------------------------------------
(* Notification *)

\* The top of a notification once it has called one more observer.
Told(f, o) == [f EXCEPT !.todo = @ \ {o}]

LEMMA ToldFrame ==
  ASSUME NEW f \in Frame, NEW o
  PROVE  /\ Told(f, o) \in Frame
         /\ Told(f, o).kind = f.kind /\ Told(f, o).wrapper = f.wrapper
         /\ Told(f, o).todo = f.todo \ {o}
BY DEF Frame, Told

\* What observes a wrapper ranks above it.
LEMMA ObserverRanks ==
  ASSUME NEW rank, Layered(rank), TypeOK, LinksMatch, Registered,
         NEW w \in Wrappers, NEW o \in observers[w]
  PROVE  /\ o \in Wrappers /\ o \in live /\ w \in live /\ w \in observables[o]
         /\ Rank(rank, w) \in 0 .. MaxDepth - 2 /\ Rank(rank, o) \in 0 .. MaxDepth - 2
         /\ Rank(rank, w) < Rank(rank, o)
<1>1. o \in Wrappers /\ w \in observables[o]
  BY DEF TypeOK, LinksMatch
<1>2. o \in live /\ w \in live
  BY <1>1 DEF LinksMatch
<1>3. storedAs[o] \in Ids /\ storedAs[w] \in Ids /\ storedAs[w] \in Uses[storedAs[o]]
  BY <1>1, <1>2 DEF Registered
<1> QED
  BY <1>1, <1>2, <1>3 DEF Layered, Rank

\* How far up a notification has come.
LEMMA UpInRank ==
  ASSUME NEW rank, Layered(rank), MemoryInv, Registered, stack # <<>>, Notifies(rank)
  PROVE  /\ stack[1].wrapper \in live /\ Rank(rank, stack[1].wrapper) \in 0 .. MaxDepth - 2
         /\ Top.wrapper \in Wrappers
         /\ Rank(rank, Top.wrapper) >= Rank(rank, stack[1].wrapper) + Len(stack) - 1
<1>1. /\ stack \in Seq(Frame) /\ Len(stack) \in Nat \ {0} /\ Top = stack[Len(stack)]
      /\ live \subseteq Wrappers
  BY PopIsBelow DEF MemoryInv, TypeOK, Top
<1>2. stack[1].wrapper \in live /\ Rank(rank, stack[1].wrapper) \in 0 .. MaxDepth - 2
  BY DEF Notifies, Registered, Layered, Rank
<1>3. CASE Len(stack) = 1
  BY <1>1, <1>2, <1>3
<1>4. CASE Len(stack) \in 2 .. Len(stack)
  <2>1. /\ Top.kind = "update"
        /\ Rank(rank, Top.wrapper) >= Rank(rank, stack[1].wrapper) + Len(stack) - 1
    BY <1>1, <1>4 DEF Notifies
  <2>2. Len(stack) \in 1 .. Len(stack)
    BY <1>1
  <2>3. Top.wrapper \in live
    BY <1>1, <2>1, <2>2 DEF MemoryInv, FramesSafe, FrameSafe
  <2> QED
    BY <1>1, <1>2, <2>1, <2>3
<1>5. Len(stack) = 1 \/ Len(stack) \in 2 .. Len(stack)
  <2>1. \A n \in Nat \ {0} : n = 1 \/ n \in 2 .. n
    OBVIOUS
  <2> QED
    BY <1>1, <2>1
<1> QED
  BY <1>3, <1>4, <1>5

\* The stack after one more observer was called.
LEMMA NotifiedStack ==
  ASSUME NEW rank, FreshInv(rank), MemoryInv, NotifyNext
  PROVE  \E o \in observers[Top.wrapper] \cap Top.todo \cap Wrappers :
           /\ crashed' = crashed /\ stack' # <<>> /\ Len(stack') = Len(stack) + 1
           /\ Rank(rank, o) >= Rank(rank, stack[1].wrapper) + Len(stack)
           /\ \A i \in 1 .. Len(stack) - 1 : stack'[i] = stack[i]
           /\ stack'[Len(stack)] = Told(Top, o)
           /\ stack'[Len(stack) + 1] = Activation("update", o, observers[o])
<1>1. /\ TypeOK /\ LinksMatch /\ Registered /\ Layered(rank) /\ Activations(rank)
  BY DEF FreshInv, MemoryInv
<1>2. stack # <<>> /\ Top.kind \in {"reset", "update"}
  BY DEF NotifyNext, Notifying
<1>3. Notifies(rank)
  BY <1>1, <1>2, FirstActivation
<1>4. stack \in Seq(Frame) /\ Len(stack) \in Nat \ {0} /\ Top = stack[Len(stack)] /\ Top \in Frame
  BY <1>1, <1>2, PopIsBelow DEF TypeOK, Top
<1>5. PICK o \in Top.todo \cap Wrappers :
        Enter(Replace([Top EXCEPT !.todo = @ \ {o}]), Activation("update", o, observers[o]))
  BY DEF NotifyNext
<1>6. PICK g, f : g = Told(Top, o) /\ f = Activation("update", o, observers[o])
  OBVIOUS
<1>7. g \in Frame /\ f \in Frame
  BY <1>1, <1>4, <1>6, ToldFrame DEF Activation, Frame, TypeOK
<1>8. /\ Replace(g) \in Seq(Frame) /\ Len(Replace(g)) = Len(stack)
      /\ \A i \in 1 .. Len(stack) - 1 : Replace(g)[i] = stack[i]
      /\ Replace(g)[Len(stack)] = g
  BY <1>2, <1>4, <1>7, ReplacedTop
<1>9. /\ Rank(rank, stack[1].wrapper) \in 0 .. MaxDepth - 2
      /\ Top.wrapper \in Wrappers
      /\ Rank(rank, Top.wrapper) >= Rank(rank, stack[1].wrapper) + Len(stack) - 1
  BY <1>1, <1>2, <1>3, UpInRank
<1>10. o \in observers[Top.wrapper]
  <2>1. Len(stack) \in 1 .. Len(stack)
    BY <1>4
  <2> QED
    BY <1>3, <1>4, <1>5, <2>1 DEF Notifies
<1>11. /\ Rank(rank, o) >= Rank(rank, stack[1].wrapper) + Len(stack)
       /\ Len(stack) < MaxDepth
  <2>1. /\ Rank(rank, Top.wrapper) \in 0 .. MaxDepth - 2 /\ Rank(rank, o) \in 0 .. MaxDepth - 2
        /\ Rank(rank, Top.wrapper) < Rank(rank, o)
    BY <1>1, <1>9, <1>10, ObserverRanks
  <2> QED
    BY <1>4, <1>9, <2>1, RepositoryAssumption
<1>12. Enter(Replace(g), f)
  BY <1>5, <1>6 DEF Told
<1>13. /\ crashed' = crashed /\ stack' # <<>> /\ Len(stack') = Len(stack) + 1
       /\ \A i \in 1 .. Len(stack) : stack'[i] = Replace(g)[i]
       /\ stack'[Len(stack) + 1] = f
  BY <1>7, <1>8, <1>11, <1>12, Entered
<1>14. /\ \A i \in 1 .. Len(stack) - 1 : stack'[i] = stack[i]
       /\ stack'[Len(stack)] = g
  BY <1>4, <1>8, <1>13
<1> QED
  BY <1>5, <1>6, <1>10, <1>11, <1>13, <1>14

\* One more observer is called, and has its own observers to call first.
LEMMA NotifyNextFresh ==
  ASSUME NEW rank, FreshInv(rank), MemoryInv, NotifyNext
  PROVE  FreshInv(rank)'
<1>1. /\ TypeOK /\ MapSafe /\ LinksMatch /\ Registered /\ DirtyBelow /\ UpToDate /\ HeldInOrder
      /\ ~crashed /\ Layered(rank) /\ Layered(rank)' /\ Activations(rank)
  BY DEF FreshInv, MemoryInv, Layered
<1>2. /\ stack # <<>> /\ Top.kind \in {"reset", "update"}
      /\ UNCHANGED <<objectMap, live, objectVars, dirty, builtFrom, links, held>>
  BY DEF NotifyNext, Notifying
<1>3. Kind = "reset" /\ Notifies(rank)
  BY <1>1, <1>2, FirstActivation
<1>4. stack \in Seq(Frame) /\ Len(stack) \in Nat \ {0} /\ Top = stack[Len(stack)] /\ Top \in Frame
  BY <1>1, <1>2, PopIsBelow DEF TypeOK, Top
<1>5. PICK o \in observers[Top.wrapper] \cap Top.todo \cap Wrappers :
        /\ crashed' = crashed /\ stack' # <<>> /\ Len(stack') = Len(stack) + 1
        /\ Rank(rank, o) >= Rank(rank, stack[1].wrapper) + Len(stack)
        /\ \A i \in 1 .. Len(stack) - 1 : stack'[i] = stack[i]
        /\ stack'[Len(stack)] = Told(Top, o)
        /\ stack'[Len(stack) + 1] = Activation("update", o, observers[o])
  BY NotifiedStack
<1>6. PICK g, f : g = Told(Top, o) /\ f = Activation("update", o, observers[o])
  OBVIOUS
<1>7. /\ g.kind = Top.kind /\ g.wrapper = Top.wrapper
      /\ g.todo = Top.todo \ {o}
  BY <1>4, <1>6, ToldFrame
<1>8. /\ f.kind = "update" /\ f.wrapper = o /\ f.todo = observers[o]
  BY <1>6 DEF Activation
<1>9. Rank(rank, stack[1].wrapper) \in 0 .. MaxDepth - 2
  BY <1>1, <1>2, <1>3, UpInRank
<1>10. Rank(rank, o) >= Rank(rank, stack[1].wrapper) + Len(stack)
  BY <1>5
<1>11. /\ crashed' = crashed /\ stack' # <<>> /\ Len(stack') = Len(stack) + 1
       /\ \A i \in 1 .. Len(stack) - 1 : stack'[i] = stack[i]
       /\ stack'[Len(stack)] = g /\ stack'[Len(stack) + 1] = f
  BY <1>5, <1>6
<1>12. \A i \in 1 .. Len(stack) :
         /\ stack'[i].kind = stack[i].kind /\ stack'[i].wrapper = stack[i].wrapper
         /\ stack'[i].todo = stack[i].todo \ IF i = Len(stack) THEN {o} ELSE {}
  <2> TAKE i \in 1 .. Len(stack)
  <2>1. i = Len(stack) \/ i \in 1 .. Len(stack) - 1
    BY <1>4
  <2> QED
    BY <1>4, <1>7, <1>11, <2>1
<1>13. /\ Kind' = Kind /\ stack'[1].wrapper = stack[1].wrapper
       /\ \A i \in 1 .. Len(stack') : i \in 1 .. Len(stack) \/ i = Len(stack) + 1
       /\ \A i \in 1 .. Len(stack) : /\ i \in 1 .. Len(stack')
                                     /\ i \in 2 .. Len(stack) => i \in 2 .. Len(stack')
       /\ Len(stack) + 1 \in 2 .. Len(stack')
  BY <1>4, <1>11, <1>12 DEF Kind
<1>14. ASSUME NEW x, Pending(x) PROVE Pending(x)'
  <2>1. ASSUME NEW i \in 1 .. Len(stack), x \in stack[i].todo PROVE Pending(x)'
    <3>1. CASE x \in stack'[i].todo
      BY <1>3, <1>11, <1>13, <3>1 DEF Pending
    <3>2. CASE x = o
      BY <1>3, <1>8, <1>11, <1>13, <3>2 DEF Pending
    <3> QED
      BY <1>12, <2>1, <3>1, <3>2
  <2>2. ASSUME NEW i \in 2 .. Len(stack), x = stack[i].wrapper PROVE Pending(x)'
    <3>1. i \in 1 .. Len(stack) /\ i \in 2 .. Len(stack')
      BY <1>13
    <3> QED
      BY <1>3, <1>11, <1>12, <1>13, <2>2, <3>1 DEF Pending
  <2> QED
    BY <1>14, <2>1, <2>2 DEF Pending
<1>15. Notifies(rank)'
  <2>1. /\ (stack[1].wrapper \in live)'
        /\ (\A p \in precedents[stack[1].wrapper] : InOrder(p, builtFrom[stack[1].wrapper]))'
    BY <1>2, <1>3, <1>13 DEF Notifies, InOrder, Exists, objectVars
  <2>2. ASSUME NEW i \in 1 .. Len(stack')
        PROVE  stack'[i].todo \subseteq observers[stack'[i].wrapper]
    <3>1. CASE i \in 1 .. Len(stack)
      BY <1>3, <1>12, <3>1 DEF Notifies
    <3>2. CASE i = Len(stack) + 1
      BY <1>8, <1>11, <3>2
    <3> QED
      BY <1>13, <3>1, <3>2
  <2>3. ASSUME NEW i \in 2 .. Len(stack')
        PROVE  LET v == stack'[i].wrapper
               IN /\ stack'[i].kind = "update"
                  /\ Rank(rank, v) >= Rank(rank, stack[1].wrapper) + i - 1
                  /\ \A x \in observers[v] : dirty[x] \/ x \in stack'[i].todo \/ Above(i, x)'
    <3>1. CASE i = Len(stack) + 1
      BY <1>4, <1>8, <1>9, <1>10, <1>11, <3>1
    <3>2. CASE i \in 2 .. Len(stack)
      <4>1. i \in 1 .. Len(stack)
        BY <3>2
      <4>2. PICK v : v = stack[i].wrapper
        OBVIOUS
      <4>3. /\ stack[i].kind = "update"
            /\ Rank(rank, v) >= Rank(rank, stack[1].wrapper) + i - 1
            /\ \A x \in observers[v] : dirty[x] \/ x \in stack[i].todo \/ Above(i, x)
        BY <1>3, <3>2, <4>2 DEF Notifies
      <4>4. ASSUME NEW x \in observers[v], Above(i, x) PROVE Above(i, x)'
        <5>1. i + 1 \in 1 .. Len(stack) /\ i < Len(stack) /\ x = stack[i + 1].wrapper
          BY <1>4, <3>2, <4>4 DEF Above
        <5>2. i < Len(stack') /\ stack'[i + 1].wrapper = stack[i + 1].wrapper
          BY <1>4, <1>11, <1>12, <5>1
        <5> QED
          BY <5>1, <5>2 DEF Above
      <4>5. ASSUME NEW x \in observers[v], x \in stack[i].todo, x \notin stack'[i].todo
            PROVE  Above(i, x)'
        <5>1. i = Len(stack) /\ x = o
          BY <1>12, <4>1, <4>5
        <5> QED
          BY <1>4, <1>8, <1>11, <5>1 DEF Above
      <4> QED
        BY <1>12, <4>1, <4>2, <4>3, <4>4, <4>5
    <3> QED
      BY <1>13, <2>3, <3>1, <3>2
  <2>4. UNCHANGED <<observers, dirty>> /\ \A v : Rank(rank, v)' = Rank(rank, v)
    BY <1>2 DEF Rank, objectVars, links
  <2> QED
    BY <1>13, <2>1, <2>2, <2>3, <2>4 DEF Notifies
<1>16. Registered' /\ DirtyBelow' /\ UpToDate'
  <2>1. \A x : Resetting(x)' = Resetting(x)
    BY <1>2, <1>11, <1>13 DEF Resetting
  <2> QED
    BY <1>1, <1>2, <1>14, <2>1, SameOrder DEF objectVars, links
<1>17. HeldInOrder'
  BY <1>1, <1>2, <1>3, HeldInCall DEF HeldInOrder
<1>18. Activations(rank)'
  BY <1>3, <1>13, <1>15 DEF Activations
<1> QED
  BY <1>1, <1>11, <1>16, <1>17, <1>18 DEF FreshInv

\* A wrapper becomes dirty when all of its observers are.
LEMMA FinishUpdateFresh ==
  ASSUME NEW rank, FreshInv(rank), MemoryInv, FinishUpdate
  PROVE  FreshInv(rank)'
<1>1. /\ TypeOK /\ MapSafe /\ LinksMatch /\ Registered /\ DirtyBelow /\ UpToDate /\ HeldInOrder
      /\ ~crashed /\ Layered(rank) /\ Layered(rank)' /\ Activations(rank)
  BY DEF FreshInv, MemoryInv, Layered
<1>2. /\ stack # <<>> /\ Top.kind = "update" /\ Top.todo = {}
      /\ dirty' = [dirty EXCEPT ![Top.wrapper] = TRUE]
      /\ stack' = Pop /\ crashed' = crashed
      /\ UNCHANGED <<objectMap, live, objectVars, builtFrom, links, held>>
  BY DEF FinishUpdate, Notifying
<1>3. /\ Kind = "reset" /\ Notifies(rank)
      /\ Len(stack) \in Nat \ {0} /\ Len(stack) \in 2 .. Len(stack)
      /\ Top = stack[Len(stack)]
      /\ Len(Pop) = Len(stack) - 1 /\ \A i \in 1 .. Len(Pop) : Pop[i] = stack[i]
  BY <1>1, <1>2, FirstActivation, PopIsBelow DEF TypeOK, Top
<1>4. PICK w : w = Top.wrapper
  OBVIOUS
<1>5. PICK reset : reset = stack[1].wrapper
  OBVIOUS
<1>6. /\ reset \in live /\ Rank(rank, reset) \in 0 .. MaxDepth - 2
      /\ w \in Wrappers /\ Rank(rank, w) >= Rank(rank, reset) + Len(stack) - 1
  BY <1>1, <1>2, <1>3, <1>4, <1>5, UpInRank
<1>7. \A x \in observers[w] : dirty[x]
  BY <1>2, <1>3, <1>4 DEF Notifies, Above
<1>8. \A x \in Wrappers : dirty'[x] = (x = w \/ dirty[x])
  BY <1>1, <1>2, <1>4 DEF TypeOK
<1>9. /\ \A i \in 1 .. Len(stack') : i \in 1 .. Len(stack) - 1 /\ stack'[i] = stack[i]
      /\ \A i \in 1 .. Len(stack) - 1 : i \in 1 .. Len(stack') /\ stack'[i] = stack[i]
  BY <1>2, <1>3
<1>10. /\ Len(stack') = Len(stack) - 1 /\ 1 \in 1 .. Len(stack')
       /\ stack'[1] = stack[1] /\ Kind' = Kind /\ stack' # <<>>
  <2>1. Len(stack') = Len(stack) - 1 /\ 1 \in 1 .. Len(stack')
    BY <1>2, <1>3
  <2>2. stack' # <<>>
    BY <2>1
  <2> QED
    BY <1>9, <2>1, <2>2 DEF Kind
<1>11. Stored' = Stored /\ Stored \subseteq Wrappers
  BY <1>1, <1>2, StoredIsMapped DEF Stored
<1>12. \A x : Resetting(x)' = Resetting(x)
  BY <1>2, <1>10 DEF Resetting
<1>13. ASSUME NEW x, Pending(x) PROVE x = w \/ Pending(x)'
  <2>1. ASSUME NEW i \in 1 .. Len(stack), x \in stack[i].todo PROVE Pending(x)'
    <3>1. i \in 1 .. Len(stack) - 1
      BY <1>2, <1>3, <2>1
    <3> QED
      BY <1>3, <1>9, <1>10, <2>1, <3>1 DEF Pending
  <2>2. ASSUME NEW i \in 2 .. Len(stack), x = stack[i].wrapper, x # w PROVE Pending(x)'
    <3>1. i # Len(stack)
      BY <1>3, <1>4, <2>2
    <3>2. i \in 1 .. Len(stack) - 1 /\ i \in 2 .. Len(stack')
      BY <1>3, <1>10, <2>2, <3>1
    <3> QED
      BY <1>3, <1>9, <1>10, <2>2, <3>2 DEF Pending
  <2> QED
    BY <1>13, <2>1, <2>2 DEF Pending
<1>14. Registered'
  BY <1>1, <1>2, <1>12 DEF Registered, objectVars, links, TypeOK
<1>15. DirtyBelow'
  <2> SUFFICES ASSUME NEW x \in Wrappers, NEW o \in observables[x] \cap Stored, dirty'[o]
               PROVE  dirty'[x] \/ Resetting(x)
    BY <1>2, <1>11, <1>12 DEF DirtyBelow, links
  <2>1. CASE o = w
    BY <1>1, <1>6, <1>7, <1>8, <2>1 DEF LinksMatch
  <2>2. CASE o # w
    BY <1>1, <1>8, <1>11, <2>2 DEF DirtyBelow
  <2> QED
    BY <2>1, <2>2
<1>16. UpToDate'
  <2> SUFFICES ASSUME NEW x \in Wrappers, NEW o \in observables[x] \cap Stored
               PROVE  dirty'[x] \/ Pending(x)' \/ Resetting(x) \/ o \in builtFrom[x]
    BY <1>2, <1>11, <1>12 DEF UpToDate, links
  <2>1. dirty[x] \/ Pending(x) \/ Resetting(x) \/ o \in builtFrom[x]
    BY <1>1 DEF UpToDate
  <2> QED
    BY <1>8, <1>13, <2>1
<1>17. ASSUME NEW p \in precedents[reset]
       PROVE  InOrder(p, builtFrom[reset])'
  <2>1. InOrder(p, builtFrom[reset]) /\ p \in Ids
    BY <1>1, <1>3, <1>5, <1>6 DEF Notifies, TypeOK
  <2>2. objectMap[p] \in Wrappers /\ storedAs[objectMap[p]] = p
    BY <1>1, <2>1, StoredIsMapped DEF InOrder
  <2>3. storedAs[reset] \in Ids /\ p \in Uses[storedAs[reset]]
    BY <1>1, <1>6, <1>17 DEF Registered
  <2>4. rank[p] < Rank(rank, reset) /\ rank[p] \in 0 .. MaxDepth - 2
    BY <1>1, <2>1, <2>3 DEF Layered, Rank
  <2>5. objectMap[p] # w
    <3>1. Rank(rank, objectMap[p]) = rank[p]
      BY <2>2 DEF Rank
    <3>2. rank[p] # Rank(rank, w)
      BY <1>3, <1>6, <2>4
    <3> QED
      BY <3>1, <3>2
  <2> QED
    BY <1>2, <1>8, <2>1, <2>2, <2>5 DEF InOrder, Exists
<1>18. Notifies(rank)'
  <2>1. /\ (stack[1].wrapper \in live)'
        /\ (\A p \in precedents[stack[1].wrapper] : InOrder(p, builtFrom[stack[1].wrapper]))'
    BY <1>2, <1>5, <1>6, <1>10, <1>17 DEF objectVars
  <2>2. \A i \in 1 .. Len(stack') : stack'[i].todo \subseteq observers[stack'[i].wrapper]
    BY <1>3, <1>9 DEF Notifies
  <2>3. ASSUME NEW i \in 2 .. Len(stack')
        PROVE  LET v == stack'[i].wrapper
               IN /\ stack'[i].kind = "update"
                  /\ Rank(rank, v) >= Rank(rank, stack[1].wrapper) + i - 1
                  /\ \A x \in observers[v] : dirty'[x] \/ x \in stack'[i].todo \/ Above(i, x)'
    <3>1. i \in 2 .. Len(stack) /\ i \in 2 .. Len(stack) - 1 /\ i \in 1 .. Len(stack')
          /\ stack'[i] = stack[i]
      BY <1>3, <1>9, <1>10, <2>3
    <3>2. PICK v : v = stack[i].wrapper
      OBVIOUS
    <3>3. /\ stack[i].kind = "update"
          /\ Rank(rank, v) >= Rank(rank, stack[1].wrapper) + i - 1
          /\ \A x \in observers[v] : dirty[x] \/ x \in stack[i].todo \/ Above(i, x)
      BY <1>3, <3>1, <3>2 DEF Notifies
    <3>4. i \in 1 .. Len(stack) /\ stack[i].kind = "update"
      BY <3>1, <3>3
    <3>5. v \in Wrappers
      BY <1>1, <3>2, <3>4 DEF FreshInv, MemoryInv, FramesSafe, FrameSafe, TypeOK
    <3>6. observers[v] \subseteq Wrappers
      BY <1>1, <3>5 DEF TypeOK
    <3>7. ASSUME NEW x \in observers[v], Above(i, x) PROVE dirty'[x] \/ Above(i, x)'
      <4>1. CASE i + 1 = Len(stack)
        BY <1>3, <1>4, <1>6, <1>8, <3>7, <4>1 DEF Above
      <4>2. CASE i + 1 # Len(stack)
        <5>1. i + 1 \in 1 .. Len(stack) - 1 /\ i < Len(stack')
          BY <1>3, <1>10, <3>1, <4>2
        <5> QED
          BY <1>9, <3>7, <5>1 DEF Above
      <4> QED
        BY <4>1, <4>2
    <3> QED
      BY <1>8, <3>1, <3>2, <3>3, <3>6, <3>7
  <2>4. observers' = observers /\ \A v : Rank(rank, v)' = Rank(rank, v)
    BY <1>2 DEF Rank, objectVars, links
  <2> QED
    BY <1>10, <2>1, <2>2, <2>3, <2>4 DEF Notifies
<1>19. HeldInOrder'
  BY <1>1, <1>2, <1>3, HeldInCall DEF HeldInOrder
<1>20. Activations(rank)'
  BY <1>3, <1>10, <1>18 DEF Activations
<1> QED
  BY <1>1, <1>2, <1>14, <1>15, <1>16, <1>19, <1>20 DEF FreshInv

-----------------------------------------------------------------------------
(* Storing *)

\* A client stores what is in order, under an ID that it does not refer to.
LEMMA StoresInOrder ==
  ASSUME NEW rank, FreshInv(rank), MemoryInv, CanStore
  PROVE  /\ held \in HeldObject /\ held.id \in Ids /\ stack = <<>>
         /\ \A p \in held.precedents :
              /\ p \in Ids /\ p # held.id /\ p \in Uses[held.id]
              /\ InOrder(p, held.builtFrom)
              /\ objectMap[p] \in Stored /\ objectMap[p] \in live /\ storedAs[objectMap[p]] = p
<1>1. held \in HeldObject /\ held.id \in Ids /\ held.precedents \subseteq Ids /\ stack = <<>>
      /\ held # None /\ held.ready
  BY DEF CanStore, Quiet, MemoryInv, TypeOK, HeldObject
<1>2. ASSUME NEW p \in held.precedents
      PROVE  /\ p \in Ids /\ p # held.id /\ p \in Uses[held.id]
             /\ InOrder(p, held.builtFrom)
  <2>1. p \in Ids /\ p \in Uses[held.id] /\ InOrder(p, held.builtFrom)
    BY <1>1 DEF FreshInv, HeldInOrder
  <2>2. rank[p] < rank[held.id] /\ rank[p] \in 0 .. MaxDepth - 2
    BY <1>1, <2>1 DEF FreshInv, Layered
  <2> QED
    BY <2>1, <2>2
<1>3. ASSUME NEW p \in held.precedents
      PROVE  objectMap[p] \in Stored /\ objectMap[p] \in live /\ storedAs[objectMap[p]] = p
  BY <1>2, StoredIsMapped DEF MemoryInv, InOrder
<1> QED
  BY <1>1, <1>2, <1>3

\* When all precedents exist the wrapper registers with all of them.
LEMMA RegistersWithAll ==
  ASSUME TypeOK, LinksMatch, NEW w \in Wrappers, NEW m \in [Ids -> Wrappers \cup {None}],
         NEW ids \in SUBSET Ids, \A p \in ids : m[p] # None, RegisterObserver(w, m, ids)
  PROVE  /\ \A x \in Wrappers : x # w => observables'[x] = observables[x]
         /\ \A o : o \in observables'[w] <=> \E p \in ids : o = m[p]
<1>1. PICK done \in SUBSET {p \in ids : m[p] # None} :
        /\ {p \in ids : m[p] # None} = ids => done = ids
        /\ Register(w, {m[p] : p \in done})
  BY DEF RegisterObserver
<1>2. {p \in ids : m[p] # None} = ids
  OBVIOUS
<1>3. Register(w, {m[p] : p \in ids})
  BY <1>1, <1>2
<1>4. {m[p] : p \in ids} \in SUBSET Wrappers
  OBVIOUS
<1>5. \A x \in Wrappers :
        observables'[x] = IF x = w THEN {m[p] : p \in ids} ELSE observables[x]
  BY <1>3, <1>4, RegisterKeepsSymmetry DEF LinksMatch
<1> QED
  BY ZenonT(40), <1>5

\* A new object is built from all that it observes.
LEMMA StoreNewFresh ==
  ASSUME NEW rank, FreshInv(rank), MemoryInv, StoreNew
  PROVE  FreshInv(rank)'
<1>1. /\ TypeOK /\ MapSafe /\ LinksMatch /\ Registered /\ DirtyBelow /\ UpToDate /\ HeldInOrder
      /\ ~crashed /\ Layered(rank) /\ Layered(rank)' /\ Activations(rank)
  BY DEF FreshInv, MemoryInv, Layered
<1>2. CanStore /\ ~Exists(held.id) /\ held' = None /\ UNCHANGED <<stack, crashed>>
  BY DEF StoreNew
<1>3. PICK w \in Wrappers \ live :
        /\ objectMap' = [objectMap EXCEPT ![held.id] = w]
        /\ live' = live \cup {w}
        /\ SetObject(w)
        /\ dirty' = [dirty EXCEPT ![w] = FALSE]
        /\ builtFrom' = [builtFrom EXCEPT ![w] = held.builtFrom]
        /\ RegisterObserver(w, objectMap', held.precedents)
  BY DEF StoreNew
<1>4. /\ held \in HeldObject /\ held.id \in Ids /\ stack = <<>>
      /\ held.precedents \in SUBSET Ids /\ held.precedents \subseteq Uses[held.id]
      /\ \A p \in held.precedents :
           /\ p # held.id /\ InOrder(p, held.builtFrom)
           /\ objectMap[p] \in Stored /\ objectMap[p] \in live /\ storedAs[objectMap[p]] = p
  BY <1>2, StoresInOrder
<1>5. \A x \in Wrappers :
        /\ storedAs'[x] = IF x = w THEN held.id ELSE storedAs[x]
        /\ precedents'[x] = IF x = w THEN held.precedents ELSE precedents[x]
        /\ dirty'[x] = IF x = w THEN FALSE ELSE dirty[x]
        /\ builtFrom'[x] = IF x = w THEN held.builtFrom ELSE builtFrom[x]
  BY <1>1, <1>3 DEF SetObject, TypeOK
<1>6. \A p \in Ids : objectMap'[p] = IF p = held.id THEN w ELSE objectMap[p]
  BY <1>1, <1>3 DEF TypeOK
<1>7. Stored' \subseteq Stored \cup {w} /\ objectMap' \in [Ids -> Wrappers \cup {None}]
  <2>1. objectMap' \in [Ids -> Wrappers \cup {None}]
    BY <1>1, <1>3, <1>4 DEF TypeOK
  <2>2. ASSUME NEW x \in Stored' PROVE x \in Stored \cup {w}
    <3>1. PICK p \in Ids : x = objectMap'[p] /\ x # None
      BY <2>2 DEF Stored
    <3> QED
      BY <1>6, <3>1 DEF Stored
  <2> QED
    BY <2>1, <2>2
<1>8. \A x \in Wrappers :
        observables'[x] = IF x = w THEN {objectMap[p] : p \in held.precedents}
                                   ELSE observables[x]
  <2>1. \A p \in held.precedents : objectMap'[p] = objectMap[p] /\ objectMap'[p] # None
    BY <1>4, <1>6 DEF InOrder, Exists
  <2>2. \A x \in Wrappers :
          observables'[x] = IF x = w THEN {objectMap'[p] : p \in held.precedents}
                                     ELSE observables[x]
    <3> DEFINE m == objectMap'
               ids == held.precedents
    <3>1. /\ m \in [Ids -> Wrappers \cup {None}] /\ ids \in SUBSET Ids
          /\ \A p \in ids : m[p] # None
          /\ RegisterObserver(w, m, ids) /\ w \in Wrappers /\ TypeOK /\ LinksMatch
      BY <1>1, <1>3, <1>4, <1>7, <2>1
    <3> HIDE DEF m, ids
    <3>2. /\ \A x \in Wrappers : x # w => observables'[x] = observables[x]
          /\ \A o : o \in observables'[w] <=> \E p \in ids : o = m[p]
      BY <3>1, RegistersWithAll
    <3>3. observables'[w] = {m[p] : p \in ids}
      BY <3>2
    <3> QED
      BY <3>2, <3>3 DEF m, ids
  <2>3. {objectMap'[p] : p \in held.precedents} = {objectMap[p] : p \in held.precedents}
    BY <2>1
  <2> QED
    BY <2>2, <2>3
\* Nobody observes the wrapper that has just been allocated.
<1>9. \A x \in Wrappers : w \notin observables[x] /\ observables[x] \subseteq Wrappers
  BY <1>1, <1>3 DEF LinksMatch, TypeOK
<1>10. live \subseteq Wrappers /\ w \notin live
  BY <1>1, <1>3 DEF TypeOK
<1>11. \A x : ~Resetting(x) /\ ~Resetting(x)' /\ ~Pending(x) /\ ~Pending(x)'
  BY <1>2, <1>4 DEF Resetting, Pending
<1>12. Registered'
  <2>1. ASSUME NEW x \in live'
        PROVE  storedAs'[x] \in Ids /\ precedents'[x] \subseteq Uses[storedAs'[x]]
    BY <1>1, <1>3, <1>4, <1>5, <1>10, <2>1 DEF Registered
  <2>2. ASSUME NEW x \in Wrappers, NEW o \in observables'[x]
        PROVE  storedAs'[o] \in Uses[storedAs'[x]] /\ storedAs'[o] \in precedents'[x]
    <3>1. CASE x = w
      <4>1. PICK p \in held.precedents : o = objectMap[p]
        BY <1>8, <2>2, <3>1
      <4>2. o \in Wrappers /\ o # w /\ storedAs[o] = p
        BY <1>4, <1>10, <4>1
      <4> QED
        BY <1>4, <1>5, <3>1, <4>2
    <3>2. CASE x # w
      <4>1. o \in observables[x] /\ o # w /\ o \in Wrappers
        BY <1>8, <1>9, <2>2, <3>2
      <4> QED
        BY <1>1, <1>5, <1>11, <3>2, <4>1 DEF Registered
    <3> QED
      BY <3>1, <3>2
  <2>3. ASSUME NEW x \in live', NEW p \in precedents'[x]
        PROVE  \E o \in observables'[x] : storedAs'[o] = p
    <3>1. CASE x = w
      <4>1. p \in held.precedents /\ objectMap[p] \in observables'[w]
        BY <1>5, <1>8, <2>3, <3>1
      <4> QED
        BY ZenonT(40), <1>4, <1>5, <1>10, <3>1, <4>1
    <3>2. CASE x # w
      <4>1. x \in live /\ x \in Wrappers /\ p \in precedents[x]
        BY <1>3, <1>5, <1>10, <2>3, <3>2
      <4>2. PICK o \in observables[x] : storedAs[o] = p
        BY <1>1, <1>11, <4>1 DEF Registered
      <4> QED
        BY <1>5, <1>8, <1>9, <3>2, <4>1, <4>2
    <3> QED
      BY <3>1, <3>2
  <2> QED
    BY <2>1, <2>2, <2>3 DEF Registered
<1>13. ASSUME NEW x \in Wrappers, NEW o \in observables'[x] \cap Stored', ~dirty'[x]
       PROVE  ~dirty'[o] /\ o \in builtFrom'[x]
  <2>1. CASE x = w
    <3>1. PICK p \in held.precedents : o = objectMap[p]
      BY <1>8, <1>13, <2>1
    <3>2. o \in Wrappers /\ o # w /\ ~dirty[o] /\ o \in held.builtFrom
      BY <1>4, <1>10, <3>1 DEF InOrder
    <3> QED
      BY <1>5, <2>1, <3>2
  <2>2. CASE x # w
    <3>1. o \in observables[x] \cap Stored /\ o # w /\ o \in Wrappers /\ ~dirty[x]
      BY <1>5, <1>7, <1>8, <1>9, <1>13, <2>2
    <3> QED
      BY <1>1, <1>5, <1>11, <2>2, <3>1 DEF DirtyBelow, UpToDate
  <2> QED
    BY <2>1, <2>2
<1>14. DirtyBelow' /\ UpToDate'
  BY <1>13 DEF DirtyBelow, UpToDate
<1> QED
  BY <1>1, <1>2, <1>4, <1>12, <1>14 DEF FreshInv, HeldInOrder, Activations

\* The observers of a wrapper that takes a new object are those to be notified.
LEMMA StoreOverFresh ==
  ASSUME NEW rank, FreshInv(rank), MemoryInv, StoreOver
  PROVE  FreshInv(rank)'
<1>1. /\ TypeOK /\ MapSafe /\ LinksMatch /\ Registered /\ DirtyBelow /\ UpToDate /\ HeldInOrder
      /\ ~crashed /\ Layered(rank) /\ Layered(rank)' /\ Activations(rank)
  BY DEF FreshInv, MemoryInv, Layered
<1>2. CanStore /\ Exists(held.id) /\ held' = None /\ UNCHANGED <<objectMap, live, links>>
  BY DEF StoreOver
<1>3. PICK w : w = objectMap[held.id]
  OBVIOUS
<1>4. /\ held \in HeldObject /\ held.id \in Ids /\ stack = <<>>
      /\ held.precedents \in SUBSET Ids /\ held.precedents \subseteq Uses[held.id]
      /\ \A p \in held.precedents :
           /\ p # held.id /\ InOrder(p, held.builtFrom)
           /\ objectMap[p] \in Stored /\ storedAs[objectMap[p]] = p
  BY <1>2, StoresInOrder
<1>5. w \in Wrappers /\ w \in live /\ storedAs[w] = held.id
  BY <1>1, <1>2, <1>3, <1>4, StoredIsMapped
<1>6. /\ SetObject(w)
      /\ dirty' = [dirty EXCEPT ![w] = FALSE]
      /\ builtFrom' = [x \in Wrappers |-> IF x = w THEN held.builtFrom \ {w}
                                                   ELSE builtFrom[x] \ {w}]
      /\ Enter(<<>>, Activation("reset", w, observers[w]))
  BY <1>3 DEF StoreOver
<1>7. PICK f : f = Activation("reset", w, observers[w])
  OBVIOUS
<1>8. f \in Frame /\ f.kind = "reset" /\ f.wrapper = w /\ f.todo = observers[w]
  BY <1>1, <1>5, <1>7 DEF Activation, Frame, TypeOK
<1>9. crashed' = crashed /\ stack' # <<>> /\ Len(stack') = 1 /\ stack'[1] = f
  BY <1>6, <1>7, <1>8, EnteredFirst
<1>10. \A x \in Wrappers :
         /\ storedAs'[x] = storedAs[x]
         /\ precedents'[x] = IF x = w THEN held.precedents ELSE precedents[x]
         /\ dirty'[x] = IF x = w THEN FALSE ELSE dirty[x]
         /\ builtFrom'[x] = IF x = w THEN held.builtFrom \ {w} ELSE builtFrom[x] \ {w}
  BY <1>1, <1>4, <1>5, <1>6 DEF SetObject, TypeOK
<1>11. /\ Kind' = "reset" /\ Resetting(w)'
       /\ \A x \in observers[w] : Pending(x)'
       /\ \A x : ~Resetting(x) /\ ~Pending(x)
  <2>1. 1 \in 1 .. Len(stack')
    BY <1>9
  <2> QED
    BY <1>4, <1>8, <1>9, <2>1 DEF Kind, Resetting, Pending
<1>12. Stored' = Stored /\ live \subseteq Wrappers /\ Stored \subseteq Wrappers
       /\ \A x \in Wrappers : observables[x] \subseteq Wrappers
  BY <1>1, <1>2, StoredIsMapped DEF Stored, TypeOK
<1>13. Registered'
  <2>1. ASSUME NEW x \in live
        PROVE  storedAs'[x] \in Ids /\ precedents'[x] \subseteq Uses[storedAs'[x]]
    BY <1>1, <1>4, <1>5, <1>10, <1>12 DEF Registered
  <2>2. ASSUME NEW x \in Wrappers, NEW o \in observables[x]
        PROVE  /\ storedAs'[o] \in Uses[storedAs'[x]]
               /\ Resetting(x)' \/ storedAs'[o] \in precedents'[x]
    BY <1>1, <1>10, <1>11, <1>12, <2>2 DEF Registered
  <2>3. ASSUME NEW x \in live, x # w, NEW p \in precedents'[x]
        PROVE  \E o \in observables[x] : storedAs'[o] = p
    <3>1. x \in Wrappers /\ p \in precedents[x]
      BY <1>10, <1>12, <2>3
    <3>2. PICK o \in observables[x] : storedAs[o] = p
      BY <1>1, <1>11, <3>1 DEF Registered
    <3> QED
      BY <1>10, <1>12, <3>1, <3>2
  <2> QED
    BY <1>2, <1>11, <2>1, <2>2, <2>3 DEF Registered, links
<1>14. DirtyBelow'
  <2> SUFFICES ASSUME NEW x \in Wrappers, NEW o \in observables[x] \cap Stored, dirty'[o]
               PROVE  dirty'[x] \/ Resetting(x)'
    BY <1>2, <1>12 DEF DirtyBelow, links
  <2> QED
    BY <1>1, <1>10, <1>11, <1>12 DEF DirtyBelow
<1>15. UpToDate'
  <2> SUFFICES ASSUME NEW x \in Wrappers, NEW o \in observables[x] \cap Stored
               PROVE  dirty'[x] \/ Pending(x)' \/ Resetting(x)' \/ o \in builtFrom'[x]
    BY <1>2, <1>12 DEF UpToDate, links
  <2>1. CASE o = w
    BY <1>1, <1>5, <1>11, <2>1 DEF LinksMatch
  <2>2. CASE o # w /\ x # w
    BY <1>1, <1>10, <1>11, <2>2 DEF UpToDate
  <2> QED
    BY <1>11, <2>1, <2>2
<1>16. Notifies(rank)'
  <2> DEFINE from == builtFrom[w]
  <2>1. ASSUME NEW p \in held.precedents PROVE InOrder(p, from)'
    <3>1. Exists(p) /\ ~dirty[objectMap[p]] /\ objectMap[p] \in held.builtFrom
          /\ objectMap[p] \in Wrappers /\ objectMap[p] # w
      BY <1>4, <1>5, <1>12 DEF InOrder
    <3>2. objectMap[p] \in builtFrom'[w] /\ ~dirty'[objectMap[p]] /\ objectMap' = objectMap
      BY <1>2, <1>5, <1>10, <3>1
    <3> QED
      BY <3>1, <3>2 DEF InOrder, Exists
  <2>2. precedents'[w] = held.precedents /\ live' = live /\ observers' = observers
    BY <1>2, <1>5, <1>10 DEF links
  <2>3. \A i \in 1 .. Len(stack') : i = 1
    BY <1>9
  <2>4. 2 .. Len(stack') = {}
    BY <1>9
  <2>5. /\ stack'[1].wrapper = w /\ stack'[1].todo = observers'[w] /\ w \in live'
        /\ \A p \in precedents'[w] : InOrder(p, builtFrom[w])'
    BY <1>5, <1>8, <1>9, <2>1, <2>2
  <2> QED
    BY <2>3, <2>4, <2>5 DEF Notifies
<1> QED
  BY <1>1, <1>2, <1>9, <1>11, <1>13, <1>14, <1>15, <1>16 DEF FreshInv, HeldInOrder, Activations

\* Once its observers are dirty the wrapper registers for its new object.
LEMMA FinishResetFresh ==
  ASSUME NEW rank, FreshInv(rank), MemoryInv, FinishReset
  PROVE  FreshInv(rank)'
<1>1. /\ TypeOK /\ MapSafe /\ LinksMatch /\ Registered /\ DirtyBelow /\ UpToDate /\ HeldInOrder
      /\ ~crashed /\ Layered(rank) /\ Layered(rank)' /\ Activations(rank)
  BY DEF FreshInv, MemoryInv, Layered
<1>2. /\ stack # <<>> /\ Top.kind = "reset" /\ Top.todo = {} /\ stack' = <<>>
      /\ RegisterObserver(Top.wrapper, objectMap, precedents[Top.wrapper])
      /\ UNCHANGED <<objectMap, live, objectVars, dirty, builtFrom, held, crashed>>
  BY DEF FinishReset, Notifying
<1>3. Kind = "reset" /\ Notifies(rank) /\ Len(stack) = 1 /\ Top = stack[1]
  BY <1>1, <1>2, FirstActivation
<1>4. PICK w : w = Top.wrapper
  OBVIOUS
<1>5. /\ w \in Wrappers /\ w \in live /\ precedents[w] \in SUBSET Ids
      /\ \A p \in precedents[w] : InOrder(p, builtFrom[w])
  BY <1>1, <1>3, <1>4 DEF Notifies, TypeOK
<1>6. \A p \in precedents[w] : objectMap[p] \in Wrappers /\ storedAs[objectMap[p]] = p
  BY <1>1, <1>5, StoredIsMapped DEF InOrder
<1>7. \A x \in Wrappers :
        observables'[x] = IF x = w THEN {objectMap[p] : p \in precedents[w]} ELSE observables[x]
  <2>1. \A p \in precedents[w] : objectMap[p] # None
    BY <1>5 DEF InOrder, Exists
  <2>2. objectMap \in [Ids -> Wrappers \cup {None}]
    BY <1>1 DEF TypeOK
  <2>3. RegisterObserver(w, objectMap, precedents[w])
    BY <1>2, <1>4
  <2> DEFINE ids == precedents[w]
  <2>4. /\ ids \in SUBSET Ids /\ \A p \in ids : objectMap[p] # None
        /\ RegisterObserver(w, objectMap, ids) /\ w \in Wrappers /\ TypeOK /\ LinksMatch
    BY <1>1, <1>5, <2>1, <2>3
  <2> HIDE DEF ids
  <2>5. /\ \A x \in Wrappers : x # w => observables'[x] = observables[x]
        /\ \A o : o \in observables'[w] <=> \E p \in ids : o = objectMap[p]
    BY <2>2, <2>4, RegistersWithAll
  <2>6. observables'[w] = {objectMap[p] : p \in ids}
    BY <2>5
  <2> QED
    BY <2>5, <2>6 DEF ids
<1>8. /\ \A x : ~Pending(x) /\ ~Resetting(x)'
      /\ \A x : Resetting(x) => x = w
  BY <1>2, <1>3, <1>4 DEF Pending, Resetting
<1>9. Stored' = Stored /\ live \subseteq Wrappers
  BY <1>1, <1>2 DEF Stored, TypeOK
<1>10. Registered'
  <2>1. ASSUME NEW x \in Wrappers, NEW o \in observables'[x]
        PROVE  storedAs[o] \in Uses[storedAs[x]] /\ storedAs[o] \in precedents[x]
    <3>1. CASE x = w
      <4>1. PICK p \in precedents[w] : o = objectMap[p]
        BY <1>7, <2>1, <3>1
      <4> QED
        BY <1>1, <1>5, <1>6, <3>1, <4>1 DEF Registered
    <3>2. CASE x # w
      BY <1>1, <1>7, <1>8, <2>1, <3>2 DEF Registered
    <3> QED
      BY <3>1, <3>2
  <2>2. ASSUME NEW x \in live, NEW p \in precedents[x]
        PROVE  \E o \in observables'[x] : storedAs[o] = p
    <3>1. CASE x = w
      BY <1>5, <1>6, <1>7, <2>2, <3>1
    <3>2. CASE x # w
      <4>1. \E o \in observables[x] : storedAs[o] = p
        BY <1>1, <1>8, <2>2, <3>2 DEF Registered
      <4>2. observables'[x] = observables[x]
        BY <1>7, <1>9, <2>2, <3>2
      <4> QED
        BY <4>1, <4>2
    <3> QED
      BY <3>1, <3>2
  <2> QED
    BY <1>1, <1>2, <2>1, <2>2 DEF Registered, objectVars
<1>11. ASSUME NEW x \in Wrappers, NEW o \in observables'[x] \cap Stored, ~dirty[x]
       PROVE  ~dirty[o] /\ o \in builtFrom[x]
  <2>1. CASE x = w
    <3>1. PICK p \in precedents[w] : o = objectMap[p]
      BY <1>7, <1>11, <2>1
    <3> QED
      BY <1>5, <2>1, <3>1 DEF InOrder
  <2>2. CASE x # w
    BY <1>1, <1>7, <1>8, <1>11, <2>2 DEF DirtyBelow, UpToDate
  <2> QED
    BY <2>1, <2>2
<1>12. DirtyBelow' /\ UpToDate'
  BY <1>2, <1>9, <1>11 DEF DirtyBelow, UpToDate
<1>13. HeldInOrder'
  BY <1>1, <1>2, <1>3, HeldInCall DEF HeldInOrder
<1> QED
  BY <1>1, <1>2, <1>10, <1>12, <1>13 DEF FreshInv, Activations

-----------------------------------------------------------------------------
(* Deletion *)

\* IDs leave the map; the links and the objects stay as they are.
LEMMA DeleteFresh ==
  ASSUME NEW rank, FreshInv(rank), MemoryInv, Delete
  PROVE  FreshInv(rank)'
<1>1. /\ TypeOK /\ Registered /\ DirtyBelow /\ UpToDate
      /\ ~crashed /\ Layered(rank) /\ Layered(rank)'
  BY DEF FreshInv, MemoryInv, Layered
<1>2. PICK ids : Erase(ids)
  BY DEF Delete, DeleteObjects, DeleteAllObjects
<1>3. /\ stack = <<>> /\ held = None
      /\ UNCHANGED <<live, objectVars, dirty, builtFrom, links, held, stack, crashed>>
  BY <1>1 DEF Delete, DeleteObjects, DeleteAllObjects, MayCall, Quiet, Layered
<1>4. Stored' \subseteq Stored
  BY <1>2 DEF Erase, Stored
<1>5. \A x : Resetting(x)' = Resetting(x) /\ Pending(x)' = Pending(x)
  BY <1>3 DEF Resetting, Pending
<1>6. Registered' /\ DirtyBelow' /\ UpToDate'
  BY <1>1, <1>3, <1>4, <1>5 DEF Registered, DirtyBelow, UpToDate, objectVars, links
<1> QED
  BY <1>1, <1>3, <1>6 DEF FreshInv, HeldInOrder, Activations

\* A wrapper goes when it is not stored and nobody observes it.
LEMMA DestroyFresh ==
  ASSUME NEW rank, FreshInv(rank), MemoryInv, NEW w \in Wrappers, Destroy(w)
  PROVE  FreshInv(rank)'
<1>1. /\ TypeOK /\ MapSafe /\ LinksMatch /\ Registered /\ DirtyBelow /\ UpToDate /\ HeldInOrder
      /\ ~crashed /\ Layered(rank) /\ Layered(rank)'
  BY DEF FreshInv, MemoryInv, Layered
<1>2. /\ w \in live /\ w \notin Stored /\ \A h \in live : w \notin observables[h]
      /\ stack = <<>> /\ live' = live \ {w} /\ UNCHANGED <<objectMap, stack, crashed>>
      /\ Register(w, {}) /\ ForgetObjectOf(w, {})
  BY DEF Destroy, Garbage, UnregisterWithAll
<1>3. \A x \in Wrappers :
        /\ storedAs'[x] = IF x = w THEN None ELSE storedAs[x]
        /\ precedents'[x] = IF x = w THEN {} ELSE precedents[x]
        /\ dirty'[x] = IF x = w THEN FALSE ELSE dirty[x]
        /\ builtFrom'[x] = IF x = w THEN {} ELSE builtFrom[x] \ {w}
  BY <1>1 DEF Destroy, ForgetObjectOf, TypeOK
<1>4. \A x \in Wrappers : observables'[x] = IF x = w THEN {} ELSE observables[x]
  BY <1>1, <1>2, RegisterKeepsSymmetry DEF LinksMatch
<1>5. \A x \in Wrappers : w \notin observables[x] /\ observables[x] \subseteq Wrappers
  BY <1>1, <1>2 DEF LinksMatch, TypeOK
<1>6. Stored' = Stored /\ Stored \subseteq Wrappers /\ live \subseteq Wrappers
  BY <1>1, <1>2, StoredIsMapped DEF Stored, TypeOK
<1>7. \A x : ~Resetting(x) /\ ~Resetting(x)' /\ ~Pending(x) /\ ~Pending(x)'
  BY <1>2 DEF Resetting, Pending
<1>8. Registered'
  <2>1. ASSUME NEW x \in live'
        PROVE  storedAs'[x] \in Ids /\ precedents'[x] \subseteq Uses[storedAs'[x]]
    BY <1>1, <1>2, <1>3, <1>6, <2>1 DEF Registered
  <2>2. ASSUME NEW x \in Wrappers, NEW o \in observables'[x]
        PROVE  storedAs'[o] \in Uses[storedAs'[x]] /\ storedAs'[o] \in precedents'[x]
    <3>1. x # w /\ o \in observables[x] /\ o # w /\ o \in Wrappers
      BY <1>4, <1>5, <2>2
    <3> QED
      BY <1>1, <1>3, <1>7, <3>1 DEF Registered
  <2>3. ASSUME NEW x \in live', NEW p \in precedents'[x]
        PROVE  \E o \in observables'[x] : storedAs'[o] = p
    <3>1. x \in live /\ x # w /\ x \in Wrappers /\ p \in precedents[x]
      BY <1>2, <1>3, <1>6, <2>3
    <3>2. PICK o \in observables[x] : storedAs[o] = p
      BY <1>1, <1>7, <3>1 DEF Registered
    <3> QED
      BY <1>3, <1>4, <1>5, <3>1, <3>2
  <2> QED
    BY <2>1, <2>2, <2>3 DEF Registered
<1>9. ASSUME NEW x \in Wrappers, NEW o \in observables'[x] \cap Stored', ~dirty'[x]
      PROVE  ~dirty'[o] /\ o \in builtFrom'[x]
  <2>1. x # w /\ o \in observables[x] \cap Stored /\ o # w /\ o \in Wrappers /\ ~dirty[x]
    BY <1>3, <1>4, <1>5, <1>6, <1>9
  <2> QED
    BY <1>1, <1>3, <1>7, <2>1 DEF DirtyBelow, UpToDate
<1>10. DirtyBelow' /\ UpToDate'
  BY <1>9 DEF DirtyBelow, UpToDate
<1>11. HeldInOrder'
  <2>1. CASE held = None
    BY <1>2, <2>1 DEF ForgetObjectOf, HeldInOrder
  <2>2. CASE held # None
    <3>1. held' = [held EXCEPT !.builtFrom = @ \ {w}] /\ held \in HeldObject
      BY <1>1, <1>2, <2>2 DEF ForgetObjectOf, TypeOK
    <3>2. /\ held'.id = held.id /\ held'.precedents = held.precedents /\ held'.ready = held.ready
          /\ held'.builtFrom = held.builtFrom \ {w} /\ held.precedents \subseteq Ids
      BY <3>1 DEF HeldObject
    <3>3. /\ held.precedents \subseteq Uses[held.id]
          /\ held.ready /\ \A p \in held.precedents : InOrder(p, held.builtFrom)
      BY <1>1, <1>2, <2>2 DEF HeldInOrder
    <3>4. ASSUME NEW p \in held.precedents
          PROVE  /\ objectMap'[p] # None /\ ~dirty'[objectMap'[p]]
                 /\ objectMap'[p] \in held'.builtFrom
      <4>1. p \in Ids /\ objectMap[p] # None /\ ~dirty[objectMap[p]]
            /\ objectMap[p] \in held.builtFrom
        BY <3>2, <3>3 DEF InOrder, Exists
      <4>2. objectMap[p] \in Stored
        BY <4>1 DEF Stored
      <4> QED
        BY <1>2, <1>3, <1>6, <3>2, <4>1, <4>2
    <3>5. \A p \in held'.precedents : InOrder(p, held.builtFrom)'
      BY <3>2, <3>4 DEF InOrder, Exists
    <3> QED
      BY <1>2, <3>2, <3>3, <3>5 DEF HeldInOrder
  <2> QED
    BY <2>1, <2>2
<1> QED
  BY <1>1, <1>2, <1>8, <1>10, <1>11 DEF FreshInv, Activations

-----------------------------------------------------------------------------
(* Theorems *)

LEMMA InitFresh ==
  ASSUME NEW rank, Layered(rank), Init
  PROVE  FreshInv(rank)
BY DEF Init, FreshInv, Registered, HeldInOrder, DirtyBelow, UpToDate, Activations

LEMMA StepFresh ==
  ASSUME NEW rank, FreshInv(rank), MemoryInv, [Next]_vars
  PROVE  FreshInv(rank)'
<1>1. CASE Step
  BY <1>1, RetrieveNextFresh, FinishRecreateFresh, EndFresh, NotifyNextFresh, FinishUpdateFresh,
     FinishResetFresh, DestroyFresh DEF Step
<1>2. CASE Call
  BY <1>2, BeginFresh, StoreNewFresh, StoreOverFresh, EndFresh DEF Call
<1>3. CASE Delete
  BY <1>3, DeleteFresh
<1>4. CASE Restart
  BY <1>4 DEF Restart, FreshInv
<1>5. CASE UNCHANGED vars
  BY <1>5
  DEF vars, objectVars, links, FreshInv, Layered, Registered, HeldInOrder, DirtyBelow, UpToDate,
     Activations, Retrieves, Notifies, HasRetrieved, InOrder, Exists, Stored, Resetting, Pending,
     Kind, Above, Rank
<1> QED
  BY <1>1, <1>2, <1>3, <1>4, <1>5 DEF Next

\* Where references go down by layers that fit in the stack, whatever is deleted: what
\* is clean is built from what it observes, and what observes something dirty is dirty.
THEOREM FreshInvariant ==
  ASSUME NEW rank
  PROVE  Spec /\ Layered(rank) => [](MemoryInv /\ FreshInv(rank))
<1>1. Init /\ Layered(rank) => FreshInv(rank)
  BY InitFresh
<1>2. FreshInv(rank) /\ MemoryInv /\ [Next]_vars => FreshInv(rank)'
  BY StepFresh
<1> QED
  BY <1>1, <1>2, MemoryInvariant, PTL DEF Spec

\* No notification gets lost on the way up, whatever was deleted in between.
THEOREM DirtinessAlwaysPropagates ==
  ASSUME NEW rank
  PROVE  Spec /\ Layered(rank) => []DirtinessPropagates
<1>1. MemoryInv /\ FreshInv(rank) => DirtinessPropagates
  <2> SUFFICES ASSUME MemoryInv, FreshInv(rank), Quiet, NEW o \in Stored, dirty[o],
                      NEW w \in observers[o]
               PROVE  dirty[w]
    BY DEF DirtinessPropagates
  <2>1. o \in Wrappers /\ w \in Wrappers
    BY StoredIsMapped DEF MemoryInv, TypeOK
  <2>2. o \in observables[w]
    BY <2>1 DEF MemoryInv, LinksMatch
  <2> QED
    BY <2>1, <2>2 DEF FreshInv, DirtyBelow, Resetting, Quiet
<1> QED
  BY <1>1, FreshInvariant, PTL

\* What a retrieval returns is built from the present objects of what it observes.
THEOREM AlwaysFreshWhereObserved ==
  ASSUME NEW rank
  PROVE  Spec /\ Layered(rank) => []FreshWhereObserved
<1>1. MemoryInv /\ FreshInv(rank) => FreshWhereObserved
  <2> SUFFICES ASSUME MemoryInv, FreshInv(rank), Quiet, NEW w \in Stored, ~dirty[w],
                      NEW p \in precedents[w], Exists(p), objectMap[p] \in observables[w]
               PROVE  objectMap[p] \in builtFrom[w]
    BY DEF FreshWhereObserved
  <2>1. w \in Wrappers /\ p \in Ids
    BY StoredIsMapped DEF MemoryInv, TypeOK
  <2>2. objectMap[p] \in Stored
    BY <2>1, StoredIsMapped DEF MemoryInv
  <2> QED
    BY <2>1, <2>2 DEF FreshInv, UpToDate, Resetting, Pending, Quiet
<1> QED
  BY <1>1, FreshInvariant, PTL

\* A stored wrapper is registered with a wrapper for each of its precedents.
THEOREM AlwaysRegisteredWithAll ==
  ASSUME NEW rank
  PROVE  Spec /\ Layered(rank) => []RegisteredWithAll
<1>1. MemoryInv /\ FreshInv(rank) => RegisteredWithAll
  BY StoredIsMapped DEF MemoryInv, FreshInv, Registered, RegisteredWithAll, Resetting, Quiet
<1> QED
  BY <1>1, FreshInvariant, PTL

\* Notifications and recreations stay within the stack, which has room for two more
\* activations than there are layers below the highest.
THEOREM NeverRunsAway ==
  ASSUME NEW rank
  PROVE  Spec /\ Layered(rank) => []NoRunaway
<1>1. FreshInv(rank) => NoRunaway
  BY DEF FreshInv, NoRunaway
<1> QED
  BY <1>1, FreshInvariant, PTL

\* An empty map leaves no wrapper in memory: of those that were left one would rank
\* highest, and nobody would observe it.
THEOREM NothingEverLeaks ==
  ASSUME NEW rank
  PROVE  Spec /\ Layered(rank) => []NothingLeaks
<1>1. MemoryInv /\ FreshInv(rank) => NothingLeaks
  <2> SUFFICES ASSUME MemoryInv, FreshInv(rank), Quiet, Stored = {}, live # {}
               PROVE  FALSE
    BY DEF NothingLeaks
  <2>1. TypeOK /\ LinksMatch /\ Registered /\ Layered(rank) /\ live \subseteq Wrappers
    BY DEF MemoryInv, FreshInv, TypeOK
  <2>2. \A w \in live : Rank(rank, w) \in 0 .. MaxDepth - 2
    BY <2>1 DEF Registered, Layered, Rank
  <2>3. MaxDepth - 2 \in Nat
    <3>1. PICK w \in live : Rank(rank, w) \in 0 .. MaxDepth - 2
      BY <2>2
    <3>2. \A r \in 0 .. MaxDepth - 2 : MaxDepth - 2 \in Nat
      BY RepositoryAssumption
    <3> QED
      BY <3>1, <3>2
  <2>4. PICK w \in live : \A x \in live : Rank(rank, x) <= Rank(rank, w)
    BY <2>2, <2>3, HighestRank
  <2>5. PICK h \in live : w \in observables[h]
    BY <2>4 DEF Quiet, Garbage
  <2>6. h \in observers[w] /\ w \in Wrappers
    BY <2>1, <2>5 DEF LinksMatch
  <2>7. Rank(rank, w) < Rank(rank, h) /\ Rank(rank, w) \in 0 .. MaxDepth - 2
        /\ Rank(rank, h) \in 0 .. MaxDepth - 2
    BY <2>1, <2>6, ObserverRanks
  <2>8. Rank(rank, h) <= Rank(rank, w)
    BY <2>4, <2>5
  <2> QED
    BY <2>3, <2>7, <2>8
<1> QED
  BY <1>1, FreshInvariant, PTL

\* Where nothing is deleted every wrapper in memory is stored.
AllStored == Deletable = {} /\ live \subseteq Stored

LEMMA StoredForever ==
  ASSUME MemoryInv, AllStored, [Next]_vars
  PROVE  AllStored'
<1> SUFFICES (live \subseteq Stored)'
  BY DEF AllStored
<1> USE DEF AllStored
<1>1. TypeOK /\ live \subseteq Wrappers
  BY DEF MemoryInv, TypeOK
<1>2. ASSUME UNCHANGED <<objectMap, live>> PROVE (live \subseteq Stored)'
  BY <1>2 DEF Stored
<1>3. CASE StoreNew
  <2>1. held.id \in Ids /\ objectMap[held.id] = None
    BY <1>1, <1>3 DEF StoreNew, CanStore, Exists, TypeOK, HeldObject
  <2>2. PICK w \in Wrappers \ live :
          objectMap' = [objectMap EXCEPT ![held.id] = w] /\ live' = live \cup {w}
    BY <1>3 DEF StoreNew
  <2>3. \A id \in Ids : objectMap'[id] = IF id = held.id THEN w ELSE objectMap[id]
    BY <1>1, <2>2 DEF TypeOK
  <2>4. Stored' = Stored \cup {w}
    <3>1. \A x \in Stored : x \in Stored'
      BY <2>1, <2>3 DEF Stored
    <3>2. \A x \in Stored' : x \in Stored \cup {w}
      BY <2>3 DEF Stored
    <3>3. w \in Stored'
      BY <2>1, <2>2, <2>3, RepositoryAssumption DEF Stored
    <3> QED
      BY <3>1, <3>2, <3>3
  <2> QED
    BY <2>2, <2>4
<1>4. CASE Delete
  <2>1. DeletionLists = {}
    BY <1>1 DEF DeletionLists
  <2>2. Ids = {}
    BY <1>4, <2>1 DEF Delete
  <2>3. live' = live /\ Stored = {}
    BY <1>4, <2>2 DEF Delete, DeleteObjects, DeleteAllObjects, Stored
  <2> QED
    BY <2>3
<1>5. CASE \E w \in Wrappers : Destroy(w)
  BY <1>5 DEF Destroy, Garbage
<1>6. CASE Restart
  BY <1>6 DEF Restart
<1> QED
  BY <1>2, <1>3, <1>4, <1>5, <1>6
  DEF Next, Step, Call, RetrieveNext, FinishRecreate, CallFails, FinishRetrieve, FinishConstruct,
      NotifyNext, FinishUpdate, FinishReset, Retrieve, Construct, StoreOver, StoreRefused, DropHeld,
      vars

\* Where nothing is deleted a retrieval returns what is built from the present objects
\* of all of its precedents.
THEOREM AlwaysFreshWithoutDeletion ==
  ASSUME NEW rank
  PROVE  Spec /\ Layered(rank) /\ Deletable = {} => []AlwaysFresh
<1>1. Init /\ Deletable = {} => AllStored
  BY DEF Init, AllStored
<1>2. MemoryInv /\ AllStored /\ [Next]_vars => AllStored'
  BY StoredForever
<1>3. MemoryInv /\ FreshInv(rank) /\ AllStored => AlwaysFresh
  <2> SUFFICES ASSUME MemoryInv, FreshInv(rank), AllStored, Quiet,
                      NEW w \in Stored, ~dirty[w], NEW p \in precedents[w], Exists(p)
               PROVE  objectMap[p] \in builtFrom[w]
    BY DEF AlwaysFresh
  <2>1. w \in Wrappers /\ w \in live /\ p \in Ids /\ \A x : ~Resetting(x) /\ ~Pending(x)
    BY StoredIsMapped DEF MemoryInv, TypeOK, Quiet, Resetting, Pending
  <2>2. PICK o \in observables[w] : storedAs[o] = p
    BY <2>1 DEF FreshInv, Registered
  <2>3. o \in Stored
    BY <2>1, <2>2 DEF MemoryInv, LinksMatch, AllStored
  <2>4. objectMap[p] = o
    BY <2>2, <2>3, StoredIsMapped DEF MemoryInv
  <2> QED
    BY <2>1, <2>2, <2>3, <2>4 DEF FreshInv, UpToDate
<1> QED
  BY <1>1, <1>2, <1>3, FreshInvariant, MemoryInvariant, PTL DEF Spec

-----------------------------------------------------------------------------
(* What the refinement of ObjectStore rests on *)

\* The invariants proved so far.
Settled(rank) == MemoryInv /\ FreshInv(rank) /\ AllStored

\* A notification has come to o, which is to be marked dirty.
Updating(o) ==
  stack # <<>> /\ Kind = "reset" /\ \E i \in 2 .. Len(stack) : o = stack[i].wrapper

\* What is dirty is so for a reason: one of its precedents has another object than the
\* one it was built from, or is dirty, or about to be.
DirtyForReason ==
  \A w \in Stored : dirty[w] =>
    \E p \in precedents[w] :
      /\ Exists(p)
      /\ objectMap[p] \notin builtFrom[w] \/ dirty[objectMap[p]] \/ Updating(objectMap[p])

\* Notification goes from a new object, which nothing is built from, from observer to observer.
NotifiesInTurn ==
  stack # <<>> /\ Kind = "reset" =>
    /\ \A x \in Wrappers : stack[1].wrapper \notin builtFrom[x]
    /\ \A i \in 2 .. Len(stack) : stack[i].wrapper \in observers[stack[i - 1].wrapper]

\* A call is given objects of the map, as many as it asked for.
GivesWhatIsAsked ==
  stack # <<>> /\ Kind \in {"retrieve", "construct"} =>
    \A w \in stack[1].got : w \in Stored /\ (Kind = "construct" => storedAs[w] \in held.precedents)

PromiseInv == DirtyForReason /\ NotifiesInTurn /\ GivesWhatIsAsked

\* Among wrappers there is one of the lowest rank.
LEMMA LowestRank ==
  ASSUME NEW rank, NEW S, S # {}, \A w \in S : Rank(rank, w) \in Nat
  PROVE  \E w \in S : \A x \in S : Rank(rank, w) <= Rank(rank, x)
<1> DEFINE ranks == {Rank(rank, w) : w \in S}
<1>1. ranks \subseteq Nat /\ ranks # {}
  OBVIOUS
<1>2. PICK m \in ranks : \A k \in ranks : ~(<<k, m>> \in OpToRel(<, Nat))
  <2> HIDE DEF ranks
  <2> QED
    BY <1>1, NatLessThanWellFounded, WFMin
<1>3. \A k \in ranks : ~(k < m)
  BY <1>1, <1>2 DEF OpToRel
<1>4. PICK w \in S : m = Rank(rank, w)
  BY <1>2
<1>5. ASSUME NEW x \in S PROVE Rank(rank, w) <= Rank(rank, x)
  BY <1>3, <1>4
<1> QED
  BY <1>5

\* The objects are those of the map.
LEMMA SameObjects ==
  ASSUME UNCHANGED <<objectMap, precedents, builtFrom>>
  PROVE  UNCHANGED <<StoredIds, PrecedentIds, UsedIds>>
BY DEF StoredIds, PrecedentIds, UsedIds, Exists

\* Where no object changes and the call neither asks for nor is given more, nothing happens.
LEMMA Stutters ==
  ASSUME UNCHANGED <<StoredIds, PrecedentIds, UsedIds, AskedIds, TakenIds>>
  PROVE  [Promised!Next]_(Promised!vars)
BY DEF Promised!vars, Promised!objects, Promised!call

\* Between retrievals, and as it notifies, the repository gives nothing.
NotRetrieving == stack = <<>> \/ Kind = "reset"

LEMMA NothingAsked ==
  /\ ~crashed /\ held = None /\ NotRetrieving => AskedIds = {} /\ TakenIds = {}
  /\ ~crashed' /\ held' = None /\ NotRetrieving' => AskedIds' = {} /\ TakenIds' = {}
BY DEF NotRetrieving, AskedIds, TakenIds, AskingOutright, Kind

\* When nothing is being notified what is clean is current.
LEMMA CleanIsCurrent ==
  ASSUME NEW rank, Settled(rank), stack = <<>> \/ Kind # "reset",
         NEW id \in Ids, Exists(id), ~dirty[objectMap[id]]
  PROVE  Promised!Current(id)
<1>1. /\ TypeOK /\ MapSafe /\ LinksMatch /\ Registered /\ DirtyBelow /\ UpToDate
      /\ \A w : ~Resetting(w) /\ ~Pending(w)
  BY NothingPends DEF Settled, MemoryInv, FreshInv
<1> DEFINE S == {x \in Ids : Exists(x) /\ ~dirty[objectMap[x]]}
<1>2. S \in SUBSET StoredIds /\ id \in S
  BY DEF StoredIds
<1>3. ASSUME NEW x \in S, NEW p \in PrecedentIds[x]
      PROVE  p \in UsedIds[x] /\ p \in S
  <2>1. PICK w : w = objectMap[x]
    OBVIOUS
  <2>2. /\ x \in Ids /\ Exists(x) /\ ~dirty[w] /\ p \in precedents[w]
        /\ w \in Wrappers /\ w \in live /\ precedents[w] \subseteq Ids
    BY <1>1, <1>3, <2>1, StoredIsMapped DEF PrecedentIds, TypeOK
  <2>3. PICK o \in observables[w] : storedAs[o] = p
    BY <1>1, <2>2 DEF Registered
  <2>4. o \in Stored
    BY <1>1, <2>2, <2>3 DEF LinksMatch, Settled, AllStored
  <2>5. Exists(p) /\ objectMap[p] = o
    BY <1>1, <2>3, <2>4, StoredIsMapped
  <2>6. ~dirty[o] /\ o \in builtFrom[w]
    BY <1>1, <2>2, <2>3, <2>4 DEF DirtyBelow, UpToDate
  <2> QED
    BY <2>1, <2>2, <2>5, <2>6 DEF UsedIds
<1>4. \A x \in S : UsedIds[x] \subseteq PrecedentIds[x]
  BY DEF UsedIds, PrecedentIds
<1> HIDE DEF S
<1>5. \A x \in S : UsedIds[x] = PrecedentIds[x] /\ PrecedentIds[x] \subseteq S
  BY <1>3, <1>4
<1> QED
  BY <1>2, <1>5 DEF Promised!Current

\* When nothing is being notified what is dirty is not current: a closed set that is up
\* to date would have a dirty wrapper of lowest rank, and no reason for it.
LEMMA DirtyIsNotCurrent ==
  ASSUME NEW rank, Settled(rank), PromiseInv, stack = <<>> \/ Kind # "reset",
         NEW id \in Ids, Exists(id), dirty[objectMap[id]]
  PROVE  ~Promised!Current(id)
<1>1. /\ TypeOK /\ MapSafe /\ Registered /\ Layered(rank) /\ DirtyForReason
      /\ \A w : ~Updating(w)
  BY DEF Settled, MemoryInv, FreshInv, PromiseInv, Updating
<1> SUFFICES ASSUME NEW S \in SUBSET StoredIds, id \in S,
                    \A x \in S : UsedIds[x] = PrecedentIds[x] /\ PrecedentIds[x] \subseteq S
             PROVE  FALSE
  BY DEF Promised!Current
<1> DEFINE D == {objectMap[x] : x \in {y \in S : dirty[objectMap[y]]}}
<1>2. ASSUME NEW w \in D
      PROVE  /\ w \in Stored /\ dirty[w] /\ w \in live
             /\ storedAs[w] \in S /\ objectMap[storedAs[w]] = w /\ Exists(storedAs[w])
             /\ Rank(rank, w) \in Nat
  <2>1. PICK x \in S : w = objectMap[x] /\ dirty[objectMap[x]]
    BY <1>2
  <2>2. x \in Ids /\ Exists(x)
    BY DEF StoredIds
  <2> QED
    BY <1>1, <2>1, <2>2, StoredIsMapped, RepositoryAssumption DEF Layered, Rank
<1>3. D # {}
  OBVIOUS
<1> HIDE DEF D
<1>4. PICK w \in D : \A x \in D : Rank(rank, w) <= Rank(rank, x)
  BY <1>2, <1>3, LowestRank
<1>5. PICK p \in precedents[w] :
        Exists(p) /\ (objectMap[p] \notin builtFrom[w] \/ dirty[objectMap[p]])
  BY <1>1, <1>2 DEF DirtyForReason
<1>6. p \in Ids /\ p \in Uses[storedAs[w]]
  BY <1>1, <1>2, <1>5, RepositoryAssumption DEF Registered
<1>7. storedAs[w] \in Ids /\ p \in PrecedentIds[storedAs[w]]
  BY <1>2, <1>5 DEF PrecedentIds, StoredIds
<1>8. p \in UsedIds[storedAs[w]] /\ p \in S
  BY <1>2, <1>7
<1>9. objectMap[p] \in builtFrom[w]
  BY <1>2, <1>7, <1>8 DEF UsedIds
<1>10. objectMap[p] \in D
  BY <1>5, <1>8, <1>9 DEF D
<1>11. storedAs[objectMap[p]] = p /\ rank[p] < rank[storedAs[w]]
  BY <1>1, <1>5, <1>6, <1>7, StoredIsMapped DEF Layered
<1>12. Rank(rank, w) <= Rank(rank, objectMap[p]) /\ Rank(rank, objectMap[p]) \in Nat
  BY <1>2, <1>4, <1>10
<1> QED
  BY <1>2, <1>11, <1>12 DEF Rank

-----------------------------------------------------------------------------
(* Calls that begin or end, as the store promises *)

\* Steps that change no object and no flag.
LEMMA SameReasons ==
  ASSUME DirtyForReason, UNCHANGED <<objectMap, precedents, dirty, builtFrom>>,
         \A o : Updating(o) => Updating(o)'
  PROVE  DirtyForReason'
BY DEF DirtyForReason, Stored, Exists

\* A call that begins asks.
LEMMA BeginPromised ==
  ASSUME NEW rank, Settled(rank), PromiseInv,
         \/ \E id \in Ids : Retrieve(id)
         \/ \E id \in Ids, perm \in BOOLEAN : \E ps \in SUBSET Uses[id] : Construct(id, ps, perm)
  PROVE  PromiseInv' /\ [Promised!Next]_(Promised!vars)
<1>1. TypeOK /\ ~crashed /\ ~SplitConstruction /\ DirtyForReason
  BY DEF Settled, MemoryInv, FreshInv, Layered, PromiseInv
<1>2. ASSUME NEW f \in Frame, f.kind \in {"retrieve", "construct"}, f.got = {},
             Enter(<<>>, f), stack = <<>>, held = None, NEW ids \in SUBSET Ids, f.todo = ids,
             \/ f.kind = "retrieve" /\ held' = None
             \/ held' # None /\ held'.precedents = ids /\ ~held'.ready,
             UNCHANGED <<objectMap, live, objectVars, dirty, builtFrom, links>>
      PROVE  PromiseInv' /\ [Promised!Next]_(Promised!vars)
  <2>1. crashed' = crashed /\ stack' # <<>> /\ Len(stack') = 1 /\ stack'[1] = f
    BY <1>2, EnteredFirst
  <2>2. Kind' = f.kind
    BY <2>1 DEF Kind
  <2>3. \A o : ~Updating(o)
    BY <1>2 DEF Updating
  <2>4. PromiseInv'
    BY <1>1, <1>2, <2>1, <2>2, <2>3, SameReasons
    DEF PromiseInv, NotifiesInTurn, GivesWhatIsAsked, objectVars
  <2>5. UNCHANGED <<StoredIds, PrecedentIds, UsedIds>>
    BY <1>2, SameObjects DEF objectVars
  <2>6. AskedIds = {} /\ TakenIds = {}
    BY <1>1, <1>2, NothingAsked DEF NotRetrieving
  <2>7. AskedIds' = ids /\ TakenIds' = {}
    BY <1>1, <1>2, <2>1 DEF AskedIds, TakenIds, AskingOutright, Given
  <2>8. Promised!Ask(ids)
    BY <2>5, <2>6, <2>7 DEF Promised!Ask, Promised!objects
  <2> QED
    BY <2>4, <2>8 DEF Promised!Next
<1>3. ASSUME NEW id \in Ids, Retrieve(id)
      PROVE  PromiseInv' /\ [Promised!Next]_(Promised!vars)
  <2> DEFINE f == Activation("retrieve", None, {id})
  <2>1. f \in Frame /\ f.kind = "retrieve" /\ f.got = {} /\ f.todo = {id}
    BY DEF Activation, Frame
  <2>2. /\ Enter(<<>>, f) /\ stack = <<>> /\ held = None /\ held' = None
        /\ UNCHANGED <<objectMap, live, objectVars, dirty, builtFrom, links>>
    BY <1>1, <1>3 DEF Retrieve, MayCall, Quiet
  <2> HIDE DEF f
  <2> QED
    BY <1>2, <2>1, <2>2
<1>4. ASSUME NEW id \in Ids, NEW perm \in BOOLEAN, NEW ps \in SUBSET Uses[id],
             Construct(id, ps, perm)
      PROVE  PromiseInv' /\ [Promised!Next]_(Promised!vars)
  <2> DEFINE f == Activation("construct", None, ps)
             h == [id |-> id, precedents |-> ps, permanent |-> perm,
                   builtFrom |-> {}, ready |-> FALSE]
  <2>1. ps \in SUBSET Ids
    BY RepositoryAssumption
  <2>2. f \in Frame /\ f.kind = "construct" /\ f.got = {} /\ f.todo = ps
    BY <2>1 DEF Activation, Frame
  <2>3. h \in HeldObject /\ h.precedents = ps /\ ~h.ready
    BY <2>1 DEF HeldObject
  <2>4. /\ Enter(<<>>, f) /\ stack = <<>> /\ held = None /\ held' = h
        /\ UNCHANGED <<objectMap, live, objectVars, dirty, builtFrom, links>>
    BY <1>4 DEF Construct, MayCall, Quiet
  <2> HIDE DEF f, h
  <2> QED
    BY <1>2, <2>1, <2>2, <2>3, <2>4, NoneIsNoObject
<1> QED
  BY <1>3, <1>4

\* A call that ends, or fails, leaves the objects; one that has built its object keeps
\* what it was given.
LEMMA EndPromised ==
  ASSUME NEW rank, Settled(rank), PromiseInv,
         CallFails \/ FinishRetrieve \/ FinishConstruct \/ StoreRefused
  PROVE  PromiseInv' /\ [Promised!Next]_(Promised!vars)
<1>1. /\ TypeOK /\ ~crashed /\ HeldInOrder /\ Activations(rank)
      /\ DirtyForReason /\ GivesWhatIsAsked
  BY DEF Settled, MemoryInv, FreshInv, PromiseInv
<1>2. /\ stack' = <<>> /\ crashed' = crashed
      /\ UNCHANGED <<objectMap, live, objectVars, dirty, builtFrom, links>>
  BY DEF CallFails, FinishRetrieve, FinishConstruct, StoreRefused, DropHeld, CanStore, Quiet
<1>3. \/ stack = <<>>
      \/ stack # <<>> /\ Kind \in {"retrieve", "construct"} /\ Retrieves(rank)
  BY <1>1, FirstActivation
     DEF CallFails, FinishRetrieve, FinishConstruct, Retrieving, StoreRefused, DropHeld, CanStore,
         Quiet
<1>4. PromiseInv'
  <2>1. \A o : ~Updating(o)
    BY <1>3 DEF Updating
  <2> QED
    BY <1>1, <1>2, <2>1, SameReasons DEF PromiseInv, NotifiesInTurn, GivesWhatIsAsked, objectVars
<1>5. UNCHANGED <<StoredIds, PrecedentIds, UsedIds>>
  BY <1>2, SameObjects DEF objectVars
<1>6. CASE held' = None
  <2>1. AskedIds' = {} /\ TakenIds' = {}
    BY <1>1, <1>2, <1>6, NothingAsked DEF NotRetrieving
  <2> QED
    BY <1>4, <1>5, <2>1 DEF Promised!Next, Promised!End, Promised!objects
<1>7. CASE held' # None
  <2>1. FinishConstruct
    <3>1. ~StoreRefused
      BY <1>7 DEF StoreRefused, DropHeld
    <3>2. CallFails => held' = None
      BY <1>1, HeldInCall DEF CallFails, Retrieving
    <3>3. ASSUME FinishRetrieve PROVE held' = None
      BY <1>1, <3>3, HeldInCall, FirstActivation DEF FinishRetrieve, Retrieving, Kind
    <3> QED
      BY <1>7, <3>1, <3>2, <3>3
  <2>2. /\ stack # <<>> /\ Top.kind = "construct" /\ Top.todo = {}
        /\ held' = [held EXCEPT !.ready = TRUE, !.builtFrom = Top.got]
    BY <2>1 DEF FinishConstruct, Retrieving
  <2>3. /\ Len(stack) = 1 /\ Top = stack[1] /\ Kind = "construct"
        /\ held # None /\ HasRetrieved(stack[1], held.precedents)
    BY <1>1, <1>3, <2>2, FirstActivation DEF Retrieves, Kind
  <2>4. held \in HeldObject /\ ~held.ready
    BY <1>1, <2>2, <2>3, HeldInCall DEF TypeOK
  <2>5. held'.precedents = held.precedents /\ held'.ready
    BY <2>2, <2>4 DEF HeldObject
  <2>6. Given = held.precedents
    <3>1. \A p \in held.precedents : objectMap[p] \in stack[1].got /\ storedAs[objectMap[p]] = p
      BY <1>1, <2>2, <2>3, <2>4, StoredIsMapped DEF HasRetrieved, HeldObject, Settled, MemoryInv
    <3>2. \A w \in stack[1].got : storedAs[w] \in held.precedents
      BY <1>1, <2>2, <2>3 DEF GivesWhatIsAsked
    <3>3. Recreating = {}
      BY <2>3 DEF Recreating
    <3> QED
      BY <3>1, <3>2, <3>3 DEF Given
  <2>7. AskedIds = held.precedents /\ TakenIds = held.precedents
    BY <1>1, <2>2, <2>3, <2>4, <2>6 DEF AskedIds, TakenIds, AskingOutright, Kind
  <2>8. AskedIds' = held.precedents /\ TakenIds' = held.precedents
    BY <1>1, <1>2, <1>7, <2>5 DEF AskedIds, TakenIds
  <2> QED
    BY <1>4, <1>5, <2>7, <2>8, Stutters
<1> QED
  BY <1>6, <1>7

-----------------------------------------------------------------------------
(* Retrieval, as the store promises *)

\* What a call that is retrieving has asked for and been given.
Asking ==
  /\ ~crashed /\ stack # <<>> /\ Kind \in {"retrieve", "construct"}
  /\ held # None => ~held.ready

LEMMA WhatIsAsked ==
  /\ Asking => /\ held = None => AskedIds = stack[1].todo \cup {storedAs[x] : x \in stack[1].got}
               /\ held # None => AskedIds = held.precedents
               /\ TakenIds = Given
  /\ Asking' => /\ held' = None =>
                     AskedIds' = stack'[1].todo \cup {storedAs'[x] : x \in stack'[1].got}
                /\ held' # None => AskedIds' = held'.precedents
                /\ TakenIds' = Given'
BY DEF Asking, AskedIds, TakenIds, AskingOutright, Kind

\* A retrieval gives what is current, or goes to have it recreated.
LEMMA RetrieveNextPromised ==
  ASSUME NEW rank, Settled(rank), PromiseInv, RetrieveNext
  PROVE  PromiseInv' /\ [Promised!Next]_(Promised!vars)
<1>1. /\ TypeOK /\ MapSafe /\ HeldInOrder /\ ~crashed /\ Activations(rank)
      /\ DirtyForReason /\ GivesWhatIsAsked
  BY DEF Settled, MemoryInv, FreshInv, PromiseInv
<1>2. /\ stack # <<>> /\ Top.kind \in {"retrieve", "construct", "recreate"}
      /\ UNCHANGED <<objectMap, live, objectVars, dirty, builtFrom, links, held>>
  BY DEF RetrieveNext, Retrieving
<1>3. Kind \in {"retrieve", "construct"} /\ Retrieves(rank)
  BY <1>1, <1>2, FirstActivation
<1>4. /\ stack \in Seq(Frame) /\ Len(stack) \in Nat \ {0} /\ Top = stack[Len(stack)]
      /\ Top \in Frame
  BY <1>1, <1>2, PopIsBelow DEF TypeOK, Top
<1>5. PICK id \in Top.todo \cap Ids :
        /\ Exists(id) /\ crashed' = crashed /\ stack' # <<>>
        /\ Len(stack') = IF dirty[objectMap[id]] THEN Len(stack) + 1 ELSE Len(stack)
        /\ \A i \in 1 .. Len(stack) - 1 : stack'[i] = stack[i]
        /\ stack'[Len(stack)] = Taken(Top, id)
        /\ dirty[objectMap[id]] => stack'[Len(stack) + 1] = Recreation(objectMap[id])
  BY RetrievedStack DEF Settled
<1>6. PICK w : w = objectMap[id]
  OBVIOUS
<1>7. w \in Stored /\ w \in Wrappers /\ storedAs[w] = id
  BY <1>1, <1>5, <1>6, StoredIsMapped
<1>8. PICK g : g = Taken(Top, id)
  OBVIOUS
<1>9. /\ g.kind = Top.kind /\ g.wrapper = Top.wrapper
      /\ g.todo = Top.todo \ {id} /\ g.got = Top.got \cup {w}
  BY <1>4, <1>5, <1>6, <1>7, <1>8, TakenFrame
<1>10. UNCHANGED <<StoredIds, PrecedentIds, UsedIds>> /\ Stored' = Stored
  BY <1>2, SameObjects DEF objectVars, Stored
<1>11. Asking /\ (held # None => Kind = "construct" /\ held.precedents \subseteq Ids)
  BY <1>1, <1>2, <1>3, HeldInCall DEF Asking, TypeOK, HeldObject
<1>12. DirtyForReason' /\ ~Updating(w)
  <2>1. \A o : ~Updating(o)
    BY <1>3 DEF Updating
  <2> QED
    BY <1>1, <1>2, <2>1, SameReasons DEF objectVars
\* The call's own activation is retrieving.
<1>13. CASE Len(stack) = 1
  <2>1. /\ Top = stack[1] /\ stack'[1] = g /\ Kind' = Kind /\ Asking'
    BY <1>2, <1>4, <1>5, <1>8, <1>9, <1>11, <1>13 DEF Kind, Asking
  <2>2. id \in AskedIds
    BY <1>3, <1>5, <1>11, <2>1, WhatIsAsked DEF Retrieves, HasRetrieved
  <2>3. AskedIds' = AskedIds
    <3>1. CASE held # None
      BY <1>2, <1>11, <2>1, <3>1, WhatIsAsked
    <3>2. CASE held = None
      <4>1. storedAs' = storedAs
        BY <1>2 DEF objectVars
      <4>2. /\ AskedIds = Top.todo \cup {storedAs[x] : x \in Top.got}
            /\ AskedIds' = (Top.todo \ {id}) \cup {storedAs[x] : x \in Top.got \cup {w}}
        BY <1>2, <1>9, <1>11, <2>1, <3>2, <4>1, WhatIsAsked
      <4>3. {storedAs[x] : x \in Top.got \cup {w}} = {storedAs[x] : x \in Top.got} \cup {id}
        BY <1>7
      <4> QED
        BY <1>5, <4>2, <4>3
    <3> QED
      BY <3>1, <3>2
  <2>4. PromiseInv'
    <3>1. ASSUME Kind = "construct" PROVE id \in held.precedents
      BY <1>3, <1>5, <2>1, <3>1 DEF Retrieves, HasRetrieved
    <3>2. GivesWhatIsAsked'
      BY <1>1, <1>2, <1>7, <1>9, <1>10, <2>1, <3>1 DEF GivesWhatIsAsked, objectVars
    <3> QED
      BY <1>3, <1>12, <2>1, <3>2 DEF PromiseInv, NotifiesInTurn
  <2>5. TakenIds = Given /\ TakenIds' = Given' /\ Recreating = {} /\ storedAs' = storedAs
    BY <1>2, <1>11, <1>13, <2>1, WhatIsAsked DEF Recreating, objectVars
  <2>6. CASE ~dirty[w]
    <3>1. Recreating' = {}
      BY <1>5, <1>6, <1>13, <2>6 DEF Recreating
    <3>2. TakenIds = {storedAs[x] : x \in Top.got}
          /\ TakenIds' = {storedAs[x] : x \in Top.got \cup {w}}
      BY <1>9, <2>1, <2>5, <3>1 DEF Given
    <3>3. TakenIds' = TakenIds \cup {id}
      BY <1>7, <3>2
    <3>4. CASE id \in TakenIds
      <4>1. TakenIds' = TakenIds
        BY <3>3, <3>4
      <4> QED
        BY <1>10, <2>3, <2>4, <4>1, Stutters
    <3>5. CASE id \notin TakenIds
      <4>1. Promised!Current(id)
        BY <1>3, <1>5, <1>6, <2>6, CleanIsCurrent
      <4>2. Promised!Take(id)
        BY <1>10, <2>2, <2>3, <3>3, <3>5, <4>1 DEF Promised!Take, Promised!objects
      <4> QED
        BY <1>5, <2>4, <4>2 DEF Promised!Next
    <3> QED
      BY <3>4, <3>5
  <2>7. CASE dirty[w]
    <3>1. Len(stack') = 2 /\ stack'[2].wrapper = w
      BY <1>5, <1>6, <1>13, <2>7 DEF Recreation, Activation
    <3>2. Recreating' = {w}
      BY <3>1 DEF Recreating
    <3>3. w \notin Top.got
      <4>1. 1 \in 1 .. Len(stack) /\ ~Above(1, w)
        BY <1>13 DEF Above
      <4> QED
        BY <1>3, <2>1, <2>7, <4>1 DEF Retrieves
    <3>4. (Top.got \cup {w}) \ {w} = Top.got
      BY <3>3
    <3>5. TakenIds' = TakenIds
      BY <1>9, <2>1, <2>5, <3>2, <3>4 DEF Given
    <3> QED
      BY <1>10, <2>3, <2>4, <3>5, Stutters
  <2> QED
    BY <2>6, <2>7
\* An activation further in is: the call is given nothing yet.
<1>14. CASE Len(stack) > 1
  <2>1. stack'[1] = stack[1] /\ Kind' = Kind
    BY <1>4, <1>5, <1>14 DEF Kind
  <2>2. Len(stack') > 1 /\ stack'[2].wrapper = stack[2].wrapper
    <3>1. CASE Len(stack) = 2
      BY <1>4, <1>5, <1>8, <1>9, <3>1
    <3>2. CASE Len(stack) > 2
      BY <1>4, <1>5, <3>2
    <3>3. \A n \in Nat : n > 1 => n = 2 \/ n > 2
      OBVIOUS
    <3> QED
      BY <1>4, <1>14, <3>1, <3>2, <3>3
  <2>3. Recreating' = Recreating /\ storedAs' = storedAs /\ Asking'
    BY <1>2, <1>5, <1>11, <1>14, <2>1, <2>2 DEF Recreating, objectVars, Asking
  <2>4. Given' = Given
    BY <2>1, <2>3 DEF Given
  <2>5. UNCHANGED <<AskedIds, TakenIds>>
    BY <1>2, <1>11, <2>1, <2>3, <2>4, WhatIsAsked
  <2>6. GivesWhatIsAsked'
    BY <1>1, <1>2, <1>10, <2>1, <2>3 DEF GivesWhatIsAsked
  <2>7. PromiseInv'
    BY <1>3, <1>12, <2>1, <2>6 DEF PromiseInv, NotifiesInTurn
  <2> QED
    BY <1>10, <2>5, <2>7, Stutters
<1>15. \A n \in Nat \ {0} : n = 1 \/ n > 1
  OBVIOUS
<1> QED
  BY <1>4, <1>13, <1>14, <1>15

\* An object built anew from all of its precedents: what was built from the former one
\* does not use it.
LEMMA RenewedUses ==
  ASSUME TypeOK, MapSafe, NEW w \in Stored, NEW ps \in SUBSET Ids, NEW from,
         objectMap' = objectMap,
         precedents'[w] = ps, \A x \in Wrappers : x # w => precedents'[x] = precedents[x],
         \A p \in ps : objectMap[p] \in from,
         \A x \in Wrappers : builtFrom'[x] = IF x = w THEN from ELSE builtFrom[x] \ {w}
  PROVE  Promised!Renewed(storedAs[w], ps)
<1>1. w \in Wrappers /\ storedAs[w] \in Ids /\ Exists(storedAs[w]) /\ objectMap[storedAs[w]] = w
  BY StoredIsMapped
<1>2. \A x \in Ids : Exists(x)' = Exists(x)
  BY DEF Exists
<1>3. UsedIds'[storedAs[w]] = ps
  BY <1>1, <1>2 DEF UsedIds
<1>4. ASSUME NEW x \in Ids, x # storedAs[w], Exists(x)
      PROVE  UsedIds'[x] = UsedIds[x] \ {storedAs[w]}
  <2>1. PICK v : v = objectMap[x]
    OBVIOUS
  <2>2. v \in Wrappers /\ v # w
    BY <1>1, <1>4, <2>1, StoredIsMapped
  <2>3. UsedIds'[x] = {p \in precedents[v] : objectMap[p] \in builtFrom[v] \ {w}}
    BY <1>2, <1>4, <2>1, <2>2 DEF UsedIds
  <2>4. UsedIds[x] = {p \in precedents[v] : objectMap[p] \in builtFrom[v]}
    BY <1>4, <2>1 DEF UsedIds
  <2>5. ASSUME NEW p \in precedents[v], objectMap[p] \in builtFrom[v]
        PROVE  objectMap[p] = w <=> p = storedAs[w]
    <3>1. p \in Ids /\ objectMap[p] \in Wrappers
      BY <2>2, <2>5 DEF TypeOK
    <3>2. Exists(p)
      BY <3>1, RepositoryAssumption DEF Exists
    <3> QED
      BY <1>1, <3>1, <3>2, StoredIsMapped
  <2> QED
    BY <2>3, <2>4, <2>5
<1>5. ASSUME NEW x \in Ids, ~Exists(x) PROVE UsedIds'[x] = UsedIds[x] \ {storedAs[w]}
  BY <1>2, <1>5 DEF UsedIds
<1>6. UsedIds' = [x \in Ids |-> UsedIds'[x]]
  BY DEF UsedIds
<1> QED
  BY <1>1, <1>3, <1>4, <1>5, <1>6 DEF Promised!Renewed

\* ... and what is dirty is still so for a reason.
LEMMA RenewedReasons ==
  ASSUME TypeOK, MapSafe, DirtyForReason, NEW w \in Stored, NEW from,
         \A o : ~Updating(o),
         objectMap' = objectMap, \A x \in Wrappers : x # w => precedents'[x] = precedents[x],
         \A x \in Wrappers : dirty'[x] = IF x = w THEN FALSE ELSE dirty[x],
         \A x \in Wrappers : builtFrom'[x] = IF x = w THEN from ELSE builtFrom[x] \ {w}
  PROVE  DirtyForReason'
<1> SUFFICES ASSUME NEW x \in Stored, dirty'[x]
             PROVE  \E p \in precedents'[x] :
                      /\ Exists(p)
                      /\ objectMap[p] \notin builtFrom'[x] \/ dirty'[objectMap[p]]
  BY DEF DirtyForReason, Stored, Exists
<1>1. x \in Wrappers /\ x # w /\ dirty[x]
  BY StoredIsMapped
<1>2. PICK p \in precedents[x] :
        Exists(p) /\ (objectMap[p] \notin builtFrom[x] \/ dirty[objectMap[p]])
  BY <1>1 DEF DirtyForReason
<1>3. p \in Ids /\ objectMap[p] \in Wrappers
  BY <1>1, <1>2, StoredIsMapped DEF TypeOK
<1> QED
  BY <1>1, <1>2, <1>3

\* An object that is not current is built anew from precedents that are; the call is
\* given it at once if it had asked for it.
LEMMA FinishRecreatePromised ==
  ASSUME NEW rank, Settled(rank), PromiseInv, FinishRecreate
  PROVE  PromiseInv' /\ [Promised!Next]_(Promised!vars)
<1>1. /\ TypeOK /\ MapSafe /\ Registered /\ HeldInOrder /\ ~crashed /\ Activations(rank)
      /\ DirtyForReason /\ GivesWhatIsAsked
  BY DEF Settled, MemoryInv, FreshInv, PromiseInv
<1>2. /\ stack # <<>> /\ Top.kind = "recreate" /\ Top.todo = {}
      /\ dirty' = [dirty EXCEPT ![Top.wrapper] = FALSE]
      /\ ForgetObjectOf(Top.wrapper, Top.got)
      /\ stack' = Pop /\ crashed' = crashed
      /\ UNCHANGED <<objectMap, live, objectVars, links>>
  BY DEF FinishRecreate, Retrieving
<1>3. /\ Kind \in {"retrieve", "construct"} /\ Retrieves(rank)
      /\ Len(stack) \in Nat \ {0} /\ Len(stack) \in 2 .. Len(stack)
      /\ Top = stack[Len(stack)]
      /\ Len(Pop) = Len(stack) - 1 /\ \A i \in 1 .. Len(Pop) : Pop[i] = stack[i]
  BY <1>1, <1>2, FirstActivation, PopIsBelow DEF TypeOK, Top
<1>4. PICK w, got : w = Top.wrapper /\ got = Top.got
  OBVIOUS
<1>5. /\ w \in Stored /\ w \in Wrappers /\ dirty[w] /\ precedents[w] \in SUBSET Ids
      /\ \A p \in precedents[w] : Exists(p) /\ objectMap[p] \in got
      /\ \A x \in got : ~dirty[x]
  <2>1. /\ w \in Stored /\ dirty[w]
        /\ \A p \in precedents[w] : Exists(p) /\ objectMap[p] \in got
    BY <1>2, <1>3, <1>4 DEF Retrieves, HasRetrieved
  <2>2. \A x \in got : ~dirty[x]
    BY <1>3, <1>4 DEF Retrieves, Above
  <2>3. w \in Wrappers /\ precedents[w] \in SUBSET Ids
    BY <1>1, <2>1, StoredIsMapped DEF TypeOK
  <2> QED
    BY <2>1, <2>2, <2>3
<1>6. PICK id : id = storedAs[w]
  OBVIOUS
<1>7. id \in Ids /\ Exists(id) /\ objectMap[id] = w
  BY <1>1, <1>5, <1>6, StoredIsMapped
<1>8. \A x \in Wrappers : dirty'[x] = IF x = w THEN FALSE ELSE dirty[x]
  BY <1>1, <1>2, <1>4 DEF TypeOK
<1>9. \A x \in Wrappers : builtFrom'[x] = IF x = w THEN got ELSE builtFrom[x] \ {w}
  BY <1>2, <1>4 DEF ForgetObjectOf
<1>10. /\ Len(stack') = Len(stack) - 1 /\ stack' # <<>> /\ stack'[1] = stack[1] /\ Kind' = Kind
       /\ Len(stack) > 2 => Len(stack') > 1 /\ stack'[2] = stack[2]
  <2>1. 1 \in 1 .. Len(Pop) /\ (Len(stack) > 2 => 2 \in 1 .. Len(Pop))
    BY <1>3
  <2>2. Len(stack') = Len(stack) - 1 /\ stack'[1] = stack[1]
        /\ (Len(stack) > 2 => stack'[2] = stack[2])
    BY <1>2, <1>3, <2>1
  <2>3. Len(stack') # 0 /\ (Len(stack) > 2 => Len(stack') > 1)
    BY <1>3, <2>2
  <2> QED
    BY <2>2, <2>3 DEF Kind
<1>11. /\ precedents' = precedents /\ storedAs' = storedAs /\ objectMap' = objectMap
       /\ Stored' = Stored /\ StoredIds' = StoredIds /\ PrecedentIds' = PrecedentIds
  BY <1>2 DEF objectVars, Stored, StoredIds, PrecedentIds, Exists
\* What the call asked for, and what it is building, stay the same.
<1>12. /\ Asking /\ Asking' /\ (held = None <=> held' = None)
       /\ held # None => held'.precedents = held.precedents
  <2>1. Asking /\ (held # None => held \in HeldObject)
    BY <1>1, <1>2, <1>3, HeldInCall DEF Asking, TypeOK
  <2>2. CASE held = None
    BY <1>2, <1>3, <1>10, <2>1, <2>2 DEF Asking, ForgetObjectOf
  <2>3. CASE held # None
    <3>1. held' = [held EXCEPT !.builtFrom = @ \ {w}] /\ held \in HeldObject /\ ~held.ready
      BY <1>2, <1>4, <2>1, <2>3 DEF ForgetObjectOf, Asking
    <3>2. held' \in HeldObject /\ held'.precedents = held.precedents /\ ~held'.ready
      BY <3>1 DEF HeldObject
    <3>3. held' # None
      BY <3>2, NoneIsNoObject
    <3> QED
      BY <1>2, <1>3, <1>10, <2>1, <2>3, <3>2, <3>3 DEF Asking
  <2> QED
    BY <2>2, <2>3
<1>13. AskedIds' = AskedIds /\ TakenIds = Given /\ TakenIds' = Given'
  BY <1>10, <1>11, <1>12, WhatIsAsked
<1>14. PromiseInv'
  <2>1. \A o : ~Updating(o)
    BY <1>3 DEF Updating
  <2>2. DirtyForReason'
    BY <1>1, <1>5, <1>8, <1>9, <1>11, <2>1, RenewedReasons
  <2>3. GivesWhatIsAsked'
    <3>1. Kind = "construct" => held # None
      BY <1>3 DEF Retrieves
    <3> QED
      BY <1>1, <1>2, <1>3, <1>10, <1>11, <1>12, <3>1 DEF GivesWhatIsAsked
  <2> QED
    BY <1>3, <1>10, <2>2, <2>3 DEF PromiseInv, NotifiesInTurn
<1>15. /\ id \in StoredIds /\ ~Promised!Current(id)
       /\ PrecedentIds[id] = precedents[w] /\ \A p \in precedents[w] : Promised!Current(p)
  <2>1. ~Promised!Current(id)
    BY <1>3, <1>5, <1>7, DirtyIsNotCurrent
  <2>2. ASSUME NEW p \in precedents[w] PROVE Promised!Current(p)
    <3>1. p \in Ids /\ Exists(p) /\ ~dirty[objectMap[p]]
      BY <1>5
    <3> QED
      BY <1>3, <3>1, CleanIsCurrent
  <2> QED
    BY <1>7, <2>1, <2>2 DEF StoredIds, PrecedentIds
<1>16. Promised!Renewed(id, precedents[w])
  BY <1>1, <1>5, <1>6, <1>9, <1>11, RenewedUses
<1>17. \/ TakenIds' = TakenIds
       \/ id \in AskedIds \ TakenIds /\ TakenIds' = TakenIds \cup {id}
  <2>1. CASE Len(stack) > 2
    <3>1. Recreating' = Recreating
      BY <1>10, <2>1 DEF Recreating
    <3> QED
      BY <1>10, <1>11, <1>13, <3>1 DEF Given
  <2>2. CASE Len(stack) = 2
    <3>1. Recreating = {w} /\ Recreating' = {}
      BY <1>3, <1>4, <1>10, <2>2 DEF Recreating
    <3>2. TakenIds = {storedAs[x] : x \in stack[1].got \ {w}}
          /\ TakenIds' = {storedAs[x] : x \in stack[1].got}
      BY <1>10, <1>11, <1>13, <3>1 DEF Given
    <3>3. CASE w \notin stack[1].got
      <4>1. stack[1].got \ {w} = stack[1].got
        BY <3>3
      <4> QED
        BY <3>2, <4>1
    <3>4. CASE w \in stack[1].got
      <4>1. TakenIds' = TakenIds \cup {id}
        BY <1>6, <3>2, <3>4
      <4>2. id \in AskedIds
        <5>1. CASE held = None
          BY <1>6, <1>12, <3>4, <5>1, WhatIsAsked
        <5>2. CASE held # None
          <6>1. Kind = "construct"
            BY <1>1, <1>2, <5>2, HeldInCall
          <6>2. id \in held.precedents
            BY <1>1, <1>2, <1>6, <3>4, <6>1 DEF GivesWhatIsAsked
          <6> QED
            BY <1>12, <5>2, <6>2, WhatIsAsked
        <5> QED
          BY <5>1, <5>2
      <4>3. id \notin TakenIds
        <5>1. ASSUME NEW x \in stack[1].got, x # w PROVE storedAs[x] # id
          <6>1. x \in Stored
            BY <1>1, <1>2, <1>3, <5>1 DEF GivesWhatIsAsked
          <6> QED
            BY <1>1, <1>7, <5>1, <6>1, StoredIsMapped
        <5> QED
          BY <3>2, <5>1
      <4> QED
        BY <4>1, <4>2, <4>3
    <3> QED
      BY <3>3, <3>4
  <2>3. \A n \in Nat : n \in 2 .. n => n = 2 \/ n > 2
    OBVIOUS
  <2> QED
    BY <1>3, <2>1, <2>2, <2>3
<1>18. Promised!Refresh(id)
  BY <1>11, <1>13, <1>15, <1>16, <1>17 DEF Promised!Refresh
<1> QED
  BY <1>7, <1>14, <1>18 DEF Promised!Next

-----------------------------------------------------------------------------
(* Storing, as the store promises *)

\* What a client is about to store is all that it asked for.
LEMMA AllIsTaken ==
  ASSUME ~crashed, held # None, held.ready
  PROVE  AskedIds = held.precedents /\ TakenIds = held.precedents
BY DEF AskedIds, TakenIds

\* Nothing is built from an ID that is stored for the first time.
LEMMA StoreNewPromised ==
  ASSUME NEW rank, Settled(rank), PromiseInv, StoreNew
  PROVE  PromiseInv' /\ [Promised!Next]_(Promised!vars)
<1>1. /\ TypeOK /\ MapSafe /\ LinksMatch /\ Registered /\ ~crashed
      /\ DirtyForReason /\ AllStored /\ live \subseteq Wrappers
  BY DEF Settled, MemoryInv, FreshInv, PromiseInv, TypeOK
<1>2. /\ CanStore /\ ~Exists(held.id) /\ held' = None /\ UNCHANGED <<stack, crashed>>
      /\ stack = <<>> /\ held # None /\ held.ready
  BY DEF StoreNew, CanStore, Quiet
<1>3. PICK w \in Wrappers \ live :
        /\ objectMap' = [objectMap EXCEPT ![held.id] = w]
        /\ SetObject(w)
        /\ dirty' = [dirty EXCEPT ![w] = FALSE]
        /\ builtFrom' = [builtFrom EXCEPT ![w] = held.builtFrom]
  BY DEF StoreNew
<1>4. PICK id : id = held.id
  OBVIOUS
<1>5. /\ id \in Ids /\ held.precedents \in SUBSET Ids
      /\ \A p \in held.precedents : p # id /\ Exists(p) /\ objectMap[p] \in held.builtFrom
  BY <1>2, <1>4, StoresInOrder DEF Settled, InOrder
<1>6. \A x \in Wrappers :
        /\ precedents'[x] = IF x = w THEN held.precedents ELSE precedents[x]
        /\ dirty'[x] = IF x = w THEN FALSE ELSE dirty[x]
        /\ builtFrom'[x] = IF x = w THEN held.builtFrom ELSE builtFrom[x]
  BY <1>1, <1>3 DEF SetObject, TypeOK
<1>7. \A p \in Ids : objectMap'[p] = IF p = id THEN w ELSE objectMap[p]
  BY <1>1, <1>3, <1>4 DEF TypeOK
<1>8. /\ objectMap'[id] = w /\ w # None
      /\ \A p \in Ids : p # id => objectMap'[p] = objectMap[p]
  BY <1>3, <1>5, <1>7, RepositoryAssumption
<1>9. \A p \in Ids : Exists(p) => /\ objectMap[p] \in Wrappers /\ objectMap[p] # w
                                  /\ objectMap[p] \in Stored
  BY <1>1, <1>3, StoredIsMapped
<1>10. ASSUME NEW x \in Stored PROVE id \notin precedents[x]
  <2>1. x \in live /\ x \in Wrappers /\ ~Resetting(x)
    BY <1>1, <1>2, StoredIsMapped DEF Resetting
  <2>2. ASSUME id \in precedents[x] PROVE FALSE
    <3>1. PICK o \in observables[x] : storedAs[o] = id
      BY <1>1, <2>1, <2>2 DEF Registered
    <3>2. o \in Stored
      BY <1>1, <2>1, <3>1 DEF LinksMatch, AllStored
    <3> QED
      BY <1>1, <1>2, <1>4, <3>1, <3>2, StoredIsMapped
  <2> QED
    BY <2>2
<1>11. /\ StoredIds' = StoredIds \cup {id}
       /\ PrecedentIds' = [PrecedentIds EXCEPT ![id] = held.precedents]
  <2>1. StoredIds' = StoredIds \cup {id}
    BY <1>2, <1>4, <1>5, <1>8 DEF StoredIds, Exists
  <2>2. ASSUME NEW x \in Ids
        PROVE  PrecedentIds'[x] = IF x = id THEN held.precedents ELSE PrecedentIds[x]
    <3>1. CASE x = id
      BY ZenonT(40), <1>3, <1>6, <1>8, <3>1 DEF PrecedentIds, Exists
    <3>2. CASE x # id /\ Exists(x)
      BY <1>6, <1>8, <1>9, <3>2 DEF PrecedentIds, Exists
    <3>3. CASE x # id /\ ~Exists(x)
      BY <1>8, <3>3 DEF PrecedentIds, Exists
    <3> QED
      BY <3>1, <3>2, <3>3
  <2>3. /\ PrecedentIds' = [x \in Ids |-> PrecedentIds'[x]]
        /\ PrecedentIds = [x \in Ids |-> PrecedentIds[x]]
    BY DEF PrecedentIds
  <2> QED
    BY <2>1, <2>2, <2>3
<1>12. Promised!Renewed(id, held.precedents)
  <2>1. UsedIds'[id] = held.precedents
    <3>1. UsedIds'[id] = {p \in held.precedents : objectMap'[p] \in held.builtFrom}
      <4>1. precedents'[w] = held.precedents /\ builtFrom'[w] = held.builtFrom
        BY <1>6
      <4>2. id \in Ids /\ objectMap'[id] = w /\ objectMap'[id] # None
        BY <1>5, <1>8
      <4> QED
        BY <4>1, <4>2 DEF UsedIds, Exists
    <3>2. \A p \in held.precedents : objectMap'[p] \in held.builtFrom
      BY <1>5, <1>8
    <3> QED
      BY <3>1, <3>2
  <2>2. ASSUME NEW x \in Ids, x # id PROVE UsedIds'[x] = UsedIds[x] \ {id}
    <3>1. CASE Exists(x)
      <4>1. PICK v : v = objectMap[x]
        OBVIOUS
      <4>2. v \in Wrappers /\ v # w /\ v \in Stored
        BY <1>9, <3>1, <4>1
      <4>3. precedents[v] \in SUBSET Ids /\ id \notin precedents[v]
        BY <1>1, <1>10, <4>2 DEF TypeOK
      <4>4. UsedIds'[x] = {p \in precedents[v] : objectMap'[p] \in builtFrom[v]}
        <5>1. objectMap'[x] = v /\ v # None
          BY <1>8, <2>2, <3>1, <4>1 DEF Exists
        <5>2. precedents'[v] = precedents[v] /\ builtFrom'[v] = builtFrom[v]
          BY <1>6, <4>2
        <5> QED
          BY <2>2, <5>1, <5>2 DEF UsedIds, Exists
      <4>5. UsedIds[x] = {p \in precedents[v] : objectMap[p] \in builtFrom[v]}
        BY <3>1, <4>1 DEF UsedIds
      <4>6. \A p \in precedents[v] : objectMap'[p] = objectMap[p] /\ p # id
        BY <1>8, <4>3
      <4> QED
        BY <4>4, <4>5, <4>6
    <3>2. CASE ~Exists(x)
      BY <1>8, <2>2, <3>2 DEF UsedIds, Exists
    <3> QED
      BY <3>1, <3>2
  <2>3. UsedIds' = [x \in Ids |-> UsedIds'[x]]
    BY DEF UsedIds
  <2> QED
    BY <2>1, <2>2, <2>3 DEF Promised!Renewed
<1>13. AskedIds = held.precedents /\ TakenIds = held.precedents
  BY <1>1, <1>2, AllIsTaken
<1>14. AskedIds' = {} /\ TakenIds' = {}
  BY <1>1, <1>2, NothingAsked DEF NotRetrieving
<1>15. Promised!Store(id)
  BY <1>5, <1>11, <1>12, <1>13, <1>14 DEF Promised!Store
<1>16. DirtyForReason'
  <2> SUFFICES ASSUME NEW x \in Stored', dirty'[x]
               PROVE  \E p \in precedents'[x] :
                        /\ Exists(p)'
                        /\ objectMap'[p] \notin builtFrom'[x] \/ dirty'[objectMap'[p]]
    BY DEF DirtyForReason
  <2>1. x \in Stored /\ x # w /\ x \in Wrappers
    <3>1. PICK q \in Ids : x = objectMap'[q] /\ x # None
      BY DEF Stored
    <3>2. x # w
      BY <1>3, <1>6
    <3>3. x = objectMap[q]
      BY <1>7, <3>1, <3>2
    <3> QED
      BY <1>1, <3>1, <3>2, <3>3, StoredIsMapped DEF Stored
  <2>2. dirty[x] /\ precedents'[x] = precedents[x] /\ builtFrom'[x] = builtFrom[x]
    BY <1>6, <2>1
  <2>3. PICK p \in precedents[x] :
          Exists(p) /\ (objectMap[p] \notin builtFrom[x] \/ dirty[objectMap[p]])
    BY <1>1, <1>2, <2>1, <2>2 DEF DirtyForReason, Updating
  <2>4. p \in Ids /\ p # id
    BY <1>1, <1>10, <2>1, <2>3 DEF TypeOK
  <2>5. /\ Exists(p)' /\ objectMap'[p] = objectMap[p]
        /\ dirty'[objectMap[p]] = dirty[objectMap[p]]
    BY <1>6, <1>8, <1>9, <2>3, <2>4 DEF Exists
  <2>6. objectMap'[p] \notin builtFrom'[x] \/ dirty'[objectMap'[p]]
    BY <2>2, <2>3, <2>5
  <2> QED
    BY <2>2, <2>5, <2>6
<1> QED
  BY <1>2, <1>5, <1>15, <1>16 DEF PromiseInv, NotifiesInTurn, GivesWhatIsAsked, Promised!Next

\* What was built from the former object no longer uses it.
LEMMA StoreOverPromised ==
  ASSUME NEW rank, Settled(rank), PromiseInv, StoreOver
  PROVE  PromiseInv' /\ [Promised!Next]_(Promised!vars)
<1>1. /\ TypeOK /\ MapSafe /\ ~crashed /\ DirtyForReason
  BY DEF Settled, MemoryInv, FreshInv, PromiseInv
<1>2. /\ CanStore /\ Exists(held.id) /\ held' = None /\ UNCHANGED <<objectMap, live, links>>
      /\ stack = <<>> /\ held # None /\ held.ready
  BY DEF StoreOver, CanStore, Quiet
<1>3. PICK id, w, from : id = held.id /\ w = objectMap[id] /\ from = held.builtFrom \ {w}
  OBVIOUS
<1>4. /\ id \in Ids /\ held.precedents \in SUBSET Ids
      /\ \A p \in held.precedents : p # id /\ objectMap[p] \in held.builtFrom
                                    /\ storedAs[objectMap[p]] = p
  BY <1>2, <1>3, StoresInOrder DEF Settled, InOrder
<1>5. w \in Wrappers /\ w \in Stored /\ storedAs[w] = id
  BY <1>1, <1>2, <1>3, <1>4, StoredIsMapped
<1>6. /\ SetObject(w)
      /\ dirty' = [dirty EXCEPT ![w] = FALSE]
      /\ builtFrom' = [x \in Wrappers |-> IF x = w THEN from ELSE builtFrom[x] \ {w}]
      /\ Enter(<<>>, Activation("reset", w, observers[w]))
  BY <1>3 DEF StoreOver
<1>7. PICK f : f = Activation("reset", w, observers[w])
  OBVIOUS
<1>8. f \in Frame /\ f.kind = "reset" /\ f.wrapper = w
  BY <1>1, <1>5, <1>7 DEF Activation, Frame, TypeOK
<1>9. crashed' = crashed /\ stack' # <<>> /\ Len(stack') = 1 /\ stack'[1] = f /\ Kind' = "reset"
  BY <1>6, <1>7, <1>8, EnteredFirst DEF Kind
<1>10. /\ precedents'[w] = held.precedents
       /\ \A x \in Wrappers : x # w => precedents'[x] = precedents[x]
       /\ \A x \in Wrappers : dirty'[x] = IF x = w THEN FALSE ELSE dirty[x]
       /\ \A x \in Wrappers : builtFrom'[x] = IF x = w THEN from ELSE builtFrom[x] \ {w}
  BY <1>1, <1>5, <1>6 DEF SetObject, TypeOK
<1>11. \A p \in held.precedents : objectMap[p] \in from
  BY <1>3, <1>4, <1>5
<1>12. PromiseInv'
  <2>1. \A o : ~Updating(o)
    BY <1>2 DEF Updating
  <2>2. DirtyForReason'
    BY <1>1, <1>2, <1>5, <1>10, <2>1, RenewedReasons
  <2>3. \A x \in Wrappers : w \notin builtFrom'[x]
    BY ZenonT(40), <1>3, <1>10
  <2>4. 2 .. Len(stack') = {} /\ stack'[1].wrapper = w
    BY <1>8, <1>9
  <2> QED
    BY <1>9, <2>2, <2>3, <2>4 DEF PromiseInv, NotifiesInTurn, GivesWhatIsAsked
<1>13. /\ StoredIds' = StoredIds \cup {id}
       /\ PrecedentIds' = [PrecedentIds EXCEPT ![id] = held.precedents]
  <2>1. \A x \in Ids : Exists(x)' = Exists(x) /\ objectMap'[x] = objectMap[x]
    BY <1>2 DEF Exists
  <2>2. StoredIds' = StoredIds \cup {id}
    BY <1>2, <1>3, <1>4, <2>1 DEF StoredIds
  <2>3. ASSUME NEW x \in Ids
        PROVE  PrecedentIds'[x] = IF x = id THEN held.precedents ELSE PrecedentIds[x]
    <3>1. CASE x = id
      BY <1>2, <1>3, <1>10, <2>1, <3>1 DEF PrecedentIds
    <3>2. CASE x # id /\ Exists(x)
      <4>1. objectMap[x] \in Wrappers /\ objectMap[x] # w
        BY <1>1, <1>5, <3>2, StoredIsMapped
      <4> QED
        BY <1>10, <2>1, <3>2, <4>1 DEF PrecedentIds
    <3>3. CASE x # id /\ ~Exists(x)
      BY <2>1, <3>3 DEF PrecedentIds
    <3> QED
      BY <3>1, <3>2, <3>3
  <2>4. /\ PrecedentIds' = [x \in Ids |-> PrecedentIds'[x]]
        /\ PrecedentIds = [x \in Ids |-> PrecedentIds[x]]
    BY DEF PrecedentIds
  <2> QED
    BY <2>2, <2>3, <2>4
<1>14. Promised!Renewed(id, held.precedents)
  <2>1. objectMap' = objectMap /\ held.precedents \in SUBSET Ids
    BY <1>2, <1>4
  <2>2. Promised!Renewed(storedAs[w], held.precedents)
    BY <1>1, <1>5, <1>10, <1>11, <2>1, RenewedUses
  <2> QED
    BY <1>5, <2>2
<1>15. AskedIds = held.precedents /\ TakenIds = held.precedents
  BY <1>1, <1>2, AllIsTaken
<1>16. AskedIds' = {} /\ TakenIds' = {}
  BY <1>1, <1>2, <1>9, NothingAsked DEF NotRetrieving
<1>17. Promised!Store(id)
  BY <1>4, <1>13, <1>14, <1>15, <1>16 DEF Promised!Store
<1> QED
  BY <1>4, <1>12, <1>17 DEF Promised!Next

-----------------------------------------------------------------------------
(* Notification, as the store promises *)

\* Notification leaves the objects.
LEMMA NotifyingPromised ==
  ASSUME NEW rank, Settled(rank), stack # <<>>, Kind = "reset",
         UNCHANGED <<objectMap, objectVars, builtFrom, held, crashed>>,
         stack' = <<>> \/ Kind' = "reset"
  PROVE  [Promised!Next]_(Promised!vars) /\ GivesWhatIsAsked'
<1>1. HeldInOrder /\ ~crashed /\ held = None
  BY HeldInCall DEF Settled, FreshInv
<1>2. UNCHANGED <<AskedIds, TakenIds>>
  BY <1>1, NothingAsked DEF NotRetrieving
<1>3. UNCHANGED <<StoredIds, PrecedentIds, UsedIds>>
  BY SameObjects DEF objectVars
<1> QED
  BY <1>2, <1>3, Stutters DEF GivesWhatIsAsked

\* One more observer is called.
LEMMA NotifyNextPromised ==
  ASSUME NEW rank, Settled(rank), PromiseInv, NotifyNext
  PROVE  PromiseInv' /\ [Promised!Next]_(Promised!vars)
<1>1. TypeOK /\ Activations(rank) /\ DirtyForReason /\ NotifiesInTurn
  BY DEF Settled, MemoryInv, FreshInv, PromiseInv
<1>2. /\ stack # <<>> /\ Top.kind \in {"reset", "update"}
      /\ UNCHANGED <<objectMap, live, objectVars, dirty, builtFrom, links, held>>
  BY DEF NotifyNext, Notifying
<1>3. /\ Kind = "reset" /\ Len(stack) \in Nat \ {0} /\ Top = stack[Len(stack)] /\ Top \in Frame
  BY <1>1, <1>2, FirstActivation, PopIsBelow DEF TypeOK, Top
<1>4. PICK o \in observers[Top.wrapper] \cap Top.todo \cap Wrappers :
        /\ crashed' = crashed /\ stack' # <<>> /\ Len(stack') = Len(stack) + 1
        /\ \A i \in 1 .. Len(stack) - 1 : stack'[i] = stack[i]
        /\ stack'[Len(stack)] = Told(Top, o)
        /\ stack'[Len(stack) + 1] = Activation("update", o, observers[o])
  BY NotifiedStack DEF Settled
<1>5. /\ Told(Top, o).kind = Top.kind /\ Told(Top, o).wrapper = Top.wrapper
      /\ Activation("update", o, observers[o]).wrapper = o
  BY <1>3, ToldFrame DEF Activation
<1>6. \A i \in 1 .. Len(stack) :
        stack'[i].kind = stack[i].kind /\ stack'[i].wrapper = stack[i].wrapper
  <2> TAKE i \in 1 .. Len(stack)
  <2>1. i = Len(stack) \/ i \in 1 .. Len(stack) - 1
    BY <1>3
  <2> QED
    BY <1>3, <1>4, <1>5, <2>1
<1>7. Kind' = "reset" /\ stack'[1].wrapper = stack[1].wrapper
  BY <1>3, <1>6 DEF Kind
<1>8. ASSUME NEW i \in 2 .. Len(stack')
      PROVE  stack'[i].wrapper \in observers[stack'[i - 1].wrapper]
  <2>1. CASE i = Len(stack) + 1
    <3>1. i - 1 = Len(stack)
      BY <1>3, <2>1
    <3> QED
      BY <1>3, <1>4, <1>5, <2>1, <3>1
  <2>2. CASE i # Len(stack) + 1
    <3>1. i \in 2 .. Len(stack) /\ i \in 1 .. Len(stack) /\ i - 1 \in 1 .. Len(stack)
      BY <1>3, <1>4, <1>8, <2>2
    <3>2. stack[i].wrapper \in observers[stack[i - 1].wrapper]
      BY <1>1, <1>2, <1>3, <3>1 DEF NotifiesInTurn
    <3> QED
      BY <1>6, <3>1, <3>2
  <2> QED
    BY <2>1, <2>2
<1>9. NotifiesInTurn'
  BY <1>1, <1>2, <1>3, <1>7, <1>8 DEF NotifiesInTurn, links
<1>10. DirtyForReason'
  <2>1. ASSUME NEW x, Updating(x) PROVE Updating(x)'
    <3>1. PICK i \in 2 .. Len(stack) : x = stack[i].wrapper
      BY <2>1 DEF Updating
    <3>2. i \in 1 .. Len(stack) /\ i \in 2 .. Len(stack')
      BY <1>3, <1>4, <3>1
    <3> QED
      BY <1>4, <1>6, <1>7, <3>1, <3>2 DEF Updating
  <2> QED
    BY <1>1, <1>2, <2>1, SameReasons DEF objectVars
<1> QED
  BY <1>2, <1>3, <1>4, <1>7, <1>9, <1>10, NotifyingPromised DEF PromiseInv

\* A wrapper becomes dirty because it was built from the former object of the one that
\* notifies it, or because that one is about to become dirty.
LEMMA FinishUpdatePromised ==
  ASSUME NEW rank, Settled(rank), PromiseInv, FinishUpdate
  PROVE  PromiseInv' /\ [Promised!Next]_(Promised!vars)
<1>1. /\ TypeOK /\ MapSafe /\ LinksMatch /\ Registered /\ Layered(rank) /\ Activations(rank)
      /\ DirtyForReason /\ NotifiesInTurn /\ AllStored
  BY DEF Settled, MemoryInv, FreshInv, PromiseInv
<1>2. /\ stack # <<>> /\ Top.kind = "update" /\ Top.todo = {}
      /\ dirty' = [dirty EXCEPT ![Top.wrapper] = TRUE]
      /\ stack' = Pop /\ crashed' = crashed
      /\ UNCHANGED <<objectMap, live, objectVars, builtFrom, links, held>>
  BY DEF FinishUpdate, Notifying
<1>3. /\ Kind = "reset" /\ Notifies(rank)
      /\ Len(stack) \in Nat \ {0} /\ Len(stack) \in 2 .. Len(stack)
      /\ Top = stack[Len(stack)]
      /\ Len(Pop) = Len(stack) - 1 /\ \A i \in 1 .. Len(Pop) : Pop[i] = stack[i]
  BY <1>1, <1>2, FirstActivation, PopIsBelow DEF TypeOK, Top
<1>4. PICK w, reset : w = Top.wrapper /\ reset = stack[1].wrapper
  OBVIOUS
<1>5. PICK b : b = stack[Len(stack) - 1].wrapper
  OBVIOUS
<1>6. w \in observers[b]
  BY <1>1, <1>2, <1>3, <1>4, <1>5 DEF NotifiesInTurn
<1>7. /\ Rank(rank, reset) \in 0 .. MaxDepth - 2
      /\ w \in Wrappers /\ Rank(rank, w) >= Rank(rank, reset) + Len(stack) - 1
  BY <1>1, <1>2, <1>3, <1>4, UpInRank DEF Settled
<1>8. w # reset
  BY <1>3, <1>7
<1>9. \A x \in Wrappers : dirty'[x] = (x = w \/ dirty[x])
  BY <1>1, <1>2, <1>4 DEF TypeOK
<1>10. /\ Len(stack') = Len(stack) - 1 /\ stack' # <<>> /\ Kind' = "reset"
       /\ stack'[1].wrapper = reset
       /\ \A i \in 1 .. Len(stack) - 1 : stack'[i] = stack[i]
  <2>1. /\ Len(stack') = Len(stack) - 1 /\ Len(stack') # 0 /\ 1 \in 1 .. Len(Pop)
        /\ \A i \in 1 .. Len(stack) - 1 : stack'[i] = stack[i]
    BY <1>2, <1>3
  <2> QED
    BY <1>2, <1>3, <1>4, <2>1 DEF Kind
<1>11. NotifiesInTurn'
  <2>1. ASSUME NEW i \in 2 .. Len(stack')
        PROVE  stack'[i].wrapper \in observers[stack'[i - 1].wrapper]
    <3>1. i \in 2 .. Len(stack) /\ i \in 1 .. Len(stack) - 1 /\ i - 1 \in 1 .. Len(stack) - 1
      BY <1>3, <1>10, <2>1
    <3> QED
      BY <1>1, <1>2, <1>3, <1>10, <3>1 DEF NotifiesInTurn
  <2> QED
    BY <1>1, <1>2, <1>3, <1>4, <1>10, <2>1 DEF NotifiesInTurn, links
<1>12. ASSUME NEW x, Updating(x) PROVE x = w \/ Updating(x)'
  <2>1. PICK i \in 2 .. Len(stack) : x = stack[i].wrapper
    BY <1>12 DEF Updating
  <2>2. CASE i = Len(stack)
    BY <1>3, <1>4, <2>1, <2>2
  <2>3. CASE i # Len(stack)
    <3>1. i \in 1 .. Len(stack) - 1 /\ i \in 2 .. Len(stack')
      BY <1>3, <1>10, <2>1, <2>3
    <3> QED
      BY <1>10, <2>1, <3>1 DEF Updating
  <2> QED
    BY <2>2, <2>3
\* The precedent that notifies it is the reason.
<1>13. \E p \in precedents[w] :
         Exists(p) /\ (objectMap[p] \notin builtFrom[w] \/ Updating(objectMap[p])')
  <2>1. b \in Wrappers
    <3>1. Len(stack) - 1 \in 1 .. Len(stack)
      BY <1>3
    <3>2. b \in live
      <4>1. CASE Len(stack) = 2
        BY <1>3, <1>5, <4>1 DEF Notifies
      <4>2. CASE Len(stack) # 2
        <5>1. Len(stack) - 1 \in 2 .. Len(stack)
          BY <1>3, <4>2
        <5>2. stack[Len(stack) - 1].kind = "update"
          BY <1>3, <5>1 DEF Notifies
        <5> QED
          BY <1>5, <3>1, <5>2 DEF Settled, MemoryInv, FramesSafe, FrameSafe
      <4> QED
        BY <4>1, <4>2
    <3> QED
      BY <1>1, <3>2 DEF TypeOK
  <2>2. b \in observables[w] /\ b \in Stored /\ w \in live
    BY <1>1, <1>6, <1>7, <2>1 DEF LinksMatch, AllStored
  <2>3. storedAs[b] \in precedents[w] /\ Exists(storedAs[b]) /\ objectMap[storedAs[b]] = b
    <3>1. ~Resetting(w)
      BY <1>4, <1>8 DEF Resetting
    <3> QED
      BY <1>1, <1>7, <2>2, <3>1, StoredIsMapped DEF Registered
  <2>4. CASE Len(stack) = 2
    <3>1. b = stack[1].wrapper
      BY <1>5, <2>4
    <3>2. b \notin builtFrom[w]
      BY <1>1, <1>2, <1>3, <1>7, <3>1 DEF NotifiesInTurn
    <3> QED
      BY <2>3, <3>2
  <2>5. CASE Len(stack) # 2
    <3>1. Len(stack) - 1 \in 2 .. Len(stack') /\ Len(stack) - 1 \in 1 .. Len(stack) - 1
      BY <1>3, <1>10, <2>5
    <3>2. Updating(b)'
      BY <1>5, <1>10, <3>1 DEF Updating
    <3> QED
      BY <1>2, <2>3, <3>2
  <2> QED
    BY <2>4, <2>5
<1>14. DirtyForReason'
  <2> SUFFICES ASSUME NEW x \in Stored, dirty'[x]
               PROVE  \E p \in precedents[x] :
                        /\ Exists(p)
                        /\ \/ objectMap[p] \notin builtFrom[x]
                           \/ dirty'[objectMap[p]]
                           \/ Updating(objectMap[p])'
    BY <1>2 DEF DirtyForReason, Stored, Exists, objectVars
  <2>1. x \in Wrappers
    BY <1>1, StoredIsMapped
  <2>2. CASE x = w
    BY <1>13, <2>2
  <2>3. CASE x # w
    <3>1. PICK p \in precedents[x] :
            /\ Exists(p)
            /\ objectMap[p] \notin builtFrom[x] \/ dirty[objectMap[p]] \/ Updating(objectMap[p])
      BY <1>1, <1>9, <2>1, <2>3 DEF DirtyForReason
    <3>2. objectMap[p] \in Wrappers
      BY <1>1, <2>1, <3>1, StoredIsMapped DEF TypeOK
    <3> QED
      <4>1. objectMap' = objectMap
        BY <1>2
      <4>2. Updating(objectMap[p]) => objectMap[p] = w \/ Updating(objectMap[p])'
        BY <1>12, <4>1
      <4> QED
        BY <1>7, <1>9, <3>1, <3>2, <4>2
  <2> QED
    BY <2>2, <2>3
<1> QED
  BY <1>2, <1>3, <1>10, <1>11, <1>14, NotifyingPromised DEF PromiseInv

\* The links of the new object change nothing that the store promises.
LEMMA FinishResetPromised ==
  ASSUME NEW rank, Settled(rank), PromiseInv, FinishReset
  PROVE  PromiseInv' /\ [Promised!Next]_(Promised!vars)
<1>1. TypeOK /\ Activations(rank) /\ DirtyForReason
  BY DEF Settled, MemoryInv, FreshInv, PromiseInv
<1>2. /\ stack # <<>> /\ Top.kind = "reset" /\ stack' = <<>>
      /\ UNCHANGED <<objectMap, live, objectVars, dirty, builtFrom, held, crashed>>
  BY DEF FinishReset, Notifying
<1>3. Kind = "reset" /\ Len(stack) = 1
  BY <1>1, <1>2, FirstActivation
<1>4. \A o : ~Updating(o)
  BY <1>3 DEF Updating
<1>5. DirtyForReason'
  BY <1>1, <1>2, <1>4, SameReasons DEF objectVars
<1> QED
  BY <1>2, <1>3, <1>5, NotifyingPromised DEF PromiseInv, NotifiesInTurn

-----------------------------------------------------------------------------
(* The implementation *)

\* At first nothing is stored, and nothing promised.
LEMMA InitPromised == Init => PromiseInv /\ Promised!Init
<1> SUFFICES ASSUME Init PROVE PromiseInv /\ Promised!Init
  OBVIOUS
<1>1. Stored = {} /\ StoredIds = {} /\ stack = <<>> /\ held = None /\ ~crashed
      /\ \A id \in Ids : ~Exists(id)
  BY DEF Init, Stored, StoredIds, Exists
<1>2. PromiseInv
  BY <1>1 DEF PromiseInv, DirtyForReason, NotifiesInTurn, GivesWhatIsAsked
<1>3. PrecedentIds = [id \in Ids |-> {}] /\ UsedIds = [id \in Ids |-> {}]
  BY <1>1 DEF PrecedentIds, UsedIds
<1>4. AskedIds = {} /\ TakenIds = {}
  BY <1>1, NothingAsked DEF NotRetrieving
<1> QED
  BY <1>1, <1>2, <1>3, <1>4 DEF Promised!Init

\* A step that changes nothing keeps the invariant and the promise.
LEMMA StutterPromised ==
  ASSUME PromiseInv, UNCHANGED vars
  PROVE  PromiseInv' /\ [Promised!Next]_(Promised!vars)
<1>1. UNCHANGED <<objectMap, live, storedAs, precedents, dirty, builtFrom, observers, held, stack,
                  crashed>>
  BY DEF vars, objectVars, links
<1>2. PromiseInv'
  BY <1>1 DEF PromiseInv, DirtyForReason, NotifiesInTurn, GivesWhatIsAsked, Updating, Kind, Stored,
     Exists
<1>3. UNCHANGED <<StoredIds, PrecedentIds, UsedIds>>
  BY <1>1, SameObjects
<1>4. UNCHANGED <<AskedIds, TakenIds>>
  BY <1>1 DEF AskedIds, TakenIds, AskingOutright, Given, Recreating
<1> QED
  BY <1>2, <1>3, <1>4, Stutters

\* Without deletion there is nothing to delete, nor to destroy.
LEMMA StepPromised ==
  ASSUME NEW rank, Settled(rank), PromiseInv, [Next]_vars
  PROVE  PromiseInv' /\ [Promised!Next]_(Promised!vars)
<1>1. ~crashed /\ TypeOK /\ Deletable = {} /\ live \subseteq Stored
  BY DEF Settled, FreshInv, MemoryInv, AllStored
<1>2. CASE Step
  <2>1. \A w \in Wrappers : ~Destroy(w)
    BY <1>1 DEF Destroy, Garbage
  <2> QED
    BY <1>2, <2>1, RetrieveNextPromised, FinishRecreatePromised, EndPromised, NotifyNextPromised,
       FinishUpdatePromised, FinishResetPromised DEF Step
<1>3. CASE Call
  BY <1>3, BeginPromised, StoreNewPromised, StoreOverPromised, EndPromised DEF Call
<1>4. CASE Delete
  <2>1. DeletionLists = {}
    BY <1>1 DEF DeletionLists
  <2>2. Ids = {}
    BY <1>1, <1>4, <2>1 DEF Delete
  <2>3. PICK ids : Erase(ids)
    BY <1>4 DEF Delete, DeleteObjects, DeleteAllObjects
  <2>4. objectMap' = objectMap
    BY <1>1, <2>2, <2>3 DEF Erase, TypeOK
  <2>5. UNCHANGED vars
    BY <1>4, <2>4 DEF Delete, DeleteObjects, DeleteAllObjects, vars
  <2> QED
    BY <2>5, StutterPromised
<1>5. ~Restart
  BY <1>1 DEF Restart
<1>6. CASE UNCHANGED vars
  BY <1>6, StutterPromised
<1> QED
  BY <1>2, <1>3, <1>4, <1>5, <1>6 DEF Next

\* Where references go down by layers that fit in the stack, and nothing is deleted, the
\* repository implements the promise of the class comment of ObjectWrapper: whatever a
\* call is given is current, however deep and in whatever order objects are recreated on
\* the way, and nothing that is current is built anew.
THEOREM RepositoryImplementsObjectStore ==
  ASSUME NEW rank
  PROVE  Spec /\ Layered(rank) /\ Deletable = {} => ImplementsObjectStore
<1>1. Init /\ Deletable = {} => AllStored
  BY DEF Init, AllStored
<1>2. MemoryInv /\ AllStored /\ [Next]_vars => AllStored'
  BY StoredForever
<1>3. Init => PromiseInv /\ Promised!Init
  BY InitPromised
<1>4. MemoryInv /\ FreshInv(rank) /\ AllStored /\ PromiseInv /\ [Next]_vars
        => PromiseInv' /\ [Promised!Next]_(Promised!vars)
  BY StepPromised DEF Settled
<1> QED
  BY <1>1, <1>2, <1>3, <1>4, FreshInvariant, PTL
  DEF Spec, ImplementsObjectStore, Promised!Spec

-----------------------------------------------------------------------------
(* What a call has been given *)

\* What a call has been given stays current for as long as the call has it.
GivenAreCurrent == \A id \in TakenIds : Promised!Current(id)

\* What a call has been given is what it asked for, as the abstract store has it.
PromisedInv == StoredIds \subseteq Ids /\ TakenIds \subseteq AskedIds /\ GivenAreCurrent

\* The objects that are current rest on current objects.
LEMMA CurrentIsClosed ==
  ASSUME NEW id, Promised!Current(id)
  PROVE  /\ id \in StoredIds /\ UsedIds[id] = PrecedentIds[id]
         /\ \A p \in PrecedentIds[id] : Promised!Current(p)
<1>1. PICK S \in SUBSET StoredIds :
        id \in S /\ \A x \in S : UsedIds[x] = PrecedentIds[x] /\ PrecedentIds[x] \subseteq S
  BY DEF Promised!Current
<1> QED
  BY <1>1 DEF Promised!Current

\* Building one object anew leaves current what was current: none of it can have
\* rested on the object that is replaced, which was not.
LEMMA RefreshKeeps ==
  ASSUME PromisedInv, NEW id \in Ids, Promised!Refresh(id), NEW x, Promised!Current(x)
  PROVE  Promised!Current(x)'
<1>1. PICK S \in SUBSET StoredIds :
        x \in S /\ \A y \in S : UsedIds[y] = PrecedentIds[y] /\ PrecedentIds[y] \subseteq S
  BY DEF Promised!Current
<1>2. id \notin S
  BY <1>1 DEF Promised!Refresh, Promised!Current
<1>3. \A y \in S : UsedIds'[y] = UsedIds[y]
  BY <1>1, <1>2 DEF Promised!Refresh, Promised!Renewed, PromisedInv
<1> QED
  BY <1>1, <1>3 DEF Promised!Refresh, Promised!Current

\* An object that has been built anew is current.
LEMMA RefreshRenews ==
  ASSUME PromisedInv, NEW id \in Ids, Promised!Refresh(id)
  PROVE  Promised!Current(id)'
<1> DEFINE S == {x \in StoredIds : Promised!Current(x)} \cup {id}
<1>1. S \in SUBSET StoredIds' /\ id \in S
  BY DEF Promised!Refresh
<1>2. PrecedentIds[id] \subseteq S \ {id}
  BY CurrentIsClosed DEF Promised!Refresh
<1>3. UsedIds'[id] = PrecedentIds'[id] /\ PrecedentIds'[id] \subseteq S
  BY <1>2 DEF Promised!Refresh, Promised!Renewed
<1>4. ASSUME NEW x \in S, x # id
      PROVE  UsedIds'[x] = PrecedentIds'[x] /\ PrecedentIds'[x] \subseteq S
  <2>1. /\ Promised!Current(x) /\ UsedIds[x] = PrecedentIds[x]
        /\ PrecedentIds[x] \subseteq S \ {id}
    BY <1>4, CurrentIsClosed DEF Promised!Refresh
  <2> QED
    BY <1>4, <2>1 DEF Promised!Refresh, Promised!Renewed, PromisedInv
<1> HIDE DEF S
<1>5. \A x \in S : UsedIds'[x] = PrecedentIds'[x] /\ PrecedentIds'[x] \subseteq S
  BY <1>3, <1>4
<1> QED
  BY <1>1, <1>5 DEF Promised!Current

\* Every step of the abstract store.
LEMMA PromisedStepSafe ==
  ASSUME PromisedInv, [Promised!Next]_(Promised!vars) PROVE PromisedInv'
<1>1. ASSUME UNCHANGED Promised!objects
      PROVE  \A x : Promised!Current(x) <=> Promised!Current(x)'
  BY <1>1 DEF Promised!Current, Promised!objects
<1>2. ASSUME NEW ids \in SUBSET Ids, Promised!Ask(ids) PROVE PromisedInv'
  BY <1>1, <1>2 DEF Promised!Ask, PromisedInv, GivenAreCurrent, Promised!objects
<1>3. ASSUME NEW id \in Ids, Promised!Take(id) PROVE PromisedInv'
  BY <1>1, <1>3 DEF Promised!Take, PromisedInv, GivenAreCurrent, Promised!objects
<1>4. ASSUME NEW id \in Ids, Promised!Refresh(id) PROVE PromisedInv'
  <2>1. TakenIds' = TakenIds \/ (id \in AskedIds /\ TakenIds' = TakenIds \cup {id})
    BY <1>4 DEF Promised!Refresh
  <2>2. StoredIds' \subseteq Ids /\ TakenIds' \subseteq AskedIds'
    BY <1>4, <2>1 DEF Promised!Refresh, PromisedInv
  <2>3. GivenAreCurrent'
    BY <1>4, <2>1, RefreshKeeps, RefreshRenews DEF PromisedInv, GivenAreCurrent
  <2> QED
    BY <2>2, <2>3 DEF PromisedInv
<1>5. ASSUME NEW id \in Ids, Promised!Store(id) PROVE PromisedInv'
  BY <1>5 DEF Promised!Store, PromisedInv, GivenAreCurrent
<1>6. CASE Promised!End \/ Promised!Restart
  BY <1>6 DEF Promised!End, Promised!Restart, Promised!objects, PromisedInv, GivenAreCurrent
<1>7. CASE UNCHANGED Promised!vars
  BY <1>1, <1>7 DEF Promised!vars, Promised!objects, Promised!call, PromisedInv, GivenAreCurrent
<1> QED
  BY <1>2, <1>3, <1>4, <1>5, <1>6, <1>7 DEF Promised!Next

\* "Before returning the reference ... the ObjectWrapper ensures that the state of
\* the Object is updated": whatever implements the abstract store keeps, until a call
\* ends, all that the call was given up to date, with what it rests on, whatever else
\* is built anew meanwhile.
THEOREM PromiseKeepsCurrent == ImplementsObjectStore => []GivenAreCurrent
<1>1. Promised!Init => PromisedInv
  BY DEF Promised!Init, PromisedInv, GivenAreCurrent
<1>2. PromisedInv /\ [Promised!Next]_(Promised!vars) => PromisedInv'
  BY PromisedStepSafe
<1>3. PromisedInv => GivenAreCurrent
  BY DEF PromisedInv
<1> QED
  BY <1>1, <1>2, <1>3, PTL DEF ImplementsObjectStore, Promised!Spec

\* Where references go down by layers that fit in the stack, and nothing is deleted, a
\* call of the repository holds no object that rests on one which was replaced since.
THEOREM GivenStayCurrent ==
  ASSUME NEW rank
  PROVE  Spec /\ Layered(rank) /\ Deletable = {} => []GivenAreCurrent
BY RepositoryImplementsObjectStore, PromiseKeepsCurrent, PTL
=============================================================================
