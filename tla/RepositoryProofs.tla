-------------------------- MODULE RepositoryProofs --------------------------
(***************************************************************************)
(* Proofs about Repository for any IDs, any number of wrappers, any client *)
(* discipline and any stack size: the type invariant, and memory safety of *)
(* the observer links.                                                     *)
(***************************************************************************)
EXTENDS Repository, SequenceTheorems, TLAPS

\* What an activation holds is alive while it runs: the wrapper it works on and
\* the observers it has yet to notify.
FrameSafe(f, alive, building) ==
  /\ f.kind \in {"recreate", "reset", "update"} => f.wrapper \in alive
  /\ f.wrapper # None => f.wrapper \in alive
  /\ f.kind \in {"reset", "update"} => f.todo \subseteq alive
  /\ f.kind = "construct" => building

FramesSafe == \A i \in 1 .. Len(stack) : FrameSafe(stack[i], live, Building)

MapSafe == \A id \in Ids : Exists(id) => /\ objectMap[id] \in live
                                         /\ storedAs[objectMap[id]] = id

\* The inductive invariant.
MemoryInv == TypeOK /\ LinksMatch /\ MapSafe /\ FramesSafe

-----------------------------------------------------------------------------
(* The stack *)

\* The top of a non-empty stack is a frame, and popping it leaves those below.
LEMMA PopIsBelow ==
  ASSUME stack \in Seq(Frame), stack # <<>>
  PROVE  /\ Pop \in Seq(Frame)
         /\ Len(Pop) = Len(stack) - 1
         /\ \A i \in 1 .. Len(Pop) : Pop[i] = stack[i]
         /\ Len(stack) \in Nat \ {0}
         /\ Len(stack) \in 1 .. Len(stack)
         /\ Top \in Frame
<1>1. Len(stack) \in Nat \ {0} /\ \A i \in 1 .. Len(stack) : stack[i] \in Frame
  OBVIOUS
<1>2. Len(stack) \in 1 .. Len(stack)
  BY <1>1
<1>3. \A i \in 1 .. Len(stack) - 1 : stack[i] \in Frame
  BY <1>1
<1>4. /\ SubSeq(stack, 1, Len(stack) - 1) \in Seq(Frame)
      /\ Len(SubSeq(stack, 1, Len(stack) - 1)) =
           IF 1 <= Len(stack) - 1 THEN Len(stack) - 1 - 1 + 1 ELSE 0
      /\ \A i \in 1 .. Len(stack) - 1 - 1 + 1 :
           SubSeq(stack, 1, Len(stack) - 1)[i] = stack[1 + i - 1]
  BY <1>1, <1>3, SubSeqProperties
<1>5. Len(Pop) = Len(stack) - 1
  <2>1. \A n \in Nat \ {0} : (IF 1 <= n - 1 THEN n - 1 - 1 + 1 ELSE 0) = n - 1
    OBVIOUS
  <2> QED
    BY <1>1, <1>4, <2>1 DEF Pop
<1>6. \A i \in 1 .. Len(Pop) : Pop[i] = stack[i]
  BY <1>1, <1>4, <1>5 DEF Pop
<1> QED
  BY <1>1, <1>2, <1>4, <1>5, <1>6 DEF Pop, Top

\* No activation, as between calls.
LEMMA EmptyStack == <<>> \in Seq(Frame) /\ 1 .. Len(<<>>) = {}
  OBVIOUS

\* Frames of a stack with one more activation, or of the crashed process.
LEMMA EnterFrames ==
  ASSUME NEW base \in Seq(Frame), NEW f \in Frame, crashed \in BOOLEAN, Enter(base, f)
  PROVE  /\ stack' \in Seq(Frame) /\ crashed' \in BOOLEAN
         /\ \A i \in 1 .. Len(stack') :
              \/ i \in 1 .. Len(base) /\ stack'[i] = base[i]
              \/ stack'[i] = f
<1>1. CASE stack' = Append(base, f) /\ UNCHANGED crashed
  <2>1. /\ Append(base, f) \in Seq(Frame)
        /\ Len(Append(base, f)) = Len(base) + 1
        /\ \A i \in 1 .. Len(base) : Append(base, f)[i] = base[i]
        /\ Append(base, f)[Len(base) + 1] = f
    OBVIOUS
  <2> QED
    BY <1>1, <2>1
<1>2. CASE stack' = <<>> /\ crashed' = TRUE
  BY <1>2
<1> QED
  BY <1>1, <1>2 DEF Enter

\* Frames of a stack whose top has been updated.
LEMMA ReplaceFrames ==
  ASSUME stack \in Seq(Frame), stack # <<>>, NEW f \in Frame
  PROVE  /\ Replace(f) \in Seq(Frame)
         /\ \A i \in 1 .. Len(Replace(f)) :
              \/ i \in 1 .. Len(stack) /\ Replace(f)[i] = stack[i]
              \/ Replace(f)[i] = f
<1>1. /\ Append(Pop, f) \in Seq(Frame)
      /\ Len(Append(Pop, f)) = Len(Pop) + 1
      /\ \A i \in 1 .. Len(Pop) : Append(Pop, f)[i] = Pop[i]
      /\ Append(Pop, f)[Len(Pop) + 1] = f
  BY PopIsBelow
<1> QED
  BY <1>1, PopIsBelow DEF Replace

-----------------------------------------------------------------------------
(* Registration *)

\* unregisterWithAll and registerWith keep both ends of every link in step.
LEMMA RegisterKeepsSymmetry ==
  ASSUME TypeOK, NEW w \in Wrappers, NEW targets \in SUBSET Wrappers, Register(w, targets),
         \A x, o \in Wrappers : x \in observers[o] <=> o \in observables[x]
  PROVE  /\ observables' \in [Wrappers -> SUBSET Wrappers]
         /\ observers' \in [Wrappers -> SUBSET Wrappers]
         /\ \A x, o \in Wrappers : x \in observers'[o] <=> o \in observables'[x]
         /\ \A x \in Wrappers : observables'[x] = IF x = w THEN targets ELSE observables[x]
<1>1. \A x \in Wrappers : observables'[x] = IF x = w THEN targets ELSE observables[x]
  BY DEF Register, TypeOK
<1>2. \A o \in Wrappers : observers'[o] =
        (IF o \in observables[w] THEN observers[o] \ {w} ELSE observers[o])
          \cup (IF o \in targets THEN {w} ELSE {})
  BY DEF Register
<1>3. ASSUME NEW x \in Wrappers, NEW o \in Wrappers
      PROVE  x \in observers'[o] <=> o \in observables'[x]
  BY <1>1, <1>2, <1>3
<1>4. observers' \in [Wrappers -> SUBSET Wrappers]
  BY DEF Register, TypeOK
<1>5. observables' \in [Wrappers -> SUBSET Wrappers]
  BY DEF Register, TypeOK
<1> QED
  BY <1>1, <1>3, <1>4, <1>5

\* Registering a live wrapper with wrappers of a map of live wrappers.
LEMMA RegisterObserverSafe ==
  ASSUME TypeOK, LinksMatch, NEW w \in Wrappers, NEW m \in [Ids -> Wrappers \cup {None}],
         NEW ids \in SUBSET Ids, NEW alive \in SUBSET Wrappers,
         live \subseteq alive, w \in alive,
         \A id \in Ids : m[id] # None => m[id] \in alive,
         RegisterObserver(w, m, ids)
  PROVE  /\ observables' \in [Wrappers -> SUBSET Wrappers]
         /\ observers' \in [Wrappers -> SUBSET Wrappers]
         /\ \A x, o \in Wrappers : x \in observers'[o] <=> o \in observables'[x]
         /\ \A x \in Wrappers : observables'[x] # {} =>
              x \in alive /\ observables'[x] \subseteq alive
<1>1. PICK done \in SUBSET {p \in ids : m[p] # None} : Register(w, {m[p] : p \in done})
  BY DEF RegisterObserver
<1>2. {m[p] : p \in done} \in SUBSET Wrappers /\ {m[p] : p \in done} \subseteq alive
  OBVIOUS
<1>3. \A x, o \in Wrappers : x \in observers[o] <=> o \in observables[x]
  BY DEF LinksMatch
<1>4. /\ observables' \in [Wrappers -> SUBSET Wrappers]
      /\ observers' \in [Wrappers -> SUBSET Wrappers]
      /\ \A x, o \in Wrappers : x \in observers'[o] <=> o \in observables'[x]
      /\ \A x \in Wrappers : observables'[x] =
           IF x = w THEN {m[p] : p \in done} ELSE observables[x]
  BY <1>1, <1>2, <1>3, RegisterKeepsSymmetry
<1> QED
  BY <1>2, <1>4 DEF LinksMatch

-----------------------------------------------------------------------------
(* The inductive invariant *)

LEMMA InitSafe == Init => MemoryInv
<1> SUFFICES ASSUME Init PROVE MemoryInv
  OBVIOUS
<1>1. TypeOK
  <2>1. None \in HeldObject \cup {None} /\ <<>> \in Seq(Frame)
    OBVIOUS
  <2> QED
    BY <2>1 DEF Init, TypeOK
<1>2. LinksMatch /\ MapSafe
  BY DEF Init, LinksMatch, MapSafe, Exists
<1>3. FramesSafe
  BY DEF Init, FramesSafe
<1> QED
  BY <1>1, <1>2, <1>3 DEF MemoryInv

\* Steps that leave the map, the wrappers and the links alone preserve what is
\* said of those.
LEMMA SameMemory ==
  ASSUME LinksMatch, MapSafe, UNCHANGED <<objectMap, live, storedAs, links>>
  PROVE  LinksMatch' /\ MapSafe'
BY DEF LinksMatch, MapSafe, Exists, links

\* A step whose frames were on the stack before or are safe.
LEMMA SameFrames ==
  ASSUME FramesSafe, UNCHANGED live, Building => Building',
         \A i \in 1 .. Len(stack') :
           \/ \E j \in 1 .. Len(stack) : stack'[i] = stack[j]
           \/ FrameSafe(stack'[i], live, Building')
  PROVE  FramesSafe'
<1> SUFFICES ASSUME NEW i \in 1 .. Len(stack')
             PROVE  FrameSafe(stack'[i], live', Building')
  BY DEF FramesSafe
<1>1. CASE FrameSafe(stack'[i], live, Building')
  BY <1>1
<1>2. CASE \E j \in 1 .. Len(stack) : stack'[i] = stack[j]
  <2>1. PICK j \in 1 .. Len(stack) : stack'[i] = stack[j]
    BY <1>2
  <2>2. FrameSafe(stack[j], live, Building)
    BY DEF FramesSafe
  <2> QED
    BY <2>1, <2>2 DEF FrameSafe
<1> QED
  BY <1>1, <1>2

\* The object a client is building stays the same but for its history.
LEMMA ForgetSafe ==
  ASSUME TypeOK, NEW w, NEW from \in SUBSET Wrappers, ForgetObjectOf(w, from)
  PROVE  /\ builtFrom' \in [Wrappers -> SUBSET Wrappers]
         /\ held' \in HeldObject \cup {None}
         /\ Building => Building'
<1>1. builtFrom' \in [Wrappers -> SUBSET Wrappers]
  BY DEF ForgetObjectOf, TypeOK
<1>2. CASE held = None
  BY <1>1, <1>2 DEF ForgetObjectOf, Building
<1>3. CASE held # None
  <2>1. held \in HeldObject /\ held' = [held EXCEPT !.builtFrom = @ \ {w}]
    BY <1>3 DEF ForgetObjectOf, TypeOK
  <2>2. held' \in HeldObject /\ held'.ready = held.ready
    BY <2>1 DEF HeldObject
  <2>3. held' # None
    BY <2>2, NoneIsNoObject
  <2> QED
    BY <1>1, <2>2, <2>3 DEF Building
<1> QED
  BY <1>2, <1>3

\* Retrieval: the wrappers that are retrieved or recreated are in the map.
LEMMA RetrieveSafe ==
  ASSUME MemoryInv,
         \/ \E id \in Ids : Retrieve(id)
         \/ RetrieveNext \/ FinishRecreate \/ CallFails \/ FinishRetrieve
  PROVE  MemoryInv'
<1> USE DEF MemoryInv
<1>1. ASSUME NEW id \in Ids, Retrieve(id)
      PROVE  MemoryInv'
  <2> DEFINE f == Activation("retrieve", None, {id})
  <2>1. f \in Frame /\ <<>> \in Seq(Frame)
    BY DEF Activation, Frame
  <2>2. /\ stack' \in Seq(Frame) /\ crashed' \in BOOLEAN
        /\ \A i \in 1 .. Len(stack') : stack'[i] = f
    <3>1. TypeOK /\ Enter(<<>>, f)
      BY <1>1 DEF Retrieve
    <3> QED
      BY <2>1, <3>1, EmptyStack, EnterFrames DEF TypeOK
  <2>3. TypeOK'
    BY <1>1, <2>2 DEF TypeOK, Retrieve, objectVars, links
  <2>4. FrameSafe(f, live, Building')
    BY DEF FrameSafe, Activation
  <2>5. FramesSafe'
    BY <1>1, <2>2, <2>4, SameFrames DEF Retrieve, Building
  <2> QED
    BY <1>1, <2>3, <2>5, SameMemory DEF Retrieve, objectVars
<1>2. ASSUME RetrieveNext
      PROVE  MemoryInv'
  <2>1. stack \in Seq(Frame) /\ stack # <<>> /\ Top \in Frame /\ Len(stack) \in 1 .. Len(stack)
    BY <1>2, PopIsBelow DEF RetrieveNext, Retrieving, TypeOK
  <2>2. PICK id \in Top.todo \cap Ids :
          /\ Exists(id)
          /\ LET w == objectMap[id]
                 taken == Replace([Top EXCEPT !.todo = @ \ {id}, !.got = @ \cup {w}])
             IN IF dirty[w] THEN Enter(taken, Recreation(w))
                            ELSE stack' = taken /\ UNCHANGED crashed
    BY <1>2 DEF RetrieveNext
  <2> DEFINE w == objectMap[id]
             g == [Top EXCEPT !.todo = @ \ {id}, !.got = @ \cup {w}]
             f == Recreation(w)
  <2>3. w \in Wrappers /\ w \in live
    BY <2>2 DEF TypeOK, MapSafe, Exists
  <2>4. g \in Frame /\ f \in Frame
    BY <2>1, <2>3 DEF Frame, Recreation, Activation, TypeOK
  <2>5. /\ Replace(g) \in Seq(Frame)
        /\ \A i \in 1 .. Len(Replace(g)) :
             \/ i \in 1 .. Len(stack) /\ Replace(g)[i] = stack[i]
             \/ Replace(g)[i] = g
    BY <2>1, <2>4, ReplaceFrames
  <2>6. /\ stack' \in Seq(Frame) /\ crashed' \in BOOLEAN
        /\ \A i \in 1 .. Len(stack') :
             \/ i \in 1 .. Len(stack) /\ stack'[i] = stack[i]
             \/ stack'[i] = g
             \/ stack'[i] = f
    <3>1. CASE Enter(Replace(g), f)
      <4> HIDE DEF g, f
      <4> QED
        BY <2>4, <2>5, <3>1, EnterFrames DEF TypeOK
    <3>2. CASE stack' = Replace(g) /\ UNCHANGED crashed
      <4> HIDE DEF g, f
      <4> QED
        BY <2>5, <3>2 DEF TypeOK
    <3> QED
      BY <2>2, <3>1, <3>2
  <2>7. UNCHANGED <<objectMap, live, objectVars, dirty, builtFrom, links, held>>
    BY <1>2 DEF RetrieveNext
  <2>8. TypeOK'
    BY <2>6, <2>7 DEF TypeOK, objectVars, links
  <2>9. FrameSafe(f, live, Building)
    BY <2>3 DEF FrameSafe, Recreation, Activation
  <2>10. FrameSafe(g, live, Building)
    <3>1. FrameSafe(Top, live, Building) /\ Top.kind \in {"retrieve", "construct", "recreate"}
      BY <1>2, <2>1 DEF FramesSafe, Top, RetrieveNext, Retrieving
    <3>2. g.kind = Top.kind /\ g.wrapper = Top.wrapper
      BY <2>1 DEF Frame
    <3> QED
      BY <3>1, <3>2 DEF FrameSafe
  <2>11. FramesSafe'
    <3>1. Building' = Building /\ live' = live
      BY <2>7 DEF Building
    <3> HIDE DEF g, f
    <3> QED
      BY <2>6, <2>9, <2>10, <3>1, SameFrames
  <2> QED
    BY <2>7, <2>8, <2>11, SameMemory DEF objectVars
<1>3. ASSUME FinishRecreate
      PROVE  MemoryInv'
  <2>1. stack \in Seq(Frame) /\ stack # <<>>
    BY <1>3 DEF FinishRecreate, Retrieving, TypeOK
  <2>2. /\ Pop \in Seq(Frame)
        /\ \A i \in 1 .. Len(Pop) : i \in 1 .. Len(stack) /\ Pop[i] = stack[i]
        /\ Top \in Frame
    BY <2>1, PopIsBelow
  <2>3. /\ builtFrom' \in [Wrappers -> SUBSET Wrappers]
        /\ held' \in HeldObject \cup {None}
        /\ Building => Building'
    <3>1. Top.got \in SUBSET Wrappers /\ ForgetObjectOf(Top.wrapper, Top.got)
      BY <1>3, <2>2 DEF Frame, FinishRecreate
    <3> QED
      BY <3>1, ForgetSafe
  <2>4. TypeOK'
    BY <1>3, <2>2, <2>3 DEF TypeOK, FinishRecreate, objectVars, links
  <2>5. FramesSafe'
    BY <1>3, <2>2, <2>3, SameFrames DEF FinishRecreate
  <2> QED
    BY <1>3, <2>4, <2>5, SameMemory DEF FinishRecreate, objectVars
<1>4. ASSUME CallFails
      PROVE  MemoryInv'
  <2>1. <<>> \in Seq(Frame) /\ Len(<<>>) = 0
    OBVIOUS
  <2>2. TypeOK' /\ FramesSafe'
    BY <1>4, <2>1 DEF CallFails, TypeOK, FramesSafe, objectVars, links
  <2> QED
    BY <1>4, <2>2, SameMemory DEF CallFails, objectVars
<1>5. ASSUME FinishRetrieve
      PROVE  MemoryInv'
  <2>1. TypeOK' /\ FramesSafe'
    BY <1>5, EmptyStack DEF FinishRetrieve, TypeOK, FramesSafe, objectVars, links
  <2> QED
    BY <1>5, <2>1, SameMemory DEF FinishRetrieve, objectVars
<1> QED
  BY <1>1, <1>2, <1>3, <1>4, <1>5

\* Building an object: its activation runs exactly while the object is incomplete.
LEMMA ConstructSafe ==
  ASSUME MemoryInv,
         \/ \E id \in Ids, perm \in BOOLEAN : \E ps \in SUBSET Uses[id] : Construct(id, ps, perm)
         \/ FinishConstruct \/ StoreRefused
  PROVE  MemoryInv'
<1> USE DEF MemoryInv
<1>1. ASSUME NEW id \in Ids, NEW perm \in BOOLEAN, NEW ps \in SUBSET Uses[id],
             Construct(id, ps, perm)
      PROVE  MemoryInv'
  <2> DEFINE f == Activation("construct", None, ps)
  <2>1. ps \in SUBSET Ids
    BY RepositoryAssumption
  <2>2. f \in Frame
    BY <2>1 DEF Activation, Frame
  <2>3. held' \in HeldObject /\ held' # None /\ ~held'.ready
    <3>1. held' = [id |-> id, precedents |-> ps, permanent |-> perm,
                   builtFrom |-> {}, ready |-> FALSE]
      BY <1>1 DEF Construct
    <3>2. held' \in HeldObject
      BY <2>1, <3>1 DEF HeldObject
    <3> QED
      BY <3>1, <3>2, NoneIsNoObject
  <2>4. TypeOK /\ Enter(<<>>, f) /\ live' = live
    BY <1>1 DEF Construct
  <2>5. /\ stack' \in Seq(Frame) /\ crashed' \in BOOLEAN
        /\ \A i \in 1 .. Len(stack') : stack'[i] = f
    <3> HIDE DEF f
    <3> QED
      BY <2>2, <2>4, EmptyStack, EnterFrames DEF TypeOK
  <2>6. TypeOK'
    BY <1>1, <2>3, <2>5 DEF TypeOK, Construct, objectVars, links
  <2>7. FrameSafe(f, live, Building')
    BY <2>3 DEF FrameSafe, Activation, Building
  <2>8. FramesSafe'
    <3>1. Building'
      BY <2>3 DEF Building
    <3> HIDE DEF f
    <3> QED
      BY <2>4, <2>5, <2>7, <3>1, SameFrames
  <2> QED
    BY <1>1, <2>6, <2>8, SameMemory DEF Construct, objectVars
<1>2. ASSUME FinishConstruct
      PROVE  MemoryInv'
  <2>1. stack \in Seq(Frame) /\ stack # <<>>
    BY <1>2 DEF FinishConstruct, Retrieving, TypeOK
  <2>2. Top \in Frame
    BY <2>1, PopIsBelow
  <2>3. held \in HeldObject
    BY <1>2, <2>1, PopIsBelow DEF FinishConstruct, FramesSafe, FrameSafe, Top, Building, TypeOK
  <2>4. held' \in HeldObject
    BY <1>2, <2>2, <2>3 DEF FinishConstruct, HeldObject, Frame
  <2>5. TypeOK'
    BY <1>2, <2>4, EmptyStack DEF FinishConstruct, TypeOK, objectVars, links
  <2>6. stack' = <<>>
    BY <1>2 DEF FinishConstruct
  <2>7. FramesSafe'
    BY <2>6, EmptyStack DEF FramesSafe
  <2> QED
    BY <1>2, <2>5, <2>7, SameMemory DEF FinishConstruct, objectVars
<1>3. ASSUME StoreRefused
      PROVE  MemoryInv'
  <2>1. stack = <<>> /\ stack' = <<>>
    BY <1>3 DEF StoreRefused, DropHeld, CanStore, Quiet
  <2>2. TypeOK' /\ FramesSafe'
    BY <1>3, <2>1, EmptyStack DEF StoreRefused, DropHeld, TypeOK, FramesSafe, objectVars, links
  <2> QED
    BY <1>3, <2>2, SameMemory DEF StoreRefused, DropHeld, objectVars
<1> QED
  BY <1>1, <1>2, <1>3

\* Notification: an observer is alive, since its destructor unregisters it.
LEMMA NotifySafe ==
  ASSUME MemoryInv, NotifyNext \/ FinishUpdate
  PROVE  MemoryInv'
<1> USE DEF MemoryInv
<1>1. ASSUME NotifyNext
      PROVE  MemoryInv'
  <2>1. /\ stack \in Seq(Frame) /\ stack # <<>> /\ Top \in Frame
        /\ Top.kind \in {"reset", "update"} /\ FrameSafe(Top, live, Building)
    BY <1>1, PopIsBelow DEF NotifyNext, Notifying, TypeOK, FramesSafe, Top
  <2>2. PICK o \in Top.todo \cap Wrappers :
          Enter(Replace([Top EXCEPT !.todo = @ \ {o}]), Activation("update", o, observers[o]))
    BY <1>1 DEF NotifyNext
  <2> DEFINE g == [Top EXCEPT !.todo = @ \ {o}]
             f == Activation("update", o, observers[o])
  <2>3. o \in live /\ observers[o] \subseteq live
    BY <2>1, <2>2 DEF FrameSafe, LinksMatch, TypeOK
  <2>4. g \in Frame /\ f \in Frame
    BY <2>1, <2>3 DEF Frame, Activation, TypeOK
  <2>5. /\ FrameSafe(g, live, Building) /\ FrameSafe(f, live, Building)
    BY <2>1, <2>3 DEF FrameSafe, Activation, Frame
  <2>6. /\ Replace(g) \in Seq(Frame)
        /\ \A i \in 1 .. Len(Replace(g)) :
             \/ i \in 1 .. Len(stack) /\ Replace(g)[i] = stack[i]
             \/ Replace(g)[i] = g
    BY <2>1, <2>4, ReplaceFrames
  <2>7. /\ stack' \in Seq(Frame) /\ crashed' \in BOOLEAN
        /\ \A i \in 1 .. Len(stack') :
             \/ i \in 1 .. Len(stack) /\ stack'[i] = stack[i]
             \/ stack'[i] = g
             \/ stack'[i] = f
    <3>1. Enter(Replace(g), f)
      BY <2>2
    <3> HIDE DEF g, f
    <3> QED
      BY <2>4, <2>6, <3>1, EnterFrames DEF TypeOK
  <2>8. UNCHANGED <<objectMap, live, objectVars, dirty, builtFrom, links, held>>
    BY <1>1 DEF NotifyNext
  <2>9. TypeOK'
    BY <2>7, <2>8 DEF TypeOK, objectVars, links
  <2>10. FramesSafe'
    <3>1. Building' = Building /\ live' = live
      BY <2>8 DEF Building
    <3> HIDE DEF g, f
    <3> QED
      BY <2>5, <2>7, <3>1, SameFrames
  <2> QED
    BY <2>8, <2>9, <2>10, SameMemory DEF objectVars
<1>2. ASSUME FinishUpdate
      PROVE  MemoryInv'
  <2>1. stack \in Seq(Frame) /\ stack # <<>>
    BY <1>2 DEF FinishUpdate, Notifying, TypeOK
  <2>2. /\ Pop \in Seq(Frame)
        /\ \A i \in 1 .. Len(Pop) : i \in 1 .. Len(stack) /\ Pop[i] = stack[i]
    BY <2>1, PopIsBelow
  <2>3. TypeOK'
    BY <1>2, <2>2 DEF FinishUpdate, TypeOK, objectVars, links
  <2>4. FramesSafe'
    BY <1>2, <2>2, SameFrames DEF FinishUpdate, Building
  <2> QED
    BY <1>2, <2>3, <2>4, SameMemory DEF FinishUpdate, objectVars
<1> QED
  BY <1>1, <1>2

\* Storing: the new links join live wrappers, since the map has only live ones.
LEMMA StoreSafe ==
  ASSUME MemoryInv, StoreNew \/ StoreOver \/ FinishReset
  PROVE  MemoryInv'
<1> USE DEF MemoryInv
<1>1. ASSUME StoreNew
      PROVE  MemoryInv'
  <2>1. PICK w \in Wrappers \ live :
          /\ objectMap' = [objectMap EXCEPT ![held.id] = w]
          /\ live' = live \cup {w}
          /\ SetObject(w)
          /\ dirty' = [dirty EXCEPT ![w] = FALSE]
          /\ builtFrom' = [builtFrom EXCEPT ![w] = held.builtFrom]
          /\ RegisterObserver(w, objectMap', held.precedents)
    BY <1>1 DEF StoreNew
  <2>2. held \in HeldObject /\ held' = None /\ stack = <<>> /\ UNCHANGED <<stack, crashed>>
    BY <1>1 DEF StoreNew, CanStore, Quiet, TypeOK
  <2>3. held.id \in Ids /\ held.precedents \in SUBSET Ids /\ held.permanent \in BOOLEAN
        /\ held.builtFrom \in SUBSET Wrappers
    BY <2>2 DEF HeldObject
  <2>4. objectMap' \in [Ids -> Wrappers \cup {None}] /\ live' \in SUBSET Wrappers
    BY <2>1, <2>3 DEF TypeOK
  <2>5. \A id \in Ids : objectMap'[id] = IF id = held.id THEN w ELSE objectMap[id]
    BY <2>1, <2>3 DEF TypeOK
  <2>6. \A id \in Ids : objectMap'[id] # None => objectMap'[id] \in live'
    BY <2>1, <2>5 DEF MapSafe, Exists
  <2>7. /\ observables' \in [Wrappers -> SUBSET Wrappers]
        /\ observers' \in [Wrappers -> SUBSET Wrappers]
        /\ \A x, o \in Wrappers : x \in observers'[o] <=> o \in observables'[x]
        /\ \A x \in Wrappers : observables'[x] # {} =>
             x \in live' /\ observables'[x] \subseteq live'
    <3>1. /\ TypeOK /\ LinksMatch /\ live \subseteq live' /\ w \in live' /\ w \in Wrappers
          /\ RegisterObserver(w, objectMap', held.precedents)
      BY <2>1
    <3> QED
      BY <2>3, <2>4, <2>6, <3>1, RegisterObserverSafe
  <2>8. /\ storedAs' \in [Wrappers -> Ids \cup {None}]
        /\ precedents' \in [Wrappers -> SUBSET Ids]
        /\ permanent' \in [Wrappers -> BOOLEAN]
    BY <2>1, <2>3 DEF SetObject, TypeOK
  <2>9. dirty' \in [Wrappers -> BOOLEAN] /\ builtFrom' \in [Wrappers -> SUBSET Wrappers]
    BY <2>1, <2>3 DEF TypeOK
  <2>10. TypeOK'
    BY <2>2, <2>4, <2>7, <2>8, <2>9 DEF TypeOK
  <2>11. LinksMatch'
    BY <2>7 DEF LinksMatch
  <2>12. MapSafe'
    <3> SUFFICES ASSUME NEW id \in Ids, objectMap'[id] # None
                 PROVE  objectMap'[id] \in live' /\ storedAs'[objectMap'[id]] = id
      BY DEF MapSafe, Exists
    <3>1. \A x \in Wrappers : storedAs'[x] = IF x = w THEN held.id ELSE storedAs[x]
      BY <2>1 DEF SetObject, TypeOK
    <3>2. CASE id = held.id
      BY <2>5, <2>6, <3>1, <3>2
    <3>3. CASE id # held.id
      <4>1. objectMap'[id] = objectMap[id] /\ objectMap[id] \in live /\ storedAs[objectMap[id]] = id
        BY <2>5, <3>3 DEF MapSafe, Exists
      <4> QED
        BY <2>1, <3>1, <4>1 DEF TypeOK
    <3> QED
      BY <3>2, <3>3
  <2>13. FramesSafe'
    BY <2>2, EmptyStack DEF FramesSafe
  <2> QED
    BY <2>10, <2>11, <2>12, <2>13
<1>2. ASSUME StoreOver
      PROVE  MemoryInv'
  <2> DEFINE w == objectMap[held.id]
             f == Activation("reset", w, observers[w])
  <2>1. held \in HeldObject /\ held' = None /\ Exists(held.id) /\ ~Building
    BY <1>2 DEF StoreOver, CanStore, TypeOK, Building
  <2>2. held.id \in Ids /\ held.precedents \in SUBSET Ids /\ held.permanent \in BOOLEAN
        /\ held.builtFrom \in SUBSET Wrappers
    BY <2>1 DEF HeldObject
  <2>3. w \in Wrappers /\ w \in live /\ storedAs[w] = held.id
    BY <2>1, <2>2 DEF MapSafe, Exists, TypeOK
  <2>4. observers[w] \subseteq live
    BY <2>3 DEF LinksMatch, TypeOK
  <2>5. f \in Frame
    BY <2>3, <2>4 DEF Frame, Activation, TypeOK
  <2>6. /\ stack' \in Seq(Frame) /\ crashed' \in BOOLEAN
        /\ \A i \in 1 .. Len(stack') : stack'[i] = f
    <3>1. TypeOK /\ Enter(<<>>, f)
      BY <1>2 DEF StoreOver
    <3> HIDE DEF f
    <3> QED
      BY <2>5, <3>1, EmptyStack, EnterFrames DEF TypeOK
  <2>7. SetObject(w) /\ UNCHANGED <<objectMap, live, links>>
    BY <1>2 DEF StoreOver
  <2>8. /\ storedAs' = storedAs
        /\ precedents' \in [Wrappers -> SUBSET Ids]
        /\ permanent' \in [Wrappers -> BOOLEAN]
    BY <2>2, <2>3, <2>7 DEF SetObject, TypeOK
  <2>9. dirty' \in [Wrappers -> BOOLEAN] /\ builtFrom' \in [Wrappers -> SUBSET Wrappers]
    BY <1>2, <2>2 DEF StoreOver, TypeOK
  <2>10. TypeOK'
    BY <2>1, <2>6, <2>7, <2>8, <2>9 DEF TypeOK, links
  <2>11. FrameSafe(f, live, Building')
    BY <2>3, <2>4 DEF FrameSafe, Activation
  <2>12. FramesSafe'
    <3>1. live' = live
      BY <2>7
    <3> HIDE DEF f
    <3> QED
      BY <2>1, <2>6, <2>11, <3>1, SameFrames
  <2> QED
    BY <2>7, <2>8, <2>10, <2>12, SameMemory
<1>3. ASSUME FinishReset
      PROVE  MemoryInv'
  <2>1. /\ stack \in Seq(Frame) /\ stack # <<>> /\ Top.kind = "reset"
        /\ RegisterObserver(Top.wrapper, objectMap, precedents[Top.wrapper])
        /\ stack' = <<>>
        /\ UNCHANGED <<objectMap, live, objectVars, dirty, builtFrom, held, crashed>>
    BY <1>3 DEF FinishReset, Notifying, TypeOK
  <2>2. Top.wrapper \in live
    BY <2>1, PopIsBelow DEF FramesSafe, FrameSafe, Top
  <2>3. Top.wrapper \in Wrappers /\ precedents[Top.wrapper] \in SUBSET Ids
    BY <2>2 DEF TypeOK
  <2>4. \A id \in Ids : objectMap[id] # None => objectMap[id] \in live
    BY DEF MapSafe, Exists
  <2>5. /\ observables' \in [Wrappers -> SUBSET Wrappers]
        /\ observers' \in [Wrappers -> SUBSET Wrappers]
        /\ \A x, o \in Wrappers : x \in observers'[o] <=> o \in observables'[x]
        /\ \A x \in Wrappers : observables'[x] # {} =>
             x \in live /\ observables'[x] \subseteq live
    <3>1. TypeOK /\ LinksMatch /\ live \in SUBSET Wrappers
          /\ objectMap \in [Ids -> Wrappers \cup {None}]
      BY DEF TypeOK
    <3> QED
      BY <2>1, <2>2, <2>3, <2>4, <3>1, RegisterObserverSafe
  <2>6. TypeOK'
    BY <2>1, <2>5, EmptyStack DEF TypeOK, objectVars
  <2>7. LinksMatch' /\ MapSafe' /\ FramesSafe'
    BY <2>1, <2>5, EmptyStack DEF LinksMatch, MapSafe, Exists, FramesSafe, objectVars
  <2> QED
    BY <2>6, <2>7
<1> QED
  BY <1>1, <1>2, <1>3

\* Deletion: a wrapper goes only when no live wrapper observes it.
LEMMA DeleteSafe ==
  ASSUME MemoryInv,
         \/ Delete
         \/ \E w \in Wrappers : Destroy(w)
         \/ Restart
  PROVE  MemoryInv'
<1> USE DEF MemoryInv
<1>1. ASSUME NEW ids, Erase(ids), stack = <<>>,
             UNCHANGED <<live, objectVars, dirty, builtFrom, links, held, stack, crashed>>
      PROVE  MemoryInv'
  <2>1. objectMap' \in [Ids -> Wrappers \cup {None}]
    BY <1>1 DEF Erase, TypeOK
  <2>2. TypeOK'
    BY <1>1, <2>1 DEF TypeOK, objectVars, links
  <2>3. LinksMatch' /\ FramesSafe'
    BY <1>1, EmptyStack DEF LinksMatch, FramesSafe, links
  <2>4. MapSafe'
    BY <1>1 DEF MapSafe, Erase, Exists, objectVars
  <2> QED
    BY <2>2, <2>3, <2>4
<1>2. ASSUME Delete
      PROVE  MemoryInv'
  <2>1. ASSUME NEW list, DeleteObjects(list)
        PROVE  MemoryInv'
    BY <1>1, <2>1 DEF DeleteObjects, MayCall, Quiet
  <2>2. ASSUME NEW deletePermanent, DeleteAllObjects(deletePermanent)
        PROVE  MemoryInv'
    BY <1>1, <2>2 DEF DeleteAllObjects, MayCall, Quiet
  <2> QED
    BY <1>2, <2>1, <2>2 DEF Delete
<1>3. ASSUME NEW w \in Wrappers, Destroy(w)
      PROVE  MemoryInv'
  <2>1. /\ w \in live /\ w \notin Stored /\ \A h \in live : w \notin observables[h]
        /\ stack = <<>> /\ stack' = <<>>
        /\ live' = live \ {w}
        /\ Register(w, {})
        /\ storedAs' = [storedAs EXCEPT ![w] = None]
        /\ ForgetObjectOf(w, {})
    BY <1>3 DEF Destroy, Garbage, UnregisterWithAll
  <2>2. /\ observables' \in [Wrappers -> SUBSET Wrappers]
        /\ observers' \in [Wrappers -> SUBSET Wrappers]
        /\ \A x, o \in Wrappers : x \in observers'[o] <=> o \in observables'[x]
        /\ \A x \in Wrappers : observables'[x] = IF x = w THEN {} ELSE observables[x]
    BY <2>1, RegisterKeepsSymmetry DEF LinksMatch
  <2>3. /\ builtFrom' \in [Wrappers -> SUBSET Wrappers]
        /\ held' \in HeldObject \cup {None}
    BY <2>1, ForgetSafe
  <2>4. TypeOK'
    BY <1>3, <2>2, <2>3 DEF Destroy, TypeOK
  <2>5. LinksMatch'
    BY <2>1, <2>2 DEF LinksMatch
  <2>6. MapSafe'
    <3> SUFFICES ASSUME NEW id \in Ids, objectMap[id] # None
                 PROVE  objectMap[id] \in live' /\ storedAs'[objectMap[id]] = id
      BY <1>3 DEF Destroy, MapSafe, Exists
    <3>1. objectMap[id] \in live /\ storedAs[objectMap[id]] = id /\ objectMap[id] # w
      BY <2>1 DEF MapSafe, Exists, Stored
    <3> QED
      BY <2>1, <3>1 DEF TypeOK
  <2>7. FramesSafe'
    BY <2>1, EmptyStack DEF FramesSafe
  <2> QED
    BY <2>4, <2>5, <2>6, <2>7
<1>4. ASSUME Restart
      PROVE  MemoryInv'
  <2>1. TypeOK'
    BY <1>4, EmptyStack DEF Restart, TypeOK
  <2>2. LinksMatch' /\ MapSafe'
    BY <1>4 DEF Restart, LinksMatch, MapSafe, Exists
  <2>3. FramesSafe'
    BY <1>4, EmptyStack DEF Restart, FramesSafe
  <2> QED
    BY <2>1, <2>2, <2>3
<1> QED
  BY <1>2, <1>3, <1>4

LEMMA StutterSafe ==
  ASSUME MemoryInv, UNCHANGED vars
  PROVE  MemoryInv'
BY DEF MemoryInv, TypeOK, LinksMatch, MapSafe, Exists, FramesSafe, Building, vars, objectVars, links

-----------------------------------------------------------------------------
(* Theorems *)

\* The inductive invariant holds: whatever clients store, retrieve and delete,
\* in whatever order, and however far calls recurse.
THEOREM MemoryInvariant == Spec => []MemoryInv
<1>1. MemoryInv /\ [Next]_vars => MemoryInv'
  <2> SUFFICES ASSUME MemoryInv, [Next]_vars
               PROVE  MemoryInv'
    OBVIOUS
  <2>1. CASE Step
    BY <2>1, RetrieveSafe, ConstructSafe, NotifySafe, StoreSafe, DeleteSafe DEF Step
  <2>2. CASE Call
    BY <2>2, RetrieveSafe, ConstructSafe, StoreSafe DEF Call
  <2>3. CASE Delete \/ Restart
    BY <2>3, DeleteSafe
  <2>4. CASE UNCHANGED vars
    BY <2>4, StutterSafe
  <2> QED
    BY <2>1, <2>2, <2>3, <2>4 DEF Next
<1> QED
  BY <1>1, InitSafe, PTL DEF Spec

\* Every variable keeps its type.
THEOREM TypeCorrect == Spec => []TypeOK
<1>1. MemoryInv => TypeOK
  BY DEF MemoryInv
<1> QED
  BY <1>1, MemoryInvariant, PTL

\* Both ends of every observer link agree and are live: a notification never
\* follows a dangling pointer.
THEOREM LinksAlwaysMatch == Spec => []LinksMatch
<1>1. MemoryInv => LinksMatch
  BY DEF MemoryInv
<1> QED
  BY <1>1, MemoryInvariant, PTL

\* No activation, and no entry of the map, refers to a destroyed wrapper.
THEOREM NeverUsedAfterFree == Spec => []NoUseAfterFree
<1>1. MemoryInv => NoUseAfterFree
  BY DEF MemoryInv, MapSafe, FramesSafe, FrameSafe, NoUseAfterFree
<1> QED
  BY <1>1, MemoryInvariant, PTL
=============================================================================
