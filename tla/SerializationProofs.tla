------------------------ MODULE SerializationProofs ------------------------
(***************************************************************************)
(* Proofs about Serialization, for any objects, any files in any order and *)
(* whatever is in them:                                                    *)
(*   - what a load has read so far is restored, also when a later entry is *)
(*     refused;                                                            *)
(*   - what a save writes is what its list stands for, through groups at   *)
(*     any depth, each object once and each group after its members, and   *)
(*     it fails for want of an object or for nesting only;                 *)
(*   - types, where files hold items of objects that were stored.          *)
(*                                                                         *)
(* getObjectVector is a recursion over nesting levels, and joins lists.    *)
(* What such definitions compute is shown in two steps: a function that    *)
(* fulfils the recursive equation exists, by induction over how far it is  *)
(* defined, so the definition chooses one; and a fact about it holds at    *)
(* every level, or for every length, by induction again.  The induction is *)
(* over a set of numbers, which EveryNumber takes from well-foundedness.   *)
(***************************************************************************)
EXTENDS Serialization, SequenceTheorems, FunctionTheorems, FiniteSetTheorems,
        WellFoundedInduction, TLAPS

\* The lists and engines of objects, of which nothing but their shape matters.
ShapeOK ==
  /\ list = [g \in Groups |-> list[g]]
  /\ engine \in [Instruments -> Link \cup {None}]
  /\ load # None =>
       /\ load = [overwrite |-> load.overwrite, done |-> load.done, todo |-> load.todo]
       /\ load.done \in Seq(ToSet(load.done))

\* The engine of an item is a later one of the items.
Replaced(items, n) == \E m \in n + 1 .. Len(items) : items[m].id = items[n].engineID

\* The engine of an instrument, as a load leaves it.
Given(id, replaced) == [id |-> id, present |-> ~replaced]

\* What a load owes an item.  Its engine is in order, so that retrieving it for another
\* instrument does not replace it.
Owed(item, replaced) ==
  /\ item.id \in stored
  /\ item.id \in Groups => list[item.id] = item.list
  /\ item.id \in Instruments =>
       engine[item.id] = IF item.engineID = None THEN None ELSE Given(item.engineID, replaced)
  /\ item.id \in Instruments /\ item.engineID # None => item.engineID \in Engines \ dirty

AllOwed == \A n \in LastOfEach(load.done) : Owed(load.done[n], Replaced(load.done, n))

\* The inductive invariant.
LoadInv == ShapeOK /\ (load # None => AllOwed)

LEMMA OwedIsRestored == LoadInv => LoadRestores
BY DEF LoadInv, LoadRestores, AllOwed, Owed, Replaced, Given

-----------------------------------------------------------------------------
(* Reading one more item *)

LEMMA AppendedItems ==
  ASSUME NEW S, NEW items \in Seq(S), NEW item
  PROVE  LET more == Append(items, item)
         IN /\ more \in Seq(ToSet(more))
            /\ Len(more) = Len(items) + 1 /\ more[Len(items) + 1] = item
            /\ \A n \in 1 .. Len(items) : more[n] = items[n]
<1> DEFINE more == Append(items, item)
<1>1. more \in Seq(S \cup {item}) /\ items \in Seq(S \cup {item})
  OBVIOUS
<1>2. /\ Len(more) = Len(items) + 1 /\ more[Len(items) + 1] = item
      /\ \A n \in 1 .. Len(items) : more[n] = items[n]
  BY <1>1
<1> HIDE DEF more
<1>3. more \in Seq(ToSet(more))
  <2> DEFINE R == ToSet(more)
  <2>1. /\ Len(more) \in Nat /\ DOMAIN more = 1 .. Len(more)
        /\ more = [n \in 1 .. Len(more) |-> more[n]]
    BY <1>1, LenProperties
  <2>2. \A n \in 1 .. Len(more) : more[n] \in R
    BY <2>1 DEF ToSet
  <2> HIDE DEF R
  <2>3. more \in [1 .. Len(more) -> R]
    BY <2>1, <2>2
  <2>4. more \in Seq(R)
    BY <2>1, <2>3
  <2> QED
    BY <2>4 DEF R
<1> QED
  BY <1>2, <1>3 DEF more

\* The last items of each ID are the new one and those before that have another ID; an
\* engine is replaced if it was, or if it is the new one.
LEMMA LastAppended ==
  ASSUME NEW S, NEW items \in Seq(S), NEW item,
         NEW n \in LastOfEach(Append(items, item))
  PROVE  \/ n = Len(items) + 1 /\ ~Replaced(Append(items, item), n)
         \/ /\ n \in LastOfEach(items) /\ n \in 1 .. Len(items)
            /\ items[n].id # item.id
            /\ Replaced(Append(items, item), n) <=>
                 Replaced(items, n) \/ item.id = items[n].engineID
<1> DEFINE more == Append(items, item)
<1>1. /\ Len(items) \in Nat /\ Len(more) = Len(items) + 1 /\ more[Len(items) + 1] = item
      /\ \A k \in 1 .. Len(items) : more[k] = items[k]
      /\ DOMAIN more = 1 .. Len(items) + 1 /\ DOMAIN items = 1 .. Len(items)
  BY AppendedItems
<1>2. /\ n \in 1 .. Len(items) + 1
      /\ \A m \in n + 1 .. Len(items) + 1 : more[m].id # more[n].id
  BY <1>1 DEF LastOfEach
<1> HIDE DEF more
<1>3. CASE n = Len(items) + 1
  BY <1>1, <1>3 DEF Replaced, more
<1>4. CASE n \in 1 .. Len(items)
  <2>1. \A m \in n + 1 .. Len(items) : items[m].id # items[n].id
    BY <1>1, <1>2, <1>4
  <2>2. items[n].id # item.id
    BY <1>1, <1>2, <1>4
  <2>3. (\E m \in n + 1 .. Len(more) : more[m].id = more[n].engineID) <=>
          \/ \E m \in n + 1 .. Len(items) : items[m].id = items[n].engineID
          \/ item.id = items[n].engineID
    BY <1>1, <1>4
  <2> QED
    BY <1>1, <1>4, <2>1, <2>2, <2>3 DEF LastOfEach, Replaced, more
<1> QED
  BY <1>1, <1>2, <1>3, <1>4

-----------------------------------------------------------------------------
(* The steps of a load *)

\* A load owes an item the same as before unless the step replaces it or its engine.
LEMMA ReadPreserves ==
  ASSUME LoadInv, load # None, NEW e,
         load' = [load EXCEPT !.todo = Tail(@), !.done = Append(@, e)],
         list' = [g \in Groups |-> list'[g]],
         engine' \in [Instruments -> Link \cup {None}],
         Owed(e, FALSE)',
         \A item : \A replaced \in BOOLEAN :
           Owed(item, replaced) /\ item.id # e.id => Owed(item, replaced \/ e.id = item.engineID)'
  PROVE  LoadInv'
<1>1. PICK items, more : items = load.done /\ more = Append(items, e)
  OBVIOUS
<1>2. items \in Seq(ToSet(items))
  BY <1>1 DEF LoadInv, ShapeOK
<1>3. /\ load' = [overwrite |-> load.overwrite, done |-> more, todo |-> Tail(load.todo)]
      /\ load'.done = more
  BY <1>1 DEF LoadInv, ShapeOK
<1>4. /\ more \in Seq(ToSet(more))
      /\ more[Len(items) + 1] = e /\ \A k \in 1 .. Len(items) : more[k] = items[k]
  <2> QED
    BY <1>1, <1>2, AppendedItems
<1>5. ShapeOK'
  <2>1. load' = [overwrite |-> load'.overwrite, done |-> load'.done, todo |-> load'.todo]
    BY <1>3
  <2>2. load'.done \in Seq(ToSet(load'.done))
    BY <1>3, <1>4
  <2> QED
    BY <2>1, <2>2 DEF ShapeOK
<1>6. ASSUME NEW n \in LastOfEach(more)
      PROVE  Owed(more[n], Replaced(more, n))'
  <2>1. CASE n = Len(items) + 1 /\ ~Replaced(more, n)
    <3>1. Replaced(more, n) = FALSE /\ more[n] = e
      BY <1>4, <2>1 DEF Replaced
    <3> QED
      BY <3>1
  <2>2. CASE /\ n \in LastOfEach(items) /\ n \in 1 .. Len(items)
             /\ items[n].id # e.id
             /\ Replaced(more, n) <=> Replaced(items, n) \/ e.id = items[n].engineID
    <3>1. Owed(items[n], Replaced(items, n)) /\ Replaced(items, n) \in BOOLEAN
      BY <1>1, <2>2 DEF LoadInv, AllOwed, Replaced
    <3>2. Replaced(more, n) = (Replaced(items, n) \/ e.id = items[n].engineID) /\ more[n] = items[n]
      BY <1>4, <2>2 DEF Replaced
    <3>3. Owed(items[n], Replaced(items, n) \/ e.id = items[n].engineID)'
      BY <2>2, <3>1
    <3> QED
      BY <3>2, <3>3
  <2> QED
    BY <1>1, <1>2, <2>1, <2>2, LastAppended
<1>7. AllOwed'
  BY <1>3, <1>6 DEF AllOwed
<1> QED
  BY <1>5, <1>7 DEF LoadInv

LEMMA LoadGroupRestores ==
  ASSUME LoadInv, LoadGroup PROVE LoadInv'
<1>1. PICK f : f = Entry
  OBVIOUS
<1>2. /\ load # None /\ f.id \in Groups
      /\ stored' = stored \cup {f.id} /\ dirty' = dirty \ {f.id}
      /\ list' = [list EXCEPT ![f.id] = f.list]
      /\ UNCHANGED <<engineID, engine>>
      /\ load' = [load EXCEPT !.todo = Tail(@), !.done = Append(@, f)]
  BY <1>1 DEF LoadGroup, StoreGroup, StoreObject, Loading, Loaded
<1>3. /\ list = [g \in Groups |-> list[g]] /\ engine \in [Instruments -> Link \cup {None}]
  BY DEF LoadInv, ShapeOK
<1>4. list' = [g \in Groups |-> list'[g]] /\ engine' \in [Instruments -> Link \cup {None}]
  BY <1>2, <1>3
<1>5. Owed(f, FALSE)'
  BY <1>2, <1>3, SerializationAssumption DEF Owed
<1>6. ASSUME NEW item, NEW replaced \in BOOLEAN, Owed(item, replaced), item.id # f.id
      PROVE  Owed(item, replaced \/ f.id = item.engineID)'
  BY <1>2, <1>3, <1>6, SerializationAssumption DEF Owed
<1> QED
  BY <1>2, <1>4, <1>5, <1>6, ReadPreserves

LEMMA GivenIsALink ==
  /\ \A e \in Engines : \A replaced \in BOOLEAN :
       /\ Given(e, replaced) \in Link /\ Given(e, replaced) # None
       /\ Given(e, replaced).id = e
  /\ \A e \in Engines : Given(e, TRUE) = [id |-> e, present |-> FALSE]
  /\ \A e \in Engines : Given(e, FALSE) = [id |-> e, present |-> TRUE]
<1>1. ASSUME NEW e \in Engines PROVE Given(e, TRUE) = [id |-> e, present |-> FALSE]
  BY DEF Given
<1>2. ASSUME NEW e \in Engines PROVE Given(e, FALSE) = [id |-> e, present |-> TRUE]
  BY DEF Given
<1>3. ASSUME NEW e \in Engines, NEW b \in BOOLEAN
      PROVE  LET link == [id |-> e, present |-> b]
             IN link \in Link /\ link # None /\ link.id = e
  BY SerializationAssumption DEF Link
<1>4. ASSUME NEW e \in Engines, NEW replaced \in BOOLEAN
      PROVE  /\ Given(e, replaced) \in Link /\ Given(e, replaced) # None
             /\ Given(e, replaced).id = e
  <2>1. CASE replaced = TRUE
    BY <1>1, <1>3, <2>1
  <2>2. CASE replaced = FALSE
    BY <1>2, <1>3, <2>2
  <2> QED
    BY <2>1, <2>2
<1> QED
  BY <1>1, <1>2, <1>4

\* A link to an engine that is replaced.
LEMMA PastLink ==
  ASSUME NEW link \in Link
  PROVE  /\ [link EXCEPT !.present = FALSE] = [id |-> link.id, present |-> FALSE]
         /\ [link EXCEPT !.present = FALSE] \in Link
<1>1. PICK past \in Link : past = [link EXCEPT !.present = FALSE]
  BY DEF Link
<1>2. past = [id |-> past.id, present |-> past.present]
  BY DEF Link
<1>3. past.id = link.id /\ past.present = FALSE
  BY <1>1 DEF Link
<1> QED
  BY <1>1, <1>2, <1>3

\* An engine that is replaced is no longer the one that instruments have.
LEMMA OutdatedEngines ==
  ASSUME engine \in [Instruments -> Link \cup {None}], NEW S
  PROVE  /\ Outdated(S) \in [Instruments -> Link \cup {None}]
         /\ \A i \in Instruments : engine[i] # None =>
              Outdated(S)[i] = IF engine[i].id \in S THEN [id |-> engine[i].id, present |-> FALSE]
                               ELSE engine[i]
         /\ \A i \in Instruments : engine[i] = None => Outdated(S)[i] = None
<1>1. ASSUME NEW i \in Instruments, engine[i] # None
      PROVE  /\ Outdated(S)[i] = IF engine[i].id \in S THEN [id |-> engine[i].id, present |-> FALSE]
                                 ELSE engine[i]
             /\ Outdated(S)[i] \in Link
  <2>1. engine[i] \in Link
    BY <1>1
  <2>2. Outdated(S)[i] = IF engine[i].id \in S THEN [engine[i] EXCEPT !.present = FALSE]
                         ELSE engine[i]
    BY <1>1 DEF Outdated
  <2> QED
    BY <2>1, <2>2, PastLink
<1>2. \A i \in Instruments : engine[i] = None => Outdated(S)[i] = None
  BY DEF Outdated
<1>3. Outdated(S) \in [Instruments -> Link \cup {None}]
  BY <1>1, <1>2 DEF Outdated
<1> QED
  BY <1>1, <1>2, <1>3

LEMMA LoadEngineRestores ==
  ASSUME LoadInv, LoadEngine PROVE LoadInv'
<1>1. PICK f : f = Entry
  OBVIOUS
<1>2. /\ load # None /\ f.id \in Engines
      /\ stored' = stored \cup {f.id} /\ dirty' = dirty \ {f.id}
      /\ engine' = Outdated({f.id})
      /\ UNCHANGED <<list, engineID>>
      /\ load' = [load EXCEPT !.todo = Tail(@), !.done = Append(@, f)]
  BY <1>1 DEF LoadEngine, StoreEngine, StoreObject, Loading, Loaded
<1>3. /\ list = [g \in Groups |-> list[g]] /\ engine \in [Instruments -> Link \cup {None}]
  BY DEF LoadInv, ShapeOK
<1>4. list' = [g \in Groups |-> list'[g]] /\ engine' \in [Instruments -> Link \cup {None}]
  BY <1>2, <1>3, OutdatedEngines
<1>5. Owed(f, FALSE)'
  BY <1>2, <1>3, SerializationAssumption DEF Owed
<1>6. ASSUME NEW item, NEW replaced \in BOOLEAN, Owed(item, replaced), item.id # f.id
      PROVE  Owed(item, replaced \/ f.id = item.engineID)'
  <2>1. ASSUME item.id \in Instruments, item.engineID = None
        PROVE  engine'[item.id] = None
    BY <1>2, <1>3, <1>6, <2>1, OutdatedEngines DEF Owed
  <2>2. ASSUME item.id \in Instruments, item.engineID # None
        PROVE  engine'[item.id] = Given(item.engineID, replaced \/ f.id = item.engineID)
    <3>1. engine[item.id] = Given(item.engineID, replaced) /\ item.engineID \in Engines
      BY <1>6, <2>2 DEF Owed
    <3>2. engine[item.id] # None /\ engine[item.id].id = item.engineID
      BY <1>6, <3>1, GivenIsALink
    <3>3. Outdated({f.id})[item.id] =
            IF item.engineID \in {f.id} THEN [id |-> item.engineID, present |-> FALSE]
            ELSE engine[item.id]
      BY <1>3, <2>2, <3>2, OutdatedEngines
    <3>4. CASE item.engineID = f.id
      <4>1. (replaced \/ f.id = item.engineID) = TRUE
        BY <3>4
      <4> QED
        BY <1>2, <3>1, <3>3, <3>4, <4>1, GivenIsALink
    <3>5. CASE item.engineID # f.id
      <4>1. (replaced \/ f.id = item.engineID) = replaced
        BY <3>5
      <4> QED
        BY <1>2, <3>1, <3>3, <3>5, <4>1
    <3> QED
      BY <3>4, <3>5
  <2> QED
    BY <1>2, <1>6, <2>1, <2>2 DEF Owed
<1> QED
  BY <1>2, <1>4, <1>5, <1>6, ReadPreserves

LEMMA LoadInstrumentRestores ==
  ASSUME LoadInv, LoadInstrument PROVE LoadInv'
<1>1. PICK f, S : f = Entry /\ S = {f.engineID} \cap dirty
  OBVIOUS
<1> DEFINE given == IF f.engineID = None THEN None ELSE [id |-> f.engineID, present |-> TRUE]
<1>2. /\ load # None /\ f.id \in Instruments
      /\ f.engineID # None => f.engineID \in stored \cap Engines
      /\ stored' = stored \cup {f.id} /\ dirty' = dirty \ {f.id, f.engineID}
      /\ engine' = [Outdated(S) EXCEPT ![f.id] = given]
      /\ list' = list
      /\ load' = [load EXCEPT !.todo = Tail(@), !.done = Append(@, f)]
  BY <1>1 DEF LoadInstrument, Loading, Loaded
<1>3. /\ list = [g \in Groups |-> list[g]] /\ engine \in [Instruments -> Link \cup {None}]
  BY DEF LoadInv, ShapeOK
<1>4. given \in Link \cup {None}
  BY <1>2 DEF Link
<1>5. list' = [g \in Groups |-> list'[g]] /\ engine' \in [Instruments -> Link \cup {None}]
  <2> HIDE DEF given
  <2> QED
    BY <1>2, <1>3, <1>4, OutdatedEngines
<1>6. Owed(f, FALSE)'
  <2>1. engine'[f.id] = given
    BY <1>2, <1>3, OutdatedEngines
  <2> QED
    BY <1>2, <1>3, <2>1, SerializationAssumption, GivenIsALink DEF Owed
<1>7. ASSUME NEW item, NEW replaced \in BOOLEAN, Owed(item, replaced), item.id # f.id
      PROVE  Owed(item, replaced \/ f.id = item.engineID)'
  <2>1. ASSUME item.id \in Instruments PROVE engine'[item.id] = engine[item.id]
    <3>1. engine'[item.id] = Outdated(S)[item.id]
      BY <1>2, <1>3, <1>7, <2>1, OutdatedEngines
    <3>2. CASE engine[item.id] = None
      BY <1>3, <2>1, <3>1, <3>2, OutdatedEngines
    <3>3. CASE engine[item.id] # None
      <4>1. /\ engine[item.id] = Given(item.engineID, replaced)
            /\ item.engineID \in Engines \ dirty
        BY <1>7, <2>1, <3>3 DEF Owed
      <4>2. engine[item.id].id = item.engineID
        BY <1>7, <4>1, GivenIsALink
      <4>3. engine[item.id].id \notin S
        BY <1>1, <4>1, <4>2
      <4>4. \A i \in Instruments : engine[i] # None =>
              Outdated(S)[i] = IF engine[i].id \in S THEN [id |-> engine[i].id, present |-> FALSE]
                               ELSE engine[i]
        BY <1>3, OutdatedEngines
      <4> QED
        BY <2>1, <3>1, <3>3, <4>3, <4>4
    <3> QED
      BY <3>2, <3>3
  <2>2. ASSUME item.id \in Instruments, item.engineID # None
        PROVE  (replaced \/ f.id = item.engineID) = replaced
    <3>1. f.id # item.engineID
      BY <1>2, <1>7, <2>2, SerializationAssumption DEF Owed
    <3> QED
      BY <3>1
  <2>3. item.id \in Instruments =>
          engine'[item.id] = IF item.engineID = None THEN None
                             ELSE Given(item.engineID, replaced \/ f.id = item.engineID)
    BY <1>7, <2>1, <2>2 DEF Owed
  <2> QED
    BY <1>2, <1>7, <2>3 DEF Owed
<1> QED
  BY <1>2, <1>5, <1>6, <1>7, ReadPreserves

-----------------------------------------------------------------------------
(* The other steps *)

LEMMA LoadInvInit == Init => LoadInv
BY DEF Init, EmptyLists, NoEngines, LoadInv, ShapeOK

\* Only the steps of a load change what is owed: the clients wait, and before and after
\* it nothing is.
LEMMA OtherStepsRestore ==
  ASSUME LoadInv,
         list' = [g \in Groups |-> list'[g]],
         engine' \in [Instruments -> Link \cup {None}],
         load' = None
  PROVE  LoadInv'
BY DEF LoadInv, ShapeOK

LEMMA ClientRestores ==
  ASSUME LoadInv, Client PROVE LoadInv'
<1>1. load' = None
  BY DEF Client, Idle
<1>2. /\ list = [g \in Groups |-> list[g]] /\ engine \in [Instruments -> Link \cup {None}]
  BY DEF LoadInv, ShapeOK
<1>3. ASSUME NEW g, NEW ids, StoreGroup(g, ids) PROVE LoadInv'
  BY <1>1, <1>2, <1>3, OtherStepsRestore DEF StoreGroup
<1>4. ASSUME NEW e, StoreEngine(e) PROVE LoadInv'
  BY <1>1, <1>2, <1>4, OtherStepsRestore, OutdatedEngines DEF StoreEngine
<1>5. ASSUME NEW i, StoreInstrument(i) PROVE LoadInv'
  BY <1>1, <1>2, <1>5, OtherStepsRestore DEF StoreInstrument
<1>6. ASSUME NEW i \in Instruments, NEW e \in Engines, SetPricingEngine(i, e) PROVE LoadInv'
  <2>1. [id |-> e, present |-> TRUE] \in Link
    BY DEF Link
  <2>2. Outdated({e} \cap dirty) \in [Instruments -> Link \cup {None}]
    BY <1>2, OutdatedEngines
  <2> QED
    BY <1>1, <1>2, <1>6, <2>1, <2>2, OtherStepsRestore DEF SetPricingEngine
<1>7. ASSUME NEW id, BecomeDirty(id) PROVE LoadInv'
  BY <1>1, <1>2, <1>7, OtherStepsRestore DEF BecomeDirty
<1>8. ASSUME NEW id, DeleteObject(id) PROVE LoadInv'
  <2>1. Outdated({id}) \in [Instruments -> Link \cup {None}]
    BY <1>2, OutdatedEngines
  <2> QED
    BY <1>1, <1>2, <1>8, <2>1, OtherStepsRestore DEF DeleteObject
<1> QED
  BY <1>3, <1>4, <1>5, <1>6, <1>7, <1>8 DEF Client

LEMMA SaveRestores ==
  ASSUME LoadInv, NEW path, NEW ids, NEW force, NEW includeGroups,
         Save(path, ids, force, includeGroups)
  PROVE  LoadInv'
<1>1. PICK S : Retrieved(S)
  BY DEF Save
<1>2. load' = None /\ list' = list
  BY DEF Save, Idle
<1>3. /\ list = [g \in Groups |-> list[g]] /\ engine \in [Instruments -> Link \cup {None}]
  BY DEF LoadInv, ShapeOK
<1>4. Outdated(S \cap dirty) \in [Instruments -> Link \cup {None}]
  BY <1>3, OutdatedEngines
<1>5. engine' \in [Instruments -> Link \cup {None}]
  BY <1>1, <1>4 DEF Retrieved
<1> QED
  BY <1>2, <1>3, <1>5, OtherStepsRestore

LEMMA StartLoadRestores ==
  ASSUME LoadInv, NEW order, NEW overwrite, StartLoad(order, overwrite)
  PROVE  LoadInv'
<1>1. PICK todo : load' = [overwrite |-> overwrite, done |-> <<>>, todo |-> todo]
  BY DEF StartLoad
<1>2. ShapeOK'
  BY <1>1, EmptySeq DEF StartLoad, objectVars, LoadInv, ShapeOK
<1>3. LastOfEach(<<>>) = {}
  BY DEF LastOfEach
<1>4. AllOwed'
  BY <1>1, <1>3 DEF AllOwed
<1> QED
  BY <1>2, <1>4 DEF LoadInv

LEMMA EndRestores ==
  ASSUME LoadInv, LoadRefused \/ LoadUnpriced \/ EndLoad \/ Restart PROVE LoadInv'
<1>1. /\ list = [g \in Groups |-> list[g]] /\ engine \in [Instruments -> Link \cup {None}]
  BY DEF LoadInv, ShapeOK
<1>2. CASE LoadRefused \/ EndLoad
  BY <1>1, <1>2, OtherStepsRestore DEF LoadRefused, EndLoad, objectVars
<1>3. CASE LoadUnpriced
  BY <1>1, <1>3, OtherStepsRestore DEF LoadUnpriced
<1>4. CASE Restart
  BY <1>4, OtherStepsRestore DEF Restart, EmptyLists, NoEngines
<1> QED
  BY <1>2, <1>3, <1>4

LEMMA StepRestores ==
  ASSUME LoadInv, [Next]_vars PROVE LoadInv'
<1>1. CASE UNCHANGED vars
  BY <1>1 DEF vars, objectVars, LoadInv, ShapeOK, AllOwed, Owed
<1>2. CASE Next
  BY <1>2, ClientRestores, SaveRestores, StartLoadRestores, LoadGroupRestores,
     LoadEngineRestores, LoadInstrumentRestores, EndRestores DEF Next
<1> QED
  BY <1>1, <1>2

-----------------------------------------------------------------------------
(* Theorems *)

\* The inductive invariant: what a load has read is restored, and the engines of the
\* instruments it has read are in order.
THEOREM LoadInvariant == Spec => []LoadInv
BY LoadInvInit, StepRestores, PTL DEF Spec

\* A load restores what it has read, whatever is in the files and in whatever order they
\* come, also when a later entry is refused.
THEOREM LoadsRestore == Spec => []LoadRestores
BY LoadInvariant, OwedIsRestored, PTL

-----------------------------------------------------------------------------
(* Induction, for facts about what a recursive function computes *)

\* A set of numbers with 0, and with the successor of each of its members, has all.
LEMMA EveryNumber ==
  ASSUME NEW S, 0 \in S, \A n \in Nat : n \in S => n + 1 \in S
  PROVE  \A n \in Nat : n \in S
<1> SUFFICES ASSUME Nat \ S # {} PROVE FALSE
  OBVIOUS
<1>1. PICK n \in Nat \ S : \A m \in Nat \ S : ~(<<m, n>> \in OpToRel(<, Nat))
  BY NatLessThanWellFounded, WFMin
<1>2. \A m \in Nat \ S : ~(m < n)
  BY <1>1 DEF OpToRel
<1>3. n \in Nat /\ n # 0
  BY <1>1
<1>4. n - 1 \in Nat /\ (n - 1) + 1 = n /\ n - 1 < n
  BY <1>3
<1>5. n - 1 \in S
  BY <1>2, <1>4
<1> QED
  BY <1>1, <1>4, <1>5

-----------------------------------------------------------------------------
(* Sequences one after the other *)

\* What is in two lists one after the other.
LEMMA ConcatenatedElements ==
  ASSUME NEW S, NEW s \in Seq(S), NEW t \in Seq(S)
  PROVE  /\ s \o t \in Seq(S)
         /\ ToSet(s \o t) = ToSet(s) \cup ToSet(t)
<1>1. /\ Len(s) \in Nat /\ Len(t) \in Nat /\ s \o t \in Seq(S)
      /\ DOMAIN s = 1 .. Len(s) /\ DOMAIN t = 1 .. Len(t)
      /\ DOMAIN (s \o t) = 1 .. Len(s) + Len(t)
      /\ \A i \in 1 .. Len(s) : (s \o t)[i] = s[i]
      /\ \A i \in 1 .. Len(t) : (s \o t)[Len(s) + i] = t[i]
  BY ConcatProperties
<1>2. \A i \in 1 .. Len(s) + Len(t) :
        i \in 1 .. Len(s) \/ \E j \in 1 .. Len(t) : i = Len(s) + j
  <2> SUFFICES ASSUME NEW i \in 1 .. Len(s) + Len(t), i \notin 1 .. Len(s)
               PROVE  \E j \in 1 .. Len(t) : i = Len(s) + j
    OBVIOUS
  <2>1. i - Len(s) \in 1 .. Len(t) /\ i = Len(s) + (i - Len(s))
    BY <1>1
  <2> QED
    BY <2>1
<1>3. ToSet(s \o t) \subseteq ToSet(s) \cup ToSet(t)
  <2>1. ASSUME NEW i \in 1 .. Len(s) + Len(t)
        PROVE  (s \o t)[i] \in ToSet(s) \cup ToSet(t)
    <3>1. CASE i \in 1 .. Len(s)
      BY <1>1, <3>1 DEF ToSet
    <3>2. CASE \E j \in 1 .. Len(t) : i = Len(s) + j
      <4>1. PICK j \in 1 .. Len(t) : (s \o t)[i] = t[j]
        BY <1>1, <3>2
      <4> QED
        BY <1>1, <4>1 DEF ToSet
    <3> QED
      BY <1>2, <3>1, <3>2
  <2>2. ToSet(s \o t) = {(s \o t)[i] : i \in 1 .. Len(s) + Len(t)}
    BY <1>1 DEF ToSet
  <2> QED
    BY <2>1, <2>2
<1>4. \A j \in 1 .. Len(t) : Len(s) + j \in 1 .. Len(s) + Len(t)
  BY <1>1
<1>5. \A i \in 1 .. Len(s) : i \in 1 .. Len(s) + Len(t)
  BY <1>1
<1>6. ToSet(s) \subseteq ToSet(s \o t)
  BY <1>1, <1>5 DEF ToSet
<1>7. ToSet(t) \subseteq ToSet(s \o t)
  BY <1>1, <1>4 DEF ToSet
<1> QED
  BY <1>1, <1>3, <1>6, <1>7

\* What FlattenSeq computes, one sequence after another.
Flattening(F, seqs, n) ==
  F = [i \in 1 .. n |-> IF i = 1 THEN seqs[i] ELSE F[i - 1] \o seqs[i]]

\* There is such a function, for any length.
LEMMA FlatteningExists ==
  ASSUME NEW seqs, NEW n \in Nat PROVE \E F : Flattening(F, seqs, n)
<1> DEFINE S == {m \in Nat : \E F : Flattening(F, seqs, m)}
<1>1. 0 \in S
  <2>1. Flattening([i \in 1 .. 0 |-> 0], seqs, 0)
    BY DEF Flattening
  <2> QED
    BY <2>1
<1>2. ASSUME NEW m \in Nat, m \in S
      PROVE  m + 1 \in S
  <2>1. PICK F : Flattening(F, seqs, m)
    BY <1>2
  <2> DEFINE Next1 == IF m + 1 = 1 THEN seqs[m + 1] ELSE F[m] \o seqs[m + 1]
             G == [i \in 1 .. m + 1 |-> IF i = m + 1 THEN Next1 ELSE F[i]]
  <2>2. ASSUME NEW i \in 1 .. m + 1
        PROVE  G[i] = IF i = 1 THEN seqs[i] ELSE G[i - 1] \o seqs[i]
    <3>1. CASE i = m + 1 /\ i # 1
      <4>1. i - 1 = m /\ m \in 1 .. m + 1 /\ m # m + 1
        BY <3>1
      <4>2. G[i - 1] = F[m] /\ G[i] = F[m] \o seqs[m + 1]
        BY <3>1, <4>1
      <4> QED
        BY <3>1, <4>2
    <3>2. CASE i = m + 1 /\ i = 1
      BY <3>2
    <3>3. CASE i # m + 1
      <4>1. i \in 1 .. m /\ G[i] = F[i]
        BY <3>3
      <4>2. F[i] = IF i = 1 THEN seqs[i] ELSE F[i - 1] \o seqs[i]
        BY <2>1, <4>1 DEF Flattening
      <4>3. i # 1 => i - 1 \in 1 .. m + 1 /\ i - 1 # m + 1
        BY <3>3
      <4>4. i # 1 => G[i - 1] = F[i - 1]
        BY <4>3
      <4> QED
        BY <4>1, <4>2, <4>4
    <3> QED
      BY <3>1, <3>2, <3>3
  <2>3. G = [i \in 1 .. m + 1 |-> G[i]]
    OBVIOUS
  <2> HIDE DEF G
  <2>4. Flattening(G, seqs, m + 1)
    BY <2>2, <2>3 DEF Flattening
  <2> QED
    BY <2>4
<1> HIDE DEF S
<1>3. n \in S
  BY <1>1, <1>2, EveryNumber
<1> QED
  BY <1>3 DEF S

\* FlattenSeq by itself.
LEMMA FlattenSeqSteps ==
  ASSUME NEW S, NEW seqs \in Seq(S)
  PROVE  \E F : /\ Len(seqs) # 0 => FlattenSeq(seqs) = F[Len(seqs)] /\ F[1] = seqs[1]
                /\ \A i \in 1 .. Len(seqs) : i # 1 => F[i] = F[i - 1] \o seqs[i]
<1> DEFINE n == Len(seqs)
           F == CHOOSE f : Flattening(f, seqs, n)
<1>1. n \in Nat
  OBVIOUS
<1>2. Flattening(F, seqs, n)
  BY <1>1, FlatteningExists
<1>3. n # 0 => FlattenSeq(seqs) = F[n]
  BY DEF FlattenSeq, Flattening
<1> HIDE DEF F
<1>4. \A i \in 1 .. n : F[i] = IF i = 1 THEN seqs[i] ELSE F[i - 1] \o seqs[i]
  BY <1>2 DEF Flattening
<1>5. n # 0 => 1 \in 1 .. n
  BY <1>1
<1> QED
  BY <1>3, <1>4, <1>5

\* Whatever is closed under concatenation has the sequences that are flattened into one.
LEMMA FlattenInto ==
  ASSUME NEW P, <<>> \in P, \A s, t \in P : s \o t \in P, NEW seqs \in Seq(P)
  PROVE  FlattenSeq(seqs) \in P
<1>1. PICK F : /\ Len(seqs) # 0 => FlattenSeq(seqs) = F[Len(seqs)] /\ F[1] = seqs[1]
               /\ \A i \in 1 .. Len(seqs) : i # 1 => F[i] = F[i - 1] \o seqs[i]
  BY FlattenSeqSteps
<1>2. Len(seqs) \in Nat /\ \A i \in 1 .. Len(seqs) : seqs[i] \in P
  BY ElementOfSeq
<1> DEFINE S == {m \in Nat : m \in 1 .. Len(seqs) => F[m] \in P}
<1>3. 0 \in S
  OBVIOUS
<1>4. ASSUME NEW m \in Nat, m \in S
      PROVE  m + 1 \in S
  <2> SUFFICES ASSUME m + 1 \in 1 .. Len(seqs) PROVE F[m + 1] \in P
    OBVIOUS
  <2>1. CASE m = 0
    BY <1>1, <1>2, <2>1
  <2>2. CASE m # 0
    <3>1. m \in 1 .. Len(seqs) /\ m + 1 # 1 /\ (m + 1) - 1 = m
      BY <1>2, <2>2
    <3>2. F[m + 1] = F[m] \o seqs[m + 1]
      BY <1>1, <3>1
    <3> QED
      BY <1>2, <1>4, <3>1, <3>2
  <2> QED
    BY <2>1, <2>2
<1>5. CASE Len(seqs) = 0
  BY <1>5 DEF FlattenSeq
<1>6. CASE Len(seqs) # 0
  <2> HIDE DEF S
  <2>1. Len(seqs) \in S
    BY <1>2, <1>3, <1>4, EveryNumber
  <2> QED
    BY <1>1, <1>2, <1>6, <2>1 DEF S
<1> QED
  BY <1>5, <1>6

\* What is flattened into one sequence is what is in the sequences.
LEMMA FlattenElements ==
  ASSUME NEW S, NEW seqs \in Seq(Seq(S))
  PROVE  /\ FlattenSeq(seqs) \in Seq(S)
         /\ ToSet(FlattenSeq(seqs)) = UNION {ToSet(seqs[i]) : i \in 1 .. Len(seqs)}
<1> DEFINE all == UNION {ToSet(seqs[i]) : i \in 1 .. Len(seqs)}
           P == {s \in Seq(S) : ToSet(s) \subseteq all}
<1>1. \A i \in 1 .. Len(seqs) : seqs[i] \in Seq(S)
  BY ElementOfSeq
<1>2. FlattenSeq(seqs) \in P
  <2>1. <<>> \in P
    BY DEF ToSet
  <2>2. \A s, t \in P : s \o t \in P
    BY ConcatenatedElements
  <2>3. \A i \in 1 .. Len(seqs) : seqs[i] \in P
    BY <1>1
  <2> HIDE DEF P
  <2>4. seqs \in Seq(P)
    <3>1. seqs = [i \in 1 .. Len(seqs) |-> seqs[i]] /\ Len(seqs) \in Nat
      OBVIOUS
    <3>2. seqs \in [1 .. Len(seqs) -> P]
      BY <2>3, <3>1
    <3> QED
      BY <3>1, <3>2
  <2> QED
    BY <2>1, <2>2, <2>4, FlattenInto
<1>3. all \subseteq ToSet(FlattenSeq(seqs))
  <2>1. PICK F : /\ Len(seqs) # 0 => FlattenSeq(seqs) = F[Len(seqs)] /\ F[1] = seqs[1]
                 /\ \A i \in 1 .. Len(seqs) : i # 1 => F[i] = F[i - 1] \o seqs[i]
    BY FlattenSeqSteps
  <2> DEFINE R == {m \in Nat : m \in 1 .. Len(seqs) =>
                     F[m] \in Seq(S) /\ \A i \in 1 .. m : ToSet(seqs[i]) \subseteq ToSet(F[m])}
  <2>2. 0 \in R
    OBVIOUS
  <2>3. ASSUME NEW m \in Nat, m \in R
        PROVE  m + 1 \in R
    <3> SUFFICES ASSUME m + 1 \in 1 .. Len(seqs)
                 PROVE  /\ F[m + 1] \in Seq(S)
                        /\ \A i \in 1 .. m + 1 : ToSet(seqs[i]) \subseteq ToSet(F[m + 1])
      OBVIOUS
    <3>1. CASE m = 0
      <4>1. F[m + 1] = seqs[m + 1] /\ m + 1 = 1
        BY <2>1, <3>1
      <4>2. \A i \in 1 .. m + 1 : i = m + 1
        BY <3>1
      <4> QED
        BY <1>1, <4>1, <4>2
    <3>2. CASE m # 0
      <4>1. m \in 1 .. Len(seqs) /\ m + 1 # 1 /\ (m + 1) - 1 = m
        BY <3>2
      <4>2. F[m + 1] = F[m] \o seqs[m + 1]
        BY <2>1, <4>1
      <4>3. F[m] \in Seq(S) /\ \A i \in 1 .. m : ToSet(seqs[i]) \subseteq ToSet(F[m])
        BY <2>3, <4>1
      <4>4. /\ F[m + 1] \in Seq(S)
            /\ ToSet(F[m + 1]) = ToSet(F[m]) \cup ToSet(seqs[m + 1])
        BY <1>1, <4>2, <4>3, ConcatenatedElements
      <4>5. \A i \in 1 .. m + 1 : i \in 1 .. m \/ i = m + 1
        BY <4>1
      <4> QED
        BY <4>3, <4>4, <4>5
    <3> QED
      BY <3>1, <3>2
  <2>4. CASE Len(seqs) = 0
    BY <2>4
  <2>5. CASE Len(seqs) # 0
    <3>1. Len(seqs) \in Nat
      OBVIOUS
    <3> HIDE DEF R
    <3>2. Len(seqs) \in R
      BY <2>2, <2>3, <3>1, EveryNumber
    <3>3. Len(seqs) \in 1 .. Len(seqs)
      BY <2>5, <3>1
    <3>4. \A i \in 1 .. Len(seqs) : ToSet(seqs[i]) \subseteq ToSet(F[Len(seqs)])
      BY <3>2, <3>3 DEF R
    <3> QED
      BY <2>1, <2>5, <3>4
  <2> QED
    BY <2>4, <2>5
<1> QED
  BY <1>2, <1>3

-----------------------------------------------------------------------------
(* The results for the members of a list *)

\* Among numbers up to a bound one is the greatest.
LEMMA GreatestExists ==
  ASSUME NEW n \in Nat, NEW S \in SUBSET (0 .. n), S # {}
  PROVE  \E m \in S : \A k \in S : k <= m
<1> DEFINE T == {j \in Nat : n - j \in S}
<1>1. PICK m \in S : TRUE
  OBVIOUS
<1>2. n - m \in T
  BY <1>1
<1>3. T \subseteq Nat /\ T # {}
  BY <1>2
<1> HIDE DEF T
<1>4. PICK j \in T : \A k \in T : ~(<<k, j>> \in OpToRel(<, Nat))
  <2> QED
    BY <1>3, NatLessThanWellFounded, WFMin
<1>5. \A k \in T : ~(k < j)
  BY <1>3, <1>4 DEF OpToRel
<1>6. \A k \in S : k \in Nat /\ n - k \in T
  BY DEF T
<1>7. n - j \in S /\ j \in Nat
  BY <1>3 DEF T
<1>8. \A k \in S : k <= n - j
  BY <1>3, <1>5, <1>6
<1> QED
  BY <1>7, <1>8

\* The results are all there unless one of them is an exception; what was retrieved
\* until then is there in any case.
LEMMA ConcatenatedUpTo ==
  ASSUME NEW results, Len(results) \in Nat
  PROVE  \E n \in 0 .. Len(results) :
           /\ Concatenated(results).ids = FlattenSeq([k \in 1 .. n |-> results[k].ids])
           /\ Concatenated(results).ok \in BOOLEAN
           /\ Concatenated(results).ok <=> \A k \in 1 .. Len(results) : results[k].ok
           /\ Concatenated(results).ok => n = Len(results)
<1> DEFINE whole == {n \in 0 .. Len(results) : \A k \in 1 .. n : results[k].ok}
           n == CHOOSE m \in whole : \A k \in whole : k <= m
           upto == IF n < Len(results) THEN n + 1 ELSE n
<1>1. /\ Concatenated(results).ids = FlattenSeq([k \in 1 .. upto |-> results[k].ids])
      /\ Concatenated(results).ok = (n = Len(results))
  BY DEF Concatenated
<1>2. whole \in SUBSET (0 .. Len(results)) /\ 0 \in whole
  OBVIOUS
<1>3. n \in whole /\ \A k \in whole : k <= n
  <2> HIDE DEF whole
  <2>1. \E m \in whole : \A k \in whole : k <= m
    BY <1>2, GreatestExists
  <2> QED
    BY <2>1
<1>4. n \in 0 .. Len(results) /\ \A k \in 1 .. n : results[k].ok
  BY <1>3
<1>5. (\A k \in 1 .. Len(results) : results[k].ok) => Len(results) <= n
  BY <1>3
<1> HIDE DEF n
<1>6. n = Len(results) <=> \A k \in 1 .. Len(results) : results[k].ok
  BY <1>4, <1>5
<1>7. upto \in 0 .. Len(results) /\ (n = Len(results) => upto = Len(results))
  BY <1>4
<1> QED
  BY <1>1, <1>6, <1>7

-----------------------------------------------------------------------------
(* What Expanded computes *)

\* The expansion of every ID at one level, given those at the next.
AtLevel(expanded, level, includeGroups) ==
  [id \in Ids \cup {None} |->
     IF id = None THEN [ok |-> TRUE, ids |-> <<>>]
     ELSE IF id \notin stored THEN [ok |-> FALSE, ids |-> <<>>]
     ELSE IF id \notin Groups THEN [ok |-> TRUE, ids |-> <<id>>]
     ELSE IF level + 1 >= MaxNesting THEN [ok |-> FALSE, ids |-> <<>>]
     ELSE LET members == Concatenated([k \in DOMAIN list[id] |->
                                         expanded[level + 1][list[id][k]]])
          IN [members EXCEPT !.ids = IF includeGroups /\ members.ok THEN Append(@, id) ELSE @]]

\* It depends on the next level only, and not at the last one.
LEMMA NextLevelDecides ==
  ASSUME NEW f, NEW g, NEW level, NEW includeGroups,
         level + 1 >= MaxNesting \/ f[level + 1] = g[level + 1]
  PROVE  AtLevel(f, level, includeGroups) = AtLevel(g, level, includeGroups)
<1>1. CASE level + 1 >= MaxNesting
  BY <1>1 DEF AtLevel
<1>2. CASE f[level + 1] = g[level + 1]
  BY <1>2 DEF AtLevel
<1> QED
  BY <1>1, <1>2

\* There is a function that fulfils the recursive equation of Expanded.
LEMMA LevelsExist ==
  ASSUME NEW includeGroups
  PROVE  \E f : f = [level \in 0 .. MaxNesting |-> AtLevel(f, level, includeGroups)]
<1> DEFINE Levels(f, n) ==
             f = [level \in MaxNesting - n .. MaxNesting |-> AtLevel(f, level, includeGroups)]
           S == {n \in Nat : \E f : Levels(f, n)}
<1>1. MaxNesting \in Nat
  BY SerializationAssumption
<1>2. 0 \in S
  <2> DEFINE f == [level \in MaxNesting - 0 .. MaxNesting |-> AtLevel(0, level, includeGroups)]
  <2>1. \A level \in MaxNesting - 0 .. MaxNesting :
          AtLevel(0, level, includeGroups) = AtLevel(f, level, includeGroups)
    <3> SUFFICES ASSUME NEW level \in MaxNesting - 0 .. MaxNesting
                 PROVE  AtLevel(0, level, includeGroups) = AtLevel(f, level, includeGroups)
      OBVIOUS
    <3>1. level + 1 >= MaxNesting
      BY <1>1
    <3> HIDE DEF f
    <3> QED
      BY <3>1, NextLevelDecides
  <2>2. f = [level \in MaxNesting - 0 .. MaxNesting |-> AtLevel(f, level, includeGroups)]
    BY <2>1
  <2> QED
    BY <2>2
<1>3. ASSUME NEW n \in Nat, n \in S
      PROVE  n + 1 \in S
  <2>1. PICK f : Levels(f, n)
    BY <1>3
  <2> DEFINE at == MaxNesting - (n + 1)
             g == [level \in at .. MaxNesting |->
                     IF level = at THEN AtLevel(f, level, includeGroups) ELSE f[level]]
  <2>2. ASSUME NEW level \in at .. MaxNesting
        PROVE  g[level] = AtLevel(g, level, includeGroups)
    <3>1. g[level] = AtLevel(f, level, includeGroups)
      <4>1. CASE level = at
        BY <4>1
      <4>2. CASE level # at
        <5>1. level \in MaxNesting - n .. MaxNesting
          BY <1>1, <4>2
        <5>2. f[level] = AtLevel(f, level, includeGroups)
          BY <2>1, <5>1
        <5> QED
          BY <4>2, <5>2
      <4> QED
        BY <4>1, <4>2
    <3>2. level + 1 >= MaxNesting \/ f[level + 1] = g[level + 1]
      <4>1. CASE level + 1 >= MaxNesting
        BY <4>1
      <4>2. CASE ~(level + 1 >= MaxNesting)
        <5>1. level + 1 \in at .. MaxNesting /\ level + 1 # at
          BY <1>1, <4>2
        <5> QED
          BY <5>1
      <4> QED
        BY <4>1, <4>2
    <3> HIDE DEF g
    <3> QED
      BY <3>1, <3>2, NextLevelDecides
  <2>3. g = [level \in at .. MaxNesting |-> g[level]]
    OBVIOUS
  <2> HIDE DEF g
  <2>4. g = [level \in at .. MaxNesting |-> AtLevel(g, level, includeGroups)]
    BY <2>2, <2>3
  <2> QED
    BY <2>4
<1> HIDE DEF S
<1>4. MaxNesting \in S
  BY <1>1, <1>2, <1>3, EveryNumber
<1>5. PICK f : Levels(f, MaxNesting)
  BY <1>1, <1>4 DEF S
<1>6. MaxNesting - MaxNesting = 0
  BY <1>1
<1> QED
  BY <1>5, <1>6

\* Expanded is one.
LEMMA ExpandedLevels ==
  ASSUME NEW includeGroups
  PROVE  Expanded(includeGroups) =
           [level \in 0 .. MaxNesting |-> AtLevel(Expanded(includeGroups), level, includeGroups)]
<1>1. Expanded(includeGroups) =
        CHOOSE f : f = [level \in 0 .. MaxNesting |-> AtLevel(f, level, includeGroups)]
  BY DEF Expanded, AtLevel
<1> QED
  BY <1>1, LevelsExist

\* The lists of groups, of which Expanded needs only that they are lists of IDs.
ListsOK == list \in [Groups -> Seq(Ids \cup {None})] /\ stored \subseteq Ids

\* The results for the members of a group.
Members(g, level, includeGroups) ==
  [k \in DOMAIN list[g] |-> Expanded(includeGroups)[level + 1][list[g][k]]]

\* The expansion of an ID at a level.
LEMMA ExpandedID ==
  ASSUME ListsOK, NEW includeGroups \in BOOLEAN, NEW level \in 0 .. MaxNesting,
         NEW id \in Ids \cup {None}
  PROVE  LET result == Expanded(includeGroups)[level][id]
             members == Concatenated(Members(id, level, includeGroups))
         IN /\ id = None => result = [ok |-> TRUE, ids |-> <<>>]
            /\ id # None /\ id \notin stored => result = [ok |-> FALSE, ids |-> <<>>]
            /\ id # None /\ id \in stored \ Groups => result = [ok |-> TRUE, ids |-> <<id>>]
            /\ id \in stored \cap Groups /\ level + 1 >= MaxNesting =>
                 result = [ok |-> FALSE, ids |-> <<>>]
            /\ id \in stored \cap Groups /\ ~(level + 1 >= MaxNesting) =>
                 /\ result.ok = members.ok
                 /\ result.ids = IF includeGroups /\ members.ok THEN Append(members.ids, id)
                                 ELSE members.ids
<1>1. Expanded(includeGroups)[level][id] =
        AtLevel(Expanded(includeGroups), level, includeGroups)[id]
  BY ExpandedLevels
<1>2. id \in Groups => id # None
  BY SerializationAssumption DEF Ids
<1>3. ASSUME id \in stored \cap Groups, ~(level + 1 >= MaxNesting)
      PROVE  LET members == Concatenated(Members(id, level, includeGroups))
             IN Expanded(includeGroups)[level][id] =
                  [members EXCEPT !.ids = IF includeGroups /\ members.ok THEN Append(@, id) ELSE @]
  BY <1>1, <1>2, <1>3 DEF AtLevel, Members
<1>4. ASSUME NEW results
      PROVE  Concatenated(results) = [ok |-> Concatenated(results).ok,
                                      ids |-> Concatenated(results).ids]
  BY DEF Concatenated
<1>5. id = None => Expanded(includeGroups)[level][id] = [ok |-> TRUE, ids |-> <<>>]
  BY <1>1 DEF AtLevel
<1>6. id # None /\ id \notin stored =>
        Expanded(includeGroups)[level][id] = [ok |-> FALSE, ids |-> <<>>]
  BY <1>1 DEF AtLevel
<1>7. id # None /\ id \in stored \ Groups =>
        Expanded(includeGroups)[level][id] = [ok |-> TRUE, ids |-> <<id>>]
  BY <1>1 DEF AtLevel
<1>8. id \in stored \cap Groups /\ level + 1 >= MaxNesting =>
        Expanded(includeGroups)[level][id] = [ok |-> FALSE, ids |-> <<>>]
  BY <1>1, <1>2 DEF AtLevel
<1>9. ASSUME id \in stored \cap Groups, ~(level + 1 >= MaxNesting)
      PROVE  LET result == Expanded(includeGroups)[level][id]
                 members == Concatenated(Members(id, level, includeGroups))
             IN /\ result.ok = members.ok
                /\ result.ids = IF includeGroups /\ members.ok THEN Append(members.ids, id)
                                ELSE members.ids
  <2>1. PICK members : members = Concatenated(Members(id, level, includeGroups))
    OBVIOUS
  <2>2. members = [ok |-> members.ok, ids |-> members.ids]
    BY <1>4, <2>1
  <2>3. Expanded(includeGroups)[level][id] =
          [members EXCEPT !.ids = IF includeGroups /\ members.ok THEN Append(@, id) ELSE @]
    BY <1>3, <1>9, <2>1
  <2> QED
    BY <2>1, <2>2, <2>3
<1> QED
  BY <1>5, <1>6, <1>7, <1>8, <1>9

\* What holds at a level if it holds at the next holds at every level.
LEMMA EveryLevel ==
  ASSUME NEW S,
         \A level \in 0 .. MaxNesting : (level + 1 < MaxNesting => level + 1 \in S) => level \in S
  PROVE  \A level \in 0 .. MaxNesting : level \in S
<1> DEFINE T == {n \in Nat : n <= MaxNesting => MaxNesting - n \in S}
<1>1. MaxNesting \in Nat \ {0}
  BY SerializationAssumption
<1>2. 0 \in T
  <2>1. /\ MaxNesting \in 0 .. MaxNesting /\ ~(MaxNesting + 1 < MaxNesting)
        /\ MaxNesting - 0 = MaxNesting
    BY <1>1
  <2> QED
    BY <2>1
<1>3. ASSUME NEW n \in Nat, n \in T
      PROVE  n + 1 \in T
  <2> SUFFICES ASSUME n + 1 <= MaxNesting PROVE MaxNesting - (n + 1) \in S
    OBVIOUS
  <2>1. /\ MaxNesting - (n + 1) \in 0 .. MaxNesting
        /\ (MaxNesting - (n + 1)) + 1 = MaxNesting - n /\ n <= MaxNesting
    BY <1>1
  <2>2. MaxNesting - n \in S
    BY <1>3, <2>1
  <2> QED
    BY <2>1, <2>2
<1> HIDE DEF T
<1>4. \A n \in Nat : n \in T
  BY <1>2, <1>3, EveryNumber
<1> SUFFICES ASSUME NEW level \in 0 .. MaxNesting PROVE level \in S
  OBVIOUS
<1>5. /\ MaxNesting - level \in Nat /\ MaxNesting - level <= MaxNesting
      /\ MaxNesting - (MaxNesting - level) = level
  BY <1>1
<1> QED
  BY <1>4, <1>5 DEF T

\* The results for a list of IDs at a level; GetObjectVector and groups join them.
Results(ids, level, includeGroups) ==
  [k \in DOMAIN ids |-> Expanded(includeGroups)[level][ids[k]]]

Result(id, level, includeGroups) == Expanded(includeGroups)[level][id]

\* Joining them: nothing but objects of the repository, all of them unless there is an
\* exception, and whatever else concatenation preserves.
LEMMA ResultsJoined ==
  ASSUME NEW ids \in Seq(Ids \cup {None}), NEW level, NEW includeGroups, NEW S,
         \A k \in DOMAIN ids : Result(ids[k], level, includeGroups).ids \in Seq(S)
  PROVE  LET joined == Concatenated(Results(ids, level, includeGroups))
         IN /\ joined.ok \in BOOLEAN /\ joined.ids \in Seq(S)
            /\ joined.ok <=> \A k \in DOMAIN ids : Result(ids[k], level, includeGroups).ok
            /\ joined.ok =>
                 ToSet(joined.ids) =
                   UNION {ToSet(Result(ids[k], level, includeGroups).ids) : k \in DOMAIN ids}
            /\ \A P : /\ joined.ok /\ <<>> \in P /\ \A s, t \in P : s \o t \in P
                      /\ \A k \in DOMAIN ids : Result(ids[k], level, includeGroups).ids \in P
                      => joined.ids \in P
<1> DEFINE results == Results(ids, level, includeGroups)
           joined == Concatenated(results)
<1>1. /\ Len(ids) \in Nat /\ DOMAIN ids = 1 .. Len(ids)
      /\ DOMAIN results = 1 .. Len(ids) /\ Len(results) = Len(ids)
      /\ \A k \in DOMAIN ids : results[k] = Result(ids[k], level, includeGroups)
  BY SMTT(30) DEF Results, Result
<1> HIDE DEF results
<1>2. PICK n \in 0 .. Len(results) :
        /\ joined.ids = FlattenSeq([k \in 1 .. n |-> results[k].ids])
        /\ joined.ok \in BOOLEAN
        /\ joined.ok <=> \A k \in 1 .. Len(results) : results[k].ok
        /\ joined.ok => n = Len(results)
  BY <1>1, ConcatenatedUpTo
<1> DEFINE parts == [k \in 1 .. n |-> results[k].ids]
<1>3. /\ n \in Nat /\ Len(parts) = n
      /\ \A k \in 1 .. n : k \in DOMAIN ids /\ parts[k] = Result(ids[k], level, includeGroups).ids
  <2>1. n \in Nat /\ \A k \in 1 .. n : k \in DOMAIN ids
    BY <1>1
  <2>2. Len(parts) = n
    BY <2>1
  <2>3. \A k \in 1 .. n : parts[k] = Result(ids[k], level, includeGroups).ids
    BY <1>1, <2>1
  <2> HIDE DEF parts
  <2> QED
    BY <2>1, <2>2, <2>3
<1>4. ASSUME NEW P, \A k \in 1 .. n : Result(ids[k], level, includeGroups).ids \in P
      PROVE  parts \in Seq(P)
  BY <1>3, <1>4
<1> HIDE DEF parts
<1>5. parts \in Seq(Seq(S))
  BY <1>3, <1>4
<1>6. /\ joined.ids \in Seq(S)
      /\ ToSet(joined.ids) = UNION {ToSet(parts[k]) : k \in 1 .. n}
  BY <1>2, <1>3, <1>5, FlattenElements DEF parts
<1>7. joined.ok => ToSet(joined.ids) =
                     UNION {ToSet(Result(ids[k], level, includeGroups).ids) : k \in DOMAIN ids}
  <2> SUFFICES ASSUME joined.ok
               PROVE  UNION {ToSet(parts[k]) : k \in 1 .. n} =
                        UNION {ToSet(Result(ids[k], level, includeGroups).ids) : k \in DOMAIN ids}
    BY SMTT(30), <1>6
  <2>1. 1 .. n = DOMAIN ids
    BY <1>1, <1>2
  <2> QED
    BY <1>3, <2>1
<1>8. ASSUME NEW P, <<>> \in P, \A s, t \in P : s \o t \in P,
             \A k \in DOMAIN ids : Result(ids[k], level, includeGroups).ids \in P
      PROVE  joined.ids \in P
  <2>1. parts \in Seq(P)
    BY <1>3, <1>4, <1>8
  <2> QED
    BY SMTT(30), <1>2, <1>8, <2>1, FlattenInto DEF parts
<1>9. joined.ok <=> \A k \in DOMAIN ids : Result(ids[k], level, includeGroups).ok
  BY <1>1, <1>2
<1> HIDE DEF joined
<1>10. /\ joined.ok \in BOOLEAN /\ joined.ids \in Seq(S)
       /\ joined.ok <=> \A k \in DOMAIN ids : Result(ids[k], level, includeGroups).ok
       /\ joined.ok =>
            ToSet(joined.ids) =
              UNION {ToSet(Result(ids[k], level, includeGroups).ids) : k \in DOMAIN ids}
       /\ \A P : /\ joined.ok /\ <<>> \in P /\ \A s, t \in P : s \o t \in P
                 /\ \A k \in DOMAIN ids : Result(ids[k], level, includeGroups).ids \in P
                 => joined.ids \in P
  BY <1>2, <1>6, <1>7, <1>8, <1>9
<1> QED
  BY <1>10 DEF joined, results

\* The cases of ExpandedID, with the members of a group as a list.
LEMMA ResultOf ==
  ASSUME ListsOK, NEW includeGroups \in BOOLEAN, NEW level \in 0 .. MaxNesting,
         NEW id \in Ids \cup {None}
  PROVE  LET result == Result(id, level, includeGroups)
             members == Concatenated(Results(list[id], level + 1, includeGroups))
         IN /\ id = None => result = [ok |-> TRUE, ids |-> <<>>]
            /\ id # None /\ id \notin stored => result = [ok |-> FALSE, ids |-> <<>>]
            /\ id # None /\ id \in stored \ Groups => result = [ok |-> TRUE, ids |-> <<id>>]
            /\ id \in stored \cap Groups /\ ~(level + 1 < MaxNesting) =>
                 result = [ok |-> FALSE, ids |-> <<>>]
            /\ id \in stored \cap Groups /\ level + 1 < MaxNesting =>
                 /\ result.ok = members.ok
                 /\ result.ids = IF includeGroups /\ members.ok THEN Append(members.ids, id)
                                 ELSE members.ids
<1>1. Members(id, level, includeGroups) = Results(list[id], level + 1, includeGroups)
  BY DEF Members, Results
<1>2. level + 1 < MaxNesting <=> ~(level + 1 >= MaxNesting)
  BY SerializationAssumption
<1> QED
  BY <1>1, <1>2, ExpandedID DEF Result

\* What is retrieved is in the repository, and without groups if they are left out.
Retrievable(includeGroups) == IF includeGroups THEN stored ELSE stored \ Groups

\* What is retrieved for an ID.
LEMMA ResultTypes ==
  ASSUME ListsOK, NEW includeGroups \in BOOLEAN
  PROVE  \A level \in 0 .. MaxNesting : \A id \in Ids \cup {None} :
           /\ Result(id, level, includeGroups).ok \in BOOLEAN
           /\ Result(id, level, includeGroups).ids \in Seq(Retrievable(includeGroups))
<1> DEFINE S == {level \in 0 .. MaxNesting : \A id \in Ids \cup {None} :
                   /\ Result(id, level, includeGroups).ok \in BOOLEAN
                   /\ Result(id, level, includeGroups).ids \in Seq(Retrievable(includeGroups))}
<1>1. ASSUME NEW level \in 0 .. MaxNesting, level + 1 < MaxNesting => level + 1 \in S
      PROVE  level \in S
  <2> SUFFICES ASSUME NEW id \in Ids \cup {None}
               PROVE  /\ Result(id, level, includeGroups).ok \in BOOLEAN
                      /\ Result(id, level, includeGroups).ids \in Seq(Retrievable(includeGroups))
    OBVIOUS
  <2> DEFINE result == Result(id, level, includeGroups)
             members == Concatenated(Results(list[id], level + 1, includeGroups))
  <2>1. <<>> \in Seq(Retrievable(includeGroups))
    OBVIOUS
  <2>2. CASE \/ id = None \/ id \notin stored
             \/ id \in stored \cap Groups /\ ~(level + 1 < MaxNesting)
    <3>1. result = [ok |-> TRUE, ids |-> <<>>] \/ result = [ok |-> FALSE, ids |-> <<>>]
      BY <2>2, ResultOf
    <3>2. result.ok \in BOOLEAN /\ result.ids = <<>>
      <4>1. CASE result = [ok |-> TRUE, ids |-> <<>>]
        BY <4>1
      <4>2. CASE result = [ok |-> FALSE, ids |-> <<>>]
        BY <4>2
      <4> QED
        BY <3>1, <4>1, <4>2
    <3> HIDE DEF result
    <3> QED
      BY <2>1, <3>2 DEF result
  <2>3. CASE id # None /\ id \in stored \ Groups
    <3>1. result = [ok |-> TRUE, ids |-> <<id>>]
      BY <2>3, ResultOf
    <3>2. id \in Retrievable(includeGroups)
      BY <2>3 DEF Retrievable
    <3>3. result.ok \in BOOLEAN /\ result.ids = <<id>>
      BY <3>1
    <3> HIDE DEF result
    <3> QED
      BY <3>2, <3>3 DEF result
  <2>4. CASE id \in stored \cap Groups /\ level + 1 < MaxNesting
    <3>1. list[id] \in Seq(Ids \cup {None})
      BY <2>4 DEF ListsOK
    <3>2. \A k \in DOMAIN list[id] : list[id][k] \in Ids \cup {None}
      BY <3>1
    <3>3. \A k \in DOMAIN list[id] :
            Result(list[id][k], level + 1, includeGroups).ids \in Seq(Retrievable(includeGroups))
      BY <1>1, <2>4, <3>2
    <3>4. members.ok \in BOOLEAN /\ members.ids \in Seq(Retrievable(includeGroups))
      BY <3>1, <3>3, ResultsJoined
    <3>5. /\ result.ok = members.ok
          /\ result.ids = IF includeGroups /\ members.ok THEN Append(members.ids, id)
                          ELSE members.ids
      BY <2>4, ResultOf
    <3>6. includeGroups => id \in Retrievable(includeGroups)
      BY <2>4 DEF Retrievable
    <3> HIDE DEF members, result
    <3>7. result.ids \in Seq(Retrievable(includeGroups))
      BY <3>4, <3>5, <3>6
    <3>8. result.ok \in BOOLEAN
      BY <3>4, <3>5
    <3> QED
      BY <3>7, <3>8 DEF result
  <2>5. \/ id = None \/ id \notin stored
        \/ id \in stored \cap Groups /\ ~(level + 1 < MaxNesting)
        \/ id # None /\ id \in stored \ Groups
        \/ id \in stored \cap Groups /\ level + 1 < MaxNesting
    OBVIOUS
  <2> QED
    BY <2>2, <2>3, <2>4, <2>5
<1> HIDE DEF S
<1>2. \A level \in 0 .. MaxNesting : level \in S
  BY <1>1, EveryLevel
<1> QED
  BY <1>2 DEF S

\* An ID that is listed is none, or that of an object, or of a group.
LEMMA IDCases ==
  ASSUME NEW id \in Ids \cup {None}
  PROVE  \/ id = None
         \/ id # None /\ id \notin stored
         \/ id # None /\ id \in stored \ Groups
         \/ id # None /\ id \in stored \cap Groups
OBVIOUS

\* The members of a group.
LEMMA MembersAreIDs ==
  ASSUME ListsOK, NEW g \in Groups
  PROVE  /\ list[g] \in Seq(Ids \cup {None})
         /\ \A k \in DOMAIN list[g] : list[g][k] \in Ids \cup {None}
BY DEF ListsOK

\* What joining the results for the members of a group gives.
LEMMA MembersJoined ==
  ASSUME ListsOK, NEW includeGroups \in BOOLEAN, NEW level \in 0 .. MaxNesting,
         NEW g \in Groups, level + 1 < MaxNesting
  PROVE  LET joined == Concatenated(Results(list[g], level + 1, includeGroups))
         IN /\ joined.ok \in BOOLEAN /\ joined.ids \in Seq(Retrievable(includeGroups))
            /\ joined.ok <=>
                 \A k \in DOMAIN list[g] : Result(list[g][k], level + 1, includeGroups).ok
            /\ joined.ok =>
                 ToSet(joined.ids) =
                   UNION {ToSet(Result(list[g][k], level + 1, includeGroups).ids) :
                            k \in DOMAIN list[g]}
            /\ \A P : /\ joined.ok /\ <<>> \in P /\ \A s, t \in P : s \o t \in P
                      /\ \A k \in DOMAIN list[g] :
                           Result(list[g][k], level + 1, includeGroups).ids \in P
                      => joined.ids \in P
<1>1. level + 1 \in 0 .. MaxNesting
  BY SerializationAssumption
<1>2. \A k \in DOMAIN list[g] :
        Result(list[g][k], level + 1, includeGroups).ids \in Seq(Retrievable(includeGroups))
  BY <1>1, MembersAreIDs, ResultTypes
<1> QED
  BY <1>2, MembersAreIDs, ResultsJoined

\* Why there is no exception.
LEMMA ResultOk ==
  ASSUME ListsOK, NEW includeGroups \in BOOLEAN, NEW level \in 0 .. MaxNesting,
         NEW id \in Ids \cup {None}
  PROVE  Result(id, level, includeGroups).ok <=>
           \/ id = None
           \/ id # None /\ id \in stored \ Groups
           \/ /\ id \in stored \cap Groups /\ level + 1 < MaxNesting
              /\ \A k \in DOMAIN list[id] : Result(list[id][k], level + 1, includeGroups).ok
<1> DEFINE result == Result(id, level, includeGroups)
<1>0. id \in Groups => id # None
  BY SerializationAssumption DEF Ids
<1>1. CASE id = None
  <2>1. result = [ok |-> TRUE, ids |-> <<>>]
    BY <1>1, ResultOf
  <2> QED
    BY <1>1, <2>1
<1>2. CASE id # None /\ id \notin stored
  <2>1. result = [ok |-> FALSE, ids |-> <<>>]
    BY <1>2, ResultOf
  <2> QED
    BY <1>2, <2>1
<1>3. CASE id # None /\ id \in stored \ Groups
  <2>1. result = [ok |-> TRUE, ids |-> <<id>>]
    BY <1>3, ResultOf
  <2> QED
    BY <1>3, <2>1
<1>4. CASE id # None /\ id \in stored \cap Groups
  <2>1. CASE ~(level + 1 < MaxNesting)
    <3>1. result = [ok |-> FALSE, ids |-> <<>>]
      BY <1>4, <2>1, ResultOf
    <3> QED
      BY <1>4, <2>1, <3>1
  <2>2. CASE level + 1 < MaxNesting
    <3> DEFINE members == Concatenated(Results(list[id], level + 1, includeGroups))
    <3>1. result.ok = members.ok
      BY <1>4, <2>2, ResultOf
    <3>2. members.ok <=> \A k \in DOMAIN list[id] : Result(list[id][k], level + 1, includeGroups).ok
      BY <1>4, <2>2, MembersJoined
    <3> HIDE DEF members, result
    <3> QED
      BY <1>4, <2>2, <3>1, <3>2 DEF result
  <2> QED
    BY <2>1, <2>2
<1> QED
  BY <1>1, <1>2, <1>3, <1>4, IDCases

\* What is retrieved for the members of a group, and for an ID.
MembersFound(g, level, includeGroups) ==
  UNION {ToSet(Result(list[g][k], level + 1, includeGroups).ids) : k \in DOMAIN list[g]}

\* What is retrieved for an ID, and for a group.
LEMMA ResultElements ==
  ASSUME ListsOK, NEW includeGroups \in BOOLEAN, NEW level \in 0 .. MaxNesting,
         NEW id \in Ids \cup {None}, Result(id, level, includeGroups).ok
  PROVE  LET found == ToSet(Result(id, level, includeGroups).ids)
         IN /\ id = None => found = {}
            /\ id # None /\ id \notin Groups => found = {id}
            /\ id \in Groups =>
                 found = MembersFound(id, level, includeGroups)
                         \cup IF includeGroups THEN {id} ELSE {}
<1> DEFINE result == Result(id, level, includeGroups)
<1>0. id \in Groups => id # None
  BY SerializationAssumption DEF Ids
<1>1. ASSUME id = None PROVE ToSet(result.ids) = {}
  <2>1. result = [ok |-> TRUE, ids |-> <<>>]
    BY <1>1, ResultOf
  <2>2. result.ids = <<>>
    BY <2>1
  <2> QED
    BY <2>2 DEF ToSet
<1>2. ASSUME id # None, id \notin Groups PROVE ToSet(result.ids) = {id}
  <2>1. id \in stored \ Groups
    BY <1>2, ResultOk
  <2>2. result = [ok |-> TRUE, ids |-> <<id>>]
    BY <1>2, <2>1, ResultOf
  <2>3. result.ids = <<id>>
    BY <2>2
  <2> QED
    BY <2>3 DEF ToSet
<1>3. ASSUME id \in Groups
      PROVE  ToSet(result.ids) = MembersFound(id, level, includeGroups)
                                 \cup IF includeGroups THEN {id} ELSE {}
  <2> DEFINE members == Concatenated(Results(list[id], level + 1, includeGroups))
  <2>1. id \in stored \cap Groups /\ level + 1 < MaxNesting
    BY <1>0, <1>3, ResultOk
  <2>2. /\ result.ok = members.ok
        /\ result.ids = IF includeGroups /\ members.ok THEN Append(members.ids, id) ELSE members.ids
    BY <2>1, ResultOf
  <2>3. members.ok /\ members.ids \in Seq(Retrievable(includeGroups))
    BY <2>1, <2>2, MembersJoined
  <2>4. ToSet(members.ids) = MembersFound(id, level, includeGroups)
    BY <2>1, <2>3, MembersJoined DEF MembersFound
  <2> HIDE DEF members, result
  <2>5. CASE includeGroups
    <3>1. /\ <<id>> \in Seq(Ids) /\ members.ids \in Seq(Ids)
          /\ Append(members.ids, id) = members.ids \o <<id>>
      <4>1. Retrievable(includeGroups) \subseteq Ids /\ id \in Ids
        BY <2>1 DEF Retrievable, ListsOK
      <4>2. members.ids \in Seq(Ids)
        BY <2>3, <4>1
      <4> QED
        BY <4>1, <4>2, AppendIsConcat
    <3>2. ToSet(<<id>>) = {id}
      BY DEF ToSet
    <3>3. ToSet(result.ids) = ToSet(members.ids) \cup {id}
      <4>1. ToSet(members.ids \o <<id>>) = ToSet(members.ids) \cup ToSet(<<id>>)
        BY ZenonT(40), <3>1, ConcatenatedElements
      <4> QED
        BY <2>2, <2>3, <2>5, <3>1, <3>2, <4>1
    <3> QED
      BY <2>4, <2>5, <3>3
  <2>6. CASE ~includeGroups
    BY <2>2, <2>4, <2>6
  <2> QED
    BY <2>5, <2>6
<1> QED
  BY <1>1, <1>2, <1>3

\* A union of sets, without some.
LEMMA UnionWithout ==
  ASSUME NEW D, NEW f, NEW g, NEW G, \A k \in D : f[k] = g[k] \ G
  PROVE  UNION {f[k] : k \in D} = (UNION {g[k] : k \in D}) \ G
<1>1. ASSUME NEW x \in UNION {f[k] : k \in D} PROVE x \in (UNION {g[k] : k \in D}) \ G
  <2>1. PICK k \in D : x \in f[k]
    OBVIOUS
  <2> QED
    BY <2>1
<1>2. ASSUME NEW x \in (UNION {g[k] : k \in D}) \ G PROVE x \in UNION {f[k] : k \in D} 
  <2>1. PICK k \in D : x \in g[k]
    BY <1>2
  <2> QED
    BY <1>2, <2>1
<1> QED
  BY <1>1, <1>2

\* Leaving groups out makes no difference to what is an exception, and leaves out groups
\* only.
LEMMA GroupsLeftOut ==
  ASSUME ListsOK
  PROVE  \A level \in 0 .. MaxNesting : \A id \in Ids \cup {None} :
           /\ Result(id, level, TRUE).ok <=> Result(id, level, FALSE).ok
           /\ Result(id, level, TRUE).ok =>
                ToSet(Result(id, level, FALSE).ids) = ToSet(Result(id, level, TRUE).ids) \ Groups
<1> DEFINE Same(id, level) ==
             /\ Result(id, level, TRUE).ok <=> Result(id, level, FALSE).ok
             /\ Result(id, level, TRUE).ok =>
                  ToSet(Result(id, level, FALSE).ids) = ToSet(Result(id, level, TRUE).ids) \ Groups
           S == {level \in 0 .. MaxNesting : \A id \in Ids \cup {None} : Same(id, level)}
<1>1. ASSUME NEW level \in 0 .. MaxNesting, level + 1 < MaxNesting => level + 1 \in S,
             NEW id \in Ids \cup {None}
      PROVE  Same(id, level)
  <2> DEFINE Found(b) == ToSet(Result(id, level, b).ids)
  <2>1. ASSUME id \in Groups, level + 1 < MaxNesting, NEW k \in DOMAIN list[id]
        PROVE  Same(list[id][k], level + 1)
    BY <1>1, <2>1, MembersAreIDs
  <2>2. Result(id, level, TRUE).ok <=> Result(id, level, FALSE).ok
    <3> HIDE DEF S
    <3>1. ASSUME id \in Groups, level + 1 < MaxNesting
          PROVE  (\A k \in DOMAIN list[id] : Result(list[id][k], level + 1, TRUE).ok) <=>
                 (\A k \in DOMAIN list[id] : Result(list[id][k], level + 1, FALSE).ok)
      BY <2>1, <3>1
    <3> QED
      BY <3>1, ResultOk
  <2>3. ASSUME Result(id, level, TRUE).ok
        PROVE  Found(FALSE) = Found(TRUE) \ Groups
    <3> HIDE DEF S
    <3>1. Result(id, level, FALSE).ok
      BY <2>2, <2>3
    <3>2. CASE id \notin Groups
      <4>1. \A b \in BOOLEAN : Result(id, level, b).ok
        BY <2>3, <3>1
      <4>2. Found(TRUE) = IF id = None THEN {} ELSE {id}
        BY <3>2, <4>1, ResultElements
      <4>3. Found(FALSE) = IF id = None THEN {} ELSE {id}
        BY <3>2, <4>1, ResultElements
      <4> HIDE DEF Found
      <4> QED
        BY <3>2, <4>2, <4>3
    <3>3. CASE id \in Groups
      <4>1. /\ level + 1 < MaxNesting
            /\ \A k \in DOMAIN list[id] : Result(list[id][k], level + 1, TRUE).ok
        BY <2>3, <3>3, ResultOk, SerializationAssumption DEF Ids
      <4>2. \A k \in DOMAIN list[id] :
              ToSet(Result(list[id][k], level + 1, FALSE).ids) =
                ToSet(Result(list[id][k], level + 1, TRUE).ids) \ Groups
        BY <2>1, <3>3, <4>1
      <4>3. MembersFound(id, level, FALSE) = MembersFound(id, level, TRUE) \ Groups
        <5>1. PICK D, f, g :
                /\ D = DOMAIN list[id]
                /\ f = [k \in D |-> ToSet(Result(list[id][k], level + 1, FALSE).ids)]
                /\ g = [k \in D |-> ToSet(Result(list[id][k], level + 1, TRUE).ids)]
          OBVIOUS
        <5>2. /\ MembersFound(id, level, FALSE) = UNION {f[k] : k \in D}
              /\ MembersFound(id, level, TRUE) = UNION {g[k] : k \in D}
          BY <5>1 DEF MembersFound
        <5>3. \A k \in D : f[k] = g[k] \ Groups
          BY <4>2, <5>1
        <5>4. UNION {f[k] : k \in D} = (UNION {g[k] : k \in D}) \ Groups
          BY <5>3, UnionWithout
        <5> QED
          BY <5>2, <5>4
      <4>4. Found(TRUE) = MembersFound(id, level, TRUE) \cup {id}
        <5>1. Found(TRUE) = MembersFound(id, level, TRUE) \cup IF TRUE THEN {id} ELSE {}
          BY <2>3, <3>3, ResultElements
        <5> QED
          BY <5>1
      <4>5. Found(FALSE) = MembersFound(id, level, FALSE)
        <5>1. Found(FALSE) = MembersFound(id, level, FALSE) \cup IF FALSE THEN {id} ELSE {}
          BY <3>1, <3>3, ResultElements
        <5> QED
          BY <5>1
      <4> HIDE DEF Found
      <4> QED
        BY <3>3, <4>3, <4>4, <4>5
    <3> QED
      BY <3>2, <3>3
  <2> QED
    BY <2>2, <2>3
<1>2. \A level \in 0 .. MaxNesting : (level + 1 < MaxNesting => level + 1 \in S) => level \in S
  BY <1>1
<1> HIDE DEF S
<1>3. \A level \in 0 .. MaxNesting : level \in S
  BY <1>2, EveryLevel
<1> QED
  BY <1>3 DEF S

-----------------------------------------------------------------------------
(* The closure of a list *)

\* The IDs in the lists of the groups in S.
MembersOf(S) == UNION {ToSet(list[g]) : g \in S \cap Groups}

\* More groups have more members.
LEMMA MembersOfMore ==
  ASSUME NEW S, NEW T, S \cap Groups \subseteq T
  PROVE  MembersOf(S) \subseteq MembersOf(T)
BY DEF MembersOf

\* The recursive function of Closure, up to n.
Reaching(r, ids, n) ==
  r = [k \in 0 .. n |-> IF k = 0 THEN ToSet(ids) ELSE r[k - 1] \cup MembersOf(r[k - 1])]

\* There is such a function, for any n.
LEMMA ReachExists ==
  ASSUME NEW ids, NEW n \in Nat PROVE \E r : Reaching(r, ids, n)
<1> DEFINE S == {m \in Nat : \E r : Reaching(r, ids, m)}
<1>1. 0 \in S
  <2> DEFINE r == [k \in 0 .. 0 |-> ToSet(ids)]
  <2>1. \A k \in 0 .. 0 : k = 0
    OBVIOUS
  <2>2. r = [k \in 0 .. 0 |-> IF k = 0 THEN ToSet(ids) ELSE r[k - 1] \cup MembersOf(r[k - 1])]
    BY <2>1
  <2> HIDE DEF r
  <2>3. Reaching(r, ids, 0)
    BY <2>2 DEF Reaching
  <2> QED
    BY <2>3
<1>2. ASSUME NEW m \in Nat, m \in S
      PROVE  m + 1 \in S
  <2>1. PICK r : Reaching(r, ids, m)
    BY <1>2
  <2> DEFINE more == r[m] \cup MembersOf(r[m])
             s == [k \in 0 .. m + 1 |-> IF k = m + 1 THEN more ELSE r[k]]
  <2>2. ASSUME NEW k \in 0 .. m + 1
        PROVE  s[k] = IF k = 0 THEN ToSet(ids) ELSE s[k - 1] \cup MembersOf(s[k - 1])
    <3>1. CASE k = m + 1
      <4>1. k # 0 /\ k - 1 = m /\ m \in 0 .. m + 1 /\ m # m + 1
        BY <3>1
      <4>2. s[k - 1] = r[m] /\ s[k] = more
        BY <3>1, <4>1
      <4> HIDE DEF s
      <4> QED
        BY <4>1, <4>2
    <3>2. CASE k # m + 1
      <4>1. k \in 0 .. m /\ s[k] = r[k]
        BY <3>2
      <4>2. r[k] = IF k = 0 THEN ToSet(ids) ELSE r[k - 1] \cup MembersOf(r[k - 1])
        BY <2>1, <4>1 DEF Reaching
      <4>3. k # 0 => k - 1 \in 0 .. m + 1 /\ k - 1 # m + 1
        BY <3>2
      <4>4. k # 0 => s[k - 1] = r[k - 1]
        BY <4>3
      <4> HIDE DEF s
      <4> QED
        BY <4>1, <4>2, <4>4
    <3> QED
      BY <3>1, <3>2
  <2>3. s = [k \in 0 .. m + 1 |-> s[k]]
    OBVIOUS
  <2> HIDE DEF s
  <2>4. Reaching(s, ids, m + 1)
    BY <2>2, <2>3 DEF Reaching
  <2> QED
    BY <2>4
<1> HIDE DEF S
<1>3. n \in S
  BY <1>1, <1>2, EveryNumber
<1> QED
  BY <1>3 DEF S

\* Closure is the last of the steps, but for None.
LEMMA ClosureSteps ==
  ASSUME NEW ids
  PROVE  \E r : /\ Closure(ids) = r[Cardinality(Groups)] \ {None}
                /\ r[0] = ToSet(ids)
                /\ \A k \in 1 .. Cardinality(Groups) : r[k] = r[k - 1] \cup MembersOf(r[k - 1])
<1> DEFINE n == Cardinality(Groups)
           r == CHOOSE f : Reaching(f, ids, n)
<1>1. n \in Nat
  BY FS_CardinalityType, SerializationAssumption
<1>2. Reaching(r, ids, n)
  BY <1>1, ReachExists
<1>3. Closure(ids) = r[n] \ {None}
  BY DEF Closure, Reaching, MembersOf
<1> HIDE DEF r, n
<1>4. \A k \in 0 .. n : r[k] = IF k = 0 THEN ToSet(ids) ELSE r[k - 1] \cup MembersOf(r[k - 1])
  BY <1>2 DEF Reaching
<1>5. 0 \in 0 .. n /\ \A k \in 1 .. n : k \in 0 .. n /\ k # 0
  BY <1>1
<1>6. /\ r[0] = ToSet(ids)
      /\ \A k \in 1 .. n : r[k] = r[k - 1] \cup MembersOf(r[k - 1])
  BY <1>4, <1>5
<1> QED
  BY <1>3, <1>6 DEF n

\* Everything in S, and in the groups in S, is in S.
ClosedUnder(S) == MembersOf(S) \subseteq S \cup {None}

\* There are as many steps as groups, so the last one adds nothing.
LEMMA LastStepCloses ==
  ASSUME NEW r, \A k \in 1 .. Cardinality(Groups) : r[k] = r[k - 1] \cup MembersOf(r[k - 1])
  PROVE  MembersOf(r[Cardinality(Groups)]) \subseteq r[Cardinality(Groups)]
<1> DEFINE N == Cardinality(Groups)
           Size(k) == Cardinality(r[k] \cap Groups)
           S == {k \in Nat : k <= N => MembersOf(r[k]) \subseteq r[k] \/ Size(k) >= k + 1}
<1>1. N \in Nat /\ \A k : IsFiniteSet(r[k] \cap Groups) /\ Size(k) \in Nat /\ Size(k) <= N
  <2>1. IsFiniteSet(Groups) /\ N \in Nat
    BY FS_CardinalityType, SerializationAssumption
  <2> SUFFICES ASSUME NEW k
               PROVE  IsFiniteSet(r[k] \cap Groups) /\ Size(k) \in Nat /\ Size(k) <= N
    BY <2>1
  <2>2. r[k] \cap Groups \in SUBSET Groups
    OBVIOUS
  <2>3. IsFiniteSet(r[k] \cap Groups) /\ Size(k) <= N
    BY <2>1, <2>2, FS_Subset
  <2>4. Size(k) \in Nat
    BY <2>3, FS_CardinalityType
  <2> QED
    BY <2>3, <2>4
<1>2. 0 \in S
  <2> SUFFICES ASSUME ~(MembersOf(r[0]) \subseteq r[0]) PROVE Size(0) >= 0 + 1
    OBVIOUS
  <2>1. r[0] \cap Groups # {}
    <3>1. PICK x : x \in MembersOf(r[0])
      OBVIOUS
    <3>2. PICK g \in r[0] \cap Groups : x \in ToSet(list[g])
      BY <3>1 DEF MembersOf
    <3> QED
      BY <3>2
  <2>2. Size(0) # 0
    BY <1>1, <2>1, FS_EmptySet
  <2>3. Size(0) \in Nat
    BY <1>1
  <2> HIDE DEF Size
  <2> QED
    BY <2>2, <2>3
<1>3. ASSUME NEW k \in Nat, k \in S
      PROVE  k + 1 \in S
  <2> SUFFICES ASSUME k + 1 <= N, ~(MembersOf(r[k + 1]) \subseteq r[k + 1])
               PROVE  Size(k + 1) >= (k + 1) + 1
    OBVIOUS
  <2>1. k <= N /\ r[k + 1] = r[k] \cup MembersOf(r[k])
    <3>1. k <= N /\ k + 1 \in 1 .. N /\ (k + 1) - 1 = k
      BY <1>1
    <3> QED
      BY <3>1
  <2>2. ~(MembersOf(r[k]) \subseteq r[k])
    <3> SUFFICES ASSUME MembersOf(r[k]) \subseteq r[k] PROVE FALSE
      OBVIOUS
    <3>1. PICK R : R = r[k] /\ MembersOf(R) \subseteq R
      OBVIOUS
    <3>2. r[k + 1] = R
      BY <2>1, <3>1
    <3>3. MembersOf(r[k + 1]) \subseteq r[k + 1]
      BY <3>1, <3>2
    <3> QED
      BY <3>3
  <2>3. Size(k) >= k + 1
    BY <1>3, <2>1, <2>2
  <2>4. r[k + 1] \cap Groups # r[k] \cap Groups
    <3> SUFFICES ASSUME r[k + 1] \cap Groups = r[k] \cap Groups PROVE FALSE
      OBVIOUS
    <3>1. MembersOf(r[k + 1]) = MembersOf(r[k])
      BY DEF MembersOf
    <3>2. MembersOf(r[k]) \subseteq r[k + 1]
      BY <2>1
    <3>3. MembersOf(r[k + 1]) \subseteq r[k + 1]
      BY <3>1, <3>2
    <3> QED
      BY <3>3
  <2>5. r[k] \cap Groups \in SUBSET (r[k + 1] \cap Groups)
    BY <2>1
  <2>6. Size(k) <= Size(k + 1) /\ Size(k) # Size(k + 1)
    <3>1. IsFiniteSet(r[k + 1] \cap Groups)
      BY <1>1
    <3> QED
      BY <2>4, <2>5, <3>1, FS_Subset
  <2>7. Size(k) \in Nat /\ Size(k + 1) \in Nat
    BY <1>1
  <2> HIDE DEF Size
  <2> QED
    BY <2>3, <2>6, <2>7
<1> HIDE DEF S
<1>4. N \in S
  BY <1>1, <1>2, <1>3, EveryNumber
<1>5. ~(Size(N) >= N + 1) /\ N <= N
  <2>1. N \in Nat /\ Size(N) \in Nat /\ Size(N) <= N
    BY <1>1
  <2> HIDE DEF Size, N
  <2> QED
    BY <2>1
<1>6. MembersOf(r[N]) \subseteq r[N] \/ Size(N) >= N + 1
  BY <1>4, <1>5 DEF S
<1> QED
  BY <1>5, <1>6

\* Whatever has the IDs of the list, and is closed, has every step.
LEMMA StepsInside ==
  ASSUME NEW r, NEW n \in Nat, NEW S,
         r[0] \subseteq S \cup {None}, None \notin Groups, ClosedUnder(S),
         \A k \in 1 .. n : r[k] = r[k - 1] \cup MembersOf(r[k - 1])
  PROVE  r[n] \subseteq S \cup {None}
<1> DEFINE T == {k \in Nat : k <= n => r[k] \subseteq S \cup {None}}
<1>1. 0 \in T
  OBVIOUS
<1>2. ASSUME NEW k \in Nat, k \in T
      PROVE  k + 1 \in T
  <2> SUFFICES ASSUME k + 1 <= n PROVE r[k + 1] \subseteq S \cup {None}
    OBVIOUS
  <2>1. k <= n /\ k + 1 \in 1 .. n /\ (k + 1) - 1 = k
    OBVIOUS
  <2>2. r[k] \subseteq S \cup {None} /\ r[k + 1] = r[k] \cup MembersOf(r[k])
    BY <1>2, <2>1
  <2>3. MembersOf(r[k]) \subseteq MembersOf(S)
    BY <2>2, MembersOfMore
  <2> QED
    BY <2>2, <2>3 DEF ClosedUnder
<1> HIDE DEF T
<1>3. n \in T
  BY <1>1, <1>2, EveryNumber
<1> QED
  BY <1>3 DEF T

\* None is no ID.
LEMMA NoneIsNoGroup == None \notin Groups /\ None \notin Ids
BY SerializationAssumption DEF Ids

\* Closure is the least set that has the IDs of the list and is closed.
LEMMA ClosureIsLeast ==
  ASSUME NEW ids
  PROVE  /\ None \notin Closure(ids)
         /\ ToSet(ids) \subseteq Closure(ids) \cup {None}
         /\ ClosedUnder(Closure(ids))
         /\ \A S : ToSet(ids) \subseteq S \cup {None} /\ ClosedUnder(S) => Closure(ids) \subseteq S
<1> DEFINE N == Cardinality(Groups)
<1>1. PICK r : /\ Closure(ids) = r[N] \ {None}
               /\ r[0] = ToSet(ids)
               /\ \A k \in 1 .. N : r[k] = r[k - 1] \cup MembersOf(r[k - 1])
  BY ClosureSteps
<1>2. N \in Nat
  BY FS_CardinalityType, SerializationAssumption
<1>3. MembersOf(r[N]) \subseteq r[N]
  BY <1>1, LastStepCloses
<1> HIDE DEF N
<1>4. ToSet(ids) \subseteq r[N]
  <2> DEFINE T == {k \in Nat : k <= N => ToSet(ids) \subseteq r[k]}
  <2>1. 0 \in T
    BY <1>1
  <2>2. ASSUME NEW k \in Nat, k \in T
        PROVE  k + 1 \in T
    <3> SUFFICES ASSUME k + 1 <= N PROVE ToSet(ids) \subseteq r[k + 1]
      OBVIOUS
    <3>1. k <= N /\ k + 1 \in 1 .. N /\ (k + 1) - 1 = k
      BY <1>2
    <3> QED
      BY <1>1, <2>2, <3>1
  <2> HIDE DEF T
  <2>3. N \in T
    BY <1>2, <2>1, <2>2, EveryNumber
  <2> QED
    BY <1>2, <2>3 DEF T
<1>5. MembersOf(r[N] \ {None}) \subseteq r[N]
  <2>1. MembersOf(r[N] \ {None}) \subseteq MembersOf(r[N])
    BY MembersOfMore
  <2> QED
    BY <1>3, <2>1
<1>6. ASSUME NEW S, ToSet(ids) \subseteq S \cup {None}, ClosedUnder(S)
      PROVE  r[N] \subseteq S \cup {None}
  BY <1>1, <1>2, <1>6, NoneIsNoGroup, StepsInside
<1> QED
  BY <1>1, <1>4, <1>5, <1>6 DEF ClosedUnder

-----------------------------------------------------------------------------
(* Why there is no exception *)

\* getObjectVector joins what is retrieved for the IDs of its list, at level 0.
LEMMA ObjectsJoined ==
  ASSUME ListsOK, NEW ids \in Seq(Ids \cup {None}), NEW includeGroups \in BOOLEAN
  PROVE  LET objects == GetObjectVector(ids, includeGroups)
         IN /\ objects.ok \in BOOLEAN /\ objects.ids \in Seq(Retrievable(includeGroups))
            /\ objects.ok <=> \A k \in DOMAIN ids : Result(ids[k], 0, includeGroups).ok
            /\ objects.ok =>
                 ToSet(objects.ids) =
                   UNION {ToSet(Result(ids[k], 0, includeGroups).ids) : k \in DOMAIN ids}
            /\ \A P : /\ objects.ok /\ <<>> \in P /\ \A s, t \in P : s \o t \in P
                      /\ \A k \in DOMAIN ids : Result(ids[k], 0, includeGroups).ids \in P
                      => objects.ids \in P
<1>1. GetObjectVector(ids, includeGroups) = Concatenated(Results(ids, 0, includeGroups))
  BY DEF GetObjectVector, Results
<1>2. \A k \in DOMAIN ids : ids[k] \in Ids \cup {None}
  OBVIOUS
<1>3. 0 \in 0 .. MaxNesting
  BY SerializationAssumption
<1>4. \A k \in DOMAIN ids :
        Result(ids[k], 0, includeGroups).ids \in Seq(Retrievable(includeGroups))
  BY <1>2, <1>3, ResultTypes
<1>5. LET joined == Concatenated(Results(ids, 0, includeGroups))
      IN /\ joined.ok \in BOOLEAN /\ joined.ids \in Seq(Retrievable(includeGroups))
         /\ joined.ok <=> \A k \in DOMAIN ids : Result(ids[k], 0, includeGroups).ok
         /\ joined.ok =>
              ToSet(joined.ids) =
                UNION {ToSet(Result(ids[k], 0, includeGroups).ids) : k \in DOMAIN ids}
         /\ \A P : /\ joined.ok /\ <<>> \in P /\ \A s, t \in P : s \o t \in P
                   /\ \A k \in DOMAIN ids : Result(ids[k], 0, includeGroups).ids \in P
                   => joined.ids \in P
  BY <1>4, ResultsJoined
<1> QED
  BY <1>1, <1>5

\* Without an exception everything that the list stands for is stored.
LEMMA NothingMissing ==
  ASSUME ListsOK, NEW ids \in Seq(Ids \cup {None}), NEW includeGroups \in BOOLEAN,
         GetObjectVector(ids, includeGroups).ok
  PROVE  Closure(ids) \subseteq stored
<1> DEFINE Whole == {id \in Ids : \E level \in 0 .. MaxNesting :
                       Result(id, level, includeGroups).ok}
<1>1. 0 \in 0 .. MaxNesting
  BY SerializationAssumption
<1>2. ToSet(ids) \subseteq Whole \cup {None}
  <2>1. \A k \in DOMAIN ids : Result(ids[k], 0, includeGroups).ok /\ ids[k] \in Ids \cup {None}
    BY ObjectsJoined
  <2> QED
    BY <1>1, <2>1 DEF ToSet
<1>3. ClosedUnder(Whole)
  <2> SUFFICES ASSUME NEW g \in Whole \cap Groups, NEW k \in DOMAIN list[g]
               PROVE  list[g][k] \in Whole \cup {None}
    BY DEF ClosedUnder, MembersOf, ToSet
  <2>1. PICK level \in 0 .. MaxNesting : Result(g, level, includeGroups).ok
    OBVIOUS
  <2>2. level + 1 < MaxNesting /\ Result(list[g][k], level + 1, includeGroups).ok
    BY <2>1, NoneIsNoGroup, ResultOk
  <2>3. level + 1 \in 0 .. MaxNesting
    BY <2>2, SerializationAssumption
  <2> QED
    BY <2>2, <2>3, MembersAreIDs
<1>4. Whole \subseteq stored
  BY NoneIsNoGroup, ResultOk
<1> HIDE DEF Whole
<1> QED
  BY <1>2, <1>3, <1>4, ClosureIsLeast

\* Without an exception no groups are nested to the limit: one level is taken off for each
\* group of the chain.
LEMMA NotTooDeep ==
  ASSUME ListsOK, NEW ids \in Seq(Ids \cup {None}), NEW includeGroups \in BOOLEAN,
         GetObjectVector(ids, includeGroups).ok
  PROVE  ~TooDeep(ids)
<1> SUFFICES ASSUME NEW chain \in [1 .. MaxNesting -> Groups],
                    chain[1] \in ToSet(ids),
                    \A n \in 2 .. MaxNesting : chain[n] \in ToSet(list[chain[n - 1]])
             PROVE  FALSE
  BY DEF TooDeep
<1> DEFINE Ok(n) == Result(chain[n + 1], n, includeGroups).ok
           S == {n \in Nat : n + 1 <= MaxNesting => Ok(n)}
<1>1. MaxNesting \in Nat \ {0}
  BY SerializationAssumption
<1>2. 0 \in S
  <2>1. PICK k \in DOMAIN ids : ids[k] = chain[1]
    BY DEF ToSet
  <2>2. Result(ids[k], 0, includeGroups).ok
    BY ObjectsJoined
  <2> QED
    BY <2>1, <2>2
<1>3. ASSUME NEW n \in Nat, n \in S
      PROVE  n + 1 \in S
  <2> SUFFICES ASSUME (n + 1) + 1 <= MaxNesting PROVE Ok(n + 1)
    OBVIOUS
  <2>1. /\ n + 1 \in 1 .. MaxNesting /\ (n + 1) + 1 \in 2 .. MaxNesting
        /\ ((n + 1) + 1) - 1 = n + 1 /\ n \in 0 .. MaxNesting
    BY <1>1
  <2>2. PICK k \in DOMAIN list[chain[n + 1]] : chain[(n + 1) + 1] = list[chain[n + 1]][k]
    BY <2>1 DEF ToSet
  <2>3. Ok(n) /\ chain[n + 1] \in Groups
    BY <1>3, <2>1
  <2>4. Result(list[chain[n + 1]][k], n + 1, includeGroups).ok
    BY <2>1, <2>2, <2>3, NoneIsNoGroup, ResultOk DEF Ids
  <2> QED
    BY <2>2, <2>4
<1>4. MaxNesting - 1 \in Nat /\ (MaxNesting - 1) + 1 = MaxNesting
  BY <1>1
<1> HIDE DEF S
<1>5. MaxNesting - 1 \in S
  BY <1>2, <1>3, <1>4, EveryNumber
<1>6. Ok(MaxNesting - 1)
  BY <1>1, <1>4, <1>5 DEF S
<1>7. /\ chain[MaxNesting] \in Groups
      /\ MaxNesting - 1 \in 0 .. MaxNesting /\ ~(MaxNesting < MaxNesting)
  BY <1>1
<1>8. Result(chain[MaxNesting], MaxNesting - 1, includeGroups).ok
  BY <1>4, <1>6
<1> QED
  BY <1>4, <1>7, <1>8, NoneIsNoGroup, ResultOk DEF Ids

\* An exception, although everything is stored, has a chain of groups down to the limit.
ChainFrom(id, level) ==
  \E chain \in [level + 1 .. MaxNesting -> Groups] :
    /\ chain[level + 1] = id
    /\ \A n \in level + 2 .. MaxNesting : chain[n] \in ToSet(list[chain[n - 1]])

\* A chain from a member is one from its group.
LEMMA LongerChain ==
  ASSUME ListsOK, NEW level \in 0 .. MaxNesting, level + 1 < MaxNesting,
         NEW g \in Groups, NEW k \in DOMAIN list[g], ChainFrom(list[g][k], level + 1)
  PROVE  ChainFrom(g, level)
<1>1. PICK chain \in [(level + 1) + 1 .. MaxNesting -> Groups] :
        /\ chain[(level + 1) + 1] = list[g][k]
        /\ \A n \in (level + 1) + 2 .. MaxNesting : chain[n] \in ToSet(list[chain[n - 1]])
  BY DEF ChainFrom
<1> DEFINE longer == [n \in level + 1 .. MaxNesting |-> IF n = level + 1 THEN g ELSE chain[n]]
<1>2. MaxNesting \in Nat /\ level \in Nat /\ level + 1 \in level + 1 .. MaxNesting
  BY SerializationAssumption
<1>3. ASSUME NEW n \in level + 1 .. MaxNesting, n # level + 1
      PROVE  n \in (level + 1) + 1 .. MaxNesting /\ longer[n] = chain[n]
  BY <1>2, <1>3
<1>4. longer \in [level + 1 .. MaxNesting -> Groups] /\ longer[level + 1] = g
  BY <1>2, <1>3
<1>5. ASSUME NEW n \in level + 2 .. MaxNesting
      PROVE  longer[n] \in ToSet(list[longer[n - 1]])
  <2>1. n \in level + 1 .. MaxNesting /\ n # level + 1 /\ n - 1 \in level + 1 .. MaxNesting
    BY <1>2, <1>5
  <2>2. CASE n = (level + 1) + 1
    <3>1. longer[n] = list[g][k] /\ n - 1 = level + 1
      BY <1>1, <1>2, <1>3, <2>1, <2>2
    <3> HIDE DEF longer
    <3> QED
      BY <1>4, <3>1 DEF ToSet
  <2>3. CASE n # (level + 1) + 1
    <3>1. n \in (level + 1) + 2 .. MaxNesting /\ n - 1 # level + 1
      BY <1>2, <1>5, <2>3
    <3>2. longer[n] = chain[n] /\ longer[n - 1] = chain[n - 1]
      BY <1>3, <2>1, <3>1
    <3> HIDE DEF longer
    <3> QED
      BY <1>1, <3>1, <3>2
  <2> QED
    BY <2>2, <2>3
<1> HIDE DEF longer
<1> QED
  BY <1>4, <1>5 DEF ChainFrom

\* An exception, where everything that is reached is stored.
LEMMA ExceptionHasChain ==
  ASSUME ListsOK, NEW includeGroups \in BOOLEAN, NEW C, C \subseteq stored, ClosedUnder(C)
  PROVE  \A level \in 0 .. MaxNesting : \A id \in C \cup {None} :
           level < MaxNesting /\ ~Result(id, level, includeGroups).ok => ChainFrom(id, level)
<1> DEFINE S == {level \in 0 .. MaxNesting : \A id \in C \cup {None} :
                   level < MaxNesting /\ ~Result(id, level, includeGroups).ok =>
                     ChainFrom(id, level)}
<1>1. ASSUME NEW level \in 0 .. MaxNesting, level + 1 < MaxNesting => level + 1 \in S
      PROVE  level \in S
  <2> SUFFICES ASSUME NEW id \in C \cup {None}, level < MaxNesting,
                      ~Result(id, level, includeGroups).ok
               PROVE  ChainFrom(id, level)
    OBVIOUS
  <2>1. id \in Ids \cup {None} /\ id \in stored \cup {None}
    BY DEF ListsOK
  <2>2. id \in stored \cap Groups /\ id \in C
    BY <2>1, NoneIsNoGroup, ResultOk
  <2>3. CASE level + 1 < MaxNesting
    <3>1. PICK k \in DOMAIN list[id] : ~Result(list[id][k], level + 1, includeGroups).ok
      BY <2>1, <2>2, <2>3, ResultOk
    <3>2. list[id][k] \in C \cup {None}
      <4>1. list[id][k] \in ToSet(list[id])
        BY <3>1 DEF ToSet
      <4> QED
        BY <2>2, <4>1 DEF ClosedUnder, MembersOf
    <3>3. ChainFrom(list[id][k], level + 1)
      BY <1>1, <2>3, <3>1, <3>2
    <3> HIDE DEF S
    <3> QED
      BY <2>2, <2>3, <3>3, LongerChain
  <2>4. CASE ~(level + 1 < MaxNesting)
    <3>1. level + 1 = MaxNesting /\ level + 2 = MaxNesting + 1 /\ MaxNesting \in Nat
      BY <2>4, SerializationAssumption
    <3> DEFINE chain == [n \in level + 1 .. MaxNesting |-> id]
    <3>2. chain \in [level + 1 .. MaxNesting -> Groups] /\ chain[level + 1] = id
      BY <2>2, <3>1
    <3>3. level + 2 .. MaxNesting = {}
      BY <3>1
    <3> HIDE DEF chain
    <3> QED
      BY <3>2, <3>3 DEF ChainFrom
  <2> QED
    BY <2>3, <2>4
<1> HIDE DEF S
<1>2. \A level \in 0 .. MaxNesting : level \in S
  BY <1>1, EveryLevel
<1> QED
  BY <1>2 DEF S

\* There is an exception if something is missing or groups are nested too deep, and for
\* no other reason.
LEMMA NoException ==
  ASSUME ListsOK, NEW ids \in Seq(Ids \cup {None}), NEW includeGroups \in BOOLEAN
  PROVE  GetObjectVector(ids, includeGroups).ok <=> Closure(ids) \subseteq stored /\ ~TooDeep(ids)
<1>1. ASSUME Closure(ids) \subseteq stored, ~GetObjectVector(ids, includeGroups).ok
      PROVE  TooDeep(ids)
  <2>1. PICK k \in DOMAIN ids : ~Result(ids[k], 0, includeGroups).ok
    BY <1>1, ObjectsJoined
  <2>2. ids[k] \in Closure(ids) \cup {None}
    BY ClosureIsLeast DEF ToSet
  <2>3. 0 \in 0 .. MaxNesting /\ 0 < MaxNesting
    BY SerializationAssumption
  <2>4. ChainFrom(ids[k], 0)
    BY <1>1, <2>1, <2>2, <2>3, ClosureIsLeast, ExceptionHasChain
  <2>5. PICK chain \in [1 .. MaxNesting -> Groups] :
          /\ chain[1] = ids[k]
          /\ \A n \in 2 .. MaxNesting : chain[n] \in ToSet(list[chain[n - 1]])
    <3>1. 0 + 1 = 1 /\ 0 + 2 = 2
      OBVIOUS
    <3> QED
      BY <2>4, <3>1 DEF ChainFrom
  <2> QED
    BY <2>1, <2>5 DEF TooDeep, ToSet
<1> QED
  BY <1>1, NothingMissing, NotTooDeep

-----------------------------------------------------------------------------
(* What is retrieved *)

\* From a closed set nothing leads out of it.
LEMMA FoundInside ==
  ASSUME ListsOK, NEW C, ClosedUnder(C)
  PROVE  \A level \in 0 .. MaxNesting : \A id \in (Ids \cap C) \cup {None} :
           Result(id, level, TRUE).ok => ToSet(Result(id, level, TRUE).ids) \subseteq C
<1> DEFINE S == {level \in 0 .. MaxNesting : \A id \in (Ids \cap C) \cup {None} :
                   Result(id, level, TRUE).ok => ToSet(Result(id, level, TRUE).ids) \subseteq C}
<1>1. ASSUME NEW level \in 0 .. MaxNesting, level + 1 < MaxNesting => level + 1 \in S
      PROVE  level \in S
  <2> SUFFICES ASSUME NEW id \in (Ids \cap C) \cup {None}, Result(id, level, TRUE).ok
               PROVE  ToSet(Result(id, level, TRUE).ids) \subseteq C
    OBVIOUS
  <2>1. CASE id \notin Groups
    <3>1. ToSet(Result(id, level, TRUE).ids) = IF id = None THEN {} ELSE {id}
      BY <2>1, ResultElements
    <3> QED
      BY <3>1
  <2>2. CASE id \in Groups
    <3>1. /\ level + 1 < MaxNesting
          /\ \A k \in DOMAIN list[id] : Result(list[id][k], level + 1, TRUE).ok
      BY <2>2, NoneIsNoGroup, ResultOk
    <3>2. ASSUME NEW k \in DOMAIN list[id]
          PROVE  ToSet(Result(list[id][k], level + 1, TRUE).ids) \subseteq C
      <4>1. list[id][k] \in Ids \cup {None}
        BY <2>2, MembersAreIDs
      <4>2. list[id][k] \in ToSet(list[id])
        BY DEF ToSet
      <4>3. list[id][k] \in (Ids \cap C) \cup {None}
        BY <2>2, <4>1, <4>2, NoneIsNoGroup DEF ClosedUnder, MembersOf
      <4> QED
        BY <1>1, <3>1, <4>3
    <3> HIDE DEF S
    <3>3. MembersFound(id, level, TRUE) \subseteq C
      <4> SUFFICES ASSUME NEW x \in MembersFound(id, level, TRUE) PROVE x \in C
        OBVIOUS
      <4>1. PICK k \in DOMAIN list[id] : x \in ToSet(Result(list[id][k], level + 1, TRUE).ids)
        BY DEF MembersFound
      <4> QED
        BY <3>2, <4>1
    <3>4. ToSet(Result(id, level, TRUE).ids) =
            MembersFound(id, level, TRUE) \cup IF TRUE THEN {id} ELSE {}
      BY <2>2, ResultElements
    <3> QED
      BY <2>2, <3>3, <3>4, NoneIsNoGroup
  <2> QED
    BY <2>1, <2>2
<1> HIDE DEF S
<1>2. \A level \in 0 .. MaxNesting : level \in S
  BY <1>1, EveryLevel
<1> QED
  BY <1>2 DEF S

\* What is retrieved for an ID, with groups, has the ID and is closed.
LEMMA FoundClosed ==
  ASSUME ListsOK
  PROVE  \A level \in 0 .. MaxNesting : \A id \in Ids \cup {None} :
           Result(id, level, TRUE).ok =>
             LET found == ToSet(Result(id, level, TRUE).ids)
             IN id \in found \cup {None} /\ ClosedUnder(found)
<1> DEFINE Found(id, level) == ToSet(Result(id, level, TRUE).ids)
           S == {level \in 0 .. MaxNesting : \A id \in Ids \cup {None} :
                   Result(id, level, TRUE).ok =>
                     id \in Found(id, level) \cup {None} /\ ClosedUnder(Found(id, level))}
<1>1. ASSUME NEW level \in 0 .. MaxNesting, level + 1 < MaxNesting => level + 1 \in S
      PROVE  level \in S
  <2> SUFFICES ASSUME NEW id \in Ids \cup {None}, Result(id, level, TRUE).ok
               PROVE  id \in Found(id, level) \cup {None} /\ ClosedUnder(Found(id, level))
    OBVIOUS
  <2>1. CASE id \notin Groups
    <3>1. Found(id, level) = IF id = None THEN {} ELSE {id}
      BY <2>1, ResultElements
    <3>2. Found(id, level) \cap Groups = {}
      BY <2>1, <3>1
    <3>3. MembersOf(Found(id, level)) = {}
      BY <3>2 DEF MembersOf
    <3> QED
      BY <3>1, <3>3 DEF ClosedUnder
  <2>2. CASE id \in Groups
    <3>1. /\ level + 1 < MaxNesting
          /\ \A k \in DOMAIN list[id] : Result(list[id][k], level + 1, TRUE).ok
      BY <2>2, NoneIsNoGroup, ResultOk
    <3>2. ASSUME NEW k \in DOMAIN list[id]
          PROVE  /\ list[id][k] \in Found(list[id][k], level + 1) \cup {None}
                 /\ ClosedUnder(Found(list[id][k], level + 1))
      BY <1>1, <2>2, <3>1, MembersAreIDs
    <3> HIDE DEF S
    <3>3. Found(id, level) = MembersFound(id, level, TRUE) \cup {id}
      <4>1. Found(id, level) = MembersFound(id, level, TRUE) \cup IF TRUE THEN {id} ELSE {}
        BY <2>2, ResultElements
      <4> QED
        BY <4>1
    <3>4. ASSUME NEW k \in DOMAIN list[id]
          PROVE  Found(list[id][k], level + 1) \subseteq MembersFound(id, level, TRUE)
      BY DEF MembersFound
    <3>5. ASSUME NEW g \in Found(id, level) \cap Groups, NEW j \in DOMAIN list[g]
          PROVE  list[g][j] \in MembersFound(id, level, TRUE) \cup {None}
      <4>1. CASE g = id
        BY <3>2, <3>4, <3>5, <4>1
      <4>2. CASE g # id
        <5>1. PICK k \in DOMAIN list[id] : g \in Found(list[id][k], level + 1)
          BY <3>3, <3>5, <4>2 DEF MembersFound
        <5> HIDE DEF Found
        <5>2. list[g][j] \in MembersOf(Found(list[id][k], level + 1))
          <6>1. list[g][j] \in ToSet(list[g])
            BY <3>5 DEF ToSet
          <6> QED
            BY <3>5, <5>1, <6>1 DEF MembersOf
        <5> QED
          BY <3>2, <3>4, <5>2 DEF ClosedUnder
      <4> QED
        BY <4>1, <4>2
    <3>6. ClosedUnder(Found(id, level))
      <4> HIDE DEF Found
      <4> SUFFICES ASSUME NEW x \in MembersOf(Found(id, level))
                   PROVE  x \in Found(id, level) \cup {None}
        BY DEF ClosedUnder
      <4>1. PICK g \in Found(id, level) \cap Groups : x \in ToSet(list[g])
        BY DEF MembersOf
      <4>2. PICK j \in DOMAIN list[g] : x = list[g][j]
        BY <4>1 DEF ToSet
      <4> QED
        BY <3>3, <3>5, <4>1, <4>2
    <3> QED
      BY <3>3, <3>6
  <2> QED
    BY <2>1, <2>2
<1> HIDE DEF S
<1>2. \A level \in 0 .. MaxNesting : level \in S
  BY <1>1, EveryLevel
<1> QED
  BY <1>2 DEF S

\* What is retrieved is everything that the list stands for, but for the groups if they
\* are left out.
LEMMA RetrievedIsClosure ==
  ASSUME ListsOK, NEW ids \in Seq(Ids \cup {None}), NEW includeGroups \in BOOLEAN,
         GetObjectVector(ids, includeGroups).ok
  PROVE  ToSet(GetObjectVector(ids, includeGroups).ids) =
           IF includeGroups THEN Closure(ids) ELSE Closure(ids) \ Groups
<1>1. /\ 0 \in 0 .. MaxNesting
      /\ \A k \in DOMAIN ids : ids[k] \in Ids \cup {None}
  BY SerializationAssumption
<1>2. \A k \in DOMAIN ids : Result(ids[k], 0, includeGroups).ok
  BY ObjectsJoined
<1>3. \A k \in DOMAIN ids : Result(ids[k], 0, TRUE).ok
  BY <1>1, <1>2, GroupsLeftOut
<1> DEFINE Found(k, b) == ToSet(Result(ids[k], 0, b).ids)
<1>4. PICK all : all = UNION {Found(k, TRUE) : k \in DOMAIN ids}
  OBVIOUS
<1>5. ASSUME NEW k \in DOMAIN ids
      PROVE  /\ ids[k] \in Found(k, TRUE) \cup {None} /\ ClosedUnder(Found(k, TRUE))
             /\ Found(k, FALSE) = Found(k, TRUE) \ Groups
  BY <1>1, <1>3, FoundClosed, GroupsLeftOut
<1>6. all \subseteq Closure(ids)
  <2> SUFFICES ASSUME NEW k \in DOMAIN ids PROVE Found(k, TRUE) \subseteq Closure(ids)
    BY <1>4
  <2>1. ids[k] \in (Ids \cap Closure(ids)) \cup {None}
    BY <1>1, ClosureIsLeast DEF ToSet
  <2>2. \A id \in (Ids \cap Closure(ids)) \cup {None} :
          Result(id, 0, TRUE).ok => ToSet(Result(id, 0, TRUE).ids) \subseteq Closure(ids)
    BY <1>1, ClosureIsLeast, FoundInside
  <2>3. Result(ids[k], 0, TRUE).ok
    BY <1>3
  <2>4. PICK id : id = ids[k]
    OBVIOUS
  <2>5. ToSet(Result(id, 0, TRUE).ids) \subseteq Closure(ids)
    BY <2>1, <2>2, <2>3, <2>4
  <2> QED
    BY <2>4, <2>5
<1>7. Closure(ids) \subseteq all
  <2>1. ToSet(ids) \subseteq all \cup {None}
    <3> SUFFICES ASSUME NEW k \in DOMAIN ids PROVE ids[k] \in all \cup {None}
      BY DEF ToSet
    <3>1. Found(k, TRUE) \subseteq all
      BY <1>4
    <3> HIDE DEF Found
    <3> QED
      BY <1>5, <3>1
  <2>2. ClosedUnder(all)
    <3> SUFFICES ASSUME NEW g \in all \cap Groups, NEW x \in ToSet(list[g])
                 PROVE  x \in all \cup {None}
      BY DEF ClosedUnder, MembersOf
    <3>1. PICK k \in DOMAIN ids : g \in Found(k, TRUE)
      BY <1>4
    <3>2. x \in MembersOf(Found(k, TRUE))
      BY <3>1 DEF MembersOf
    <3>3. Found(k, TRUE) \subseteq all
      BY <1>4
    <3> HIDE DEF Found
    <3> QED
      BY <1>5, <3>2, <3>3 DEF ClosedUnder
  <2> QED
    BY <2>1, <2>2, ClosureIsLeast
<1>8. ToSet(GetObjectVector(ids, includeGroups).ids) =
        UNION {Found(k, includeGroups) : k \in DOMAIN ids}
  BY ObjectsJoined
<1>9. CASE includeGroups
  <2>1. includeGroups = TRUE
    BY <1>9
  <2> HIDE DEF Found
  <2> QED
    BY <1>4, <1>6, <1>7, <1>8, <2>1
<1>10. CASE ~includeGroups
  <2>1. includeGroups = FALSE
    BY <1>10
  <2> HIDE DEF Found
  <2>2. PICK f, g : /\ f = [k \in DOMAIN ids |-> Found(k, FALSE)]
                    /\ g = [k \in DOMAIN ids |-> Found(k, TRUE)]
    OBVIOUS
  <2>3. \A k \in DOMAIN ids : f[k] = g[k] \ Groups
    BY <1>5, <2>2
  <2>4. UNION {f[k] : k \in DOMAIN ids} = (UNION {g[k] : k \in DOMAIN ids}) \ Groups
    BY <2>3, UnionWithout
  <2>5. ToSet(GetObjectVector(ids, FALSE).ids) = all \ Groups
    BY <1>4, <1>8, <2>1, <2>2, <2>4
  <2> QED
    BY <1>6, <1>7, <2>1, <2>5
<1> QED
  BY <1>9, <1>10

-----------------------------------------------------------------------------
(* Members come before their groups *)

\* Lists in which each group comes after its members.
MembersFirst ==
  {s \in Seq(stored) : \A n \in DOMAIN s : s[n] \in Groups =>
     \A id \in ToSet(list[s[n]]) \ {None} : \E j \in 1 .. n - 1 : s[j] = id}

\* Two such lists one after the other.
LEMMA MembersFirstJoined ==
  /\ <<>> \in MembersFirst
  /\ \A s, t \in MembersFirst : s \o t \in MembersFirst
<1>1. <<>> \in MembersFirst
  BY DEF MembersFirst
<1>2. ASSUME NEW s \in MembersFirst, NEW t \in MembersFirst
      PROVE  s \o t \in MembersFirst
  <2>1. /\ Len(s) \in Nat /\ Len(t) \in Nat /\ s \o t \in Seq(stored)
        /\ DOMAIN s = 1 .. Len(s) /\ DOMAIN t = 1 .. Len(t)
        /\ DOMAIN (s \o t) = 1 .. Len(s) + Len(t)
        /\ \A i \in 1 .. Len(s) : (s \o t)[i] = s[i]
        /\ \A i \in 1 .. Len(t) : (s \o t)[Len(s) + i] = t[i]
    BY ConcatProperties DEF MembersFirst
  <2>2. PICK st : st = s \o t
    OBVIOUS
  <2>3. ASSUME NEW n \in 1 .. Len(s) + Len(t), st[n] \in Groups,
               NEW id \in ToSet(list[st[n]]) \ {None}
        PROVE  \E j \in 1 .. n - 1 : st[j] = id
    <3>1. CASE n \in 1 .. Len(s)
      <4>1. st[n] = s[n]
        BY <2>1, <2>2, <3>1
      <4>2. PICK j \in 1 .. n - 1 : s[j] = id
        BY <2>1, <2>3, <3>1, <4>1 DEF MembersFirst
      <4>3. j \in 1 .. Len(s)
        BY <2>1, <3>1
      <4> QED
        BY <2>1, <2>2, <4>2, <4>3
    <3>2. CASE n \notin 1 .. Len(s)
      <4>1. n - Len(s) \in 1 .. Len(t) /\ n = Len(s) + (n - Len(s))
        BY <2>1, <3>2
      <4>2. st[n] = t[n - Len(s)]
        BY <2>1, <2>2, <4>1
      <4>3. PICK j \in 1 .. (n - Len(s)) - 1 : t[j] = id
        BY <2>1, <2>3, <4>1, <4>2 DEF MembersFirst
      <4>4. j \in 1 .. Len(t) /\ Len(s) + j \in 1 .. n - 1
        BY <2>1, <4>1
      <4>5. st[Len(s) + j] = id
        BY <2>1, <2>2, <4>3, <4>4
      <4> QED
        BY <4>4, <4>5
    <3> QED
      BY <3>1, <3>2
  <2>4. st \in MembersFirst
    BY <2>1, <2>2, <2>3 DEF MembersFirst
  <2> QED
    BY <2>2, <2>4
<1> QED
  BY <1>1, <1>2

\* What is retrieved for an ID is in order at every level.
LEMMA FoundInOrder ==
  ASSUME ListsOK, NEW includeGroups \in BOOLEAN
  PROVE  \A level \in 0 .. MaxNesting : \A id \in Ids \cup {None} :
           Result(id, level, includeGroups).ok =>
             Result(id, level, includeGroups).ids \in MembersFirst
<1> DEFINE S == {level \in 0 .. MaxNesting : \A id \in Ids \cup {None} :
                   Result(id, level, includeGroups).ok =>
                     Result(id, level, includeGroups).ids \in MembersFirst}
<1>1. ASSUME NEW level \in 0 .. MaxNesting, level + 1 < MaxNesting => level + 1 \in S
      PROVE  level \in S
  <2> SUFFICES ASSUME NEW id \in Ids \cup {None}, Result(id, level, includeGroups).ok
               PROVE  Result(id, level, includeGroups).ids \in MembersFirst
    OBVIOUS
  <2> DEFINE result == Result(id, level, includeGroups)
  <2>1. CASE id = None
    <3>1. result = [ok |-> TRUE, ids |-> <<>>]
      BY <2>1, ResultOf
    <3>2. result.ids = <<>>
      BY <3>1
    <3> QED
      BY <3>2, MembersFirstJoined
  <2>2. CASE id # None /\ id \notin Groups
    <3>1. id \in stored \ Groups
      BY <2>2, ResultOk
    <3>2. result = [ok |-> TRUE, ids |-> <<id>>]
      BY <2>2, <3>1, ResultOf
    <3>3. result.ids = <<id>>
      BY <3>2
    <3>4. <<id>> \in MembersFirst
      BY <3>1 DEF MembersFirst
    <3> QED
      BY <3>3, <3>4
  <2>3. CASE id \in Groups
    <3> DEFINE members == Concatenated(Results(list[id], level + 1, includeGroups))
    <3>1. /\ id \in stored \cap Groups /\ level + 1 < MaxNesting
          /\ \A k \in DOMAIN list[id] : Result(list[id][k], level + 1, includeGroups).ok
      BY <2>3, NoneIsNoGroup, ResultOk
    <3>2. \A k \in DOMAIN list[id] :
            Result(list[id][k], level + 1, includeGroups).ids \in MembersFirst
      BY <1>1, <2>3, <3>1, MembersAreIDs
    <3> HIDE DEF S
    <3>3. /\ result.ok = members.ok
          /\ result.ids = IF includeGroups /\ members.ok THEN Append(members.ids, id)
                          ELSE members.ids
      BY <3>1, ResultOf
    <3>4. members.ok /\ members.ids \in MembersFirst
      <4>1. members.ok
        BY <3>3
      <4> QED
        BY <3>1, <3>2, <4>1, MembersJoined, MembersFirstJoined
    <3>5. ToSet(members.ids) = MembersFound(id, level, includeGroups)
      BY <3>1, <3>4, MembersJoined DEF MembersFound
    <3> HIDE DEF members
    <3>6. CASE includeGroups
      <4>1. ASSUME NEW x \in ToSet(list[id]) \ {None}
            PROVE  x \in ToSet(members.ids)
        <5>1. PICK k \in DOMAIN list[id] : x = list[id][k]
          BY DEF ToSet
        <5>2. includeGroups = TRUE /\ level + 1 \in 0 .. MaxNesting /\ x \in Ids \cup {None}
          BY <2>3, <3>1, <3>6, <5>1, MembersAreIDs, SerializationAssumption
        <5>3. x \in ToSet(Result(list[id][k], level + 1, includeGroups).ids)
          BY <3>1, <5>1, <5>2, FoundClosed
        <5> QED
          BY <3>5, <5>3 DEF MembersFound
      <4>2. PICK ids : ids = members.ids
        OBVIOUS
      <4>3. /\ ids \in MembersFirst /\ ids \in Seq(stored)
            /\ Len(ids) \in Nat /\ DOMAIN ids = 1 .. Len(ids)
        <5>1. ids \in MembersFirst
          BY <3>4, <4>2
        <5>2. ids \in Seq(stored)
          BY <5>1 DEF MembersFirst
        <5> QED
          BY <5>1, <5>2, LenProperties
      <4>4. PICK more : more = Append(ids, id)
        OBVIOUS
      <4>5. /\ more \in Seq(stored) /\ DOMAIN more = 1 .. Len(ids) + 1
            /\ more[Len(ids) + 1] = id /\ \A n \in 1 .. Len(ids) : more[n] = ids[n]
        BY <3>1, <4>3, <4>4, AppendProperties
      <4>6. ASSUME NEW n \in DOMAIN more, more[n] \in Groups,
                   NEW x \in ToSet(list[more[n]]) \ {None}
            PROVE  \E j \in 1 .. n - 1 : more[j] = x
        <5>1. CASE n \in 1 .. Len(ids)
          <6>1. PICK j \in 1 .. n - 1 : ids[j] = x
            BY <4>3, <4>5, <4>6, <5>1 DEF MembersFirst
          <6>2. j \in 1 .. Len(ids)
            BY <4>3, <5>1
          <6> QED
            BY <4>5, <6>1, <6>2
        <5>2. CASE n \notin 1 .. Len(ids)
          <6>1. n = Len(ids) + 1 /\ n - 1 = Len(ids)
            BY <4>3, <4>5, <5>2
          <6>2. PICK j \in DOMAIN ids : ids[j] = x
            BY <4>1, <4>2, <4>5, <4>6, <6>1 DEF ToSet
          <6> QED
            BY <4>3, <4>5, <6>1, <6>2
        <5> QED
          BY <5>1, <5>2
      <4>7. more \in MembersFirst
        BY <4>5, <4>6 DEF MembersFirst
      <4>8. result.ids = more
        BY <3>3, <3>4, <3>6, <4>2, <4>4
      <4> QED
        BY <4>7, <4>8
    <3>7. CASE ~includeGroups
      BY <3>3, <3>4, <3>7
    <3> QED
      BY <3>6, <3>7
  <2> QED
    BY <2>1, <2>2, <2>3
<1> HIDE DEF S
<1>2. \A level \in 0 .. MaxNesting : level \in S
  BY <1>1, EveryLevel
<1> QED
  BY <1>2 DEF S

\* What is retrieved for a list is in order.
LEMMA RetrievedInOrder ==
  ASSUME ListsOK, NEW ids \in Seq(Ids \cup {None}), NEW includeGroups \in BOOLEAN,
         GetObjectVector(ids, includeGroups).ok
  PROVE  GetObjectVector(ids, includeGroups).ids \in MembersFirst
<1>1. /\ 0 \in 0 .. MaxNesting
      /\ \A k \in DOMAIN ids : ids[k] \in Ids \cup {None}
  BY SerializationAssumption
<1>2. \A k \in DOMAIN ids : Result(ids[k], 0, includeGroups).ok
  BY ObjectsJoined
<1>3. \A k \in DOMAIN ids : Result(ids[k], 0, includeGroups).ids \in MembersFirst
  BY <1>1, <1>2, FoundInOrder
<1> QED
  BY <1>3, MembersFirstJoined, ObjectsJoined

-----------------------------------------------------------------------------
(* Each object once, at its first place *)

\* How many of the numbers in S there are up to k.
Rank(S, k) == Cardinality({j \in S : j <= k})

\* A greater number of the set has a greater rank.
LEMMA RankGrows ==
  ASSUME NEW S \in SUBSET Nat, IsFiniteSet(S), NEW a \in S, NEW b \in S, a < b
  PROVE  Rank(S, a) < Rank(S, b)
<1> DEFINE A == {j \in S : j <= a}
           B == {j \in S : j <= b}
<1>0. a \in Nat /\ b \in Nat /\ \A j \in S : j \in Nat
  OBVIOUS
<1>1. A \in SUBSET B /\ B \in SUBSET S /\ b \in B /\ b \notin A
  <2>1. \A j \in S : j <= a => j <= b
    BY <1>0
  <2>2. b <= b /\ ~(b <= a)
    BY <1>0
  <2> QED
    BY <2>1, <2>2
<1>2. IsFiniteSet(B)
  BY <1>1, FS_Subset
<1>3. /\ IsFiniteSet(A) /\ Cardinality(A) <= Cardinality(B)
      /\ Cardinality(A) # Cardinality(B)
  BY <1>1, <1>2, FS_Subset
<1>4. Cardinality(A) \in Nat /\ Cardinality(B) \in Nat
  BY <1>2, <1>3, FS_CardinalityType
<1> HIDE DEF A, B
<1>5. Cardinality(A) < Cardinality(B)
  BY <1>3, <1>4
<1> QED
  BY <1>5 DEF Rank, A, B

\* A finite set of numbers has one of each rank.
LEMMA NthHasRank ==
  ASSUME NEW S \in SUBSET Nat, IsFiniteSet(S)
  PROVE  /\ \A n \in 1 .. Cardinality(S) : Nth(S, n) \in S /\ Rank(S, Nth(S, n)) = n
         /\ \A k \in S : Rank(S, k) \in 1 .. Cardinality(S) /\ Nth(S, Rank(S, k)) = k
         /\ \A j, k \in S : j < k <=> Rank(S, j) < Rank(S, k)
<1> DEFINE N == Cardinality(S)
           rank == [k \in S |-> Rank(S, k)]
<1>1. N \in Nat /\ IsFiniteSet(1 .. N) /\ Cardinality(1 .. N) = N
  <2>1. N \in Nat
    BY FS_CardinalityType
  <2> HIDE DEF N
  <2>2. IsFiniteSet(1 .. N) /\ Cardinality(1 .. N) = IF 1 > N THEN 0 ELSE N - 1 + 1
    BY <2>1, FS_Interval
  <2> QED
    BY <2>1, <2>2
<1>2. ASSUME NEW k \in S PROVE Rank(S, k) \in 1 .. N
  <2> DEFINE K == {j \in S : j <= k}
  <2>1. K \in SUBSET S /\ k \in K
    OBVIOUS
  <2>2. IsFiniteSet(K) /\ Cardinality(K) <= N
    BY <2>1, FS_Subset
  <2>3. Cardinality(K) \in Nat /\ Cardinality(K) # 0
    BY <2>1, <2>2, FS_CardinalityType, FS_EmptySet
  <2> HIDE DEF K, N
  <2>4. Cardinality(K) \in 1 .. N
    BY <1>1, <2>2, <2>3
  <2> QED
    BY <2>4 DEF Rank, K
<1>3. ASSUME NEW j \in S, NEW k \in S
      PROVE  /\ j < k <=> Rank(S, j) < Rank(S, k)
             /\ j = k <=> Rank(S, j) = Rank(S, k)
  <2>1. Rank(S, j) \in Nat /\ Rank(S, k) \in Nat
    BY <1>1, <1>2
  <2>2. j < k \/ j = k \/ k < j
    OBVIOUS
  <2>3. /\ j < k => Rank(S, j) < Rank(S, k)
        /\ k < j => Rank(S, k) < Rank(S, j)
    BY RankGrows
  <2> QED
    BY <2>1, <2>2, <2>3
<1>4. rank \in Injection(S, 1 .. N)
  <2>1. rank \in [S -> 1 .. N]
    BY <1>2
  <2>2. \A j, k \in S : rank[j] = rank[k] => j = k
    BY <1>3
  <2> HIDE DEF rank, N
  <2> QED
    BY <2>1, <2>2 DEF Injection, IsInjective
<1> HIDE DEF N
<1>5. rank \in Surjection(S, 1 .. N)
  <2> HIDE DEF rank
  <2>1. Cardinality(S) = Cardinality(1 .. N) <=> rank \in Surjection(S, 1 .. N)
    BY <1>1, <1>4, FS_Injection
  <2> QED
    BY <1>1, <2>1 DEF N
<1>6. ASSUME NEW n \in 1 .. N
      PROVE  Nth(S, n) \in S /\ Rank(S, Nth(S, n)) = n
  <2>1. \E k \in S : rank[k] = n
    <3> HIDE DEF rank
    <3> QED
      BY <1>5 DEF Surjection
  <2>2. \E k \in S : Rank(S, k) = n
    BY <2>1
  <2>3. Nth(S, n) = CHOOSE k \in S : Rank(S, k) = n
    BY DEF Nth, Rank
  <2> QED
    BY <2>2, <2>3
<1>7. ASSUME NEW k \in S PROVE Nth(S, Rank(S, k)) = k
  BY <1>2, <1>3, <1>6
<1> QED
  BY <1>2, <1>3, <1>6, <1>7 DEF N

\* The places that saveObjectStream keeps.
Kept(ids) == {k \in DOMAIN ids : ~Seen(ids, k)}

\* They are finitely many.
LEMMA KeptFinite ==
  ASSUME NEW S, NEW ids \in Seq(S)
  PROVE  Kept(ids) \in SUBSET Nat /\ IsFiniteSet(Kept(ids))
<1>1. Len(ids) \in Nat /\ DOMAIN ids = 1 .. Len(ids)
  OBVIOUS
<1>2. IsFiniteSet(1 .. Len(ids)) /\ Kept(ids) \in SUBSET (1 .. Len(ids))
  BY <1>1, FS_Interval DEF Kept
<1> QED
  BY <1>1, <1>2, FS_Subset

\* The first place of each object is kept.
LEMMA FirstPlace ==
  ASSUME NEW S, NEW ids \in Seq(S), NEW j \in DOMAIN ids
  PROVE  \E k \in Kept(ids) : k <= j /\ ids[k] = ids[j]
<1> DEFINE T == {k \in DOMAIN ids : k <= j /\ ids[k] = ids[j]}
<1>1. Len(ids) \in Nat /\ DOMAIN ids = 1 .. Len(ids)
  OBVIOUS
<1>2. T \subseteq Nat /\ j \in T
  BY <1>1
<1>3. PICK k \in T : \A i \in T : ~(<<i, k>> \in OpToRel(<, Nat))
  <2> HIDE DEF T
  <2> QED
    BY <1>2, NatLessThanWellFounded, WFMin
<1>4. \A i \in T : ~(i < k)
  BY <1>2, <1>3 DEF OpToRel
<1>5. ~Seen(ids, k)
  BY <1>1, <1>4 DEF Seen
<1> QED
  BY <1>5 DEF Kept

\* What saveObjectStream writes: each of the objects once, in the order of their first
\* places.
LEMMA SavedOnce ==
  ASSUME NEW S, NEW ids \in Seq(S)
  PROVE  LET saved == SavedAs(ids)
         IN /\ DOMAIN saved = 1 .. Cardinality(Kept(ids))
            /\ \A n \in DOMAIN saved : /\ Nth(Kept(ids), n) \in Kept(ids)
                                       /\ Rank(Kept(ids), Nth(Kept(ids), n)) = n
                                       /\ saved[n] = ItemOf(ids[Nth(Kept(ids), n)])
            /\ \A j \in DOMAIN ids :
                 \E n \in DOMAIN saved : Nth(Kept(ids), n) <= j /\ saved[n] = ItemOf(ids[j])
<1> DEFINE kept == Kept(ids)
           saved == SavedAs(ids)
<1>1. /\ DOMAIN saved = 1 .. Cardinality(kept)
      /\ \A n \in DOMAIN saved : saved[n] = ItemOf(ids[Nth(kept, n)])
  BY DEF SavedAs, Kept
<1>2. kept \in SUBSET Nat /\ IsFiniteSet(kept)
  BY KeptFinite
<1> HIDE DEF kept, saved
<1>3. \A n \in DOMAIN saved : Nth(kept, n) \in kept /\ Rank(kept, Nth(kept, n)) = n
  BY <1>1, <1>2, NthHasRank
<1>4. ASSUME NEW j \in DOMAIN ids
      PROVE  \E n \in DOMAIN saved : Nth(kept, n) <= j /\ saved[n] = ItemOf(ids[j])
  <2>1. PICK k \in kept : k <= j /\ ids[k] = ids[j]
    BY FirstPlace DEF kept
  <2>2. Rank(kept, k) \in DOMAIN saved /\ Nth(kept, Rank(kept, k)) = k
    BY <1>1, <1>2, NthHasRank
  <2> QED
    BY <1>1, <2>1, <2>2
<1> QED
  BY <1>1, <1>3, <1>4 DEF kept, saved

\* The ID and the list of an item.
LEMMA ItemFields ==
  ASSUME NEW id
  PROVE  /\ ItemOf(id).id = id
         /\ ItemOf(id).list = IF id \in Groups THEN list[id] ELSE <<>>
BY DEF ItemOf

\* No two of the items have the same ID.
LEMMA SavedDistinct ==
  ASSUME NEW S, NEW ids \in Seq(S)
  PROVE  \A m, n \in DOMAIN SavedAs(ids) : m # n => SavedAs(ids)[m].id # SavedAs(ids)[n].id
<1> DEFINE kept == Kept(ids)
           saved == SavedAs(ids)
<1>1. \A n \in DOMAIN saved : /\ Nth(kept, n) \in kept /\ Rank(kept, Nth(kept, n)) = n
                              /\ saved[n].id = ids[Nth(kept, n)]
  BY SavedOnce, ItemFields
<1>2. kept \in SUBSET Nat
  BY KeptFinite
<1>3. ASSUME NEW j \in kept, NEW k \in kept, ids[j] = ids[k]
      PROVE  j = k
  <2>1. j \in Nat /\ k \in Nat /\ ~Seen(ids, j) /\ ~Seen(ids, k)
    BY <1>2 DEF Kept
  <2>2. j >= 1 /\ k >= 1
    BY DEF Kept
  <2> HIDE DEF kept
  <2>3. ~(j < k) /\ ~(k < j)
    BY <1>3, <2>1, <2>2 DEF Seen
  <2> QED
    BY <2>1, <2>3
<1> HIDE DEF kept, saved
<1>4. \A m, n \in DOMAIN saved : m # n => saved[m].id # saved[n].id
  BY <1>1, <1>3
<1> QED
  BY <1>4 DEF saved

\* Every ID is saved once, and in a list of members and groups each group after its members.
LEMMA SavedWhole ==
  ASSUME NEW ids \in MembersFirst
  PROVE  LET saved == SavedAs(ids)
             Place(id) == CHOOSE n \in DOMAIN saved : saved[n].id = id
         IN /\ {saved[n].id : n \in DOMAIN saved} = ToSet(ids)
            /\ \A n \in DOMAIN saved : \A id \in ToSet(saved[n].list) \ {None} :
                 Place(id) < n
<1> DEFINE kept == Kept(ids)
           saved == SavedAs(ids)
           Place(id) == CHOOSE n \in DOMAIN saved : saved[n].id = id
<1>1. ids \in Seq(stored)
  BY DEF MembersFirst
<1>2. /\ DOMAIN saved = 1 .. Cardinality(kept)
      /\ \A n \in DOMAIN saved : /\ Nth(kept, n) \in kept /\ Rank(kept, Nth(kept, n)) = n
                                 /\ saved[n] = ItemOf(ids[Nth(kept, n)])
      /\ \A j \in DOMAIN ids :
           \E n \in DOMAIN saved : Nth(kept, n) <= j /\ saved[n] = ItemOf(ids[j])
  BY <1>1, SavedOnce
<1>3. \A m, n \in DOMAIN saved : m # n => saved[m].id # saved[n].id
  BY <1>1, SavedDistinct
<1>4. /\ kept \in SUBSET Nat /\ IsFiniteSet(kept)
      /\ kept \subseteq DOMAIN ids /\ DOMAIN ids = 1 .. Len(ids) /\ Len(ids) \in Nat
  <2>1. kept \in SUBSET Nat /\ IsFiniteSet(kept)
    BY <1>1, KeptFinite
  <2>2. kept \subseteq DOMAIN ids
    BY DEF Kept
  <2>3. DOMAIN ids = 1 .. Len(ids) /\ Len(ids) \in Nat
    BY <1>1
  <2> QED
    BY <2>1, <2>2, <2>3
<1> HIDE DEF kept, saved
<1>5. {saved[n].id : n \in DOMAIN saved} = ToSet(ids)
  <2>1. ASSUME NEW n \in DOMAIN saved PROVE saved[n].id \in ToSet(ids)
    <3>1. PICK k \in DOMAIN ids : saved[n] = ItemOf(ids[k])
      BY <1>2, <1>4
    <3>2. saved[n].id = ids[k]
      BY <3>1, ItemFields
    <3> QED
      BY <3>2 DEF ToSet
  <2>2. ASSUME NEW j \in DOMAIN ids PROVE \E n \in DOMAIN saved : saved[n].id = ids[j]
    BY <1>2, ItemFields
  <2> QED
    BY <2>1, <2>2 DEF ToSet
<1>6. ASSUME NEW n \in DOMAIN saved, NEW id \in ToSet(saved[n].list) \ {None}
      PROVE  Place(id) < n
  <2>1. PICK k : k = Nth(kept, n) /\ k \in kept /\ k \in 1 .. Len(ids)
    BY <1>2, <1>4
  <2>2. saved[n].list = IF ids[k] \in Groups THEN list[ids[k]] ELSE <<>>
    BY <1>2, <2>1, ItemFields
  <2>3. ids[k] \in Groups /\ id \in ToSet(list[ids[k]]) \ {None}
    <3>1. CASE ids[k] \in Groups
      BY <2>2, <3>1
    <3>2. CASE ids[k] \notin Groups
      <4>1. ToSet(saved[n].list) = {}
        BY <2>2, <3>2 DEF ToSet
      <4> QED
        BY <4>1
    <3> QED
      BY <3>1, <3>2
  <2>4. PICK j \in 1 .. k - 1 : ids[j] = id
    BY <1>4, <2>1, <2>3 DEF MembersFirst
  <2>5. j \in DOMAIN ids /\ j < k
    BY <1>4, <2>1
  <2>6. PICK m \in DOMAIN saved : Nth(kept, m) <= j /\ saved[m] = ItemOf(ids[j])
    BY <1>2, <2>5
  <2>7. Nth(kept, m) \in kept /\ Nth(kept, m) < k
    <3>1. Nth(kept, m) \in kept /\ Nth(kept, m) \in Nat
      BY <1>2, <1>4
    <3> QED
      BY <2>1, <2>5, <2>6, <3>1
  <2>8. m < n
    <3>1. Rank(kept, Nth(kept, m)) < Rank(kept, k)
      BY <1>4, <2>1, <2>7, NthHasRank
    <3> QED
      BY <1>2, <2>1, <3>1
  <2>9. saved[m].id = id
    BY <2>4, <2>6, ItemFields
  <2>10. Place(id) = m
    BY <1>3, <2>9
  <2> QED
    BY <2>8, <2>10
<1> QED
  BY <1>5, <1>6 DEF saved

-----------------------------------------------------------------------------
(* What saveObject writes *)

\* Whatever the lists of groups are, saveObject writes what its list stands for.
LEMMA ListsSave == ListsOK => SavesTheClosure
<1> SUFFICES ASSUME ListsOK, NEW ids \in SaveLists, NEW includeGroups \in BOOLEAN
             PROVE  LET objects == GetObjectVector(ids, includeGroups)
                        saved == SavedAs(objects.ids)
                        Place(id) == CHOOSE n \in DOMAIN saved : saved[n].id = id
                    IN /\ objects.ok <=> Closure(ids) \subseteq stored /\ ~TooDeep(ids)
                       /\ objects.ok =>
                            /\ {saved[n].id : n \in DOMAIN saved} =
                                 IF includeGroups THEN Closure(ids) ELSE Closure(ids) \ Groups
                            /\ \A m, n \in DOMAIN saved : m # n => saved[m].id # saved[n].id
                            /\ \A n \in DOMAIN saved : \A id \in ToSet(saved[n].list) \ {None} :
                                 Place(id) < n
  BY DEF SavesTheClosure
<1> DEFINE objects == GetObjectVector(ids, includeGroups)
           saved == SavedAs(objects.ids)
           Place(id) == CHOOSE n \in DOMAIN saved : saved[n].id = id
<1>1. ids \in Seq(Ids \cup {None})
  BY SerializationAssumption
<1>2. objects.ok <=> Closure(ids) \subseteq stored /\ ~TooDeep(ids)
  BY <1>1, NoException
<1>3. ASSUME objects.ok
      PROVE  /\ {saved[n].id : n \in DOMAIN saved} =
                  IF includeGroups THEN Closure(ids) ELSE Closure(ids) \ Groups
             /\ \A m, n \in DOMAIN saved : m # n => saved[m].id # saved[n].id
             /\ \A n \in DOMAIN saved : \A id \in ToSet(saved[n].list) \ {None} :
                  Place(id) < n
  <2>1. objects.ids \in MembersFirst
    BY <1>1, <1>3, RetrievedInOrder
  <2>2. objects.ids \in Seq(stored)
    BY <2>1 DEF MembersFirst
  <2>3. ToSet(objects.ids) = IF includeGroups THEN Closure(ids) ELSE Closure(ids) \ Groups
    BY <1>1, <1>3, RetrievedIsClosure
  <2>4. \A m, n \in DOMAIN saved : m # n => saved[m].id # saved[n].id
    BY <2>2, SavedDistinct
  <2>5. {saved[n].id : n \in DOMAIN saved} = ToSet(objects.ids)
    BY <2>1, SavedWhole
  <2>6. \A n \in DOMAIN saved : \A id \in ToSet(saved[n].list) \ {None} : Place(id) < n
    BY <2>1, SavedWhole
  <2> HIDE DEF objects, saved
  <2> QED
    BY <2>3, <2>4, <2>5, <2>6
<1> QED
  BY <1>2, <1>3

-----------------------------------------------------------------------------
(* Types *)

\* Items of objects that were stored: a group is stored with its list.
StoredItem == {item \in Item : item.id \in Groups => item.list # <<>>}

\* What is in files, and so comes from them, is of objects that were stored.
StoredOnly ==
  /\ files \in [Paths -> Seq(StoredItem) \cup {Cut, None}]
  /\ load # None => load.todo \in Seq(StoredItem \cup {Cut})

TypeInv == TypeOK /\ StoredOnly /\ LoadInv

\* The types that the proofs about lists need.
LEMMA TypesOfLists == TypeOK => ListsOK
<1>1. <<>> \in Seq(Ids \cup {None}) /\ GroupLists \subseteq Seq(Ids \cup {None})
  BY SerializationAssumption
<1> QED
  BY <1>1 DEF TypeOK, ListsOK

\* The part of TypeOK about the repository.
ObjectsOK ==
  /\ stored \subseteq Ids
  /\ dirty \subseteq stored \cap (Instruments \cup Engines)
  /\ list \in [Groups -> GroupLists \cup {<<>>}]
  /\ \A g \in Groups : g \in stored <=> list[g] # <<>>
  /\ engineID \in [Instruments -> Engines \cup {None}]
  /\ engine \in [Instruments -> Link \cup {None}]
  /\ \A i \in Instruments : engine[i] # None => engineID[i] = engine[i].id

\* The parts about files and the running load.
LoadOK ==
  load # None => /\ load.todo \in Seq(StoredItem \cup {Cut}) /\ load.done \in Seq(Item)
                 /\ load.overwrite \in BOOLEAN

\* The parts make up the types.
LEMMA TypeParts ==
  /\ ObjectsOK /\ files \in [Paths -> Seq(StoredItem) \cup {Cut, None}] /\ LoadOK =>
       TypeOK /\ StoredOnly
  /\ TypeOK /\ StoredOnly => ObjectsOK /\ LoadOK
<1>1. \A s \in Seq(StoredItem) : s \in Seq(Item)
  BY DEF StoredItem
<1>2. \A s \in Seq(StoredItem \cup {Cut}) : s \in Seq(Item \cup {Cut})
  BY DEF StoredItem
<1> QED
  BY <1>1, <1>2 DEF TypeOK, StoredOnly, ObjectsOK, LoadOK

\* At the start there is nothing.
LEMMA TypesInit == Init => TypeInv
<1> SUFFICES ASSUME Init PROVE TypeInv
  OBVIOUS
<1>1. ObjectsOK
  BY SerializationAssumption DEF Init, EmptyLists, NoEngines, ObjectsOK
<1>2. files \in [Paths -> Seq(StoredItem) \cup {Cut, None}] /\ LoadOK
  BY DEF Init, LoadOK
<1> QED
  BY <1>1, <1>2, LoadInvInit, TypeParts DEF TypeInv

\* Links, once engines are replaced or instruments lost theirs.
LEMMA OutdatedLinks ==
  ASSUME ObjectsOK, NEW S
  PROVE  /\ Outdated(S) \in [Instruments -> Link \cup {None}]
         /\ \A i \in Instruments : Outdated(S)[i] # None => engineID[i] = Outdated(S)[i].id
<1>1. engine \in [Instruments -> Link \cup {None}]
  BY DEF ObjectsOK
<1>2. Outdated(S) \in [Instruments -> Link \cup {None}]
  BY <1>1, OutdatedEngines
<1>3. ASSUME NEW i \in Instruments, Outdated(S)[i] # None
      PROVE  engineID[i] = Outdated(S)[i].id
  <2>1. engine[i] # None
    BY <1>1, <1>3, OutdatedEngines
  <2>2. Outdated(S)[i] = IF engine[i].id \in S THEN [id |-> engine[i].id, present |-> FALSE]
                         ELSE engine[i]
    BY <1>1, <2>1, OutdatedEngines
  <2>3. Outdated(S)[i].id = engine[i].id
    BY <2>2
  <2> QED
    BY <2>1, <2>3 DEF ObjectsOK
<1> QED
  BY <1>2, <1>3

\* An ID is that of one kind of object.
LEMMA KindsApart ==
  /\ \A g \in Groups : g \in Ids /\ g \notin Instruments /\ g \notin Engines
  /\ \A i \in Instruments : i \in Ids /\ i \notin Groups /\ i \notin Engines
  /\ \A e \in Engines : e \in Ids /\ e \notin Groups /\ e \notin Instruments
BY SerializationAssumption DEF Ids

\* A group is stored with a list.
LEMMA StoreGroupTypes ==
  ASSUME ObjectsOK, NEW g \in Groups, NEW ids \in GroupLists, StoreGroup(g, ids)
  PROVE  ObjectsOK'
<1>1. ids # <<>>
  BY SerializationAssumption
<1>2. /\ stored' = stored \cup {g} /\ dirty' = dirty \ {g}
      /\ list' = [list EXCEPT ![g] = ids] /\ engineID' = engineID /\ engine' = engine
  BY DEF StoreGroup, StoreObject
<1>3. /\ list' \in [Groups -> GroupLists \cup {<<>>}]
      /\ \A h \in Groups : h \in stored' <=> list'[h] # <<>>
  BY <1>1, <1>2 DEF ObjectsOK
<1> QED
  BY <1>2, <1>3, KindsApart DEF ObjectsOK

\* The instruments keep an engine that is stored again, and its ID.
LEMMA StoreEngineTypes ==
  ASSUME ObjectsOK, NEW e \in Engines, StoreEngine(e)
  PROVE  ObjectsOK'
<1>1. /\ stored' = stored \cup {e} /\ dirty' = dirty \ {e}
      /\ list' = list /\ engineID' = engineID /\ engine' = Outdated({e})
  BY DEF StoreEngine, StoreObject
<1>2. \A g \in Groups : g \in stored' <=> list'[g] # <<>>
  BY <1>1, KindsApart DEF ObjectsOK
<1> QED
  BY <1>1, <1>2, KindsApart, OutdatedLinks DEF ObjectsOK

\* An instrument is stored, with the engine that it has after that.
LEMMA InstrumentTypes ==
  ASSUME ObjectsOK, NEW i \in Instruments, NEW e \in Engines \cup {None}, NEW S,
         NEW link \in Link \cup {None}, link # None => e = link.id,
         stored' = stored \cup {i}, dirty' \subseteq dirty,
         list' = list, engineID' = [engineID EXCEPT ![i] = e],
         engine' = [Outdated(S) EXCEPT ![i] = link]
  PROVE  ObjectsOK'
<1>1. \A g \in Groups : g \in stored' <=> list'[g] # <<>>
  BY KindsApart DEF ObjectsOK
<1>2. /\ Outdated(S) \in [Instruments -> Link \cup {None}]
      /\ engineID \in [Instruments -> Engines \cup {None}]
  BY OutdatedLinks DEF ObjectsOK
<1>3. /\ engine' \in [Instruments -> Link \cup {None}]
      /\ engineID' \in [Instruments -> Engines \cup {None}]
  BY <1>2
<1>4. ASSUME NEW j \in Instruments, engine'[j] # None PROVE engineID'[j] = engine'[j].id
  <2>1. CASE j = i
    BY <1>2, <1>4, <2>1
  <2>2. CASE j # i
    <3>1. engine'[j] = Outdated(S)[j] /\ engineID'[j] = engineID[j]
      BY <1>2, <2>2
    <3> QED
      BY <1>4, <3>1, OutdatedLinks
  <2> QED
    BY <2>1, <2>2
<1> QED
  BY <1>1, <1>3, <1>4, KindsApart DEF ObjectsOK

\* No engine is replaced by none.
LEMMA NothingOutdated ==
  ASSUME ObjectsOK PROVE Outdated({}) = engine
BY DEF ObjectsOK, Outdated

\* A new instrument has no engine.
LEMMA StoreInstrumentTypes ==
  ASSUME ObjectsOK, NEW i \in Instruments, StoreInstrument(i)
  PROVE  ObjectsOK'
<1>1. /\ stored' = stored \cup {i} /\ dirty' \subseteq dirty /\ list' = list
      /\ engineID' = [engineID EXCEPT ![i] = None]
      /\ engine' = [Outdated({}) EXCEPT ![i] = None]
  BY NothingOutdated DEF StoreInstrument, StoreObject
<1> QED
  BY <1>1, InstrumentTypes

\* An engine that an instrument has just been given.
LEMMA PresentLink ==
  ASSUME NEW e \in Engines
  PROVE  [id |-> e, present |-> TRUE] \in Link /\ [id |-> e, present |-> TRUE].id = e
BY DEF Link

\* What clients do to the repository.
LEMMA ClientTypes ==
  ASSUME ObjectsOK, Client PROVE ObjectsOK'
<1>1. ASSUME NEW i \in Instruments, NEW e \in Engines, SetPricingEngine(i, e) PROVE ObjectsOK'
  <2>1. PICK link : link = [id |-> e, present |-> TRUE]
    OBVIOUS
  <2>2. link \in Link /\ link.id = e
    BY <2>1, PresentLink
  <2>3. /\ stored' = stored \cup {i} /\ dirty' \subseteq dirty /\ list' = list
        /\ engineID' = [engineID EXCEPT ![i] = e]
        /\ engine' = [Outdated({e} \cap dirty) EXCEPT ![i] = link]
    BY <1>1, <2>1 DEF SetPricingEngine
  <2> QED
    BY <2>2, <2>3, InstrumentTypes
<1>2. ASSUME NEW id, BecomeDirty(id) PROVE ObjectsOK'
  BY <1>2 DEF BecomeDirty, ObjectsOK
<1>3. ASSUME NEW id \in Ids, DeleteObject(id) PROVE ObjectsOK'
  <2>1. /\ stored' = stored \ {id} /\ dirty' = dirty \ {id}
        /\ list' = [g \in Groups |-> IF g = id THEN <<>> ELSE list[g]]
        /\ engineID' = [i \in Instruments |-> IF i = id THEN None ELSE engineID[i]]
        /\ engine' = [i \in Instruments |-> IF i = id THEN None ELSE Outdated({id})[i]]
    BY <1>3 DEF DeleteObject
  <2>2. /\ list' \in [Groups -> GroupLists \cup {<<>>}]
        /\ \A g \in Groups : g \in stored' <=> list'[g] # <<>>
    BY <2>1 DEF ObjectsOK
  <2>3. /\ engine' \in [Instruments -> Link \cup {None}]
        /\ engineID' \in [Instruments -> Engines \cup {None}]
    BY <2>1, OutdatedLinks DEF ObjectsOK
  <2>4. \A i \in Instruments : engine'[i] # None => engineID'[i] = engine'[i].id
    BY <2>1, OutdatedLinks
  <2>5. stored' \subseteq Ids /\ dirty' \subseteq stored' \cap (Instruments \cup Engines)
    BY <2>1 DEF ObjectsOK
  <2> QED
    BY <2>2, <2>3, <2>4, <2>5 DEF ObjectsOK
<1> QED
  BY <1>1, <1>2, <1>3, StoreGroupTypes, StoreEngineTypes, StoreInstrumentTypes DEF Client

\* An instrument that is recreated has no engine.
LEMMA RetrievedTypes ==
  ASSUME ObjectsOK, NEW S, Retrieved(S), UNCHANGED <<stored, list, engineID>>
  PROVE  ObjectsOK'
<1>1. /\ engine' = [i \in Instruments |-> IF i \in S \cap dirty THEN None
                                          ELSE Outdated(S \cap dirty)[i]]
      /\ dirty' = dirty \ S
  BY DEF Retrieved
<1>2. PICK D : D = S \cap dirty
  OBVIOUS
<1>3. engine' \in [Instruments -> Link \cup {None}]
  BY <1>1, <1>2, OutdatedLinks
<1>4. \A i \in Instruments : engine'[i] # None => engineID'[i] = engine'[i].id
  BY <1>1, <1>2, OutdatedLinks
<1> QED
  BY <1>1, <1>3, <1>4 DEF ObjectsOK

\* What saveObjectStream writes are items of objects that are stored.
LEMMA SavedTypes ==
  ASSUME ObjectsOK, NEW ids \in Seq(stored)
  PROVE  SavedAs(ids) \in Seq(StoredItem)
<1>1. ASSUME NEW id \in stored PROVE ItemOf(id) \in StoredItem
  <2>1. id \in Ids /\ (id \in Groups => list[id] \in GroupLists)
    BY DEF ObjectsOK
  <2>2. id \in Instruments => engineID[id] \in Engines \cup {None}
    BY DEF ObjectsOK
  <2>3. ItemOf(id) \in Item
    BY <2>1, <2>2 DEF ItemOf, Item
  <2>4. ItemOf(id).id \in Groups => ItemOf(id).list # <<>>
    BY <1>1, ItemFields DEF ObjectsOK
  <2> QED
    BY <2>3, <2>4 DEF StoredItem
<1>2. Cardinality(Kept(ids)) \in Nat /\ Kept(ids) \subseteq DOMAIN ids
  BY KeptFinite, FS_CardinalityType DEF Kept
<1>3. /\ DOMAIN SavedAs(ids) = 1 .. Cardinality(Kept(ids))
      /\ \A n \in DOMAIN SavedAs(ids) : \E id \in stored : SavedAs(ids)[n] = ItemOf(id)
  <2>1. \A n \in DOMAIN SavedAs(ids) :
          /\ Nth(Kept(ids), n) \in Kept(ids) /\ SavedAs(ids)[n] = ItemOf(ids[Nth(Kept(ids), n)])
    BY SavedOnce
  <2>2. \A k \in DOMAIN ids : ids[k] \in stored
    OBVIOUS
  <2> QED
    BY <1>2, <2>1, <2>2, SavedOnce
<1>4. SavedAs(ids) = [n \in DOMAIN SavedAs(ids) |-> SavedAs(ids)[n]]
  BY DEF SavedAs
<1>5. SavedAs(ids) \in [1 .. Cardinality(Kept(ids)) -> StoredItem]
  BY <1>1, <1>3, <1>4
<1> QED
  BY <1>2, <1>5

\* A save writes a file or fails to, and retrieves objects.
LEMMA SaveTypes ==
  ASSUME TypeInv, NEW path \in Paths, NEW ids \in SaveLists,
         NEW force, NEW includeGroups \in BOOLEAN,
         Save(path, ids, force, includeGroups)
  PROVE  ObjectsOK' /\ files' \in [Paths -> Seq(StoredItem) \cup {Cut, None}] /\ load' = None
<1> DEFINE objects == GetObjectVector(ids, includeGroups)
<1>1. ObjectsOK /\ files \in [Paths -> Seq(StoredItem) \cup {Cut, None}]
  BY TypeParts DEF TypeInv, StoredOnly
<1>2. objects.ids \in Seq(stored)
  <2>1. ids \in Seq(Ids \cup {None})
    BY SerializationAssumption
  <2>2. objects.ids \in Seq(Retrievable(includeGroups))
    BY <2>1, ObjectsJoined, TypesOfLists DEF TypeInv
  <2>3. Retrievable(includeGroups) \subseteq stored
    BY DEF Retrievable
  <2> HIDE DEF objects
  <2> QED
    BY <2>2, <2>3
<1>3. /\ Retrieved(ToSet(objects.ids))
      /\ \/ UNCHANGED files
         \/ \E written \in {SavedAs(objects.ids), Cut, None} :
              files' = [files EXCEPT ![path] = written]
      /\ UNCHANGED <<stored, list, engineID, load>> /\ load = None
  BY DEF Save, Idle
<1> HIDE DEF objects
<1>4. ObjectsOK'
  BY <1>1, <1>3, RetrievedTypes
<1>5. SavedAs(objects.ids) \in Seq(StoredItem)
  BY <1>1, <1>2, SavedTypes
<1> QED
  BY <1>1, <1>3, <1>4, <1>5

\* A load begins with the items of the files in their order.
LEMMA StartLoadTypes ==
  ASSUME TypeInv, NEW order \in Orders, NEW overwrite \in BOOLEAN, StartLoad(order, overwrite)
  PROVE  ObjectsOK' /\ files' \in [Paths -> Seq(StoredItem) \cup {Cut, None}] /\ LoadOK'
<1> DEFINE whole == [n \in DOMAIN order |->
                       IF files[order[n]] = Cut THEN <<Cut>> ELSE files[order[n]]]
<1>1. ObjectsOK /\ files \in [Paths -> Seq(StoredItem) \cup {Cut, None}]
  BY TypeParts DEF TypeInv, StoredOnly
<1>2. PICK P \in SUBSET {p \in Paths : files[p] # None} : order \in [1 .. Cardinality(P) -> P]
  BY DEF Orders
<1>3. Cardinality(P) \in Nat
  BY <1>2, FS_Subset, FS_CardinalityType, SerializationAssumption
<1>4. ASSUME NEW n \in 1 .. Cardinality(P)
      PROVE  whole[n] \in Seq(StoredItem \cup {Cut})
  <2>1. order[n] \in Paths /\ files[order[n]] # None /\ n \in DOMAIN order
    BY <1>2
  <2>2. files[order[n]] = Cut \/ files[order[n]] \in Seq(StoredItem)
    BY <1>1, <2>1
  <2>3. \A s \in Seq(StoredItem) : s \in Seq(StoredItem \cup {Cut})
    OBVIOUS
  <2>4. <<Cut>> \in Seq(StoredItem \cup {Cut})
    OBVIOUS
  <2> QED
    BY <2>1, <2>2, <2>3, <2>4
<1>5. whole \in Seq(Seq(StoredItem \cup {Cut}))
  <2>1. DOMAIN whole = 1 .. Cardinality(P) /\ whole = [n \in DOMAIN whole |-> whole[n]]
    BY <1>2
  <2> HIDE DEF whole
  <2>2. whole \in [1 .. Cardinality(P) -> Seq(StoredItem \cup {Cut})]
    BY <1>4, <2>1
  <2> QED
    BY <1>3, <2>2
<1>6. /\ load' = [overwrite |-> overwrite, done |-> <<>>, todo |-> FlattenSeq(whole)]
      /\ UNCHANGED <<objectVars, files>>
  BY DEF StartLoad
<1> HIDE DEF whole
<1>7. FlattenSeq(whole) \in Seq(StoredItem \cup {Cut})
  BY <1>5, FlattenElements
<1>8. /\ load'.todo \in Seq(StoredItem \cup {Cut}) /\ load'.done = <<>>
      /\ load'.overwrite = overwrite
  BY <1>6, <1>7
<1>9. LoadOK'
  BY <1>8 DEF LoadOK
<1>10. ObjectsOK'
  BY <1>1, <1>6 DEF ObjectsOK, objectVars
<1> QED
  BY <1>1, <1>6, <1>9, <1>10

-----------------------------------------------------------------------------
(* The types of a load *)

\* The item that is read next is that of an object that was stored.
LEMMA EntryTypes ==
  ASSUME TypeInv, Loading, ~Refused
  PROVE  /\ Entry \in StoredItem
         /\ Loaded => LoadOK'
<1>1. PICK f : f = Entry
  OBVIOUS
<1>2. /\ load # None /\ load.todo \in Seq(StoredItem \cup {Cut}) /\ load.todo # <<>>
      /\ load.done \in Seq(Item) /\ load.overwrite \in BOOLEAN
      /\ load = [overwrite |-> load.overwrite, done |-> load.done, todo |-> load.todo]
  BY TypeParts DEF TypeInv, LoadOK, StoredOnly, LoadInv, ShapeOK, Loading
<1>3. f \in StoredItem \cup {Cut} /\ f # Cut
  BY <1>1, <1>2 DEF Entry, Refused
<1>4. f \in Item
  BY <1>3 DEF StoredItem
<1>5. ASSUME Loaded PROVE LoadOK'
  <2>1. load' = [load EXCEPT !.todo = Tail(@), !.done = Append(@, f)]
    BY <1>1, <1>5 DEF Loaded
  <2>2. load' = [overwrite |-> load.overwrite, done |-> Append(load.done, f),
                 todo |-> Tail(load.todo)]
    BY <1>2, <2>1
  <2>3. load'.todo = Tail(load.todo) /\ load'.done = Append(load.done, f)
        /\ load'.overwrite = load.overwrite
    BY <2>2
  <2>4. Tail(load.todo) \in Seq(StoredItem \cup {Cut}) /\ Append(load.done, f) \in Seq(Item)
    BY <1>2, <1>4
  <2> QED
    BY <1>2, <2>3, <2>4 DEF LoadOK
<1> QED
  BY <1>1, <1>3, <1>5

\* An item is restored.
LEMMA LoadTypes ==
  ASSUME TypeInv, LoadGroup \/ LoadEngine \/ LoadInstrument \/ LoadUnpriced
  PROVE  ObjectsOK' /\ files' = files /\ LoadOK'
<1>1. PICK f : f = Entry
  OBVIOUS
<1>2. ObjectsOK
  BY TypeParts DEF TypeInv
<1>3. /\ f \in Item /\ (f.id \in Groups => f.list # <<>>)
      /\ Loaded => LoadOK'
  <2>1. Loading /\ ~Refused
    BY DEF LoadGroup, LoadEngine, LoadInstrument, LoadUnpriced
  <2> QED
    BY <1>1, <2>1, EntryTypes DEF StoredItem
<1>4. f.id \in Ids /\ f.list \in GroupLists \cup {<<>>} /\ f.engineID \in Engines \cup {None}
  BY <1>3 DEF Item
<1>5. CASE LoadGroup
  <2>1. f.id \in Groups /\ StoreGroup(f.id, f.list) /\ Loaded /\ files' = files
    BY <1>1, <1>5 DEF LoadGroup
  <2> QED
    BY <1>2, <1>3, <1>4, <2>1, StoreGroupTypes
<1>6. CASE LoadEngine
  <2>1. f.id \in Engines /\ StoreEngine(f.id) /\ Loaded /\ files' = files
    BY <1>1, <1>6 DEF LoadEngine
  <2> QED
    BY <1>2, <1>3, <2>1, StoreEngineTypes
<1>7. CASE LoadInstrument
  <2>1. PICK link : link = IF f.engineID = None THEN None ELSE [id |-> f.engineID, present |-> TRUE]
    OBVIOUS
  <2>2. link \in Link \cup {None} /\ (link # None => f.engineID = link.id)
    BY <1>4, <2>1, PresentLink
  <2>3. /\ f.id \in Instruments /\ Loaded /\ files' = files
        /\ stored' = stored \cup {f.id} /\ dirty' \subseteq dirty /\ list' = list
        /\ engineID' = [engineID EXCEPT ![f.id] = f.engineID]
        /\ engine' = [Outdated({f.engineID} \cap dirty) EXCEPT ![f.id] = link]
    BY <1>1, <1>7, <2>1 DEF LoadInstrument
  <2> QED
    BY <1>2, <1>3, <1>4, <2>2, <2>3, InstrumentTypes
<1>8. CASE LoadUnpriced
  <2>1. /\ f.id \in Instruments /\ load' = None /\ files' = files
        /\ stored' = stored \cup {f.id} /\ dirty' \subseteq dirty /\ list' = list
        /\ engineID' = [engineID EXCEPT ![f.id] = f.engineID]
        /\ engine' = [Outdated({}) EXCEPT ![f.id] = None]
    BY <1>1, <1>2, <1>8, NothingOutdated DEF LoadUnpriced, StoreObject
  <2>2. ObjectsOK'
    BY <1>2, <1>4, <2>1, InstrumentTypes
  <2> QED
    BY <2>1, <2>2 DEF LoadOK
<1> QED
  BY <1>5, <1>6, <1>7, <1>8

\* Every step keeps the types.
LEMMA StepTypes ==
  ASSUME TypeInv, [Next]_vars PROVE TypeInv'
<1>1. ObjectsOK /\ files \in [Paths -> Seq(StoredItem) \cup {Cut, None}] /\ LoadOK
  BY TypeParts DEF TypeInv, StoredOnly
<1>2. LoadInv'
  BY StepRestores DEF TypeInv
<1> SUFFICES ObjectsOK' /\ files' \in [Paths -> Seq(StoredItem) \cup {Cut, None}] /\ LoadOK'
  <2>1. \A s \in Seq(StoredItem) : s \in Seq(Item)
    BY DEF StoredItem
  <2>2. \A s \in Seq(StoredItem \cup {Cut}) : s \in Seq(Item \cup {Cut})
    BY DEF StoredItem
  <2>3. TypeOK' /\ StoredOnly'
    BY <2>1, <2>2 DEF TypeOK, StoredOnly, ObjectsOK, LoadOK
  <2> QED
    BY <1>2, <2>3 DEF TypeInv
<1>3. CASE UNCHANGED vars
  BY <1>1, <1>3 DEF vars, objectVars, ObjectsOK, LoadOK
<1>4. CASE Client
  BY <1>1, <1>4, ClientTypes DEF Client, Idle, LoadOK
<1>5. ASSUME NEW path \in Paths, NEW ids \in SaveLists, NEW force \in BOOLEAN,
             NEW includeGroups \in BOOLEAN, Save(path, ids, force, includeGroups)
      PROVE  ObjectsOK' /\ files' \in [Paths -> Seq(StoredItem) \cup {Cut, None}] /\ LoadOK'
  <2>1. ObjectsOK' /\ files' \in [Paths -> Seq(StoredItem) \cup {Cut, None}] /\ load' = None
    BY <1>5, SaveTypes
  <2> QED
    BY <2>1 DEF LoadOK
<1>6. ASSUME NEW order \in Orders, NEW overwrite \in BOOLEAN, StartLoad(order, overwrite)
      PROVE  ObjectsOK' /\ files' \in [Paths -> Seq(StoredItem) \cup {Cut, None}] /\ LoadOK'
  BY <1>6, StartLoadTypes
<1>7. CASE LoadGroup \/ LoadEngine \/ LoadInstrument \/ LoadUnpriced
  BY <1>1, <1>7, LoadTypes
<1>8. CASE LoadRefused \/ EndLoad
  BY <1>1, <1>8 DEF LoadRefused, EndLoad, objectVars, ObjectsOK, LoadOK
<1>9. CASE Restart
  <2>1. ObjectsOK'
    BY <1>9, SerializationAssumption DEF Restart, EmptyLists, NoEngines, ObjectsOK
  <2> QED
    BY <1>1, <1>9, <2>1 DEF Restart, LoadOK
<1>10. CASE Next
  BY <1>4, <1>5, <1>6, <1>7, <1>8, <1>9, <1>10 DEF Next
<1> QED
  BY <1>3, <1>10

-----------------------------------------------------------------------------

\* The inductive invariant: types, what is in files is of objects that were stored.
LEMMA TypeInvariant == Spec => []TypeInv
BY TypesInit, StepTypes, PTL DEF Spec

\* Types, of what is in the repository, in files and in a load.
THEOREM TypesCorrect == Spec => []TypeOK
BY TypeInvariant, PTL DEF TypeInv

\* saveObject writes every object that its list stands for, at any depth of groups, once,
\* each group after its members; it fails if one is missing or groups are nested to the
\* limit, and for no other reason.
THEOREM SavesAlwaysWhole == Spec => []SavesTheClosure
<1>1. TypeInv => SavesTheClosure
  BY TypesOfLists, ListsSave DEF TypeInv
<1> QED
  BY <1>1, TypeInvariant, PTL
=============================================================================
