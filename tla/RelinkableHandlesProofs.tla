---------------------- MODULE RelinkableHandlesProofs ----------------------
(***************************************************************************)
(* Proofs about RelinkableHandles for any IDs, any number of handle objects *)
(* and files of any length: types, that CurrentLink names the object that   *)
(* the library handle was linked to, unless a linkTo threw after it linked, *)
(* and that a load gives the handles of its file their links back; and      *)
(* about Coercions: the two pointers of a handle agree, and so do the       *)
(* functions that take its ID.                                              *)
(***************************************************************************)
EXTENDS Coercions, SequenceTheorems, TLAPS

\* One handle object: what it links to as present is in the repository, and is
\* what CurrentLink names, unless that is behind.
Sound(f, present) ==
  /\ f \in Fields
  /\ f.handle_ # None /\ f.handle_.present => f.handle_.id \in present
  /\ IF f.behind THEN f.handle_ # None
     ELSE f.currentLink # None => f.handle_ # None /\ f.handle_.id = f.currentLink

\* The inductive invariant.
LinkInv == TypeOK /\ LinkAsNamed

-----------------------------------------------------------------------------
(* The fields of a handle *)

\* A field that is not null is a record.
LEMMA LinksAreRecords ==
  ASSUME NEW id \in Targets, NEW b \in BOOLEAN
  PROVE  [id |-> id, present |-> b] \in Link /\ [id |-> id, present |-> b] # None
BY HandlesAssumption DEF Link

\* The invariant, one object at a time.
LEMMA SoundObjects ==
  LinkInv <=> /\ TypeOK
              /\ \A o \in Objects : Sound(object[o], exists)
BY DEF LinkInv, TypeOK, LinkAsNamed, Sound

\* A new handle links to nothing.
LEMMA BlankIsSound == ASSUME NEW present PROVE Sound(NoFields, present)
BY HandlesAssumption DEF Sound, NoFields, Fields, Link

\* What is found under an ID.
LEMMA CurrentIsLink ==
  ASSUME NEW id \in Targets
  PROVE  Current(id) \in Link /\ Current(id) # None /\ Current(id).id = id /\ Current(id).present
BY LinksAreRecords DEF Current

\* A linkTo that returns leaves a handle sound.
LEMMA LinkedIsSound ==
  ASSUME NEW f, Sound(f, exists), NEW id \in Targets \cup {None}, Linkable(id)
  PROVE  Sound(Linked(f, id), exists)
<1>1. CASE id = None
  <2>1. Linked(f, id) = [f EXCEPT !.currentLink = None, !.behind = FALSE]
    BY <1>1 DEF Linked
  <2> QED
    BY <2>1 DEF Sound, Fields
<1>2. CASE id # None
  <2> DEFINE link == Current(id)
  <2>1. link \in Link /\ link # None /\ link.id = id /\ id \in exists
    BY <1>2, CurrentIsLink DEF Linkable, Exists
  <2>2. Linked(f, id) =
          [currentLink |-> id, object_ |-> link, handle_ |-> link, behind |-> FALSE]
    BY <1>2 DEF Linked
  <2> HIDE DEF link
  <2> QED
    BY <1>2, <2>1, <2>2 DEF Sound, Fields
<1> QED
  BY <1>1, <1>2

\* So does one that throws, wherever it does.
LEMMA ThrownIsSound ==
  ASSUME NEW f, Sound(f, exists), NEW id \in Targets \cup {None}, NEW g \in LinkThrows(f, id)
  PROVE  Sound(g, exists)
<1>1. CASE g = f
  BY <1>1
<1>2. CASE g # f
  <2> DEFINE link == Current(id)
  <2>1. id # None /\ Exists(id)
    BY <1>2 DEF LinkThrows
  <2>2. g = [f EXCEPT !.object_ = link, !.handle_ = link, !.behind = TRUE]
    BY <1>2, <2>1 DEF LinkThrows
  <2>3. link \in Link /\ link # None /\ link.id = id /\ id \in exists
    BY <2>1, CurrentIsLink DEF Exists
  <2> HIDE DEF link
  <2> QED
    BY <2>2, <2>3 DEF Sound, Fields
<1> QED
  BY <1>1, <1>2

LEMMA OutcomesAreSound ==
  ASSUME NEW f, Sound(f, exists), NEW id \in Targets \cup {None}, NEW g \in LinkOutcomes(f, id)
  PROVE  Sound(g, exists)
BY LinkedIsSound, ThrownIsSound DEF LinkOutcomes

\* Nor does an object of another type do harm to what CurrentLink says.
LEMMA MislinkedIsSound ==
  ASSUME NEW f, Sound(f, exists) PROVE Sound(Mislinked(f), exists)
BY DEF Mislinked, Sound, Fields, Link

\* Unused allocations are as good as any.
LEMMA ClearedIsSound ==
  ASSUME NEW fields, NEW used, NEW present,
         \A o \in Objects : Sound(fields[o], present)
  PROVE  /\ Cleared(fields, used) \in [Objects -> Fields]
         /\ \A o \in Objects : Sound(Cleared(fields, used)[o], present)
<1>1. \A o \in Objects : Sound(Cleared(fields, used)[o], present)
  BY BlankIsSound DEF Cleared
<1> DEFINE Kept(o) == IF o \in used THEN fields[o] ELSE NoFields
<1>2. \A o \in Objects : Kept(o) \in Fields
  BY <1>1 DEF Cleared, Sound
<1> HIDE DEF Kept
<1>3. Cleared(fields, used) \in [Objects -> Fields]
  <2>1. Cleared(fields, used) = [o \in Objects |-> Kept(o)]
    BY Zenon DEF Cleared, Kept
  <2> QED
    BY <1>2, <2>1
<1> QED
  BY <1>1, <1>3

\* When the object under an ID changes, no handle links to it as present.
LEMMA OutdatedIsSound ==
  ASSUME LinkInv, NEW t \in Targets, NEW present, exists \ {t} \subseteq present
  PROVE  /\ Outdated(t) \in [Objects -> Fields]
         /\ \A o \in Objects : Sound(Outdated(t)[o], present)
<1> DEFINE Past(link) ==
      IF link # None /\ link.id = t THEN [link EXCEPT !.present = FALSE] ELSE link
<1>1. ASSUME NEW link \in Link
      PROVE  /\ Past(link) \in Link
             /\ Past(link) = None <=> link = None
             /\ link # None => Past(link).id = link.id
             /\ link # None /\ link.id = t => ~Past(link).present
             /\ link # None /\ link.id # t => Past(link).present = link.present
  <2>1. CASE link # None /\ link.id = t
    <3>1. Past(link) = [id |-> t, present |-> FALSE]
      BY <2>1 DEF Link
    <3> QED
      BY <2>1, <3>1, LinksAreRecords
  <2>2. CASE ~(link # None /\ link.id = t)
    BY <2>2
  <2> QED
    BY <2>1, <2>2
<1> HIDE DEF Past
<1>2. ASSUME NEW o \in Objects
      PROVE  Sound(Outdated(t)[o], present)
  <2> DEFINE f == object[o]
             g == Outdated(t)[o]
  <2>1. Sound(f, exists)
    BY SoundObjects
  <2>2. g = [f EXCEPT !.object_ = Past(f.object_), !.handle_ = Past(f.handle_)]
    BY DEF Outdated, Past
  <2>3. /\ g.currentLink = f.currentLink /\ g.behind = f.behind
        /\ g.object_ = Past(f.object_) /\ g.handle_ = Past(f.handle_)
        /\ f.object_ \in Link /\ f.handle_ \in Link
    BY <2>1, <2>2 DEF Sound, Fields
  <2>4. g \in Fields
    BY <1>1, <2>1, <2>2, <2>3 DEF Sound, Fields
  <2>5. g.handle_ # None /\ g.handle_.present => g.handle_.id \in present
    <3> SUFFICES ASSUME g.handle_ # None, g.handle_.present PROVE g.handle_.id \in present
      OBVIOUS
    <3>1. /\ f.handle_ # None /\ g.handle_.id = f.handle_.id
          /\ f.handle_.id # t /\ f.handle_.present
      BY <1>1, <2>3
    <3>2. f.handle_.id \in exists
      BY <2>1, <3>1 DEF Sound
    <3> QED
      BY <3>1, <3>2
  <2>6. IF g.behind THEN g.handle_ # None
        ELSE g.currentLink # None => g.handle_ # None /\ g.handle_.id = g.currentLink
    BY <1>1, <2>1, <2>3 DEF Sound
  <2> QED
    BY <2>4, <2>5, <2>6 DEF Sound
<1> QED
  BY <1>2 DEF Outdated, Sound

-----------------------------------------------------------------------------
(* The steps *)

\* At first nothing is stored.
LEMMA InitSafe == Init => LinkInv
<1> SUFFICES ASSUME Init PROVE LinkInv
  OBVIOUS
<1>1. \A o \in Objects : Sound(object[o], exists)
  BY BlankIsSound DEF Init
<1>2. handles \in Seq(Pending) /\ file \in Seq(Saved)
  BY DEF Init
<1>3. TypeOK
  BY <1>1, <1>2 DEF Init, TypeOK, Sound, Load
<1> QED
  BY <1>1, <1>3, SoundObjects

\* What a step must establish.
LEMMA SoundNext ==
  ASSUME exists' \subseteq Targets,
         stored' \in [Handles -> Objects \cup {None}],
         dirty' \subseteq Handles,
         observes' \in [Handles -> SUBSET Targets],
         handles' \in Seq(Pending),
         file' \in Seq(Saved),
         load' \in Load,
         object' \in [Objects -> Fields],
         \A o \in Objects : Sound(object'[o], exists')
  PROVE  LinkInv'
BY DEF LinkInv, TypeOK, LinkAsNamed, Sound

\* The client's calls on handles.
LEMMA HandleCallsSafe ==
  ASSUME LinkInv,
         \/ \E h \in Handles : DeleteHandle(h) \/ Recreate(h)
         \/ \E h \in Handles, id \in Targets \cup {None} : CreateHandle(h, id)
         \/ \E h \in Handles, id \in Ids \cup {None} : LinkTo(h, id)
  PROVE  LinkInv'
<1> USE SoundObjects DEF TypeOK
<1>1. ASSUME NEW h \in Handles, DeleteHandle(h)
      PROVE  LinkInv'
  <2>1. /\ object' \in [Objects -> Fields]
        /\ \A o \in Objects : Sound(object'[o], exists')
    BY <1>1, ClearedIsSound DEF DeleteHandle
  <2> QED
    BY <1>1, <2>1, SoundNext DEF DeleteHandle
<1>2. ASSUME NEW h \in Handles, Recreate(h)
      PROVE  LinkInv'
  <2> DEFINE id == object[stored[h]].currentLink
  <2>1. PICK o \in Objects \ InUse :
          /\ stored' = [stored EXCEPT ![h] = o]
          /\ object' = Cleared([object EXCEPT ![o] = Linked(NoFields, id)], InUse')
    BY <1>2 DEF Recreate
  <2>2. Linkable(id)
    BY <1>2 DEF Recreate
  <2>3. id \in Targets \cup {None}
    BY <2>2 DEF Linkable, Exists
  <2>4. Sound(Linked(NoFields, id), exists)
    BY <2>2, <2>3, BlankIsSound, LinkedIsSound
  <2>5. \A p \in Objects : Sound([object EXCEPT ![o] = Linked(NoFields, id)][p], exists)
    BY <2>4
  <2>6. /\ object' \in [Objects -> Fields]
        /\ \A p \in Objects : Sound(object'[p], exists)
    BY <2>1, <2>5, ClearedIsSound
  <2> QED
    BY <1>2, <2>1, <2>6, SoundNext DEF Recreate
<1>3. ASSUME NEW h \in Handles, NEW id \in Targets \cup {None}, CreateHandle(h, id)
      PROVE  LinkInv'
  <2>1. PICK o \in Objects :
          /\ StoreHandle(h, o, id)
          /\ object' = Cleared([object EXCEPT ![o] = Linked(NoFields, id)], InUse')
    BY <1>3 DEF CreateHandle
  <2>2. Sound(Linked(NoFields, id), exists)
    BY <1>3, BlankIsSound, LinkedIsSound DEF CreateHandle
  <2>3. \A p \in Objects : Sound([object EXCEPT ![o] = Linked(NoFields, id)][p], exists)
    BY <2>2
  <2>4. /\ object' \in [Objects -> Fields]
        /\ \A p \in Objects : Sound(object'[p], exists)
    BY <2>1, <2>3, ClearedIsSound
  <2> QED
    BY <1>3, <2>1, <2>4, SoundNext DEF CreateHandle, StoreHandle
<1>4. ASSUME NEW h \in Handles, NEW id \in Ids \cup {None}, LinkTo(h, id)
      PROVE  LinkInv'
  <2> DEFINE o == stored[h]
  <2>1. o \in Objects
    BY <1>4 DEF LinkTo
  <2>2. PICK g \in {Mislinked(object[o]), object[o]} \cup
                   IF id \in Handles THEN {} ELSE LinkOutcomes(object[o], id) :
          object' = [object EXCEPT ![o] = g]
    BY <1>4 DEF LinkTo
  <2>3. Sound(g, exists)
    BY <2>1, <2>2, MislinkedIsSound, OutcomesAreSound DEF Ids
  <2>4. \A p \in Objects : Sound(object'[p], exists)
    BY <2>1, <2>2, <2>3
  <2>5. object' \in [Objects -> Fields]
    BY <2>1, <2>2, <2>4 DEF Sound
  <2> QED
    BY <1>4, <2>4, <2>5, SoundNext DEF LinkTo
<1> QED
  BY <1>1, <1>2, <1>3, <1>4

\* The client's calls on the objects that handles link to.
LEMMA TargetCallsSafe ==
  ASSUME LinkInv, NEW t \in Targets, Store(t) \/ DeleteTarget(t)
  PROVE  LinkInv'
<1> USE SoundObjects DEF TypeOK
<1>1. CASE Store(t)
  BY <1>1, OutdatedIsSound, SoundNext DEF Store, StoreTarget
<1>2. CASE DeleteTarget(t)
  BY <1>2, OutdatedIsSound, SoundNext DEF DeleteTarget
<1> QED
  BY <1>1, <1>2

\* Saving, and the calls and returns of loading that touch no object.
LEMMA FileSafe ==
  ASSUME LinkInv,
         \/ \E list \in Lists : Save(list)
         \/ \E overwrite \in BOOLEAN : StartLoad(overwrite)
         \/ LoadFails
  PROVE  LinkInv'
<1> USE SoundObjects DEF TypeOK
<1>1. ASSUME NEW list \in Lists, Save(list)
      PROVE  LinkInv'
  <2>1. PICK n \in 1 .. MaxFile : list \in [1 .. n -> Ids]
    BY DEF Lists
  <2>2. \A i \in 1 .. n : SavedAs(list[i]) \in Saved
    <3> SUFFICES ASSUME NEW i \in 1 .. n PROVE SavedAs(list[i]) \in Saved
      OBVIOUS
    <3>1. list[i] \in Ids
      BY <2>1
    <3>2. list[i] \in Handles => stored[list[i]] \in Objects
      BY <1>1, <2>1 DEF Save
    <3>3. list[i] \in Handles => object[stored[list[i]]].currentLink \in Targets \cup {None}
      BY <3>2 DEF Fields
    <3> QED
      BY <3>1, <3>3 DEF SavedAs, Saved
  <2>3. file' = [i \in 1 .. n |-> SavedAs(list[i])] /\ n \in Nat
    BY <1>1, <2>1, HandlesAssumption DEF Save
  <2>4. file' \in Seq(Saved)
    <3> DEFINE F == [i \in 1 .. n |-> SavedAs(list[i])]
    <3>1. F \in [1 .. n -> Saved]
      BY <2>2
    <3> HIDE DEF F
    <3>2. F \in Seq(Saved)
      BY <3>1, <2>3, SeqDef
    <3> QED
      BY <2>3, <3>2 DEF F
  <2> QED
    BY <1>1, <2>4, SoundNext DEF Save
<1>2. ASSUME NEW overwrite \in BOOLEAN, StartLoad(overwrite)
      PROVE  LinkInv'
  BY <1>2, SoundNext DEF StartLoad, Load
<1>3. CASE LoadFails
  BY <1>3, SoundNext DEF LoadFails, Load
<1> QED
  BY <1>1, <1>2, <1>3

\* The entry that a load has come to, and what is left of the file after it.
LEMMA EntryIsSaved ==
  ASSUME TypeOK, Loading
  PROVE  /\ Entry \in Saved
         /\ [load EXCEPT !.todo = Tail(@)] \in Load
<1>1. /\ load \in [overwrite: BOOLEAN, todo: Seq(Saved)]
      /\ load.todo \in Seq(Saved) /\ load.todo # <<>>
  BY DEF TypeOK, Load, Loading
<1>2. Entry \in Saved /\ Tail(load.todo) \in Seq(Saved)
  BY <1>1 DEF Entry
<1> QED
  BY <1>1, <1>2 DEF Load

\* One entry of a file.
LEMMA LoadStepSafe ==
  ASSUME LinkInv, LoadTarget \/ LoadHandle
  PROVE  LinkInv'
<1> USE SoundObjects DEF TypeOK
<1>1. CASE LoadTarget
  <2>1. Entry.id \in Targets /\ StoreTarget(Entry.id) /\ load' \in Load
    BY <1>1, EntryIsSaved DEF LoadTarget
  <2> QED
    BY <1>1, <2>1, OutdatedIsSound, SoundNext DEF LoadTarget, StoreTarget
<1>2. CASE LoadHandle
  <2>1. PICK o \in Objects :
          /\ StoreHandle(Entry.id, o, None)
          /\ handles' = Append(handles, [link |-> Entry.link, handle |-> o])
    BY <1>2 DEF LoadHandle
  <2>2. Entry \in Saved /\ Entry.id \in Handles /\ load' \in Load
    BY <1>2, EntryIsSaved DEF LoadHandle
  <2>3. [link |-> Entry.link, handle |-> o] \in Pending
    BY <2>2 DEF Saved, Pending
  <2>4. handles' \in Seq(Pending)
    BY <2>1, <2>3
  <2>5. /\ object' \in [Objects -> Fields]
        /\ \A p \in Objects : Sound(object'[p], exists)
    BY <1>2, ClearedIsSound DEF LoadHandle
  <2> QED
    BY <1>2, <2>1, <2>2, <2>4, <2>5, SoundNext DEF LoadHandle, StoreHandle
<1> QED
  BY <1>1, <1>2

\* Every link put aside is of a type that linkTo takes.
LEMMA PendingTyped ==
  ASSUME TypeOK, NEW i \in DOMAIN handles
  PROVE  handles[i].link \in Targets \cup {None} /\ handles[i].handle \in Objects
<1>1. handles[i] \in Pending
  BY ElementOfSeq DEF TypeOK
<1> QED
  BY <1>1 DEF Pending

\* The handles that linkTo has returned for.
LEMMA LinkedUpToIsSound ==
  ASSUME LinkInv, NEW n \in 0 .. Len(handles), \A i \in 1 .. n : Linkable(handles[i].link)
  PROVE  /\ LinkedUpTo(n) \in [Objects -> Fields]
         /\ \A o \in Objects : Sound(LinkedUpTo(n)[o], exists)
<1>1. ASSUME NEW o \in Objects PROVE Sound(LinkedUpTo(n)[o], exists)
  <2> DEFINE mine == {i \in 1 .. n : handles[i].handle = o}
  <2>1. Sound(object[o], exists)
    BY SoundObjects
  <2>2. CASE mine = {}
    BY <2>1, <2>2 DEF LinkedUpTo
  <2>3. CASE mine # {}
    <3> DEFINE i == CHOOSE i \in mine : TRUE
    <3>1. i \in mine
      BY <2>3
    <3>2. i \in DOMAIN handles /\ Linkable(handles[i].link)
      BY <3>1 DEF LinkInv, TypeOK
    <3>3. LinkedUpTo(n)[o] = Linked(object[o], handles[i].link)
      BY <2>3 DEF LinkedUpTo
    <3> HIDE DEF i
    <3> QED
      BY <2>1, <3>2, <3>3, PendingTyped, LinkedIsSound DEF LinkInv
  <2> QED
    BY <2>2, <2>3
<1> QED
  BY <1>1 DEF LinkedUpTo, Sound

\* The end of a load, wherever it stops linking.
LEMMA PostProcessSafe ==
  ASSUME LinkInv, PostProcess \/ PostProcessFails
  PROVE  LinkInv'
<1> USE SoundObjects DEF TypeOK
<1>0. Len(handles) \in Nat /\ DOMAIN handles = 1 .. Len(handles) /\ load' = None
  BY DEF PostProcess, PostProcessFails
<1>1. CASE PostProcess
  <2>0. /\ Len(handles) \in 0 .. Len(handles)
        /\ \A i \in 1 .. Len(handles) : Linkable(handles[i].link)
    BY <1>0, <1>1 DEF PostProcess
  <2>1. \A o \in Objects : Sound(LinkedUpTo(Len(handles))[o], exists)
    BY <2>0, LinkedUpToIsSound
  <2>2. /\ object' \in [Objects -> Fields]
        /\ \A o \in Objects : Sound(object'[o], exists)
    BY <1>1, <2>1, ClearedIsSound DEF PostProcess
  <2>3. handles' \in Seq(Pending)
    BY <1>1 DEF PostProcess
  <2> QED
    BY <1>1, <2>2, <2>3, SoundNext DEF PostProcess, Load
<1>2. CASE PostProcessFails
  <2>1. PICK n \in DOMAIN handles :
          /\ \A i \in 1 .. n - 1 : Linkable(handles[i].link)
          /\ \E g \in LinkThrows(object[handles[n].handle], handles[n].link) :
               object' = [LinkedUpTo(n - 1) EXCEPT ![handles[n].handle] = g]
    BY <1>2 DEF PostProcessFails
  <2>2. PICK g \in LinkThrows(object[handles[n].handle], handles[n].link) :
          object' = [LinkedUpTo(n - 1) EXCEPT ![handles[n].handle] = g]
    BY <2>1
  <2>3. n - 1 \in 0 .. Len(handles)
    BY <1>0
  <2>4. handles[n].handle \in Objects /\ handles[n].link \in Targets \cup {None}
    BY PendingTyped
  <2>5. Sound(g, exists)
    BY <2>2, <2>4, ThrownIsSound
  <2>6. /\ LinkedUpTo(n - 1) \in [Objects -> Fields]
        /\ \A o \in Objects : Sound(LinkedUpTo(n - 1)[o], exists)
    BY <2>1, <2>3, LinkedUpToIsSound
  <2>7. g \in Fields
    BY <2>5 DEF Sound
  <2>8. object' \in [Objects -> Fields]
    BY <2>2, <2>6, <2>7
  <2>9. \A o \in Objects : Sound(object'[o], exists)
    BY <2>2, <2>4, <2>5, <2>6
  <2> QED
    BY <1>2, <2>8, <2>9, SoundNext DEF PostProcessFails, Load
<1> QED
  BY <1>1, <1>2

\* Between steps nothing changes.
LEMMA StutterSafe ==
  ASSUME LinkInv, UNCHANGED vars PROVE LinkInv'
BY DEF LinkInv, TypeOK, LinkAsNamed, vars

-----------------------------------------------------------------------------
(* The theorems *)

\* Types and links are kept by every step, failed and half-way loads included.
THEOREM LinkInvariant == Spec => []LinkInv
<1>1. LinkInv /\ [Next]_vars => LinkInv'
  <2> SUFFICES ASSUME LinkInv, [Next]_vars PROVE LinkInv'
    OBVIOUS
  <2>1. ASSUME NEW t \in Targets, Store(t) \/ DeleteTarget(t) PROVE LinkInv'
    BY <2>1, TargetCallsSafe
  <2> QED
    BY <2>1, HandleCallsSafe, FileSafe, LoadStepSafe, PostProcessSafe, StutterSafe DEF Next
<1> QED
  BY <1>1, InitSafe, PTL DEF Spec

\* Every reachable state of RelinkableHandles is well typed, and a link marked present
\* is to an object of the repository.
THEOREM LinkTypes == Spec => []TypeOK
<1>1. LinkInv => TypeOK
  BY DEF LinkInv
<1> QED
  BY <1>1, LinkInvariant, PTL

\* In every reachable state CurrentLink names the object that the library handle was
\* linked to, whichever linkTo threw where, except between one that threw after it had
\* linked and the next that returns (RelinkableHandleImpl::linkTo).
THEOREM AlwaysLinkedAsNamed == Spec => []LinkAsNamed
<1>1. LinkInv => LinkAsNamed
  BY DEF LinkInv
<1> QED
  BY <1>1, LinkInvariant, PTL

-----------------------------------------------------------------------------
(* Coercions: the pointers behind a handle *)

\* The object that ObjectHandler sees behind a handle is the library's, if any.
Followed(f) == f.object_ \in {None, f.handle_}

AllFollowed == \A o \in Objects : Followed(object[o])

LEMMA BlankIsFollowed == Followed(NoFields)
BY DEF Followed, NoFields

\* linkTo sets both pointers, or neither, also when it throws; a link of the wrong
\* type clears one.
LEMMA LinkedIsFollowed ==
  ASSUME NEW f \in Fields, Followed(f), NEW id
  PROVE  /\ Followed(Linked(f, id)) /\ Followed(Mislinked(f))
         /\ \A g \in LinkThrows(f, id) : Followed(g)
<1>1. Followed(Linked(f, id)) /\ Followed(Mislinked(f))
  BY DEF Linked, Mislinked, Followed, Fields
<1>2. ASSUME NEW g \in LinkThrows(f, id) PROVE Followed(g)
  <2> DEFINE link == Current(id)
  <2>1. g = f \/ g = [f EXCEPT !.object_ = link, !.handle_ = link, !.behind = TRUE]
    BY DEF LinkThrows
  <2> HIDE DEF link
  <2> QED
    BY <2>1 DEF Followed, Fields
<1> QED
  BY <1>1, <1>2

LEMMA ClearedIsFollowed ==
  ASSUME NEW fields, NEW used, \A o \in Objects : Followed(fields[o])
  PROVE  \A o \in Objects : Followed(Cleared(fields, used)[o])
BY BlankIsFollowed DEF Cleared

\* An object that is stored anew, or deleted, is in the past for both.
LEMMA OutdatedIsFollowed ==
  ASSUME TypeOK, AllFollowed, NEW t
  PROVE  \A o \in Objects : Followed(Outdated(t)[o])
<1> DEFINE Past(link) ==
      IF link # None /\ link.id = t THEN [link EXCEPT !.present = FALSE] ELSE link
<1> SUFFICES ASSUME NEW o \in Objects PROVE Followed(Outdated(t)[o])
  OBVIOUS
<1>1. object[o] \in Fields /\ object[o].object_ \in {None, object[o].handle_}
  BY DEF TypeOK, AllFollowed, Followed
<1>2. Past(None) = None
  OBVIOUS
<1>3. Outdated(t)[o] = [object[o] EXCEPT !.object_ = Past(@), !.handle_ = Past(@)]
  BY DEF Outdated
<1> HIDE DEF Past
<1>4. /\ Outdated(t)[o].object_ = Past(object[o].object_)
      /\ Outdated(t)[o].handle_ = Past(object[o].handle_)
  BY <1>1, <1>3 DEF Fields
<1> QED
  BY <1>1, <1>2, <1>4 DEF Followed

-----------------------------------------------------------------------------
(* The steps *)

LEMMA FollowedInit == Init => AllFollowed
BY BlankIsFollowed DEF Init, AllFollowed

LEMMA HandleCallsFollow ==
  ASSUME TypeOK, AllFollowed,
         \/ \E h \in Handles : DeleteHandle(h) \/ Recreate(h)
         \/ \E h \in Handles, id \in Targets \cup {None} : CreateHandle(h, id)
         \/ \E h \in Handles, id \in Ids \cup {None} : LinkTo(h, id)
  PROVE  AllFollowed'
<1>1. NoFields \in Fields /\ \A o \in Objects : object[o] \in Fields
  BY HandlesAssumption DEF NoFields, Fields, Link, TypeOK
<1>2. ASSUME NEW o \in Objects, NEW id, NEW used,
             object' = Cleared([object EXCEPT ![o] = Linked(NoFields, id)], used)
      PROVE  AllFollowed'
  <2>1. \A p \in Objects : Followed([object EXCEPT ![o] = Linked(NoFields, id)][p])
    BY <1>1, BlankIsFollowed, LinkedIsFollowed DEF TypeOK, AllFollowed
  <2> QED
    BY <1>2, <2>1, ClearedIsFollowed DEF AllFollowed
<1>3. ASSUME NEW h \in Handles, DeleteHandle(h) PROVE AllFollowed'
  BY <1>3, ClearedIsFollowed DEF DeleteHandle, AllFollowed
<1>4. ASSUME NEW h \in Handles, Recreate(h) PROVE AllFollowed'
  BY <1>2, <1>4 DEF Recreate
<1>5. ASSUME NEW h \in Handles, NEW id, CreateHandle(h, id) PROVE AllFollowed'
  BY <1>2, <1>5 DEF CreateHandle
<1>6. ASSUME NEW h \in Handles, NEW id, LinkTo(h, id) PROVE AllFollowed'
  <2> DEFINE o == stored[h]
  <2>1. o \in Objects
    BY <1>6 DEF LinkTo, TypeOK
  <2>2. PICK g \in {Mislinked(object[o]), object[o]} \cup LinkOutcomes(object[o], id) :
          object' = [object EXCEPT ![o] = g]
    BY <1>6 DEF LinkTo
  <2>3. Followed(g)
    BY <1>1, <2>1, <2>2, LinkedIsFollowed DEF AllFollowed, LinkOutcomes
  <2> QED
    BY <2>1, <2>2, <2>3 DEF AllFollowed, TypeOK
<1> QED
  BY <1>3, <1>4, <1>5, <1>6

LEMMA LoadFollows ==
  ASSUME TypeOK, AllFollowed, LoadHandle \/ PostProcess \/ PostProcessFails
  PROVE  AllFollowed'
<1>1. CASE LoadHandle
  BY <1>1, ClearedIsFollowed DEF LoadHandle, AllFollowed
<1>2. \A o \in Objects : object[o] \in Fields /\ Followed(object[o])
  BY DEF TypeOK, AllFollowed
<1>3. ASSUME NEW n PROVE \A o \in Objects : Followed(LinkedUpTo(n)[o])
  BY <1>2, LinkedIsFollowed DEF LinkedUpTo
<1>4. CASE PostProcess
  BY <1>3, <1>4, ClearedIsFollowed DEF PostProcess, AllFollowed
<1>5. CASE PostProcessFails
  <2>1. PICK n \in DOMAIN handles :
          \E g \in LinkThrows(object[handles[n].handle], handles[n].link) :
            object' = [LinkedUpTo(n - 1) EXCEPT ![handles[n].handle] = g]
    BY <1>5 DEF PostProcessFails
  <2>2. PICK g \in LinkThrows(object[handles[n].handle], handles[n].link) :
          object' = [LinkedUpTo(n - 1) EXCEPT ![handles[n].handle] = g]
    BY <2>1
  <2>3. handles[n].handle \in Objects
    BY PendingTyped
  <2>4. Followed(g)
    BY <1>2, <2>2, <2>3, LinkedIsFollowed
  <2>5. \A o \in Objects : Followed(LinkedUpTo(n - 1)[o])
    BY <1>3
  <2> QED
    BY <2>2, <2>4, <2>5 DEF AllFollowed, LinkedUpTo
<1> QED
  BY <1>1, <1>4, <1>5

LEMMA StepFollows ==
  ASSUME TypeOK, AllFollowed, [Next]_vars
  PROVE  AllFollowed'
<1>1. CASE \/ \E t \in Targets : Store(t) \/ DeleteTarget(t)
           \/ LoadTarget
  BY <1>1, OutdatedIsFollowed DEF Store, DeleteTarget, LoadTarget, StoreTarget, AllFollowed
<1>2. CASE \/ \E list \in Lists : Save(list)
           \/ \E overwrite \in BOOLEAN : StartLoad(overwrite)
           \/ LoadFails
           \/ UNCHANGED vars
  BY <1>2 DEF Save, StartLoad, LoadFails, vars, AllFollowed
<1> QED
  BY <1>1, <1>2, HandleCallsFollow, LoadFollows DEF Next

-----------------------------------------------------------------------------
(* The conversions *)

\* The conversion that succeeds decides.
LEMMA FirstDecides ==
  ASSUME NEW f, NEW g, NEW in, NEW out, f[in] = {out}, g[in] = {}
  PROVE  Coerced(<<f, g>>, in) = out
<1> DEFINE succeeds == {i \in DOMAIN <<f, g>> : <<f, g>>[i][in] # {}}
           first == CHOOSE i \in succeeds : \A j \in succeeds : i <= j
<1>1. succeeds = {1}
  OBVIOUS
<1>2. Coerced(<<f, g>>, in) = CHOOSE x \in <<f, g>>[first][in] : TRUE
  BY <1>1 DEF Coerced
<1> HIDE DEF succeeds
<1>3. first = 1
  BY <1>1
<1> HIDE DEF first
<1> QED
  BY <1>2, <1>3

LEMMA SecondDecides ==
  ASSUME NEW f, NEW g, NEW in, NEW out, f[in] = {}, g[in] = {out}
  PROVE  Coerced(<<f, g>>, in) = out
<1> DEFINE succeeds == {i \in DOMAIN <<f, g>> : <<f, g>>[i][in] # {}}
           first == CHOOSE i \in succeeds : \A j \in succeeds : i <= j
<1>1. succeeds = {2}
  OBVIOUS
<1>2. Coerced(<<f, g>>, in) = CHOOSE x \in <<f, g>>[first][in] : TRUE
  BY <1>1 DEF Coerced
<1> HIDE DEF succeeds
<1>3. first = 2
  BY <1>1
<1> HIDE DEF first
<1> QED
  BY <1>2, <1>3

\* A link, and an object wrapped for the library, are not errors.
LEMMA ThrowsApart ==
  /\ \A link \in Link : link # None => link # Throws
  /\ \A x : [wrapped |-> x] # Throws
  /\ \A x : "shared" \notin DOMAIN [wrapped |-> x] /\ "shared" \in DOMAIN [shared |-> x]
<1>1. \A link \in Link : link # None => "id" \in DOMAIN link
  BY DEF Link
<1>2. "id" \notin DOMAIN Throws
  BY DEF Throws
<1> QED
  BY <1>1, <1>2 DEF Throws

\* An object that is linked to is the same for every function.
LEMMA ObjectsCoerced ==
  ASSUME NEW id \in Retrievable, id \in Targets, id # None
  PROVE  /\ CoerceObject(id) = Itself(id) /\ CoerceLibrary(id) = Itself(id)
         /\ CoerceHandle(id) = [wrapped |-> Itself(id)]
<1>1. /\ objectToObject[id] = {Itself(id)} /\ objectToLibrary[id] = {Itself(id)}
      /\ handleToObject[id] = {} /\ handleToLibrary[id] = {}
  BY HandlesAssumption
     DEF objectToObject, objectToLibrary, handleToObject, handleToLibrary, OnObjects, OnHandles
<1>2. objectToHandle[id] = {} /\ wrapObject[id] = {[wrapped |-> Itself(id)]}
  BY HandlesAssumption DEF objectToHandle, wrapObject, OnObjects, OnHandles
<1>3. CoerceObject(id) = Itself(id)
  BY <1>1, FirstDecides DEF CoerceObject
<1>4. CoerceLibrary(id) = Itself(id)
  BY <1>1, FirstDecides DEF CoerceLibrary
<1>5. CoerceHandle(id) = [wrapped |-> Itself(id)]
  BY <1>2, SecondDecides DEF CoerceHandle
<1> QED
  BY <1>3, <1>4, <1>5

\* A handle is what it links to, or itself.
LEMMA HandlesCoerced ==
  ASSUME NEW h \in Retrievable, h \in Handles, h # None
  PROVE  /\ CoerceObject(h) = HandleObject(h) /\ CoerceLibrary(h) = HandleLink(h)
         /\ CoerceHandle(h) = [shared |-> stored[h]]
<1>1. objectToObject[h] = {} /\ objectToLibrary[h] = {}
  BY HandlesAssumption DEF objectToObject, objectToLibrary, OnObjects
<1>2. handleToObject[h] = {HandleObject(h)} /\ handleToLibrary[h] = {HandleLink(h)}
  BY DEF handleToObject, handleToLibrary, OnHandles
<1>3. objectToHandle[h] = {[shared |-> stored[h]]} /\ wrapObject[h] = {}
  BY HandlesAssumption DEF objectToHandle, wrapObject, OnObjects, OnHandles
<1>4. CoerceObject(h) = HandleObject(h)
  BY <1>1, <1>2, SecondDecides DEF CoerceObject
<1>5. CoerceLibrary(h) = HandleLink(h)
  BY <1>1, <1>2, SecondDecides DEF CoerceLibrary
<1>6. CoerceHandle(h) = [shared |-> stored[h]]
  BY <1>3, FirstDecides DEF CoerceHandle
<1> QED
  BY <1>4, <1>5, <1>6

LEMMA AgreeWhenFollowed ==
  ASSUME LinkInv, AllFollowed PROVE CoercionsAgree
<1> SUFFICES ASSUME NEW id \in Retrievable
             PROVE  /\ CoerceObject(id) # Throws => CoerceObject(id) = CoerceLibrary(id)
                    /\ Behind(CoerceHandle(id)) =
                         IF CoerceLibrary(id) = Throws THEN None ELSE CoerceLibrary(id)
                    /\ id \in Handles /\ Linking(id).currentLink # None => CoerceLibrary(id) # Throws
  BY DEF CoercionsAgree
<1>1. CASE id \in Targets
  <2>1. id # None /\ id \notin Handles /\ Itself(id) \in Link /\ Itself(id) # None
    BY <1>1, HandlesAssumption, LinksAreRecords DEF Ids, Itself
  <2>2. Itself(id) # Throws
    BY <2>1, ThrowsApart
  <2>3. Behind([wrapped |-> Itself(id)]) = Itself(id)
    BY ThrowsApart DEF Behind
  <2> QED
    BY <1>1, <2>1, <2>2, <2>3, ObjectsCoerced
<1>2. CASE id \in Handles
  <2>1. id # None /\ stored[id] \in Objects
    BY <1>2, HandlesAssumption DEF Ids, Retrievable, LinkInv, TypeOK
  <2>2. /\ Linking(id).handle_ \in Link /\ Linking(id).object_ \in {None, Linking(id).handle_}
        /\ Linking(id).currentLink # None => Linking(id).handle_ # None
    BY <2>1 DEF Linking, LinkInv, TypeOK, LinkAsNamed, Fields, AllFollowed, Followed
  <2>3. Behind([shared |-> stored[id]]) = Linking(id).handle_
    BY ThrowsApart DEF Behind, Linking
  <2>4. Linking(id).handle_ # None => Linking(id).handle_ # Throws
    BY <2>2, ThrowsApart
  <2> QED
    BY <1>2, <2>1, <2>2, <2>3, <2>4, HandlesCoerced DEF HandleObject, HandleLink
<1> QED
  BY <1>1, <1>2 DEF Retrievable

-----------------------------------------------------------------------------
(* Theorems *)

\* object() and currentLink() of a handle never refer to two objects.
THEOREM AlwaysFollowed == Spec => []AllFollowed
<1>1. LinkInv /\ AllFollowed /\ [Next]_vars => AllFollowed'
  BY StepFollows DEF LinkInv
<1> QED
  BY <1>1, FollowedInit, LinkInvariant, PTL DEF Spec

\* Whatever a function takes the ID of a handle for, it works on the same object,
\* unless it throws.
THEOREM CoercionsAlwaysAgree == Spec => []CoercionsAgree
<1>1. LinkInv /\ AllFollowed => CoercionsAgree
  BY AgreeWhenFollowed
<1> QED
  BY <1>1, LinkInvariant, AlwaysFollowed, PTL
-----------------------------------------------------------------------------
(* Loading restores the links *)

\* The entries of the file that the running load has restored.
Restored == Len(file) - Len(load.todo)

\* A load works through the file, and puts each handle it restores aside with the
\* link to give it.
Restoring ==
  /\ Len(load.todo) <= Len(file)
  /\ \A n \in DOMAIN load.todo : load.todo[n] = file[Restored + n]
  /\ \A n \in 1 .. Restored : file[n].id \in Handles =>
       \E j \in DOMAIN handles :
         handles[j] = [link |-> file[n].link, handle |-> stored[file[n].id]]

\* The inductive invariant of loading: no ID is in the file twice, and no handle
\* is put aside twice, not even by the loads that failed before.
LoadInv ==
  /\ \A m, n \in DOMAIN file : m # n => file[m].id # file[n].id
  /\ \A m, n \in DOMAIN handles : m # n => handles[m].handle # handles[n].handle
  /\ load # None => Restoring

LEMMA LoadInit == Init => LoadInv
BY DEF Init, LoadInv

\* Saving refuses a list that names an object twice.
LEMMA SaveRestores ==
  ASSUME LoadInv, NEW list \in Lists, Save(list) PROVE LoadInv'
<1>1. /\ load = None /\ load' = None /\ handles' = handles
      /\ \A i, j \in DOMAIN list : i # j => list[i] # list[j]
      /\ file' = [i \in DOMAIN list |-> SavedAs(list[i])]
  BY DEF Save, Idle
<1>2. DOMAIN file' = DOMAIN list /\ \A i \in DOMAIN list : file'[i].id = list[i]
  BY <1>1 DEF SavedAs
<1> QED
  BY <1>1, <1>2 DEF LoadInv

\* Nothing of the file is restored when a load starts.
LEMMA StartRestores ==
  ASSUME TypeOK, LoadInv, NEW overwrite \in BOOLEAN, StartLoad(overwrite) PROVE LoadInv'
<1>1. /\ load' = [overwrite |-> overwrite, todo |-> file]
      /\ file' = file /\ handles' = handles /\ stored' = stored
  BY DEF StartLoad
<1>2. Len(file) \in Nat /\ DOMAIN file = 1 .. Len(file)
  BY DEF TypeOK
<1>3. load'.todo = file' /\ Len(load'.todo) = Len(file) /\ Restored' = 0
  BY <1>1, <1>2 DEF Restored
<1>4. Restoring'
  BY <1>1, <1>2, <1>3 DEF Restoring
<1> QED
  BY <1>1, <1>4 DEF LoadInv

\* What the entry that a load has come to is, and what the step leaves to do.
LEMMA EntryOfFile ==
  ASSUME TypeOK, LoadInv, Loading, file' = file, load' = [load EXCEPT !.todo = Tail(@)]
  PROVE  /\ Restored \in Nat /\ Len(file) \in Nat /\ DOMAIN file = 1 .. Len(file)
         /\ Restored + 1 \in DOMAIN file /\ Entry = file[Restored + 1]
         /\ Restored' = Restored + 1
         /\ Len(load'.todo) <= Len(file)
         /\ \A n \in DOMAIN load'.todo : load'.todo[n] = file[Restored + 1 + n]
<1> DEFINE todo == load.todo
<1>1. /\ load \in [overwrite: BOOLEAN, todo: Seq(Saved)]
      /\ todo \in Seq(Saved) /\ todo # <<>> /\ file \in Seq(Saved)
  BY DEF TypeOK, Load, Loading
<1>2. /\ Len(todo) <= Len(file)
      /\ \A n \in DOMAIN todo : todo[n] = file[Restored + n]
  BY DEF Loading, LoadInv, Restoring
<1>3. load'.todo = Tail(todo)
  BY <1>1
<1>4. /\ Len(todo) \in Nat /\ Len(todo) # 0 /\ Len(file) \in Nat
      /\ DOMAIN todo = 1 .. Len(todo) /\ DOMAIN file = 1 .. Len(file)
  BY <1>1
<1>5. /\ Len(Tail(todo)) = Len(todo) - 1 /\ DOMAIN Tail(todo) = 1 .. Len(todo) - 1
      /\ \A n \in 1 .. Len(todo) - 1 : Tail(todo)[n] = todo[n + 1]
  BY <1>1, <1>4
<1>6. Restored = Len(file) - Len(todo)
  BY DEF Restored
<1>7. Restored' = Restored + 1
  <2>1. Restored' = Len(file) - Len(Tail(todo))
    BY <1>3 DEF Restored
  <2>2. Len(Tail(todo)) = Len(todo) - 1 /\ Len(todo) \in Nat /\ Len(file) \in Nat
    BY <1>4, <1>5
  <2> HIDE DEF todo
  <2>3. Len(file) - (Len(todo) - 1) = Restored + 1
    BY <1>6, <2>2
  <2> QED
    BY <2>1, <2>2, <2>3
<1>8. Restored \in Nat /\ Restored + 1 \in DOMAIN file
  BY <1>2, <1>4, <1>6
<1>9. Entry = file[Restored + 1]
  BY <1>1, <1>2, <1>4 DEF Entry
<1>10. \A n \in 1 .. Len(todo) - 1 : todo[n + 1] = file[Restored + 1 + n]
  <2> SUFFICES ASSUME NEW n \in 1 .. Len(todo) - 1 PROVE todo[n + 1] = file[Restored + 1 + n]
    OBVIOUS
  <2>1. n + 1 \in DOMAIN todo /\ Restored + (n + 1) = Restored + 1 + n
    BY <1>4, <1>8
  <2> QED
    BY <1>2, <2>1
<1> HIDE DEF todo
<1>11. Len(load'.todo) <= Len(file)
  BY <1>2, <1>3, <1>4, <1>5
<1>12. \A n \in DOMAIN load'.todo : load'.todo[n] = file[Restored + 1 + n]
  BY <1>3, <1>5, <1>10
<1> QED
  BY <1>4, <1>7, <1>8, <1>9, <1>11, <1>12

\* Restoring an object that handles link to leaves the handles as they are.
LEMMA TargetRestores ==
  ASSUME TypeOK, LoadInv, LoadTarget PROVE LoadInv'
<1>1. /\ Loading /\ Entry.id \in Targets /\ stored' = stored /\ handles' = handles /\ file' = file
      /\ load' = [load EXCEPT !.todo = Tail(@)]
  BY DEF LoadTarget, StoreTarget
<1>2. file[Restored + 1].id \notin Handles /\ Restored \in Nat
  BY <1>1, EntryOfFile, HandlesAssumption
<1>3. \A n \in 1 .. Restored + 1 : n \in 1 .. Restored \/ n = Restored + 1
  BY <1>2
<1>4. \A n \in 1 .. Restored + 1 : file[n].id \in Handles =>
        \E j \in DOMAIN handles :
          handles[j] = [link |-> file[n].link, handle |-> stored[file[n].id]]
  BY <1>1, <1>2, <1>3 DEF LoadInv, Restoring, Loading
<1>5. Restoring'
  BY <1>1, <1>4, EntryOfFile DEF Restoring
<1> QED
  BY <1>1, <1>5 DEF LoadInv

\* A handle that is restored is put aside once, and no restored handle is replaced.
LEMMA HandleRestores ==
  ASSUME TypeOK, LoadInv, LoadHandle PROVE LoadInv'
<1>1. PICK o \in Objects :
        /\ o \notin InUse
        /\ stored' = [stored EXCEPT ![Entry.id] = o]
        /\ handles' = Append(handles, [link |-> Entry.link, handle |-> o])
  BY DEF LoadHandle, StoreHandle
<1>2. /\ Loading /\ Entry.id \in Handles /\ file' = file
      /\ load' = [load EXCEPT !.todo = Tail(@)]
  BY DEF LoadHandle
<1>3. /\ Restored \in Nat /\ Len(file) \in Nat /\ DOMAIN file = 1 .. Len(file)
      /\ Restored + 1 \in DOMAIN file /\ Entry = file[Restored + 1]
  BY <1>2, EntryOfFile
<1>4. Len(handles) \in Nat /\ DOMAIN handles = 1 .. Len(handles)
  BY DEF TypeOK
<1>5. /\ DOMAIN handles' = 1 .. Len(handles) + 1
      /\ \A j \in DOMAIN handles : j \in DOMAIN handles' /\ handles'[j] = handles[j]
      /\ handles'[Len(handles) + 1] = [link |-> Entry.link, handle |-> o]
  BY <1>1, <1>4 DEF TypeOK
<1>6. \A j \in DOMAIN handles : handles[j].handle # o
  BY <1>1 DEF InUse
<1>7. \A m, n \in DOMAIN handles' : m # n => handles'[m].handle # handles'[n].handle
  <2>1. \A m \in DOMAIN handles' : m \in DOMAIN handles \/ m = Len(handles) + 1
    BY <1>4, <1>5
  <2>2. handles'[Len(handles) + 1].handle = o
    BY <1>5
  <2> QED
    BY <1>5, <1>6, <2>1, <2>2 DEF LoadInv
<1>8. ASSUME NEW n \in 1 .. Restored + 1, file[n].id \in Handles
      PROVE  \E j \in DOMAIN handles' :
               handles'[j] = [link |-> file[n].link, handle |-> stored'[file[n].id]]
  <2>1. CASE n = Restored + 1
    <3>1. stored'[file[n].id] = o
      BY <1>1, <1>2, <1>3, <2>1 DEF TypeOK
    <3>2. Len(handles) + 1 \in DOMAIN handles'
      BY <1>4, <1>5
    <3> QED
      BY <1>3, <1>5, <2>1, <3>1, <3>2
  <2>2. CASE n # Restored + 1
    <3>1. n \in 1 .. Restored /\ n \in DOMAIN file
      BY <1>3, <2>2
    <3>2. file[n].id # Entry.id
      BY <1>3, <2>2, <3>1 DEF LoadInv
    <3>3. stored'[file[n].id] = stored[file[n].id]
      BY <1>1, <1>8, <3>2 DEF TypeOK
    <3>4. PICK j \in DOMAIN handles :
            handles[j] = [link |-> file[n].link, handle |-> stored[file[n].id]]
      BY <1>2, <1>8, <3>1 DEF LoadInv, Restoring, Loading
    <3> QED
      BY <1>5, <3>3, <3>4
  <2> QED
    BY <2>1, <2>2
<1>9. Restoring'
  BY <1>2, <1>8, EntryOfFile DEF Restoring
<1> QED
  BY <1>2, <1>7, <1>9 DEF LoadInv

LEMMA StepRestores ==
  ASSUME TypeOK, LoadInv, [Next]_vars PROVE LoadInv'
<1>1. CASE \/ \E t \in Targets : Store(t) \/ DeleteTarget(t)
           \/ \E h \in Handles : DeleteHandle(h) \/ Recreate(h)
           \/ \E h \in Handles, id \in Targets \cup {None} : CreateHandle(h, id)
           \/ \E h \in Handles, id \in Ids \cup {None} : LinkTo(h, id)
  <2>1. load = None /\ load' = load /\ handles' = handles /\ file' = file
    BY <1>1 DEF Store, DeleteTarget, DeleteHandle, Recreate, CreateHandle, LinkTo, Idle
  <2> QED
    BY <2>1 DEF LoadInv
<1>2. CASE LoadFails
  BY <1>2 DEF LoadFails, LoadInv
<1>3. CASE PostProcess \/ PostProcessFails
  BY <1>3 DEF PostProcess, PostProcessFails, LoadInv
<1>4. CASE UNCHANGED vars
  BY SMTT(30), <1>4 DEF LoadInv, Restoring, Restored, vars
<1> QED
  BY <1>1, <1>2, <1>3, <1>4, SaveRestores, StartRestores, TargetRestores, HandleRestores DEF Next

\* What a load that ends linking every handle put aside does to one of them.
LEMMA LinkedAtTheEnd ==
  ASSUME TypeOK, LoadInv, PostProcess,
         NEW j \in DOMAIN handles, NEW h \in Handles, handles[j].handle = stored[h]
  PROVE  object'[stored'[h]] = Linked(object[stored[h]], handles[j].link)
<1> DEFINE o == stored[h]
           n == Len(handles)
           mine == {i \in 1 .. n : handles[i].handle = o}
<1>1. DOMAIN handles = 1 .. n
  BY DEF TypeOK
<1>2. o \in Objects /\ stored' = stored
  BY PendingTyped DEF PostProcess
<1>3. o \in InUse'
  <2>1. o # None
    BY <1>2, HandlesAssumption
  <2>2. o \in HandleObjects'
    BY <1>2, <2>1 DEF HandleObjects
  <2> QED
    BY <2>2 DEF InUse
<1>4. object'[o] = LinkedUpTo(n)[o]
  BY <1>2, <1>3 DEF PostProcess, Cleared
<1>5. mine = {j}
  BY <1>1 DEF LoadInv
<1>6. (CHOOSE i \in mine : TRUE) = j
  BY <1>5
<1>7. LinkedUpTo(n)[o] = Linked(object[o], handles[j].link)
  BY <1>2, <1>5, <1>6 DEF LinkedUpTo
<1> QED
  BY <1>2, <1>4, <1>7

\* When the load has ended, each handle of the file has its link.
LEMMA EndRestores ==
  ASSUME TypeOK, LoadInv, PostProcess, load.todo = <<>>,
         NEW i \in DOMAIN file, file[i].id \in Handles
  PROVE  LET f == object'[stored[file[i].id]]
         IN /\ f.currentLink = file[i].link
            /\ f.currentLink # None => f.handle_ = [id |-> f.currentLink, present |-> TRUE]
<1>1. Restoring /\ stored' = stored
  BY DEF PostProcess, LoadInv
<1>2. Restored = Len(file) /\ DOMAIN file = 1 .. Len(file)
  BY DEF Restored, TypeOK
<1>3. PICK j \in DOMAIN handles :
        handles[j] = [link |-> file[i].link, handle |-> stored[file[i].id]]
  BY <1>1, <1>2 DEF Restoring
<1> DEFINE o == stored[file[i].id]
<1>4. object'[o] = Linked(object[o], file[i].link)
  BY <1>1, <1>3, LinkedAtTheEnd
<1>5. object[o] \in Fields
  <2>1. handles[j] \in Pending
    BY ElementOfSeq DEF TypeOK
  <2> QED
    BY <1>3, <2>1 DEF Pending, TypeOK
<1>6. CASE file[i].link = None
  <2>1. object'[o].currentLink = None
    BY <1>4, <1>5, <1>6 DEF Linked, Fields
  <2> QED
    BY <1>6, <2>1
<1>7. CASE file[i].link # None
  <2> DEFINE link == [id |-> file[i].link, present |-> TRUE]
  <2>1. object'[o] =
          [currentLink |-> file[i].link, object_ |-> link, handle_ |-> link, behind |-> FALSE]
    BY <1>4, <1>7 DEF Linked, Current
  <2> QED
    BY <2>1
<1> QED
  BY <1>6, <1>7

\* A load that succeeds leaves every handle of the file with the link it was saved
\* with, to the present object of that ID, whatever loads failed before it and
\* wherever in the file that object was (RelinkableHandleProcessor::postProcess).
THEOREM LoadAlwaysLinks == Spec => LoadLinks
<1> DEFINE Links ==
      load # None /\ load' = None /\ handles' = <<>> /\ load.todo = <<>> =>
        \A i \in DOMAIN file : file[i].id \in Handles =>
          LET f == object'[stored[file[i].id]]
          IN /\ f.currentLink = file[i].link
             /\ f.currentLink # None => f.handle_ = [id |-> f.currentLink, present |-> TRUE]
<1>1. TypeOK /\ LoadInv /\ [Next]_vars => LoadInv'
  BY StepRestores
<1>2. TypeOK /\ LoadInv /\ [Next]_vars => [Links]_vars
  <2> SUFFICES ASSUME TypeOK, LoadInv, Next,
                      load # None, load' = None, handles' = <<>>, load.todo = <<>>,
                      NEW i \in DOMAIN file, file[i].id \in Handles
               PROVE  LET f == object'[stored[file[i].id]]
                      IN /\ f.currentLink = file[i].link
                         /\ f.currentLink # None =>
                              f.handle_ = [id |-> f.currentLink, present |-> TRUE]
    BY DEF Links
  <2>1. PostProcess
    <3>1. ~PostProcessFails
      <4> SUFFICES ASSUME PostProcessFails PROVE FALSE
        OBVIOUS
      <4>1. PICK n \in DOMAIN handles : handles' = handles
        BY DEF PostProcessFails
      <4> QED
        BY <4>1
    <3> QED
      BY <3>1 DEF Next, Store, DeleteTarget, DeleteHandle, Recreate, CreateHandle, LinkTo, Save,
             StartLoad, LoadFails, LoadTarget, LoadHandle, Idle, Loading
  <2> QED
    BY <2>1, EndRestores
<1> QED
  BY <1>1, <1>2, LoadInit, LinkTypes, PTL DEF Spec, LoadLinks
=============================================================================
