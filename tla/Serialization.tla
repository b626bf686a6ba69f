--------------------------- MODULE Serialization ---------------------------
(***************************************************************************)
(* Groups of objects, instruments and the engines that price them, and     *)
(* their way through files: saveObject and loadObject                      *)
(* (oh/serializationfactory.cpp), the expansion of groups                  *)
(* (oh/conversions/getobjectvector.hpp, oh/group.hpp) and the processor    *)
(* that gives an instrument its engine back                                *)
(* (qlo/serialization/processor.cpp).                                      *)
(*                                                                         *)
(* A group lists IDs, whatever is stored under them.  An instrument keeps  *)
(* the ID of the engine it was given, in its property EngineID, and the    *)
(* engine itself.                                                          *)
(***************************************************************************)
EXTENDS Naturals, Sequences, FiniteSets, SequencesExt

CONSTANTS
  Groups, Instruments, Engines,  \* the IDs of each kind of object
  Paths,       \* the files of a directory
  GroupLists,  \* the lists of IDs that clients make groups of
  SaveLists,   \* the lists of IDs that clients save
  MaxNesting,  \* the nesting level that getObjectVector rejects
  Cut,         \* what is in a file that was not written to its end
  None         \* no ID, no object or no file

Ids == Groups \cup Instruments \cup Engines

ASSUME SerializationAssumption ==
  /\ Groups \cap Instruments = {} /\ Groups \cap Engines = {} /\ Instruments \cap Engines = {}
  /\ None \notin Ids /\ Cut # None /\ None \notin [id: Engines, present: BOOLEAN]
  /\ GroupLists \subseteq Seq(Ids \cup {None}) \ {<<>>}
  /\ SaveLists \subseteq Seq(Ids \cup {None})
  /\ IsFiniteSet(Groups) /\ IsFiniteSet(Paths)
  /\ MaxNesting \in Nat \ {0}

VARIABLES
  stored,    \* the IDs in the repository
  dirty,     \* the instruments and engines whose wrapper is dirty
  list,      \* group -> its list
  engineID,  \* instrument -> its property EngineID, None if it has none
  engine,    \* instrument -> the engine it is priced with, None if it has none
  files,     \* path -> what is in the file, None if there is no file
  load       \* the running call to loadObject

objectVars == <<stored, dirty, list, engineID, engine>>
vars == <<objectVars, files, load>>

\* present: it is the object stored under that ID now.
Link == [id: Engines, present: BOOLEAN]

Item == [id: Ids, list: GroupLists \cup {<<>>}, engineID: Engines \cup {None}]

TypeOK ==
  /\ stored \subseteq Ids
  /\ dirty \subseteq stored \cap (Instruments \cup Engines)
  /\ list \in [Groups -> GroupLists \cup {<<>>}]
  /\ \A g \in Groups : g \in stored <=> list[g] # <<>>
  /\ engineID \in [Instruments -> Engines \cup {None}]
  /\ engine \in [Instruments -> Link \cup {None}]
  /\ \A i \in Instruments : engine[i] # None => engineID[i] = engine[i].id
  /\ files \in [Paths -> Seq(Item) \cup {Cut, None}]
  /\ load = None \/ /\ load.todo \in Seq(Item \cup {Cut}) /\ load.done \in Seq(Item)
                    /\ load.overwrite \in BOOLEAN

Idle == load = None

EmptyLists == [g \in Groups |-> <<>>]
NoEngines == [i \in Instruments |-> None]

Init ==
  /\ stored = {} /\ dirty = {}
  /\ list = EmptyLists
  /\ engineID = NoEngines /\ engine = NoEngines
  /\ files = [p \in Paths |-> None]
  /\ load = None

-----------------------------------------------------------------------------
(* The repository *)

\* engine, once the engines in S are replaced or deleted.
Outdated(S) ==
  [i \in Instruments |-> IF engine[i] # None /\ engine[i].id \in S
                         THEN [engine[i] EXCEPT !.present = FALSE] ELSE engine[i]]

\* engine and dirty, once the objects in S are retrieved: those that are dirty are
\* recreated, without a processor, so that instruments lose their engines.
Retrieved(S) ==
  /\ engine' = [i \in Instruments |->
                  IF i \in S \cap dirty THEN None ELSE Outdated(S \cap dirty)[i]]
  /\ dirty' = dirty \ S

StoreObject(id) == stored' = stored \cup {id} /\ dirty' = dirty \ {id}

\* MUTANT of StoreGroup: a group that is stored again keeps its list.
StoreGroupOnce(g, ids) ==
  /\ StoreObject(g)
  /\ list' = [list EXCEPT ![g] = IF g \in stored THEN @ ELSE ids]
  /\ UNCHANGED <<engineID, engine>>

StoreGroup(g, ids) ==
  /\ StoreObject(g)
  /\ list' = [list EXCEPT ![g] = ids]
  /\ UNCHANGED <<engineID, engine>>

StoreEngine(e) ==
  /\ StoreObject(e)
  /\ engine' = Outdated({e})
  /\ UNCHANGED <<list, engineID>>

\* MUTANT of StoreInstrument: the engine of the instrument that it replaces is kept.
StoreInstrumentPriced(i) ==
  /\ StoreObject(i)
  /\ engineID' = [engineID EXCEPT ![i] = None]
  /\ UNCHANGED <<list, engine>>

\* A new instrument has no engine.
StoreInstrument(i) ==
  /\ StoreObject(i)
  /\ engineID' = [engineID EXCEPT ![i] = None]
  /\ engine' = [engine EXCEPT ![i] = None]
  /\ UNCHANGED list

\* An object that it is built from, such as a quote, changes.
BecomeDirty(id) ==
  /\ id \in stored \cap (Instruments \cup Engines)
  /\ dirty' = dirty \cup {id}
  /\ UNCHANGED <<stored, list, engineID, engine>>

\* Instrument::setPricingEngine
SetPricingEngine(i, e) ==
  /\ {i, e} \subseteq stored
  /\ engineID' = [engineID EXCEPT ![i] = e]
  /\ engine' = [Outdated({e} \cap dirty) EXCEPT ![i] = [id |-> e, present |-> TRUE]]
  /\ dirty' = dirty \ {i, e}
  /\ UNCHANGED <<stored, list>>

DeleteObject(id) ==
  /\ id \in stored
  /\ stored' = stored \ {id} /\ dirty' = dirty \ {id}
  /\ list' = [g \in Groups |-> IF g = id THEN <<>> ELSE list[g]]
  /\ engineID' = [i \in Instruments |-> IF i = id THEN None ELSE engineID[i]]
  /\ engine' = [i \in Instruments |-> IF i = id THEN None ELSE Outdated({id})[i]]

Client ==
  /\ Idle
  /\ \/ \E g \in Groups, ids \in GroupLists : StoreGroup(g, ids)
     \/ \E e \in Engines : StoreEngine(e)
     \/ \E i \in Instruments : StoreInstrument(i) \/ \E e \in Engines : SetPricingEngine(i, e)
     \/ \E id \in Ids : BecomeDirty(id) \/ DeleteObject(id)
  /\ UNCHANGED <<files, load>>

-----------------------------------------------------------------------------
(* The expansion of groups *)

\* The results for the members of a list one after the other, up to the first that throws.
Concatenated(results) ==
  LET whole == {n \in 0 .. Len(results) : \A k \in 1 .. n : results[k].ok}
      n == CHOOSE m \in whole : \A k \in whole : k <= m
  IN [ok |-> n = Len(results),
      ids |-> FlattenSeq([k \in 1 .. (IF n < Len(results) THEN n + 1 ELSE n) |-> results[k].ids])]

\* MUTANT of Expanded: a group is put before its members.
ExpandedBefore(includeGroups) ==
  LET expanded[level \in 0 .. MaxNesting] == [id \in Ids \cup {None} |->
        IF id = None THEN [ok |-> TRUE, ids |-> <<>>]
        ELSE IF id \notin stored THEN [ok |-> FALSE, ids |-> <<>>]
        ELSE IF id \notin Groups THEN [ok |-> TRUE, ids |-> <<id>>]
        ELSE IF level + 1 >= MaxNesting THEN [ok |-> FALSE, ids |-> <<>>]
        ELSE LET members == Concatenated([k \in DOMAIN list[id] |->
                                            expanded[level + 1][list[id][k]]])
             IN [members EXCEPT !.ids = IF includeGroups THEN <<id>> \o @ ELSE @]]
  IN expanded

\* getObjectVector: what an ID in a list at a nesting level stands for, or the objects
\* retrieved until it throws; a group comes after its members, if at all, and an empty
\* ID is ignored.
Expanded(includeGroups) ==
  LET expanded[level \in 0 .. MaxNesting] == [id \in Ids \cup {None} |->
        IF id = None THEN [ok |-> TRUE, ids |-> <<>>]
        ELSE IF id \notin stored THEN [ok |-> FALSE, ids |-> <<>>]
        ELSE IF id \notin Groups THEN [ok |-> TRUE, ids |-> <<id>>]
        ELSE IF level + 1 >= MaxNesting THEN [ok |-> FALSE, ids |-> <<>>]
        ELSE LET members == Concatenated([k \in DOMAIN list[id] |->
                                            expanded[level + 1][list[id][k]]])
             IN [members EXCEPT !.ids = IF includeGroups /\ members.ok THEN Append(@, id) ELSE @]]
  IN expanded

GetObjectVector(ids, includeGroups) ==
  Concatenated([k \in DOMAIN ids |-> Expanded(includeGroups)[0][ids[k]]])

-----------------------------------------------------------------------------
(* Saving *)

\* MUTANT of Seen: an object is left out if it is the one before.
SeenJustBefore(ids, k) == k > 1 /\ ids[k - 1] = ids[k]

Seen(ids, k) == \E j \in 1 .. k - 1 : ids[j] = ids[k]

ItemOf(id) ==
  [id |-> id,
   list |-> IF id \in Groups THEN list[id] ELSE <<>>,
   engineID |-> IF id \in Instruments THEN engineID[id] ELSE None]

\* The n-th of the places in S.
Nth(S, n) == CHOOSE k \in S : Cardinality({j \in S : j <= k}) = n

\* saveObjectStream: each object once, at its first place.
SavedAs(ids) ==
  LET kept == {k \in DOMAIN ids : ~Seen(ids, k)}
  IN [n \in 1 .. Cardinality(kept) |-> ItemOf(ids[Nth(kept, n)])]

\* saveObject.  The file that is there is removed first, and a file that cannot be
\* opened or written to its end is an exception.
Save(path, ids, force, includeGroups) ==
  /\ Idle
  /\ LET objects == GetObjectVector(ids, includeGroups)
     IN /\ Retrieved(ToSet(objects.ids))
        /\ \/ UNCHANGED files
           \/ /\ objects.ok /\ objects.ids # <<>>
              /\ files[path] # None => force
              /\ \E written \in {SavedAs(objects.ids), Cut, None} :
                   files' = [files EXCEPT ![path] = written]
  /\ UNCHANGED <<stored, list, engineID, load>>

-----------------------------------------------------------------------------
(* Loading *)

\* loadObject: the files come in the order of the directory.
StartLoad(order, overwrite) ==
  /\ Idle
  /\ load' = [overwrite |-> overwrite, done |-> <<>>,
              todo |-> FlattenSeq([n \in DOMAIN order |->
                         IF files[order[n]] = Cut THEN <<Cut>> ELSE files[order[n]]])]
  /\ UNCHANGED <<objectVars, files>>

Loading == load # None /\ load.todo # <<>>
Entry == Head(load.todo)
Refused == Entry # Cut => Entry.id \in stored /\ ~load.overwrite
Loaded == load' = [load EXCEPT !.todo = Tail(@), !.done = Append(@, Entry)]

\* Nothing of a file that is cut is processed; restoreObject throws for an ID that is
\* taken.
LoadRefused ==
  /\ Loading /\ Refused
  /\ load' = None
  /\ UNCHANGED <<objectVars, files>>

LoadGroup ==
  /\ Loading /\ ~Refused /\ Entry.id \in Groups
  /\ StoreGroup(Entry.id, Entry.list)
  /\ Loaded
  /\ UNCHANGED files

LoadEngine ==
  /\ Loading /\ ~Refused /\ Entry.id \in Engines
  /\ StoreEngine(Entry.id)
  /\ Loaded
  /\ UNCHANGED files

\* InstrumentProcessor::process: the instrument is stored, and then given the engine
\* that is in the repository.
LoadInstrument ==
  /\ Loading /\ ~Refused /\ Entry.id \in Instruments
  /\ Entry.engineID # None => Entry.engineID \in stored \cap Engines
  /\ stored' = stored \cup {Entry.id} /\ dirty' = dirty \ {Entry.id, Entry.engineID}
  /\ engineID' = [engineID EXCEPT ![Entry.id] = Entry.engineID]
  /\ engine' = [Outdated({Entry.engineID} \cap dirty) EXCEPT ![Entry.id] =
                  IF Entry.engineID = None THEN None ELSE [id |-> Entry.engineID, present |-> TRUE]]
  /\ Loaded
  /\ UNCHANGED <<list, files>>

\* There is no such engine: the load ends, the instrument stays.
LoadUnpriced ==
  /\ Loading /\ ~Refused /\ Entry.id \in Instruments
  /\ Entry.engineID # None /\ Entry.engineID \notin stored \cap Engines
  /\ StoreObject(Entry.id)
  /\ engineID' = [engineID EXCEPT ![Entry.id] = Entry.engineID]
  /\ engine' = [engine EXCEPT ![Entry.id] = None]
  /\ load' = None
  /\ UNCHANGED <<list, files>>

EndLoad ==
  /\ load # None /\ load.todo = <<>>
  /\ load' = None
  /\ UNCHANGED <<objectVars, files>>

\* The process ends, also during a load, and starts again.
Restart ==
  /\ stored' = {} /\ dirty' = {}
  /\ list' = EmptyLists
  /\ engineID' = NoEngines /\ engine' = NoEngines
  /\ load' = None
  /\ UNCHANGED files

-----------------------------------------------------------------------------

\* The orders in which a directory may give the files that match a pattern.
Orders ==
  UNION {{o \in [1 .. Cardinality(P) -> P] : \A m, n \in DOMAIN o : m # n => o[m] # o[n]} :
           P \in SUBSET {p \in Paths : files[p] # None} \ {{}}}

Next ==
  \/ Client
  \/ \E path \in Paths, ids \in SaveLists, force, includeGroups \in BOOLEAN :
       Save(path, ids, force, includeGroups)
  \/ \E order \in Orders, overwrite \in BOOLEAN : StartLoad(order, overwrite)
  \/ LoadRefused \/ LoadGroup \/ LoadEngine \/ LoadInstrument \/ LoadUnpriced \/ EndLoad
  \/ Restart

Spec == Init /\ [][Next]_vars

-----------------------------------------------------------------------------
(* Properties *)

\* The IDs that a list stands for, through groups that are stored, at any depth.
Closure(ids) ==
  LET reach[n \in 0 .. Cardinality(Groups)] ==
        IF n = 0 THEN ToSet(ids)
        ELSE reach[n - 1] \cup UNION {ToSet(list[g]) : g \in reach[n - 1] \cap Groups}
  IN reach[Cardinality(Groups)] \ {None}

\* Groups that contain one another in a row, as many as the nesting limit.
TooDeep(ids) ==
  \E chain \in [1 .. MaxNesting -> Groups] :
    /\ chain[1] \in ToSet(ids)
    /\ \A n \in 2 .. MaxNesting : chain[n] \in ToSet(list[chain[n - 1]])

\* saveObject writes every object that the list stands for once, each group after its
\* members; it gives up if one of them is missing, or groups are nested to the limit,
\* as they are when a group contains itself, and for no other reason.
SavesTheClosure ==
  \A ids \in SaveLists, includeGroups \in BOOLEAN :
    LET objects == GetObjectVector(ids, includeGroups)
        saved == SavedAs(objects.ids)
        Place(id) == CHOOSE n \in DOMAIN saved : saved[n].id = id
    IN /\ objects.ok <=> Closure(ids) \subseteq stored /\ ~TooDeep(ids)
       /\ objects.ok =>
            /\ {saved[n].id : n \in DOMAIN saved} =
                 IF includeGroups THEN Closure(ids) ELSE Closure(ids) \ Groups
            /\ \A m, n \in DOMAIN saved : m # n => saved[m].id # saved[n].id
            /\ \A n \in DOMAIN saved : \A id \in ToSet(saved[n].list) \ {None} :
                 Place(id) < n

\* The places of the last items of each ID.
LastOfEach(items) == {n \in DOMAIN items : \A m \in n + 1 .. Len(items) : items[m].id # items[n].id}

\* What a load has read so far is restored, also when it fails later: every group has
\* its list and every instrument the present object of its engine, unless the files had
\* that engine again after the instrument, which then keeps the engine that was replaced.
LoadRestores ==
  load # None =>
    \A n \in LastOfEach(load.done) :
      LET item == load.done[n]
          replaced == \E m \in n + 1 .. Len(load.done) : load.done[m].id = item.engineID
      IN /\ item.id \in stored
         /\ item.id \in Groups => list[item.id] = item.list
         /\ item.id \in Instruments =>
              engine[item.id] = IF item.engineID = None THEN None
                                ELSE [id |-> item.engineID, present |-> ~replaced]
=============================================================================
