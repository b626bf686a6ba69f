--------------------------- MODULE CallingRanges ---------------------------
(***************************************************************************)
(* How a call that stores an object identifies the cell it comes from:     *)
(* FunctionCalls with the names that Excel keeps for cells, the calling    *)
(* ranges that RepositoryXL keeps by those names (ohxl/repositoryxl.cpp),  *)
(* and their update counters, which the IDs shown in cells carry so that   *)
(* Excel recalculates what depends on them (ohxl/callingrange.cpp).        *)
(***************************************************************************)
EXTENDS FunctionCalls

CONSTANTS
  MaxKeys,   \* KEY_BASE ^ KEY_WIDTH: the keys there are
  MaxCount,  \* the largest update count that is shown
  ObjectIDs

ASSUME CallingRangesAssumption ==
  /\ MaxKeys \in Nat \ {0} /\ MaxCount \in Nat \ {0}
  /\ None \notin ObjectIDs /\ None \notin Nat
  /\ "deleted" \notin Addresses \cup {None}

VARIABLES
  keyCount,       \* CallingRange::keyCount_
  callingRanges,  \* callingRanges_: key -> updateCount_, None without an entry
  names,          \* Excel's hidden names: key -> address, "deleted" once it is
                  \* gone from the sheet, None where there is no name
  shown           \* the full ID that a formula shows, None where it shows no ID

rangeVars == <<keyCount, callingRanges, names, shown>>
vars == <<callVars, rangeVars>>

Keys == 0 .. MaxKeys - 1
FullID == [id: ObjectIDs, count: 0 .. MaxCount]

RangesTypeOK ==
  /\ TypeOK
  /\ keyCount \in 0 .. MaxKeys
  /\ callingRanges \in [Keys -> 0 .. MaxCount + 1 \cup {None}]
  /\ names \in [Keys -> Addresses \cup {"deleted", None}]
  /\ shown \in [Addresses -> FullID \cup {None}]

RangesInit ==
  /\ Init
  /\ keyCount = 0
  /\ callingRanges = [k \in Keys |-> None]
  /\ names = [k \in Keys |-> None]
  /\ shown = [a \in Addresses |-> None]

Named(a) == {k \in Keys : names[k] = a}

-----------------------------------------------------------------------------
(* The user: Excel keeps the names up to date *)

ShownElsewhere(a) == shown' = [b \in Addresses |-> IF Overlap(a, b) THEN None ELSE shown[b]]

ChangeFormula(a) ==
  /\ EnterFormula(a) \/ ClearFormula(a)
  /\ ShownElsewhere(a)
  /\ UNCHANGED <<keyCount, callingRanges, names>>

\* Names move with their cell; those of the cell that is pasted over are lost.
MoveNamedCell(a, b) ==
  /\ MoveCell(a, b)
  /\ names' = [k \in Keys |-> CASE names[k] = a -> b [] names[k] = b -> "deleted"
                                [] OTHER -> names[k]]
  /\ shown' = [shown EXCEPT ![a] = None, ![b] = shown[a]]
  /\ UNCHANGED <<keyCount, callingRanges>>

\* The user deletes the cells of a.
DeleteCells(a) ==
  /\ call = None
  /\ \A b \in Formulas : Overlap(a, b) => Within(b, a)
  /\ formula' = [b \in Addresses |-> IF Overlap(a, b) THEN "none" ELSE formula[b]]
  /\ names' = [k \in Keys |-> IF \E b \in Addresses : names[k] = b /\ Within(b, a)
                              THEN "deleted" ELSE names[k]]
  /\ ShownElsewhere(a)
  /\ UNCHANGED <<instance, call, errors, outcome, keyCount, callingRanges>>

-----------------------------------------------------------------------------
(* Storing an object *)

StoringFrom(a) == InBody /\ call.caller = a /\ a \in Addresses

\* A function that ends in an error, or returns something else, shows no ID.
ShowsOther ==
  shown' = [a \in Addresses |-> IF call.caller = a THEN None ELSE shown[a]]

StoreThrows == ShowsOther /\ call' = [call EXCEPT !.phase = "thrown"]

\* CallingRange::CallingRange, for a cell without a name: it gets the next key, and
\* its name unless Excel refuses.
NoKeyLeft(a) ==
  /\ StoringFrom(a) /\ Named(a) = {}
  /\ keyCount = MaxKeys
  /\ StoreThrows
  /\ UNCHANGED <<keyCount, callingRanges, names>>

NameRefused(a) ==
  /\ StoringFrom(a) /\ Named(a) = {}
  /\ keyCount < MaxKeys
  /\ keyCount' = keyCount + 1
  /\ StoreThrows
  /\ UNCHANGED <<callingRanges, names>>

\* getCallingRange finds no range of the name that Excel gives for the cell, which
\* may be one that the user has chosen.
RangeUnknown(a) ==
  /\ StoringFrom(a)
  /\ StoreThrows
  /\ UNCHANGED <<keyCount, callingRanges, names>>

\* MUTANT of RangeOf: whether the cell has a name already is not asked.
RangeOfAlwaysNew(a) ==
  IF keyCount < MaxKeys
    THEN {[key |-> keyCount, keyCount |-> keyCount + 1, count |-> 0]} ELSE {}

\* getCallingRange: the range the cell's name stands for, or a new one.
RangeOf(a) ==
  CASE Named(a) # {} ->
         {[key |-> k, keyCount |-> keyCount, count |-> callingRanges[k]] :
            k \in {n \in Named(a) : callingRanges[n] # None}}
    [] Named(a) = {} /\ keyCount < MaxKeys ->
         {[key |-> keyCount, keyCount |-> keyCount + 1, count |-> 0]}
    [] OTHER -> {}

GetCallingRange(a, range, count) ==
  /\ keyCount' = range.keyCount
  /\ callingRanges' = [callingRanges EXCEPT ![range.key] = count]
  /\ names' = [names EXCEPT ![range.key] = a]

\* MUTANT of UpdateCount: the counter stays at its limit.
UpdateCountSaturates(count) == IF count > MaxCount THEN MaxCount ELSE count

\* MUTANT of UpdateCount: the counter starts again one too late.
UpdateCountLate(count) == IF count > MaxCount + 1 THEN 0 ELSE count

\* CallingRange::updateCount: the count that is shown.
UpdateCount(count) == IF count > MaxCount THEN 0 ELSE count

\* initializeID rejects the ID, or the object resides in another cell; or the object
\* has used an update count when registerObserver throws.
StoreRefused(a) ==
  /\ StoringFrom(a)
  /\ \E range \in RangeOf(a) :
       \E count \in {range.count, UpdateCount(range.count) + 1} : GetCallingRange(a, range, count)
  /\ StoreThrows

\* The object is stored; its ID and the range's next update count are shown.
StoreObject(a, id) ==
  /\ StoringFrom(a)
  /\ \E range \in RangeOf(a) :
       /\ GetCallingRange(a, range, UpdateCount(range.count) + 1)
       /\ shown' = [shown EXCEPT ![a] = [id |-> id, count |-> UpdateCount(range.count)]]
  /\ call' = [call EXCEPT !.phase = "returning"]

\* ohObjectLoad stores the objects of files, as many as there are, until one fails;
\* each uses an update count, but the IDs that are returned show none.
LoadObjects(a) ==
  /\ StoringFrom(a)
  /\ \E range \in RangeOf(a), count \in 1 .. MaxCount + 1 : GetCallingRange(a, range, count)
  /\ ShowsOther
  /\ \E phase \in {"returning", "thrown"} : call' = [call EXCEPT !.phase = phase]

-----------------------------------------------------------------------------
(* Calls that store nothing *)

Gone(k) == names[k] = "deleted"

\* MUTANT of CollectGarbage: ranges that are valid go as well when they are empty.
CollectGarbageAnywhere ==
  /\ InBody
  /\ \E empty \in SUBSET {k \in Keys : callingRanges[k] # None} :
       callingRanges' = [k \in Keys |-> IF k \in empty THEN None ELSE callingRanges[k]]
  /\ UNCHANGED <<callVars, keyCount, names, shown>>

\* collectGarbage drops the ranges whose cell is gone, unless permanent objects
\* stay in them; the name goes with the range.
CollectGarbage ==
  /\ InBody
  /\ \E empty \in SUBSET {k \in Keys : callingRanges[k] # None /\ Gone(k)} :
       /\ callingRanges' = [k \in Keys |-> IF k \in empty THEN None ELSE callingRanges[k]]
       /\ names' = [k \in Keys |-> IF k \in empty THEN None ELSE names[k]]
  /\ UNCHANGED <<callVars, keyCount, shown>>

\* RepositoryXL::clear, as Excel closes the addin: the names go with the ranges.
Close ==
  /\ ClearErrors
  /\ callingRanges' = [k \in Keys |-> None]
  /\ names' = [k \in Keys |-> None]
  /\ shown' = [a \in Addresses |-> None]
  /\ UNCHANGED keyCount

-----------------------------------------------------------------------------

UserXL ==
  \E a \in Addresses :
    \/ ChangeFormula(a) \/ DeleteCells(a)
    \/ \E b \in Addresses : MoveNamedCell(a, b)

\* A call stores one object, or those of files; what it does before is the rest of
\* its body.
Store ==
  \E a \in Addresses :
    /\ \/ NoKeyLeft(a) \/ NameRefused(a) \/ RangeUnknown(a) \/ StoreRefused(a)
       \/ LoadObjects(a)
       \/ \E id \in ObjectIDs : StoreObject(a, id)
    /\ UNCHANGED <<formula, instance, errors, outcome>>

NextXL ==
  \/ UserXL \/ Store \/ CollectGarbage \/ Close
  \/ /\ \/ \E caller \in Callers : Construct(caller)
        \/ ConstructFails \/ Return
        \/ \E message \in Messages : LogError(message)
     /\ UNCHANGED rangeVars
  \/ (Throw \/ Complete) /\ ShowsOther /\ UNCHANGED <<keyCount, callingRanges, names>>

SpecXL == RangesInit /\ [][NextXL]_vars

-----------------------------------------------------------------------------
(* Properties *)

\* A cell has at most one hidden name, however cells are moved, deleted and named
\* anew: the range found by it, and its counter, are always the same.
OneNamePerCell ==
  \A j, k \in Keys : names[j] \in Addresses /\ names[j] = names[k] => j = k

\* No cell is left with a name that getCallingRange does not know, to fail for ever
\* with "No calling range named".
NamedIsKnown == \A k \in Keys : names[k] \in Addresses => callingRanges[k] # None

\* Every update of a cell that shows an ID shows another one, so that Excel
\* recalculates what depends on the cell, also when the counter starts again.
UpdateIsSeen ==
  [][\A a \in Addresses :
       StoringFrom(a) /\ ~InBody' /\ shown'[a] # None => shown'[a] # shown[a]]_vars
=============================================================================
