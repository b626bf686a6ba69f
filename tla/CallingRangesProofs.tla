------------------------ MODULE CallingRangesProofs ------------------------
(***************************************************************************)
(* Proofs about FunctionCalls and CallingRanges, for any cells, addresses, *)
(* messages and limits: the singleton and the messages that calls leave,   *)
(* and the names and counters of cells.                                    *)
(***************************************************************************)
EXTENDS CallingRanges, TLAPS

\* While a call runs, what it has logged is kept for its origin already, and for
\* other origins what their last calls left.
MessagesKept ==
  /\ \A a \in Parsed :
       errorMessages[a] = IF call # None /\ call.caller = a /\ call.error
                            THEN call.message ELSE outcome[a]
  /\ vbaError = IF call # None /\ call.caller \in Macros /\ call.error
                  THEN call.message ELSE outcome["VBA"]
  /\ call # None /\ ~call.error => call.message = None

\* The inductive invariant of calls and their errors.
CallInv == TypeOK /\ InstanceIsTheCall /\ MessagesKept

\* Keys from the counter on are not used.
KeysFresh == \A k \in Keys : k >= keyCount => names[k] = None /\ callingRanges[k] = None

\* The count that a cell shows is the one before the counter of the cell's range.
ShownIsCounted ==
  \A a \in Addresses : shown[a] # None =>
    \E k \in Keys : names[k] = a /\ callingRanges[k] = shown[a].count + 1

\* The inductive invariant of calling ranges.
RangesInv ==
  /\ CallInv /\ RangesTypeOK
  /\ KeysFresh /\ OneNamePerCell /\ NamedIsKnown /\ ShownIsCounted

-----------------------------------------------------------------------------
(* Calls and errors *)

LEMMA CallInitSafe == ASSUME Init PROVE CallInv
BY FunctionCallsAssumption DEF Init, CallInv, TypeOK, InstanceIsTheCall, MessagesKept, Origins

\* Nothing that the user does to formulas disturbs a call or a message.
LEMMA UserIsApart ==
  ASSUME CallInv, formula' \in [Addresses -> {"none", "new", "called"}],
         UNCHANGED <<instance, call, errors, outcome>>
  PROVE  CallInv'
BY DEF CallInv, TypeOK, InstanceIsTheCall, MessagesKept, errors

LEMMA EnterSafe ==
  ASSUME CallInv, NEW a \in Addresses, EnterFormula(a) \/ ClearFormula(a) PROVE CallInv'
<1>1. formula' \in [Addresses -> {"none", "new", "called"}]
  BY DEF EnterFormula, ClearFormula, CallInv, TypeOK
<1> QED
  BY <1>1, UserIsApart DEF EnterFormula, ClearFormula

LEMMA MoveSafe ==
  ASSUME CallInv, NEW a \in Addresses, NEW b \in Addresses, MoveCell(a, b) PROVE CallInv'
<1>1. formula' \in [Addresses -> {"none", "new", "called"}]
  BY DEF MoveCell, CallInv, TypeOK
<1> QED
  BY <1>1, UserIsApart DEF MoveCell

\* A step of the running call that neither logs an error nor ends it.
LEMMA PhaseSafe ==
  ASSUME CallInv, call # None, NEW phase \in {"body", "thrown", "returning"},
         call' = [call EXCEPT !.phase = phase], UNCHANGED <<formula, instance, errors, outcome>>
  PROVE  CallInv'
<1>1. /\ call' \in FunctionCall /\ call' # None
      /\ call'.caller = call.caller /\ call'.error = call.error /\ call'.message = call.message
  BY NoneIsNoCall DEF CallInv, TypeOK, FunctionCall
<1> QED
  BY <1>1 DEF CallInv, TypeOK, InstanceIsTheCall, MessagesKept, errors

LEMMA ConstructSafe ==
  ASSUME CallInv, NEW caller \in Callers, Construct(caller) PROVE CallInv'
<1>1. call' = [caller |-> caller, phase |-> "body", error |-> FALSE, message |-> None]
  BY DEF Construct
<1>2. call' \in FunctionCall
  BY <1>1 DEF FunctionCall
<1>3. call' # None
  BY <1>2, NoneIsNoCall
<1>4. ~call'.error /\ call'.message = None
  BY <1>1
<1> QED
  BY <1>2, <1>3, <1>4 DEF Construct, CallInv, TypeOK, InstanceIsTheCall, MessagesKept, errors

LEMMA LogErrorSafe ==
  ASSUME CallInv, NEW message \in Messages, LogError(message) PROVE CallInv'
<1>1. /\ call' \in FunctionCall /\ call' # None
      /\ call'.caller = call.caller /\ call'.error /\ call'.message = message
  BY NoneIsNoCall DEF LogError, CallInv, TypeOK, FunctionCall
<1>2. /\ errorMessages' \in [Addresses -> Messages \cup {None}]
      /\ \A a \in Parsed : errorMessages'[a] = IF call.caller = a THEN message ELSE errorMessages[a]
  BY FunctionCallsAssumption DEF LogError, SetError, CallInv, TypeOK
<1>3. call.caller \in Callers
  BY DEF LogError, CallInv, TypeOK, FunctionCall
<1>4. MessagesKept'
  BY <1>1, <1>2 DEF LogError, CallInv, MessagesKept
<1> QED
  BY <1>1, <1>2, <1>4 DEF LogError, CallInv, TypeOK, InstanceIsTheCall

\* No address is the origin of macros.
LEMMA OriginsApart ==
  /\ \A a \in Parsed : a \in Origins /\ a \notin Macros /\ CallersAt(a) = {a}
  /\ "VBA" \in Origins /\ "VBA" \notin Parsed /\ CallersAt("VBA") = Macros
BY FunctionCallsAssumption, CallersAreDistinct DEF Origins, CallersAt, Macros

LEMMA ReturnSafe == ASSUME CallInv, Return PROVE CallInv'
<1>1. call \in FunctionCall
  BY DEF Return, CallInv, TypeOK
<1>2. outcome' \in [Origins -> Messages \cup {None}]
  BY <1>1 DEF Return, RecordOutcome, CallInv, TypeOK, FunctionCall
<1>3. /\ errorMessages' \in [Addresses -> Messages \cup {None}]
      /\ vbaError' \in Messages \cup {None}
      /\ formula' \in [Addresses -> {"none", "new", "called"}]
  BY DEF Return, CallInv, TypeOK
<1>4. /\ \A a \in Parsed : outcome'[a] = IF call.caller = a THEN call.message ELSE outcome[a]
      /\ outcome'["VBA"] = IF call.caller \in Macros THEN call.message ELSE outcome["VBA"]
  BY OriginsApart DEF Return, RecordOutcome
<1>5. \A a \in Parsed : errorMessages'[a] = outcome'[a]
  BY <1>4, FunctionCallsAssumption DEF Return, CallInv, MessagesKept
<1>6. vbaError' = outcome'["VBA"]
  BY <1>4 DEF Return, CallInv, MessagesKept
<1> QED
  BY <1>2, <1>3, <1>5, <1>6 DEF Return, CallInv, TypeOK, InstanceIsTheCall, MessagesKept

LEMMA ClearErrorsSafe == ASSUME CallInv, ClearErrors PROVE CallInv'
<1>1. outcome' \in [Origins -> Messages \cup {None}] /\ outcome'["VBA"] = outcome["VBA"]
  BY OriginsApart DEF ClearErrors, CallInv, TypeOK
<1>2. \A a \in Parsed : errorMessages'[a] = None /\ outcome'[a] = None
  BY OriginsApart, FunctionCallsAssumption DEF ClearErrors
<1> QED
  BY <1>1, <1>2 DEF ClearErrors, CallInv, TypeOK, InstanceIsTheCall, MessagesKept

-----------------------------------------------------------------------------
(* Names and counters *)

LEMMA RangesInitSafe == ASSUME RangesInit PROVE RangesInv
BY CallInitSafe, CallingRangesAssumption, FunctionCallsAssumption
DEF RangesInit, RangesInv, RangesTypeOK, KeysFresh, OneNamePerCell, NamedIsKnown,
    ShownIsCounted, CallInv

\* What remains to be shown of a step that leaves keys and counters alone.
LEMMA NamesSafe ==
  ASSUME RangesInv, CallInv', UNCHANGED <<keyCount, callingRanges>>,
         names' \in [Keys -> Addresses \cup {"deleted", None}],
         \A k \in Keys : names[k] = None => names'[k] = None,
         \A k \in Keys : names'[k] \in Addresses => names[k] \in Addresses,
         OneNamePerCell', shown' \in [Addresses -> FullID \cup {None}], ShownIsCounted'
  PROVE  RangesInv'
BY DEF RangesInv, CallInv, RangesTypeOK, KeysFresh, NamedIsKnown

LEMMA ShownElsewhereSafe ==
  ASSUME RangesInv, NEW a \in Addresses, ShownElsewhere(a)
  PROVE  /\ shown' \in [Addresses -> FullID \cup {None}]
         /\ \A b \in Addresses : shown'[b] # None => shown'[b] = shown[b] /\ ~Overlap(a, b)
BY DEF RangesInv, RangesTypeOK, ShownElsewhere

LEMMA ChangeFormulaSafe ==
  ASSUME RangesInv, NEW a \in Addresses, ChangeFormula(a) PROVE RangesInv'
<1>1. CallInv'
  BY EnterSafe DEF ChangeFormula, RangesInv
<1>2. ShownIsCounted'
  BY ShownElsewhereSafe DEF ChangeFormula, RangesInv, ShownIsCounted
<1> QED
  BY <1>1, <1>2, ShownElsewhereSafe, NamesSafe
  DEF ChangeFormula, RangesInv, RangesTypeOK, OneNamePerCell

\* The name of the cell that moves takes the place of the one pasted over.
LEMMA MoveNamedCellSafe ==
  ASSUME RangesInv, NEW a \in Addresses, NEW b \in Addresses, MoveNamedCell(a, b)
  PROVE  RangesInv'
<1>1. CallInv' /\ a # b
  BY MoveSafe DEF MoveNamedCell, MoveCell, RangesInv
<1>2. \A k \in Keys : /\ names[k] = a => names'[k] = b
                      /\ names[k] = b => names'[k] = "deleted"
                      /\ names[k] # a /\ names[k] # b => names'[k] = names[k]
  BY <1>1 DEF MoveNamedCell
<1>3. names' \in [Keys -> Addresses \cup {"deleted", None}]
  BY <1>2 DEF MoveNamedCell, RangesInv, RangesTypeOK
<1>4. OneNamePerCell'
  <2> SUFFICES ASSUME NEW j \in Keys, NEW k \in Keys, names'[j] \in Addresses, names'[j] = names'[k]
               PROVE  j = k
    BY DEF OneNamePerCell
  <2>1. names[j] \in Addresses /\ names[j] = names[k]
    BY <1>1, <1>2, CallingRangesAssumption
  <2> QED
    BY <2>1 DEF RangesInv, OneNamePerCell
<1>5. shown' \in [Addresses -> FullID \cup {None}]
  BY DEF MoveNamedCell, RangesInv, RangesTypeOK
<1>6. ShownIsCounted'
  <2> SUFFICES ASSUME NEW c \in Addresses, shown'[c] # None
               PROVE  \E k \in Keys : names'[k] = c /\ callingRanges'[k] = shown'[c].count + 1
    BY DEF ShownIsCounted
  <2>1. CASE c = b
    <3>1. shown'[c] = shown[a]
      BY <1>1, <2>1 DEF MoveNamedCell, RangesInv, RangesTypeOK
    <3>2. PICK k \in Keys : names[k] = a /\ callingRanges[k] = shown[a].count + 1
      BY <2>1, <3>1 DEF RangesInv, ShownIsCounted
    <3> QED
      BY <1>2, <2>1, <3>1, <3>2 DEF MoveNamedCell
  <2>2. CASE c # b
    <3>1. c # a /\ shown'[c] = shown[c]
      BY <1>1, <2>2 DEF MoveNamedCell, RangesInv, RangesTypeOK
    <3>2. PICK k \in Keys : names[k] = c /\ callingRanges[k] = shown[c].count + 1
      BY <3>1 DEF RangesInv, ShownIsCounted
    <3> QED
      BY <1>2, <2>2, <3>1, <3>2 DEF MoveNamedCell
  <2> QED
    BY <2>1, <2>2
<1>7. /\ \A k \in Keys : names[k] = None => names'[k] = None
      /\ \A k \in Keys : names'[k] \in Addresses => names[k] \in Addresses
  BY <1>2, FunctionCallsAssumption
<1> QED
  BY <1>1, <1>3, <1>4, <1>5, <1>6, <1>7, NamesSafe DEF MoveNamedCell

\* An address with a cell in a deleted range overlaps it.
LEMMA DeleteCellsSafe ==
  ASSUME RangesInv, NEW a \in Addresses, DeleteCells(a) PROVE RangesInv'
<1>1. formula' \in [Addresses -> {"none", "new", "called"}]
  BY DEF DeleteCells, RangesInv, CallInv, TypeOK
<1>2. CallInv'
  BY <1>1, UserIsApart DEF DeleteCells, RangesInv
<1>3. \A b \in Addresses : Within(b, a) => Overlap(a, b)
  BY FunctionCallsAssumption DEF Within, Overlap
<1>4. names' = [k \in Keys |-> IF \E b \in Addresses : names[k] = b /\ Within(b, a)
                              THEN "deleted" ELSE names[k]]
  BY DEF DeleteCells
<1>5. /\ names' \in [Keys -> Addresses \cup {"deleted", None}]
      /\ \A k \in Keys : names'[k] \in Addresses => names'[k] = names[k]
      /\ \A k \in Keys : names[k] = None => names'[k] = None
      /\ \A k \in Keys : ~Within(names[k], a) => names'[k] = names[k]
  BY <1>4, CallingRangesAssumption, FunctionCallsAssumption DEF RangesInv, RangesTypeOK
<1>6. OneNamePerCell'
  BY <1>5 DEF RangesInv, OneNamePerCell
<1>7. ShownIsCounted'
  <2> SUFFICES ASSUME NEW c \in Addresses, shown'[c] # None
               PROVE  \E k \in Keys : names'[k] = c /\ callingRanges'[k] = shown'[c].count + 1
    BY DEF ShownIsCounted
  <2>1. shown'[c] = shown[c] /\ ~Within(c, a)
    BY <1>3, ShownElsewhereSafe DEF DeleteCells
  <2>2. PICK k \in Keys : names[k] = c /\ callingRanges[k] = shown[c].count + 1
    BY <2>1 DEF RangesInv, ShownIsCounted
  <2> QED
    BY <1>5, <2>1, <2>2 DEF DeleteCells
<1> QED
  BY <1>2, <1>5, <1>6, <1>7, ShownElsewhereSafe, NamesSafe DEF DeleteCells

\* The range that a cell is given: its own, if it has a name, or an unused one.
LEMMA RangeOfProperties ==
  ASSUME RangesInv, NEW a \in Addresses, NEW range \in RangeOf(a)
  PROVE  /\ range.key \in Keys /\ range.count \in 0 .. MaxCount + 1
         /\ range.keyCount \in 0 .. MaxKeys
         /\ keyCount <= range.keyCount /\ range.key < range.keyCount
         /\ \A k \in Keys : names[k] = a => k = range.key
         /\ names[range.key] \in {a, None}
         /\ names[range.key] = a => range.count = callingRanges[range.key]
<1>1. keyCount \in Nat /\ keyCount <= MaxKeys /\ MaxKeys \in Nat
  BY CallingRangesAssumption DEF RangesInv, RangesTypeOK
<1>2. CASE Named(a) # {}
  <2>1. PICK k \in Named(a) :
          callingRanges[k] # None /\ range = [key |-> k, keyCount |-> keyCount, count |-> callingRanges[k]]
    BY <1>2 DEF RangeOf
  <2>2. k \in Keys /\ names[k] = a /\ a # None
    BY <2>1, FunctionCallsAssumption DEF Named
  <2>3. callingRanges[k] \in 0 .. MaxCount + 1
    BY <2>1, <2>2 DEF RangesInv, RangesTypeOK
  <2>4. ~(k >= keyCount)
    BY <2>2 DEF RangesInv, KeysFresh
  <2>5. k < keyCount
    BY <1>1, <2>2, <2>4 DEF Keys
  <2>6. \A j \in Keys : names[j] = a => j = k
    BY <2>2 DEF RangesInv, OneNamePerCell
  <2>7. range.key = k /\ range.keyCount = keyCount /\ range.count = callingRanges[k]
    BY <2>1
  <2> QED
    BY <1>1, <2>2, <2>3, <2>5, <2>6, <2>7
<1>3. CASE Named(a) = {}
  <2>1. keyCount < MaxKeys /\ range = [key |-> keyCount, keyCount |-> keyCount + 1, count |-> 0]
    BY <1>3 DEF RangeOf
  <2>2. keyCount \in Keys /\ 0 \in 0 .. MaxCount + 1
    BY <1>1, <2>1, CallingRangesAssumption DEF Keys
  <2>3. names[keyCount] = None /\ a # None
    BY <1>1, <2>2, FunctionCallsAssumption DEF RangesInv, KeysFresh
  <2>4. \A k \in Keys : names[k] # a
    BY <1>3 DEF Named
  <2>5. range.key = keyCount /\ range.keyCount = keyCount + 1 /\ range.count = 0
    BY <2>1
  <2> QED
    BY <1>1, <2>1, <2>2, <2>3, <2>4, <2>5
<1> QED
  BY <1>2, <1>3

\* A cell that is given its range, with any count for it, shows what it is to show.
LEMMA GivenRangeSafe ==
  ASSUME RangesInv, CallInv', NEW a \in Addresses, NEW range \in RangeOf(a),
         NEW count \in 0 .. MaxCount + 1, GetCallingRange(a, range, count),
         shown' \in [Addresses -> FullID \cup {None}],
         \A b \in Addresses \ {a} : shown'[b] = shown[b],
         shown'[a] = None \/ count = shown'[a].count + 1
  PROVE  RangesInv'
<1>1. /\ keyCount' = range.keyCount
      /\ callingRanges' = [callingRanges EXCEPT ![range.key] = count]
      /\ names' = [names EXCEPT ![range.key] = a]
  BY DEF GetCallingRange
<1>2. /\ keyCount' \in 0 .. MaxKeys
      /\ callingRanges' \in [Keys -> 0 .. MaxCount + 1 \cup {None}]
      /\ names' \in [Keys -> Addresses \cup {"deleted", None}]
      /\ callingRanges'[range.key] = count /\ names'[range.key] = a
      /\ \A k \in Keys \ {range.key} : callingRanges'[k] = callingRanges[k] /\ names'[k] = names[k]
  BY <1>1, RangeOfProperties DEF RangesInv, RangesTypeOK
<1>3. KeysFresh'
  <2> SUFFICES ASSUME NEW k \in Keys, k >= keyCount' PROVE names'[k] = None /\ callingRanges'[k] = None
    BY DEF KeysFresh
  <2>1. k # range.key /\ k >= keyCount
    BY <1>1, RangeOfProperties, CallingRangesAssumption DEF Keys, RangesInv, RangesTypeOK
  <2> QED
    BY <1>2, <2>1 DEF RangesInv, KeysFresh
<1>4. OneNamePerCell'
  BY <1>2, RangeOfProperties DEF RangesInv, OneNamePerCell
<1>5. NamedIsKnown'
  BY <1>2, CallingRangesAssumption DEF RangesInv, NamedIsKnown
<1>6. ShownIsCounted'
  <2> SUFFICES ASSUME NEW c \in Addresses, shown'[c] # None
               PROVE  \E k \in Keys : names'[k] = c /\ callingRanges'[k] = shown'[c].count + 1
    BY DEF ShownIsCounted
  <2>1. CASE c = a
    BY <1>2, <2>1, RangeOfProperties
  <2>2. CASE c # a
    <3>1. PICK k \in Keys : names[k] = c /\ callingRanges[k] = shown[c].count + 1
      BY <2>2 DEF RangesInv, ShownIsCounted
    <3>2. k # range.key
      BY <2>2, <3>1, RangeOfProperties, FunctionCallsAssumption
    <3> QED
      BY <1>2, <2>2, <3>1, <3>2
  <2> QED
    BY <2>1, <2>2
<1> QED
  BY <1>2, <1>3, <1>4, <1>5, <1>6 DEF RangesInv, RangesTypeOK, CallInv

\* A function that shows no ID.
LEMMA ShowsOtherSafe ==
  ASSUME RangesInv, ShowsOther
  PROVE  /\ shown' \in [Addresses -> FullID \cup {None}]
         /\ \A b \in Addresses : shown'[b] # None => shown'[b] = shown[b]
         /\ \A b \in Addresses : call.caller = b => shown'[b] = None
         /\ \A b \in Addresses : call.caller # b => shown'[b] = shown[b]
BY DEF RangesInv, RangesTypeOK, ShowsOther

LEMMA ThrownSafe ==
  ASSUME RangesInv, InBody, StoreThrows, UNCHANGED <<formula, instance, errors, outcome>>
  PROVE  CallInv'
BY PhaseSafe DEF RangesInv, InBody, StoreThrows

\* Storing fails before the cell has its range; a key may be lost.
LEMMA NoRangeSafe ==
  ASSUME RangesInv, NEW a \in Addresses, NoKeyLeft(a) \/ NameRefused(a) \/ RangeUnknown(a),
         UNCHANGED <<formula, instance, errors, outcome>>
  PROVE  RangesInv'
<1>1. InBody /\ StoreThrows /\ UNCHANGED <<callingRanges, names>>
  BY DEF NoKeyLeft, NameRefused, RangeUnknown, StoringFrom
<1>2. CallInv'
  BY <1>1, ThrownSafe
<1>3. ShowsOther
  BY <1>1 DEF StoreThrows
<1>4. keyCount' \in 0 .. MaxKeys /\ keyCount' >= keyCount
  BY CallingRangesAssumption
  DEF NoKeyLeft, NameRefused, RangeUnknown, RangesInv, RangesTypeOK
<1>5. KeysFresh'
  BY <1>1, <1>4, CallingRangesAssumption DEF RangesInv, RangesTypeOK, KeysFresh, Keys
<1>6. ShownIsCounted'
  BY <1>1, <1>3, ShowsOtherSafe DEF RangesInv, ShownIsCounted
<1> QED
  BY <1>1, <1>2, <1>3, <1>4, <1>5, <1>6, ShowsOtherSafe
  DEF RangesInv, CallInv, RangesTypeOK, OneNamePerCell, NamedIsKnown

LEMMA StoreRefusedSafe ==
  ASSUME RangesInv, NEW a \in Addresses, StoreRefused(a),
         UNCHANGED <<formula, instance, errors, outcome>>
  PROVE  RangesInv'
<1>1. PICK range \in RangeOf(a) :
        \E count \in {range.count, UpdateCount(range.count) + 1} : GetCallingRange(a, range, count)
  BY DEF StoreRefused
<1>2. InBody /\ call.caller = a /\ StoreThrows /\ ShowsOther
  BY DEF StoreRefused, StoringFrom, StoreThrows
<1>3. CallInv'
  BY <1>2, ThrownSafe
<1>4. /\ range.count \in 0 .. MaxCount + 1
      /\ UpdateCount(range.count) + 1 \in 0 .. MaxCount + 1
  BY RangeOfProperties, CallingRangesAssumption DEF UpdateCount
<1>5. shown'[a] = None /\ \A b \in Addresses \ {a} : shown'[b] = shown[b]
  BY <1>2, ShowsOtherSafe
<1> QED
  BY <1>1, <1>2, <1>3, <1>4, <1>5, ShowsOtherSafe, GivenRangeSafe

\* What StoreObject shows and counts.
LEMMA StoreObjectProperties ==
  ASSUME RangesInv, NEW a \in Addresses, NEW id \in ObjectIDs, StoreObject(a, id)
  PROVE  \E range \in RangeOf(a) :
           /\ GetCallingRange(a, range, UpdateCount(range.count) + 1)
           /\ UpdateCount(range.count) \in 0 .. MaxCount
           /\ shown'[a] = [id |-> id, count |-> UpdateCount(range.count)]
           /\ \A b \in Addresses \ {a} : shown'[b] = shown[b]
           /\ shown' \in [Addresses -> FullID \cup {None}]
<1>1. PICK range \in RangeOf(a) :
        /\ GetCallingRange(a, range, UpdateCount(range.count) + 1)
        /\ shown' = [shown EXCEPT ![a] = [id |-> id, count |-> UpdateCount(range.count)]]
  BY DEF StoreObject
<1>2. UpdateCount(range.count) \in 0 .. MaxCount
  BY RangeOfProperties, CallingRangesAssumption DEF UpdateCount
<1>3. [id |-> id, count |-> UpdateCount(range.count)] \in FullID
  BY <1>2 DEF FullID
<1> QED
  BY <1>1, <1>2, <1>3 DEF RangesInv, RangesTypeOK

LEMMA StoreObjectSafe ==
  ASSUME RangesInv, NEW a \in Addresses, NEW id \in ObjectIDs, StoreObject(a, id),
         UNCHANGED <<formula, instance, errors, outcome>>
  PROVE  RangesInv'
<1>1. PICK range \in RangeOf(a) :
        /\ GetCallingRange(a, range, UpdateCount(range.count) + 1)
        /\ UpdateCount(range.count) \in 0 .. MaxCount
        /\ shown'[a] = [id |-> id, count |-> UpdateCount(range.count)]
        /\ \A b \in Addresses \ {a} : shown'[b] = shown[b]
        /\ shown' \in [Addresses -> FullID \cup {None}]
  BY StoreObjectProperties
<1>2. CallInv'
  BY PhaseSafe DEF RangesInv, StoreObject, StoringFrom, InBody
<1>3. UpdateCount(range.count) + 1 \in 0 .. MaxCount + 1
  BY <1>1, CallingRangesAssumption
<1>4. UpdateCount(range.count) + 1 = shown'[a].count + 1
  BY <1>1
<1> QED
  BY <1>1, <1>2, <1>3, <1>4, GivenRangeSafe

LEMMA LoadObjectsSafe ==
  ASSUME RangesInv, NEW a \in Addresses, LoadObjects(a),
         UNCHANGED <<formula, instance, errors, outcome>>
  PROVE  RangesInv'
<1>1. PICK range \in RangeOf(a), count \in 1 .. MaxCount + 1 : GetCallingRange(a, range, count)
  BY DEF LoadObjects
<1>2. call # None /\ call.caller = a /\ ShowsOther
  BY DEF LoadObjects, StoringFrom, InBody
<1>3. CallInv'
  BY <1>2, PhaseSafe DEF LoadObjects, RangesInv
<1>4. count \in 0 .. MaxCount + 1
  BY CallingRangesAssumption
<1>5. shown'[a] = None /\ \A b \in Addresses \ {a} : shown'[b] = shown[b]
  BY <1>2, ShowsOtherSafe
<1> QED
  BY <1>1, <1>2, <1>3, <1>4, <1>5, ShowsOtherSafe, GivenRangeSafe

LEMMA StoreSafe == ASSUME RangesInv, Store PROVE RangesInv'
BY NoRangeSafe, StoreRefusedSafe, StoreObjectSafe, LoadObjectsSafe DEF Store

LEMMA CallInvUnchanged == ASSUME CallInv, UNCHANGED callVars PROVE CallInv'
BY DEF CallInv, TypeOK, InstanceIsTheCall, MessagesKept, callVars, errors

\* The ranges that are dropped are of cells that are gone; no cell shows their counts.
LEMMA CollectGarbageSafe == ASSUME RangesInv, CollectGarbage PROVE RangesInv'
<1>1. PICK empty \in SUBSET {k \in Keys : callingRanges[k] # None /\ Gone(k)} :
        /\ callingRanges' = [k \in Keys |-> IF k \in empty THEN None ELSE callingRanges[k]]
        /\ names' = [k \in Keys |-> IF k \in empty THEN None ELSE names[k]]
  BY DEF CollectGarbage
<1>2. CallInv'
  BY CallInvUnchanged DEF CollectGarbage, RangesInv
<1>3. /\ \A k \in Keys : names[k] \in Addresses => k \notin empty
      /\ \A k \in Keys : names'[k] \in Addresses => names'[k] = names[k] /\ k \notin empty
  BY <1>1, CallingRangesAssumption, FunctionCallsAssumption DEF Gone
<1>4. /\ callingRanges' \in [Keys -> 0 .. MaxCount + 1 \cup {None}]
      /\ names' \in [Keys -> Addresses \cup {"deleted", None}]
  BY <1>1 DEF RangesInv, RangesTypeOK
<1>5. KeysFresh'
  BY <1>1 DEF CollectGarbage, RangesInv, KeysFresh
<1>6. OneNamePerCell' /\ NamedIsKnown'
  BY <1>1, <1>3 DEF RangesInv, OneNamePerCell, NamedIsKnown
<1>7. ShownIsCounted'
  BY <1>1, <1>3 DEF CollectGarbage, RangesInv, ShownIsCounted
<1> QED
  BY <1>2, <1>4, <1>5, <1>6, <1>7 DEF CollectGarbage, RangesInv, CallInv, RangesTypeOK

LEMMA CloseSafe == ASSUME RangesInv, Close PROVE RangesInv'
<1>1. CallInv'
  BY ClearErrorsSafe DEF Close, RangesInv
<1> QED
  BY <1>1, FunctionCallsAssumption
  DEF Close, RangesInv, CallInv, RangesTypeOK, KeysFresh, OneNamePerCell, NamedIsKnown,
      ShownIsCounted

LEMMA RangesUnchanged == ASSUME RangesInv, CallInv', UNCHANGED rangeVars PROVE RangesInv'
BY DEF RangesInv, CallInv, RangesTypeOK, KeysFresh, OneNamePerCell, NamedIsKnown,
       ShownIsCounted, rangeVars

\* The steps of a call that touch no range.
LEMMA CallSafe ==
  ASSUME RangesInv, UNCHANGED rangeVars,
         \/ \E caller \in Callers : Construct(caller)
         \/ ConstructFails \/ Return
         \/ \E message \in Messages : LogError(message)
  PROVE  RangesInv'
<1>1. CallInv
  BY DEF RangesInv
<1>2. CASE ConstructFails
  BY <1>1, <1>2, CallInvUnchanged, RangesUnchanged DEF ConstructFails
<1> QED
  BY <1>1, <1>2, ConstructSafe, ReturnSafe, LogErrorSafe, RangesUnchanged

LEMMA EndSafe ==
  ASSUME RangesInv, Throw \/ Complete, ShowsOther, UNCHANGED <<keyCount, callingRanges, names>>
  PROVE  RangesInv'
<1>1. CallInv'
  BY PhaseSafe DEF Throw, Complete, InBody, RangesInv
<1>2. ShownIsCounted'
  BY ShowsOtherSafe DEF RangesInv, ShownIsCounted
<1>3. OneNamePerCell' /\ names' \in [Keys -> Addresses \cup {"deleted", None}]
  BY DEF RangesInv, OneNamePerCell, RangesTypeOK
<1> QED
  BY <1>1, <1>2, <1>3, ShowsOtherSafe, NamesSafe

LEMMA RangesStepSafe == ASSUME RangesInv, [NextXL]_vars PROVE RangesInv'
<1>1. CASE UserXL
  BY <1>1, ChangeFormulaSafe, MoveNamedCellSafe, DeleteCellsSafe DEF UserXL
<1>2. CASE UNCHANGED vars
  BY <1>2, CallInvUnchanged, RangesUnchanged DEF RangesInv, vars
<1> QED
  BY <1>1, <1>2, StoreSafe, CollectGarbageSafe, CloseSafe, CallSafe, EndSafe DEF NextXL

-----------------------------------------------------------------------------
(* Theorems *)

\* However users edit the sheet, however Excel answers and however calls end, calls
\* and their messages, and the keys, names and counters of cells, stay consistent.
THEOREM RangesInvariant == SpecXL => []RangesInv
<1>1. RangesInit => RangesInv
  BY RangesInitSafe
<1>2. RangesInv /\ [NextXL]_vars => RangesInv'
  BY RangesStepSafe
<1> QED
  BY <1>1, <1>2, PTL DEF SpecXL

\* Type correctness, for any number of cells, keys and updates.
THEOREM RangesTypeCorrect == SpecXL => []RangesTypeOK
<1>1. RangesInv => RangesTypeOK
  BY DEF RangesInv
<1> QED
  BY <1>1, RangesInvariant, PTL

\* FunctionCall::instance_ is set exactly while a call runs.
THEOREM SingletonIsTheCall == SpecXL => []InstanceIsTheCall
<1>1. RangesInv => InstanceIsTheCall
  BY DEF RangesInv, CallInv
<1> QED
  BY <1>1, RangesInvariant, PTL

\* The message kept for an address, or for macros, is that of the last call from there.
THEOREM LastErrorAlwaysKept == SpecXL => []LastErrorKept
<1>1. RangesInv => LastErrorKept
  BY DEF RangesInv, CallInv, MessagesKept, LastErrorKept
<1> QED
  BY <1>1, RangesInvariant, PTL

\* The lookup of an error, once no formula but f has left one around a.
LEMMA RelevantRetrieved == ASSUME LastErrorKept PROVE RelevantErrorRetrieved
<1> SUFFICES ASSUME call = None, NEW f \in Formulas \cap Parsed, NEW a \in Parsed, Within(a, f),
                    \A b \in Addresses \ {f} : Within(a, b) => errorMessages[b] = None
             PROVE  Retrieved(a) = {outcome[f]}
  BY DEF RelevantErrorRetrieved
<1> DEFINE found == {b \in Addresses : errorMessages[b] # None /\ Contains(b, a)}
<1>1. f \in Addresses /\ a \in Addresses /\ errorMessages[f] = outcome[f]
  BY FunctionCallsAssumption DEF LastErrorKept
<1>2. found = IF errorMessages[f] # None THEN {f} ELSE {}
  BY <1>1 DEF Contains
<1>3. Within(a, a)
  BY DEF Within
<1>4. a # f => errorMessages[a] = None
  BY <1>1, <1>3
<1> QED
  BY <1>1, <1>2, <1>4 DEF Retrieved

\* Asked about any part of a range, ohRangeRetrieveError answers with what the last
\* call from that range logged, if no other range around the part has a message.
THEOREM RelevantErrorAlwaysRetrieved == SpecXL => []RelevantErrorRetrieved
<1>1. LastErrorKept => RelevantErrorRetrieved
  BY RelevantRetrieved
<1> QED
  BY <1>1, LastErrorAlwaysKept, PTL

\* No cell ever has two hidden names.
THEOREM OneNameEach == SpecXL => []OneNamePerCell
<1>1. RangesInv => OneNamePerCell
  BY DEF RangesInv
<1> QED
  BY <1>1, RangesInvariant, PTL

\* The calling range of a hidden name that refers to a cell is known.
THEOREM NamedAlwaysKnown == SpecXL => []NamedIsKnown
<1>1. RangesInv => NamedIsKnown
  BY DEF RangesInv
<1> QED
  BY <1>1, RangesInvariant, PTL

\* The count that a cell shows next is not the one it shows, at the limit or below.
LEMMA NextCountDiffers ==
  ASSUME RangesInv, NEW a \in Addresses, NEW id \in ObjectIDs, StoreObject(a, id),
         shown[a] # None
  PROVE  shown'[a] # shown[a]
<1>1. PICK range \in RangeOf(a) : shown'[a] = [id |-> id, count |-> UpdateCount(range.count)]
  BY StoreObjectProperties
<1>2. PICK k \in Keys : names[k] = a /\ callingRanges[k] = shown[a].count + 1
  BY DEF RangesInv, ShownIsCounted
<1>3. k = range.key
  BY <1>2, RangeOfProperties
<1>4. range.count = callingRanges[range.key]
  BY <1>2, <1>3, RangeOfProperties
<1>5. range.count = shown[a].count + 1
  BY <1>2, <1>3, <1>4
<1>6. shown[a] \in FullID
  BY DEF RangesInv, RangesTypeOK
<1>7. shown[a].count \in 0 .. MaxCount
  BY <1>6 DEF FullID
<1>8. UpdateCount(range.count) # shown[a].count
  BY <1>5, <1>7, CallingRangesAssumption DEF UpdateCount
<1> QED
  BY <1>1, <1>8

LEMMA UpdateSeen ==
  ASSUME RangesInv, [NextXL]_vars, NEW a \in Addresses, StoringFrom(a), ~InBody', shown'[a] # None
  PROVE  shown'[a] # shown[a]
<1>1. InBody /\ call.caller = a /\ call # None /\ call.phase = "body" /\ call \in FunctionCall
  BY DEF StoringFrom, InBody, RangesInv, CallInv, TypeOK
<1>2. ~ShowsOther
  BY <1>1, ShowsOtherSafe
<1>3. ~(UNCHANGED call)
  BY <1>1 DEF InBody
<1>4. ~UserXL
  BY <1>1, NoneIsNoCall
  DEF UserXL, ChangeFormula, EnterFormula, ClearFormula, MoveNamedCell, MoveCell, DeleteCells
<1>5. \A message \in Messages : ~LogError(message)
  <2> SUFFICES ASSUME NEW message \in Messages, LogError(message) PROVE InBody'
    BY DEF InBody
  <2>1. call' \in FunctionCall /\ call'.phase = "body"
    BY <1>1 DEF LogError, FunctionCall
  <2> QED
    BY <2>1, NoneIsNoCall DEF InBody
<1>6. /\ ~Return /\ ~ConstructFails /\ \A caller \in Callers : ~Construct(caller)
      /\ ~Close /\ ~CollectGarbage /\ ~UNCHANGED vars
  BY <1>1, <1>3 DEF Return, ConstructFails, Construct, Close, ClearErrors, CollectGarbage, vars, callVars
<1>7. Store
  BY <1>2, <1>4, <1>5, <1>6 DEF NextXL
<1>8. PICK b \in Addresses, id \in ObjectIDs : StoreObject(b, id)
  BY <1>2, <1>7
  DEF Store, NoKeyLeft, NameRefused, RangeUnknown, StoreRefused, StoreThrows, LoadObjects
<1>9. a = b
  BY <1>1, <1>8 DEF StoreObject, StoringFrom
<1>10. shown[a] # None => shown'[a] # shown[a]
  BY <1>8, <1>9, NextCountDiffers
<1> QED
  BY <1>10

\* Excel sees every update of a cell: for any number of counts that is two or more,
\* and wherever the cell has been moved, the next ID differs from the one shown.
THEOREM UpdatesAreSeen == SpecXL => UpdateIsSeen
<1>1. RangesInv /\ [NextXL]_vars =>
        [\A a \in Addresses :
           StoringFrom(a) /\ ~InBody' /\ shown'[a] # None => shown'[a] # shown[a]]_vars
  BY UpdateSeen
<1> QED
  BY <1>1, RangesInvariant, PTL DEF SpecXL, UpdateIsSeen
=============================================================================
