------------------------ MODULE RateHelperSelection ------------------------
(***************************************************************************)
(* qlRateHelperSelection (qlo/ratehelpers.cpp): which of the rate helpers   *)
(* that a trader lists go into the bootstrap of a yield curve.  They are    *)
(* sorted by pillar date, admitted one by one by the rules for futures and  *)
(* deposits, and thinned where two come too near each other.                *)
(*                                                                          *)
(* One step is one turn of a loop.  Dates are day numbers; the month of a   *)
(* futures is given by its kind, and an ID by its rank.                     *)
(***************************************************************************)
EXTENDS Integers, Sequences, FiniteSets, Functions

CONSTANTS
  Instruments,    \* what a trader may list: [objectID, kind, earliestDate, latestDate]
  Priorities,
  MinDists,       \* the minimum distances a trader may give
  OneMinDist,     \* whether one of them is given for all instruments
  EvalDate,       \* QuantLib's evaluation date
  FrontFuturesRollingDays,
  MaxInstruments, \* bounds the list
  MaxFutures      \* bounds the numbers of futures asked for

Kinds == {"depo", "serial", "main", "other"}
Criteria == {"AllDepos", "BeforeStart", "BeforeStartPlusOne", "BeforeExpiry"}

ASSUME InstrumentsAssumption ==
  /\ Instruments \subseteq [objectID: Nat, kind: Kinds, earliestDate: Int, latestDate: Int]
  /\ Priorities \subseteq Nat /\ MinDists \subseteq Nat \ {0}
  /\ EvalDate \in Int /\ FrontFuturesRollingDays \in Nat
  /\ OneMinDist \in BOOLEAN
  /\ MaxInstruments \in Nat

VARIABLES
  rhsAll,        \* the instruments, with what the trader gives for each
  nFutures,      \* kind of futures -> the number asked for
  criteria,      \* depoInclusionCriteria
  i,             \* the instrument that the selection is at
  included,      \* kind of futures -> how many were admitted
  depoAfterFrontFuturesAlreadyIncluded,
  rhs,           \* the helpers admitted and not removed
  admitted,      \* the value of rhs when the selection ended (history)
  k,             \* the iterator that removes helpers
  phase

vars == <<rhsAll, nFutures, criteria, i, included,
          depoAfterFrontFuturesAlreadyIncluded, rhs, admitted, k, phase>>

\* RateHelperPrioritySorter.
PriorityBefore(a, b) ==
  \/ a.latestDate < b.latestDate
  \/ a.latestDate = b.latestDate /\ a.priority < b.priority
  \/ a.latestDate = b.latestDate /\ a.priority = b.priority /\ a.objectID > b.objectID

\* std::sort leaves what the sorter does not tell apart in any order.
Sortings(s) ==
  {t \in {[n \in DOMAIN s |-> s[p[n]]] : p \in Bijection(DOMAIN s, DOMAIN s)} :
     \A m, n \in DOMAIN s : m < n => ~PriorityBefore(t[n], t[m])}

\* A RateHelperItem for each instrument listed.
Items(list, priority, minDist) ==
  [n \in DOMAIN list |->
     [objectID |-> list[n].objectID, kind |-> list[n].kind, priority |-> priority[n],
      earliestDate |-> list[n].earliestDate, latestDate |-> list[n].latestDate,
      minDist |-> minDist[n]]]

Init ==
  /\ \E size \in 1 .. MaxInstruments :
       \E list \in [1 .. size -> Instruments], priority \in [1 .. size -> Priorities],
          minDist \in [1 .. size -> MinDists] :
         /\ \A n \in 2 .. size : list[n - 1].objectID <= list[n].objectID
         /\ OneMinDist => \A n \in 1 .. size : minDist[n] = minDist[1]
         /\ rhsAll \in Sortings(Items(list, priority, minDist))
  /\ nFutures \in [{"main", "serial"} -> 0 .. MaxFutures]
  /\ criteria \in Criteria
  /\ i = 1
  /\ included = [f \in {"main", "serial"} |-> 0]
  /\ depoAfterFrontFuturesAlreadyIncluded = FALSE
  /\ rhs = <<>> /\ admitted = <<>>
  /\ k = 1
  /\ phase = "select"

-----------------------------------------------------------------------------
(* Admission *)

IsFutures(h) == h.kind \in {"main", "serial"}
NotRolled(h) == h.earliestDate - FrontFuturesRollingDays >= EvalDate

\* The futures that may be the front one, in the order of rhsAll.
Usable == {n \in DOMAIN rhsAll : LET h == rhsAll[n]
                                 IN IsFutures(h) /\ nFutures[h.kind] > 0 /\ NotRolled(h)}
FrontFutures == rhsAll[CHOOSE n \in Usable : \A m \in Usable : n <= m]

\* Without futures, all deposits are admitted.
Criterion == IF Usable = {} THEN "AllDepos" ELSE criteria

\* MUTANT of DepoIncluded: the front futures' expiry is taken for its start.
DepoIncludedByExpiry(h) ==
  CASE Criterion = "AllDepos"    -> TRUE
    [] Criterion = "BeforeStart" -> h.latestDate < FrontFutures.latestDate
    [] Criterion = "BeforeStartPlusOne" ->
         h.latestDate < FrontFutures.latestDate \/ ~depoAfterFrontFuturesAlreadyIncluded
    [] Criterion = "BeforeExpiry" -> h.latestDate < FrontFutures.latestDate

DepoIncluded(h) ==
  CASE Criterion = "AllDepos"    -> TRUE
    [] Criterion = "BeforeStart" -> h.latestDate < FrontFutures.earliestDate
    [] Criterion = "BeforeStartPlusOne" ->
         h.latestDate < FrontFutures.earliestDate \/ ~depoAfterFrontFuturesAlreadyIncluded
    [] Criterion = "BeforeExpiry" -> h.latestDate < FrontFutures.latestDate

\* MUTANT of Included: any futures fill the places.
IncludedRolled(h) ==
  CASE h.kind = "depo" -> DepoIncluded(h)
    [] IsFutures(h)    -> included[h.kind] < nFutures[h.kind]
    [] OTHER           -> TRUE

Included(h) ==
  CASE h.kind = "depo" -> DepoIncluded(h)
    [] IsFutures(h)    -> included[h.kind] < nFutures[h.kind] /\ NotRolled(h)
    [] OTHER           -> TRUE

\* The deposit that takes the one place after the front futures' start.
TakesPlusOne(h) ==
  /\ h.kind = "depo" /\ Criterion = "BeforeStartPlusOne"
  /\ h.latestDate >= FrontFutures.earliestDate

Admit ==
  LET h == rhsAll[i]
  IN /\ phase = "select" /\ i <= Len(rhsAll)
     /\ h.earliestDate >= EvalDate /\ Included(h)
     /\ rhs' = Append(rhs, h)
     /\ included' = IF IsFutures(h) THEN [included EXCEPT ![h.kind] = @ + 1] ELSE included
     /\ depoAfterFrontFuturesAlreadyIncluded' =
          (depoAfterFrontFuturesAlreadyIncluded \/ TakesPlusOne(h))
     /\ i' = i + 1
     /\ UNCHANGED <<rhsAll, nFutures, criteria, admitted, k, phase>>

PassOver ==
  LET h == rhsAll[i]
  IN /\ phase = "select" /\ i <= Len(rhsAll)
     /\ ~(h.earliestDate >= EvalDate /\ Included(h))
     /\ i' = i + 1
     /\ UNCHANGED <<rhsAll, nFutures, criteria, included,
                    depoAfterFrontFuturesAlreadyIncluded, rhs, admitted, k, phase>>

\* Two helpers or more are sorted again, and thinned.
FinishSelection ==
  /\ phase = "select" /\ i > Len(rhsAll)
  /\ IF Len(rhs) > 1
       THEN rhs' \in Sortings(rhs) /\ phase' = "space"
       ELSE rhs' = rhs /\ phase' = "done"
  /\ admitted' = rhs'
  /\ UNCHANGED <<rhsAll, nFutures, criteria, i, included,
                 depoAfterFrontFuturesAlreadyIncluded, k>>

-----------------------------------------------------------------------------
(* Removal of near helpers *)

\* MUTANT of Near: a day too few.
NearByADay(a, b) ==
  b.latestDate - a.latestDate + 1 < (IF a.minDist > b.minDist THEN a.minDist ELSE b.minDist)

Near(a, b) ==
  b.latestDate - a.latestDate < (IF a.minDist > b.minDist THEN a.minDist ELSE b.minDist)

Erased(n) == SubSeq(rhs, 1, n - 1) \o SubSeq(rhs, n + 1, Len(rhs))

\* MUTANT of Erase: the iterator moves on, past the helper that took the place.
EraseAndSkip ==
  /\ phase = "space" /\ k # Len(rhs) /\ Near(rhs[k], rhs[k + 1])
  /\ rhs' = Erased(IF rhs[k].priority <= rhs[k + 1].priority THEN k ELSE k + 1)
  /\ k' = k + 1
  /\ UNCHANGED <<rhsAll, nFutures, criteria, i, included,
                 depoAfterFrontFuturesAlreadyIncluded, admitted, phase>>

\* MUTANT of Erase: the lower number is the higher priority.
EraseBetter ==
  /\ phase = "space" /\ k # Len(rhs) /\ Near(rhs[k], rhs[k + 1])
  /\ rhs' = Erased(IF rhs[k].priority >= rhs[k + 1].priority THEN k ELSE k + 1)
  /\ UNCHANGED <<rhsAll, nFutures, criteria, i, included,
                 depoAfterFrontFuturesAlreadyIncluded, admitted, k, phase>>

\* Of two near helpers the one with the lower priority goes, of equals the earlier.
Erase ==
  /\ phase = "space" /\ k # Len(rhs) /\ Near(rhs[k], rhs[k + 1])
  /\ rhs' = Erased(IF rhs[k].priority <= rhs[k + 1].priority THEN k ELSE k + 1)
  /\ UNCHANGED <<rhsAll, nFutures, criteria, i, included,
                 depoAfterFrontFuturesAlreadyIncluded, admitted, k, phase>>

Keep ==
  /\ phase = "space" /\ k # Len(rhs) /\ ~Near(rhs[k], rhs[k + 1])
  /\ k' = k + 1
  /\ UNCHANGED <<rhsAll, nFutures, criteria, i, included,
                 depoAfterFrontFuturesAlreadyIncluded, rhs, admitted, phase>>

FinishSpacing ==
  /\ phase = "space" /\ k = Len(rhs)
  /\ phase' = "done"
  /\ UNCHANGED <<rhsAll, nFutures, criteria, i, included,
                 depoAfterFrontFuturesAlreadyIncluded, rhs, admitted, k>>

Next == Admit \/ PassOver \/ FinishSelection \/ Erase \/ Keep \/ FinishSpacing

\* The call runs to its end.
Spec == Init /\ [][Next]_vars /\ WF_vars(Next)

-----------------------------------------------------------------------------
(* Properties *)

Done == phase = "done"

\* The iterator of the removal loop is at a helper of the vector that it erases
\* from, so that neither k nor k + 1 is ever past the end.
IteratorInRange == phase = "space" => k \in 1 .. Len(rhs)

Apart(a, b) ==
  \A d \in {a.minDist, b.minDist} :
    b.latestDate - a.latestDate >= d \/ a.latestDate - b.latestDate >= d

\* "minimum distance in (positive) days from near instruments": any two helpers that
\* are selected mature at least as far apart as either of them asks.
Spaced == Done => \A m, n \in DOMAIN rhs : m # n => Apart(rhs[m], rhs[n])

\* "higher number for higher priority": a helper that was admitted and has a higher
\* priority than every helper near it is selected, whatever is removed before.
DominantSurvives ==
  Done => \A n \in DOMAIN admitted :
    LET h == admitted[n]
    IN (\A m \in DOMAIN admitted \ {n} :
          Apart(admitted[m], h) \/ admitted[m].priority < h.priority)
       => \E m \in DOMAIN rhs : rhs[m] = h

\* The futures of a cycle that are not rolled, and as many from the front as asked for.
Open(f) == {n \in DOMAIN rhsAll : rhsAll[n].kind = f /\ NotRolled(rhsAll[n])}
Foremost(f) == {n \in Open(f) : Cardinality({m \in Open(f) : m < n}) < nFutures[f]}

\* The futures admitted are the front-most that are not rolled, as many of each
\* cycle as were asked for if there are that many, each as often as it is listed.
FrontFuturesFill ==
  phase # "select" => \A f \in {"main", "serial"} :
    LET taken == {n \in DOMAIN admitted : admitted[n].kind = f}
    IN \E p \in Bijection(taken, Foremost(f)) : \A n \in taken : admitted[n] = rhsAll[p[n]]

\* The deposits that are selected next to a futures make way for it: all mature
\* before its start, or all but one, or before its expiry, as the trader asks.
DeposMakeWay ==
  Done => LET futures == {n \in DOMAIN rhs : IsFutures(rhs[n])}
              Limit(n) == IF criteria = "BeforeExpiry" THEN rhs[n].latestDate
                                                       ELSE rhs[n].earliestDate
              Late(n) == {m \in DOMAIN rhs : rhs[m].kind = "depo" /\ rhs[m].latestDate >= Limit(n)}
          IN \A n \in futures :
               CASE criteria = "AllDepos"           -> TRUE
                 [] criteria = "BeforeStartPlusOne" -> Cardinality(Late(n)) <= 1
                 [] OTHER                           -> Late(n) = {}
=============================================================================
