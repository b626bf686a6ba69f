--------------------------- MODULE JointCalendars ---------------------------
(***************************************************************************)
(* The calendar factory (qlo/enumerations/factories/calendarfactory.cpp),  *)
(* which turns the ID of a calendar, or of a joint calendar such as        *)
(* JoinHolidays(TARGET, UnitedKingdom::Exchange), into a calendar, and the *)
(* registry where it finds calendars and keeps those it makes              *)
(* (oh/enumerations/typefactory.hpp, registry.hpp).                        *)
(*                                                                         *)
(* A joint ID is a rule and the names between the parentheses, each as the *)
(* user spells it; in capitals, a name is its rank in the alphabet.  The   *)
(* names are of single calendars, as documented: a joint ID as the last of *)
(* four names, which getType finds once it is registered, is left out.     *)
(***************************************************************************)
EXTENDS Naturals, Sequences, FiniteSets, SequencesExt

CONSTANTS
  Spellings,  \* the ways in which users spell calendars
  Capitals,      \* Capitals[s]: the spelling in capitals, a rank
  Library,    \* the calendars that are registered at the start, as ranks
  MaxParts    \* bounds the names in an ID

Rules == {"JoinHolidays", "JoinBusinessDays"}

ASSUME JointCalendarsAssumption ==
  /\ Capitals \in [Spellings -> Nat]
  /\ Library \subseteq Nat
  /\ MaxParts \in Nat

VARIABLE registry  \* the joint calendars registered: idFull -> calendar

JointIDs == [rule: Rules, parts: UNION {[1 .. n -> Spellings] : n \in 1 .. MaxParts}]

Error == [rule |-> "Error", of |-> {}]

-----------------------------------------------------------------------------
(* parseID *)

\* The groups that the regular expression matches, in capitals: up to three names by
\* themselves, and all that is left as one.
Groups(id) ==
  LET names == [i \in DOMAIN id.parts |-> Capitals[id.parts[i]]]
  IN {<<names[i]>> : i \in DOMAIN names \cap 1 .. 3}
     \cup IF Len(names) > 3 THEN {SubSeq(names, 4, Len(names))} ELSE {}

\* std::less of two groups.
Before(a, b) ==
  \/ IsStrictPrefix(a, b)
  \/ \E i \in DOMAIN a \cap DOMAIN b :
       a[i] < b[i] /\ \A j \in 1 .. i - 1 : a[j] = b[j]

IsJoint(id) == Len(id.parts) >= 2 /\ Cardinality(Groups(id)) > 1

\* idFull: the rule and the groups, sorted, each once.
IdFull(id) ==
  LET groups == Groups(id)
      sorted == [i \in 1 .. Cardinality(groups) |->
                   CHOOSE g \in groups : Cardinality({h \in groups : Before(h, g)}) = i - 1]
  IN [rule |-> id.rule, names |-> FlattenSeq(sorted)]

-----------------------------------------------------------------------------

\* MUTANT of Makeable: the calendars are looked up when the joint one is used.
MakeableAlways(id) == TRUE

\* makeJointCalendar: getType finds the calendar of each group.
Makeable(id) == Groups(id) \subseteq {<<c>> : c \in Library}

Made(id) == [rule |-> id.rule, of |-> {g[1] : g \in Groups(id)}]

\* operator(): what it returns, or that it throws.
Result(id) ==
  LET idFull == IdFull(id)
  IN IF ~IsJoint(id) THEN Error
     ELSE IF idFull \in DOMAIN registry THEN registry[idFull]
     ELSE IF Makeable(id) THEN Made(id) ELSE Error

\* operator(), for a calendar that is not registered yet: registerType.
CreateJoint(id) ==
  LET idFull == IdFull(id)
  IN /\ IsJoint(id) /\ Makeable(id) /\ idFull \notin DOMAIN registry
     /\ registry' = [key \in DOMAIN registry \cup {idFull} |->
                       IF key = idFull THEN Made(id) ELSE registry[key]]

CalendarsInit == registry = [key \in {} |-> Error]
CalendarsNext == \E id \in JointIDs : CreateJoint(id)

-----------------------------------------------------------------------------

Spelled(id) == {Capitals[id.parts[i]] : i \in DOMAIN id.parts}

\* "A comma-delimited list of 2, 3 or 4 calendar IDs" gives the joint calendar of
\* exactly these calendars, if the library has them all and they are two or more,
\* whatever was asked for before, in whatever spelling or order, or an exception; a
\* longer list never gives a calendar of other names than its own.
JointAsAsked ==
  \A id \in JointIDs :
    LET asked == [rule |-> id.rule, of |-> Spelled(id)]
    IN IF Len(id.parts) \in 2 .. 4
         THEN Result(id) = IF Cardinality(asked.of) > 1 /\ asked.of \subseteq Library
                             THEN asked ELSE Error
         ELSE Result(id) \in {asked, Error}

\* No joint calendar is registered twice: all who ask for it share one.
RegisteredOnce ==
  \A j, k \in DOMAIN registry : registry[j] = registry[k] => j = k
=============================================================================
