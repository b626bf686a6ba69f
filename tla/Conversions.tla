---------------------------- MODULE Conversions ----------------------------
(***************************************************************************)
(* The conversions of ObjectHandler and QuantLibAddin, each on inputs of   *)
(* its own: dates, IDs and ranges of cells, one at a time, and the         *)
(* calendar factory with whatever joint calendars have been asked for.     *)
(***************************************************************************)
EXTENDS Timestamps, ObjectIDs, WorksheetArrays, JointCalendars

CONSTANTS
  Years,      \* the years, from 1900, in which times are taken
  IDs,        \* the IDs that users try
  Counters,   \* the update counts of cells
  KeyCounts,  \* the counts of cells with a hidden name
  Size        \* bounds the rows and columns of a range

\* time() counts from 1970.
ASSUME ConversionsAssumption ==
  /\ \A y \in Years : y \in Nat /\ y >= 70
  /\ IDs \subseteq Seq(STRING)
  /\ Counters \subseteq Nat
  /\ KeyCounts \subseteq Nat
  /\ Size \in Nat

VARIABLE at  \* what is converted

vars == <<at, registry>>

\* The ranges of r rows and c columns, in which each cell is valid or not.
RangesOf(r, c) ==
  {Array(r, c, LAMBDA i, j : IF <<i, j>> \in valid THEN <<i, j>> ELSE Invalid) :
     valid \in SUBSET (Indices(r) \X Indices(c))}

Cases ==
  {[of |-> "date", date |-> d] : d \in Dates(Years)}
  \cup {[of |-> "ID", id |-> id] : id \in IDs}
  \cup {[of |-> "range", range |-> x] : x \in UNION {RangesOf(r, c) : r, c \in 1 .. Size}}
  \cup {[of |-> "calendar"]}

Init == at \in Cases /\ CalendarsInit

Next ==
  /\ at.of = "calendar"
  /\ CalendarsNext
  /\ UNCHANGED at

Spec == Init /\ [][Next]_vars

\* Timestamps!PrintedAsTaken: a time is printed as the date it was taken on, but for the
\* last days of years, and those from 2199 on, which are refused.
DatesPrinted == at.of = "date" => PrintedAsTaken(at.date)

\* ObjectIDs!StubLeadsBack, AnonymousIsApart: what a cell shows leads back to its object
\* at every count, whether a user has named it or its ID is made up, and no object that
\* a user names is taken for one without a name.
IDsLeadBack ==
  at.of = "ID" => \A n \in Counters :
    /\ Accepted(at.id) => StubLeadsBack(at.id, n)
    /\ \A k \in KeyCounts :
         StubLeadsBack(Anonymous(k), n) /\ AnonymousIsApart(at.id, k, KeyCounts, n)

\* WorksheetArrays!PackKeepsAll, ColumnsLikeRows, FilterLikeRows: ohPack cuts invalid
\* rows and columns at the end only; the functions that drop cells drop the invalid
\* ones and keep the others in order.
RangesReduced ==
  at.of = "range" => PackKeepsAll(at.range) /\ ColumnsLikeRows(at.range) /\ FilterLikeRows(at.range)

\* JointCalendars!JointAsAsked, RegisteredOnce: the joint calendar is the one asked for,
\* whatever was asked for before, and there is one for all ways to ask.
CalendarsAsAsked == at.of = "calendar" => JointAsAsked /\ RegisteredOnce
=============================================================================
