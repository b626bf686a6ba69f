--------------------------- MODULE FunctionCalls ---------------------------
(***************************************************************************)
(* A call of an addin function from Excel: the FunctionCall singleton that *)
(* lives as long as the call (ohxl/functioncall.cpp), and the error        *)
(* messages that RepositoryXL keeps by the address of the calling range,   *)
(* for ohRangeRetrieveError (ohxl/repositoryxl.cpp, rangereference.cpp).   *)
(*                                                                         *)
(* An address is a range of cells, of one cell or more.  Users enter       *)
(* formulas, and array formulas, into ranges; each formula calls from the  *)
(* range it is in.                                                         *)
(***************************************************************************)
EXTENDS Naturals, FiniteSets

CONSTANTS
  Addresses,  \* the ranges that formulas are in, or that users ask about
  Cells,      \* Cells[a]: the cells of address a
  Parsed,     \* the addresses that RangeReference can parse
  Messages,
  None

ASSUME FunctionCallsAssumption ==
  /\ \A a \in Addresses : Cells[a] # {}
  /\ \A a, b \in Addresses : Cells[a] = Cells[b] => a = b
  /\ Parsed \subseteq Addresses
  /\ None \notin Messages /\ None \notin Addresses

Macros == {"VBA", "Menu"}
Callers == Addresses \cup Macros \cup {"Unknown"}

\* Where errors can be kept, and the callers whose errors are kept there.
Origins == Parsed \cup {"VBA"}
CallersAt(origin) == IF origin = "VBA" THEN Macros ELSE {origin}

ASSUME CallersAreDistinct == Addresses \cap (Macros \cup {"Unknown"}) = {}

VARIABLES
  formula,        \* address -> "none", "new" if its formula has not called, "called"
  instance,       \* FunctionCall::instance_ is set
  call,           \* the call that is running, None if there is none
  errorMessages,  \* errorMessageMap_: address -> message, None without an entry
  vbaError,       \* vbaError_, None when empty
  outcome         \* of the last call from each origin: its message, or None

errors == <<errorMessages, vbaError>>
callVars == <<formula, instance, call, errors, outcome>>

\* phase: the body of the function runs, an exception is on its way to the catch
\* clause, or the function returns; error is error_, message the last one logged.
FunctionCall == [caller: Callers, phase: {"body", "thrown", "returning"},
                 error: BOOLEAN, message: Messages \cup {None}]

ASSUME NoneIsNoCall == None \notin FunctionCall

TypeOK ==
  /\ formula \in [Addresses -> {"none", "new", "called"}]
  /\ instance \in BOOLEAN
  /\ call \in FunctionCall \cup {None}
  /\ errorMessages \in [Addresses -> Messages \cup {None}]
  /\ vbaError \in Messages \cup {None}
  /\ outcome \in [Origins -> Messages \cup {None}]

Init ==
  /\ formula = [a \in Addresses |-> "none"]
  /\ instance = FALSE
  /\ call = None
  /\ errorMessages = [a \in Addresses |-> None]
  /\ vbaError = None
  /\ outcome = [o \in Origins |-> None]

Formulas == {a \in Addresses : formula[a] # "none"}
Overlap(a, b) == Cells[a] \cap Cells[b] # {}
Within(a, b) == Cells[a] \subseteq Cells[b]

-----------------------------------------------------------------------------
(* The user *)

\* A formula replaces those in its range; Excel refuses to change part of an array.
EnterFormula(a) ==
  /\ call = None
  /\ \A b \in Formulas : Overlap(a, b) => Within(b, a)
  /\ formula' = [b \in Addresses |->
       IF b = a THEN "new" ELSE IF Overlap(a, b) THEN "none" ELSE formula[b]]
  /\ UNCHANGED <<instance, call, errors, outcome>>

ClearFormula(a) ==
  /\ call = None /\ a \in Formulas
  /\ formula' = [formula EXCEPT ![a] = "none"]
  /\ UNCHANGED <<instance, call, errors, outcome>>

\* The user cuts the cell a and pastes it over the cell b; the formula is not
\* calculated again, and no message moves.
MoveCell(a, b) ==
  /\ call = None /\ a # b
  /\ Cardinality(Cells[a]) = 1 /\ Cardinality(Cells[b]) = 1
  /\ \A c \in Formulas \ {a, b} : ~Overlap(a, c) /\ ~Overlap(b, c)
  /\ formula' = [formula EXCEPT ![a] = "none", ![b] = IF a \in Formulas THEN "new" ELSE "none"]
  /\ UNCHANGED <<instance, call, errors, outcome>>

-----------------------------------------------------------------------------
(* The call *)

\* FunctionCall::FunctionCall: the pointer is set once Excel has told the caller.
Construct(caller) ==
  /\ call = None /\ ~instance
  /\ caller \in Addresses => caller \in Formulas
  /\ instance' = TRUE
  /\ call' = [caller |-> caller, phase |-> "body", error |-> FALSE, message |-> None]
  /\ UNCHANGED <<formula, errors, outcome>>

\* MUTANT of ConstructFails: the pointer is set before Excel is asked, as it was
\* until 19-Nov-20.
ConstructFailsLate ==
  /\ call = None /\ ~instance
  /\ instance' = TRUE
  /\ UNCHANGED <<formula, call, errors, outcome>>

\* Excel does not answer the constructor: there is no FunctionCall, so that
\* logError only writes to the log.
ConstructFails ==
  /\ call = None /\ ~instance
  /\ UNCHANGED callVars

InBody == call # None /\ call.phase = "body"

\* Any step of the function's body may throw.
Throw ==
  /\ InBody
  /\ call' = [call EXCEPT !.phase = "thrown"]
  /\ UNCHANGED <<formula, instance, errors, outcome>>

\* The function has its result, or was called by the function wizard.
Complete ==
  /\ InBody
  /\ call' = [call EXCEPT !.phase = "returning"]
  /\ UNCHANGED <<formula, instance, errors, outcome>>

\* MUTANT of SetError: the entry that is there is not replaced.
SetErrorOnce(a, message) ==
  errorMessages' = IF a \in Parsed /\ errorMessages[a] = None
                   THEN [errorMessages EXCEPT ![a] = message] ELSE errorMessages

\* setError: a new entry needs the address parsed; the exception it throws if it
\* cannot be is swallowed.
SetError(a, message) ==
  errorMessages' = IF a \in Parsed \/ errorMessages[a] # None
                   THEN [errorMessages EXCEPT ![a] = message] ELSE errorMessages

\* logError: an error in one item of a loop, after which the function still
\* returns the others' results, or the exception that ends the function.
LogError(message) ==
  /\ call # None /\ call.phase \in {"body", "thrown"}
  /\ call' = [call EXCEPT !.error = TRUE, !.message = message,
                          !.phase = IF @ = "thrown" THEN "returning" ELSE @]
  /\ IF call.caller \in Addresses THEN SetError(call.caller, message)
                                  ELSE UNCHANGED errorMessages
  /\ vbaError' = IF call.caller \in Macros THEN message ELSE vbaError
  /\ UNCHANGED <<formula, instance, outcome>>

RecordOutcome ==
  outcome' = [o \in Origins |-> IF call.caller \in CallersAt(o) THEN call.message ELSE outcome[o]]

\* MUTANT of Return: ~FunctionCall clears the message whether or not one was logged.
ReturnClearing ==
  /\ call # None /\ call.phase = "returning"
  /\ errorMessages' = [a \in Addresses |-> IF a = call.caller THEN None ELSE errorMessages[a]]
  /\ vbaError' = IF call.caller \in Macros THEN None ELSE vbaError
  /\ instance' = FALSE /\ call' = None
  /\ RecordOutcome
  /\ formula' = [a \in Addresses |-> IF a = call.caller THEN "called" ELSE formula[a]]

\* ~FunctionCall: a call without an error clears what the last one from the very
\* same address left.
Return ==
  /\ call # None /\ call.phase = "returning"
  /\ errorMessages' = [a \in Addresses |->
       IF a = call.caller /\ ~call.error THEN None ELSE errorMessages[a]]
  /\ vbaError' = IF call.caller \in Macros /\ ~call.error THEN None ELSE vbaError
  /\ instance' = FALSE /\ call' = None
  /\ RecordOutcome
  /\ formula' = [a \in Addresses |-> IF a = call.caller THEN "called" ELSE formula[a]]

\* RepositoryXL::clear, when Excel closes the addin; vbaError_ stays.
ClearErrors ==
  /\ call = None
  /\ errorMessages' = [a \in Addresses |-> None]
  /\ outcome' = [o \in Origins |-> IF o \in Parsed THEN None ELSE outcome[o]]
  /\ UNCHANGED <<formula, instance, call, vbaError>>

-----------------------------------------------------------------------------
(* Asking for an error *)

\* MUTANT of Contains: any range that has a cell in common.
ContainsPart(a, b) == Overlap(a, b)

\* RangeReference::contains, of the range of an entry and a range asked about.
Contains(a, b) == Within(b, a)

\* retrieveError: the entry for the very same address, or one for a range that
\* contains it, whichever comes first by its spelling.
Retrieved(a) ==
  LET found == {b \in Addresses : errorMessages[b] # None /\ Contains(b, a)}
  IN CASE errorMessages[a] # None -> {errorMessages[a]}
       [] errorMessages[a] = None /\ found # {} -> {errorMessages[b] : b \in found}
       [] OTHER -> {None}

-----------------------------------------------------------------------------

User ==
  \E a \in Addresses :
    EnterFormula(a) \/ ClearFormula(a) \/ \E b \in Addresses : MoveCell(a, b)

Body == Throw \/ Complete \/ \E message \in Messages : LogError(message)

Next ==
  \/ User
  \/ \E caller \in Callers : Construct(caller)
  \/ ConstructFails \/ Body \/ Return \/ ClearErrors

Spec == Init /\ [][Next]_callVars

-----------------------------------------------------------------------------
(* Properties *)

\* The singleton's pointer is set exactly while a call runs, whichever way the
\* constructor and the function end: no call is ever refused with "Multiple
\* attempts to initialize global FunctionCall object", and none finds it unset.
InstanceIsTheCall == instance <=> call # None

\* Between calls, the message that is kept for an address, or for macros, is that of
\* the last call from there, and there is none if that call had no error.
LastErrorKept ==
  call = None =>
    /\ \A a \in Parsed : errorMessages[a] = outcome[a]
    /\ vbaError = outcome["VBA"]

\* "An error message may be associated with a multi-cell range and the user can query
\* any subset of that range and still get the relevant error message": so it is
\* unless a formula since replaced has left its error at a range around the subset.
RelevantErrorRetrieved ==
  call = None =>
    \A f \in Formulas \cap Parsed, a \in Parsed :
      /\ formula[f] = "called" /\ Within(a, f)
      /\ \A b \in Addresses \ {f} : Within(a, b) => errorMessages[b] = None
      => Retrieved(a) = {outcome[f]}
=============================================================================
