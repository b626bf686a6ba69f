# A verification of QuantLibAddin's object store

QuantLibAddin puts the QuantLib library behind functions that a spreadsheet, a C++ program or
another client calls. Every such function builds an *object*, or asks one a question; objects are
kept in a store under string IDs, name each other by ID, and are rebuilt when something they were
built from changes. The numbers are QuantLib's. What is this repository's own, and what this project
is about, is the store: who refers to whom, what is rebuilt when, what is destroyed when, what a
cell of a worksheet owns, and what comes back from a file.

Everything is written in TLA+; TLC checks small instances of every component and TLAPS proves most
of the safety properties for instances of any size.

## 1. The system

### Components

| component | code | state | operations | modelled in |
|---|---|---|---|---|
| object store | `ObjectHandler/oh/repository.*`, `objectwrapper.hpp`, `observable.hpp` | map from ID to wrapper; per wrapper a dirty flag, the object, the observers (raw pointers) and observables (shared pointers) | store, retrieve, delete one / a list / all | `Repository`; its promise: `ObjectStore` |
| generated functions | `gensrc/gensrc/stubs/stub.excel.function`, `stub.func.constructor`, `stub.serialization.creator` | the object being built | convert (retrieve precedents), construct, store; recreate | `Repository`, `RepositoryXL`, in part |
| Excel object store | `ObjectHandler/ohxl/repositoryxl.*`, `callingrange.*`, `objectwrapperxl.*` | map from key to calling range; per range the resident objects; per wrapper its range | store with a caller, garbage collection, clear | `RepositoryXL`, `CallingRanges` |
| relinkable handles | `QuantLibAddin/qlo/handleimpl.hpp`, `qlo/serialization/processor.cpp` | `CurrentLink`, the linked object, the library handle; the processor's list of handles put aside | link, recreate, save, load, postprocess | `RelinkableHandles` |
| conversions and variants | `oh/conversions/coerce.hpp`, `qlo/conversions/coerce*.hpp` | none: they read the store and the handles | coerce an ID to an object, a library object, a handle | `Coercions`, in part |
| serialization | `ObjectHandler/oh/serializationfactory.*`, `qlo/serialization/processor.*` | files; the load in progress | save, load | `Serialization`, `RelinkableHandles`, in part |
| groups | `oh/group.hpp`, `oh/conversions/getobjectvector.hpp` | lists of IDs | flatten, nested up to a depth | `Serialization` |
| function calls, cell errors | `ohxl/functioncall.*`, `rangereference.*`, `repositoryxl.cpp` | the call in progress; error messages by address | begin and end a call; log, retrieve and clear errors | `FunctionCalls` |
| IDs and update counters | `ohxl/callingrange.cpp`, `repositoryxl.cpp` | key counter; update counter of each range; Excel's hidden names | make, check and strip IDs; name cells; count updates | `CallingRanges`, `ObjectIDs` |
| rate helper selection | `QuantLibAddin/qlo/ratehelpers.cpp` | none: a function of its arguments | `qlRateHelperSelection` | `RateHelperSelection`, in part |
| enumerations and type factories | `oh/enumerations`, `qlo/enumerations` | registries | look up, make and register types | `JointCalendars`, in part |
| logging and utilities | `oh/logger.cpp`, `oh/utilities.cpp` | a log | print times, write lines | `Timestamps`, in part |
| worksheet functions | `ohxl/functions/manual.cpp` and others | none | reshape ranges, ask for errors | `WorksheetArrays`, `FunctionCalls`, in part |
| object classes | `QuantLibAddin/qlo/*` | properties | hand arguments to QuantLib | no: nothing of their own beyond what the store does with them |
| generator, QuantLibXL, other addins and clients, Excel SDK and XLOPER wrappers | `gensrc`, `QuantLibXL`, `QuantLibAddin/Addins`, `QuantLibAddin/Clients`, `xlsdk`, `ohxl/xloper.hpp` | – | – | no: build time, data and UI, vendor API |

### How they interact

A generated function retrieves its precedents by ID, constructs the object and stores it. Storing
resets the wrapper already under that ID, or makes one, registers the wrapper as observer of the
wrappers of its precedents, and notifies its own observers, who mark themselves dirty and notify
theirs. A dirty wrapper rebuilds its object when it is next retrieved, which retrieves its
precedents, and so on down. Deleting drops the map's reference; the wrapper itself lives until
nobody observes it.

In Excel the wrapper also belongs to the *calling range* (the cell) that stored it. The two maps, of
IDs and of calling ranges, and the resident list of each range change together when an object is
stored, moved to another cell, deleted or garbage-collected; wrappers remove themselves from the
lists in their destructors. Files are loaded through the same `storeObject`.

Around every call from Excel stands a `FunctionCall`, a singleton that knows where the call comes
from. Errors are kept by the address of that range, and the range itself is found by a hidden name
that Excel moves with the cell. What a cell shows is the object's ID with the update counter of its
range, so that Excel sees a change and recalculates what depends on it.

All of this is single-threaded: Excel calls the addin from one thread, and the C++ examples have
one. No step of one call runs between two steps of another. The difficulty is in *re-entrance*
(recursion through observer links, destructors that run in the middle of a loop), *partial failure*
(exceptions after part of the state was changed) and *long sequences of legal calls* (an object
deleted, stored anew, moved, collected).

### What makes them correct

* store: links never dangle; every change reaches every dependent object; what is retrieved is built
  from present precedents; nothing leaks; recursion ends.
* Excel store: the two maps and the resident lists agree; garbage collection deletes exactly the
  objects whose cells are gone, and ends.
* calls: the singleton is there exactly while a call runs, however constructors and functions fail;
  the message kept for a range is that of the last call from it; a cell keeps one name and one
  counter while the user cuts, pastes and deletes; every update is seen.
* handles: a handle links to what it says; loading restores links whatever the order of the file;
  the ways to use one ID agree on the object behind it.
* files: what is saved is what the list stands for, each object once and after what it lists; what
  was read of a file is restored, also when the rest of it fails.
* selection: selected helpers keep their distance, priorities decide, futures and deposits follow
  the trader's rules.
* pure algorithms: what a cell shows leads back to its object; a date is printed as it was taken; a
  joint calendar is the one asked for; a range loses its invalid cells and no others.

## 2. Modules

| module | kind | extends |
|---|---|---|
| `Repository` | component | |
| `RepositoryProofs` | theorems | `Repository` |
| `FreshnessProofs` | theorems | `RepositoryProofs`, `RepositoryRefinement` |
| `ObjectStore` | abstract specification | |
| `RepositoryRefinement` | refinement mapping | `Repository`, with an instance of `ObjectStore` |
| `RepositoryXL` | component, composed with the store | `Repository` |
| `RepositoryXLProofs` | theorems | `RepositoryXL`, `RepositoryProofs` |
| `RelinkableHandles` | component, with the store reduced to what handles see | |
| `Coercions` | functions on the state of handles | `RelinkableHandles` |
| `RelinkableHandlesProofs` | theorems | `Coercions` |
| `FunctionCalls` | component | |
| `CallingRanges` | component, composed with calls | `FunctionCalls` |
| `CallingRangesProofs` | theorems | `CallingRanges` |
| `Serialization` | component, with the store reduced to what files see | |
| `SerializationProofs` | theorems | `Serialization` |
| `RateHelperSelection` | algorithm, one step per turn of a loop | |
| `RateHelperSelectionProofs` | theorems | `RateHelperSelection` |
| `Timestamps`, `ObjectIDs`, `WorksheetArrays`, `JointCalendars` | pure algorithms; the last with the registry it fills | |
| `Conversions` | the four algorithms, each on inputs of its own | `Timestamps`, `ObjectIDs`, `WorksheetArrays`, `JointCalendars` |
| `ConversionsProofs` | theorems | `Conversions` |
| `MCRepository`, `MCRepositoryXL`, `MCRelinkableHandles`, `MCExcelCalls`, `MCSerialization`, `MCRateHelperSelection`, `MCConversions` | instances for TLC | the component (`MCRepository`: `RepositoryRefinement`; `MCRelinkableHandles`: `Coercions`; `MCExcelCalls`: `CallingRanges`) |

Definitions commented "MUTANT of X" are plausible bugs of the code; no specification uses them. Each
property of a passing run was seen to fail when X is replaced by one of them.

### Repository

*State.* `objectMap` is `objectMap_`; `live` are the wrappers whose destructor has not run;
`observables` and `observers` are the two ends of the links; `dirty` is `dirty_`. `precedents` and
`permanent` describe the object a wrapper has. `builtFrom` is a history variable: the wrappers whose
*present* object was used to build this one; it is how staleness is told. `held` is the object that
a client has built and not yet stored. `stack` is the C++ stack, one frame per activation of
`retrieveObject`, `recreate`, `reset`, `update`, or of a generated constructor.

*Actions.* `Retrieve`, `RetrieveNext`, `FinishRecreate`, `FinishRetrieve` follow
`retrieveObject`/`recreate` down the precedents. `Construct`, `FinishConstruct` are the constructor;
`StoreNew`, `StoreOver`, `StoreRefused` the three outcomes of `storeObject`. `NotifyNext`,
`FinishUpdate`, `FinishReset` are the notification. `DeleteObjects` and `DeleteAllObjects` erase map
entries; `Destroy` runs the destructor of a wrapper that nobody refers to, before anything else
happens. `CallFails` is an exception in the innermost activation. When the stack has `MaxDepth`
frames a further call sets `crashed`, and `Restart` begins again with an empty process.

*Abstractions.* IDs are model values; scalar properties, times and log lines are left out. The
observers of one wrapper are notified in any order, as `std::set` orders them by address. Queries
that change nothing are left out.

### ObjectStore and RepositoryRefinement

`ObjectStore` is what the class comment of `ObjectWrapper` promises, without wrappers, links, flags
or recursion. Its state is which IDs are `stored`, the `precedents` of each object, those whose
present objects it `uses`, and the IDs that the running call has `asked` for and been given
(`taken`). An object is `Current` if it belongs to a closed set of objects which were all built from
the present objects of their precedents. `Take` hands out current objects only, `Refresh` builds
anew only objects that are not, from precedents that are; `Store` needs all that was asked for.

`RepositoryRefinement` says how the repository does it. `stored` are the entries of the map; `uses`
is `builtFrom` by ID; `asked` is what the first activation has still to retrieve and what it has
retrieved, or the precedents of what the client holds; `taken` leaves out the wrapper that the
activation above it is recreating. A crashed process has no call. Dirty flags, observers and the
rest of the stack are hidden: that they deliver current objects is what the refinement shows.

### RepositoryXL

Adds `callingRanges` (the map), `valid` (does the range's name still refer to a cell), `home` (the
range of a wrapper), `residents` (the resident lists) and `gc`, the loop of a running
`collectGarbage`: the ranges left, the range it is in, the resident its iterator points at and those
passed. `StoreNewXL`, `StoreOverXL`, `StoreRefusedXL`, `DestroyXL` conjoin the actions of
`Repository` with what the derived classes add; the steps inside a call are `Repository`'s own.
`DeleteCell` is the user. Garbage collection goes one resident at a time, since destructors run in
between: `CollectResident` is `deleteObject`, `CollectSpares` a permanent resident, `CollectFails`
an exception out of the loop. A destructor that erases the entry at the iterator is undefined
behaviour, and modelled as a crash (`DanglingIterator`). VBA is a calling range of its own, which is
always valid. Here a range is an opaque name; how the name is found and counted is `CallingRanges`.

### FunctionCalls and CallingRanges

*State.* `formula` says which ranges have a formula, and whether it has called since it was entered.
`instance` is the singleton's pointer and `call` the call in progress: its caller, the `phase` it is
in, whether it logged an error (`error_`) and the last message. `errorMessages` is
`errorMessageMap_`, `vbaError` is `vbaError_`; `outcome` is a history variable, the message that the
last call from each origin ended with. `CallingRanges` adds `keyCount` (`keyCount_`),
`callingRanges` (the map, with each range's update count), `names` (Excel's hidden names and the
cells they refer to) and `shown` (the full ID in a cell).

*Actions.* `Construct` and `ConstructFails` are the constructor of `FunctionCall`, whose question to
Excel may fail; `LogError`, `Throw`, `Complete` are the body and its catch clause, `Return` the
destructor, which clears the message of a call without an error. `StoreObject`, `StoreRefused`,
`NoKeyLeft`, `NameRefused`, `RangeUnknown` are the outcomes of `getCallingRange` and `storeObject`: a
store is refused before it has used an update count, or throws in `registerObserver` after.
`LoadObjects` is `ohObjectLoad`, which stores many objects from one cell, each with a count of its
own, and shows no full ID;
`CollectGarbage` drops ranges whose cell is gone, and `Close` is `RepositoryXL::clear`. The user
enters, clears, cuts and pastes, and deletes (`ChangeFormula`, `MoveNamedCell`, `DeleteCells`);
Excel's part, moving names with their cells, is in these actions. `Retrieved` is `retrieveError`:
any of the messages of ranges that contain the one asked about, since the order of addresses as text
decides among them.

### Coercions

`Coerced` is `Coerce::operator()`: the first conversion of a list that succeeds decides, and
`Throws` is an exception. `CoerceObject`, `CoerceLibrary` and `CoerceHandle` are the three coercions
with their conversions (`objectToObject`, `handleToObject` and so on), evaluated in every state of
`RelinkableHandles`; `Behind` is what QuantLib finds behind the handle it is given.

### Serialization

*State.* `stored` and `dirty` are the repository; `list` the IDs of a group; `engineID` and `engine`
what an instrument says of its engine and the engine it has, with whether that is the present object
under its ID. `files` are items in the order written, or `Cut`; `load` is the running `loadObject`,
with the items to come and those read.

*Actions.* Clients store groups, engines and instruments, set engines, make objects dirty and delete
them. `Save` expands its list by `GetObjectVector` (recursive in the nesting level, with the limit
of the code), removes the file that is there, and writes it, cuts it short or fails to open it.
`StartLoad` takes the files in any order; `LoadGroup`, `LoadEngine`, `LoadInstrument`,
`LoadUnpriced`, `LoadRefused` are the outcomes for one item; `Restart` ends the process at any
point, files stay. Directories and patterns are reduced to a set of paths, the archive to its items.

### RelinkableHandles

A handle object has `currentLink` (the property), `object_` and `handle_` (the pointers). A link is
the ID of an object and whether that object is still *present*, that is, the one in the repository.
`LinkOutcomes` are those of `linkTo`. It returns (`Linked`) for the empty ID, which sets the property
only, and for the ID of an object. It throws (`LinkThrows`) with nothing changed if the object cannot
be retrieved; or half way, as QuantLib's handle sets its link first and then notifies its observers,
whose errors come back out, so that `CurrentLink` is never reached. The history field `behind` marks a
handle to which this has happened, until a `linkTo` returns; no guard reads it. The call between the
two, `getLibraryObject`, would throw at a null pointer in an object, and the constructors of all
classes that a handle accepts set that pointer. `Mislinked` is the retrieval of an object of another
type, which clears `object_` before it throws.
The store is reduced to what handles see: an object is stored, stored anew (its observers become
dirty) or deleted. `observes` tells a handle that was *built* with a link, which observes its
target, from one that was relinked or loaded, which does not. `Save` writes a file of properties;
`StartLoad`, `LoadTarget`, `LoadHandle`, `LoadFails` are the loop over its entries. `PostProcess`
links all the handles put aside and clears the list; `PostProcessFails` is an exception of `linkTo`
for one of them, those before it linked, and the list kept.

### RateHelperSelection

`rhsAll` is the sorted list; `Admit` and `PassOver` are one turn of the selection loop,
`FinishSelection` the second sort, `Erase` and `Keep` one turn of the removal loop. `Sortings` gives
every result `std::sort` may leave. Dates are days; an instrument's kind stands for the dynamic
casts and the month of its start.

### Timestamps, ObjectIDs, WorksheetArrays, JointCalendars

* `Timestamps`: `GetTime` and `FormatTime` with their tables of years and months, against the civil
  calendar. The tables are given by the rules that their entries follow.
* `ObjectIDs`: `Key`, `FullID`, `GetStub` and `Accepted` (`initializeID`) on IDs as sequences of
  characters, with the widths and bases of the code, since the property is about spelling.
* `WorksheetArrays`: `Pack`, `RemoveInvalidRows`, `RemoveInvalidColumns`, `Filter` on arrays stored
  row by row.
* `JointCalendars`: `Groups` and `IdFull` are `parseID` with what its regular expression matches,
  `Result` and `CreateJoint` the call, which registers what it makes. The names in a joint ID are
  those of single calendars: another joint ID as the last of four names, which `getType` would find
  if it is registered, is not among them.

`Conversions` puts the four together: `at` is what is converted, a date, an ID, a range of cells, or
joint calendars as they are asked for one after the other.

## 3. Runs

| run | module | question | distinct states |
|---|---|---|---|
| `RepositoryLayered` | `MCRepository` | do dirtiness, freshness, registration, memory and recursion stay right in a store whose clients name only objects already stored? | 0.27 M |
| `RepositoryNoDelete` | `MCRepository` | without deletions, is everything retrieved fresh, does every call return, and does the store implement `ObjectStore`? | under 0.1 M |
| `RepositoryCpp` | `MCRepository` | do links match and does nothing dangle with C++ clients who name any ID and let other calls come between building and storing? | 2.1 M |
| `RepositoryStale` | `MCRepository` | violation of `AlwaysFresh` | |
| `XLCells` | `MCRepositoryXL` | two cells, no deletions other than collection: do the maps agree and does collection take exactly the orphans? | 0.3 M |
| `XLDelete` | `MCRepositoryXL` | a cell and VBA, with deletions: are resident lists free of destroyed wrappers, and does collection end? | 0.25 M |
| `XLIterator` | `MCRepositoryXL` | violation of `IteratorSurvives` | |
| `HandlesLoad` | `MCRelinkableHandles` | is a handle linked as named, with every outcome of `linkTo`, restored by a load that succeeds, and the same object to every coercion? | 1.6 M |
| `ExcelCalls` | `MCExcelCalls` | are the singleton, the messages, the names and the counters right through errors, moved and deleted cells? | 1.8 M |
| `Saving` | `MCSerialization` | is the closure of a list saved, and what was read restored, with groups in circles, cut files and restarts? | 0.7 M |
| `Selection` | `MCRateHelperSelection` | is the selection apart, by priority, and by the rules for futures and deposits, for every list of up to four of eight instruments? | 1.3 M |
| `Conversions` | `MCConversions` | are the four algorithms right on every input within the bounds? | 7606 |

### Bounds, and why they are enough

* `Ids`: three IDs in layers (a quote, a curve built from it, an instrument built from either) are
  the least that has a chain and a diamond. Two IDs that may name each other, or themselves, give
  all cycles of observers up to length two, where recursion does not end.
* `Wrappers`: one more than `Ids` where clients delete objects, so that a deleted wrapper that is
  still observed and its successor under the same ID exist side by side.
* `MaxDepth`: four frames are more than the layers need (which `NoRunaway` confirms); any bound is
  overrun by a cycle, and a crash can then come at any point of the recursion.
* `Ranges`: two cells, or a cell and VBA, for objects that move.
* `HandlesLoad`: one handle and two targets, so that it can be relinked from one object to another;
  two allocations and files of two entries: the handle comes before or after its target, and may be
  stored anew while an object of it, put aside by a load that failed, is still in the processor's
  list. That list then has two, the first of which is linked when `linkTo` throws for the second.
  `Objects` bounds how many such loads can fail: `StartLoad` begins only when the handles of its
  file have room (`Fits`). Two handles and one target give no violation either.
* `ExcelCalls`: a cell, the range of two cells that it is in, and a cell of a sheet whose name
  `RangeReference` cannot parse: formulas that overlap, and one whose errors cannot be kept. Two
  messages tell an old one from a new one. `MaxKeys` is 2 for 16^5 and `MaxCount` 1 for 9999, so
  that both are reached; with two counts the next one is still never the same.
* `Saving`: one instrument, its engine and two groups that may list themselves and each other, in
  two files. The three lists of a group have the engine before and after the instrument, and the
  empty ID with a group; the lists that are saved are a group alone, a group after what it lists,
  and the empty ID. `MaxNesting` is 3 for the 10 of the code: two groups in a row are allowed, a
  circle is not.
* Selection: four instruments give a helper that is kept, two that compete, and one after them. The
  day numbers make every pair near or far, and futures that are rolled and not. The minimum distance
  is one for all.
* `Conversions`: the days of fourteen years, around 1970, the turns of three centuries (leap and
  not), a leap year of these days and the end of the table; IDs of up to four characters out of the
  letters of the reserved prefix, the delimiter and another, with counts on both sides of every
  change of width; ranges of up to three by three cells, each valid or not; joint calendars of up to
  five names, where the regular expression has places for three and a remainder, over a library of
  three, with one name spelled in two ways and one unknown.

Wrappers, allocations, cells, handles, messages and paths are interchangeable, and declared as
symmetries in runs without liveness properties or refinements.

Only `Selection` and `Conversions` switch deadlock checking off: a call that has returned, or a
conversion that is done, stops. In every other module a client can always make another call.

### Fairness

`FairSpec` and `FairSpecXL` assume weak fairness of the steps *inside* a call (`Step`, `StepXL`),
never of clients: C++ code that was called runs on, and is not preempted. With it `CallsReturn` says
that recursion ends and `CollectionEnds` that the garbage-collection loop does. `CollectionEnds`
excepts a process that dies. No other module needs fairness: its properties are about states and
steps.

## 4. What is proved

All theorems are for any values of the constants that satisfy the assumptions of the modules: that
the null pointer is no ID, no allocation and no message, that kinds of IDs are apart, that every
range has cells and no two addresses the same ones, that minimum distances are positive (as
`RateHelperItem` requires), that days are integers, that times are taken from 1970 on (where
`time()` starts), that IDs are sequences of characters where their spelling matters, that groups and
paths are finitely many, and that sizes are natural numbers. What a theorem needs besides is in its
statement.

### The store

For any sets of IDs and wrappers, any references between objects and any stack depth
(`RepositoryProofs`):

* `TypeCorrect`: `TypeOK` is invariant.
* `LinksAlwaysMatch`: a wrapper is among the observers of another exactly if it observes it, and
  only live wrappers observe or are observed. So the raw pointers that `notifyObservers` follows are
  good, in whatever order objects are stored, recreated, deleted and destroyed.
* `NeverUsedAfterFree`: the wrappers that the map has, or that an activation works on, are live and
  stored under their own ID.

None of these is inductive alone. The inductive invariant `MemoryInv` adds `FramesSafe`: an
activation that notifies has only live wrappers left to notify (they can be destroyed only when no
activation runs), and an activation that builds an object has one to build. `MapSafe` is the half of
`NoUseAfterFree` about the map. The proof has a lemma per family of actions (`RetrieveSafe`,
`ConstructSafe`, `NotifySafe`, `StoreSafe`, `DeleteSafe`), over lemmas about the stack
(`PopIsBelow`, `EnterFrames`, `ReplaceFrames`) and about registration (`RegisterKeepsSymmetry`,
`RegisterObserverSafe`).

For clients in layers (`FreshnessProofs`), that is `Layered(rank)`: the references of objects go
down in rank, ranks leave the stack two activations of room, and what is built is stored in the same
call:

* `DirtinessAlwaysPropagates`, `AlwaysFreshWhereObserved`, `AlwaysRegisteredWithAll`: the observers
  of what is dirty are dirty, what is clean is built from what it observes, and it observes a
  wrapper for each precedent, whatever is stored, fails and is deleted.
* `NeverRunsAway`: recursion stays within the stack.
* `NothingEverLeaks`: when the map is empty no wrapper is left.
* `AlwaysFreshWithoutDeletion`: where nothing is deleted, everything is up to date. With deletions
  this is false, as `RepositoryStale` shows.

`FreshInv` adds to `MemoryInv` what holds *during* a notification or a retrieval. Between the
rebuilding of an object and the end of the notification, clean observers of a changed object exist;
they are those still on the stack (`Pending`), or the wrapper being reset (`Resetting`). `Retrieves`
says that activations go down in rank through dirty wrappers, and that what they have retrieved is
clean and in the map; `Notifies` that they go up in rank. The two give the bound on the stack, and
that no step back undoes what an activation relies on. Wrappers that nobody observes are destroyed,
and among those left one of highest rank is observed by none: hence nothing leaks.

`RepositoryImplementsObjectStore` proves the refinement for the same clients where nothing is
deleted: every step of `Repository` maps to a step of `ObjectStore` or to a stutter. A retrieval
that finds a clean wrapper is `Take`, the end of a recreation is `Refresh`, and both need that
clean means current: the clean wrappers are a closed set of objects that are up to date
(`CleanIsCurrent`). `Refresh` also needs the converse, that nothing current is ever rebuilt
(`DirtyIsNotCurrent`): a closed set of objects that are up to date with a dirty one in it would
have a dirty one of lowest rank, which has no reason to be. That is `DirtyForReason`, in
`PromiseInv`: a precedent of what is dirty has another object than the one it was built from, or is
dirty, or is being notified (`Updating`). What keeps it is that a notification starts from an object
that nothing is built from yet, and passes only along links (`NotifiesInTurn`). There is a lemma
per action or family of actions, from `BeginPromised` to `FinishResetPromised`.

`PromiseKeepsCurrent` is about the abstract store, through the refinement mapping: what a running
call was given stays current until it ends, although objects are rebuilt meanwhile. `RefreshKeeps`
and `RefreshRenews` are its lemmas: rebuilding one object leaves current what was, since nothing
current rests on what is not. With the refinement it gives `GivenStayCurrent`, the same of
`Repository`: no call of such clients is left with an object that rests on one replaced since.

### The Excel store

`ResidenceInv` (`RepositoryXLProofs`) joins `MemoryInv`, of the store below, with the types of the
ranges, that residents are live and at home, and the place of the garbage-collection loop in its
list. With deletions by any client it gives `TypeCorrectXL` and `ResidentsAlwaysLive`: collection
follows no pointer to freed memory.

If clients delete nothing (`Deletable = {}`), `SheetInv` adds that what is listed is what is stored,
that a wrapper which lives on unstored belongs to a cell that is gone and has no successor in the
list, and that the orphans lie ahead of a running collection. It yields `StoredStayResident`,
`AllOrphansTaken` and `OnlyOrphansTaken`: collection deletes exactly the objects of cells that are
gone. The hypothesis is needed: the destructor of a deleted wrapper unregisters by ID, and then
takes its successor out of the list.

### Calls and calling ranges

`RangesInv` (`CallingRangesProofs`) is inductive for `CallingRanges`: `CallInv` relates a running
call to the messages (`MessagesKept`: what is kept is the message of the last call, or of the
running one); `KeysFresh` says that keys from the counter on are unused; `ShownIsCounted` that what
a cell shows is the count before that of its range. From it `RangesTypeCorrect`,
`SingletonIsTheCall`, `LastErrorAlwaysKept`, `OneNameEach`, `NamedAlwaysKnown`, and the action
property `UpdatesAreSeen`, for any number of keys and any limit of the counter that is at least one.
`RelevantErrorAlwaysRetrieved` says what the user sees of the messages: the one found for any part
of a range is that of the range's last call, since no other address around it has one.

### Handles

For any IDs, allocations and length of files (`RelinkableHandlesProofs`):

* `LinkTypes`: `TypeOK`, which includes that a link marked present is to an object of the
  repository.
* `AlwaysLinkedAsNamed`: `LinkAsNamed`, that what `CurrentLink` names is what the library handle was
  linked to, except after a `linkTo` whose observers threw, and then until the next one that returns.
  `LinkInv`, the conjunction of the two, is inductive; the proof goes through `Sound`,
  the invariant of one handle object, which `linkTo`, the retrieval of a wrong type, and the change
  of a linked object each preserve.
* `CoercionsAlwaysAgree`: an ID as an object, as a library object and as a handle is the same
  object. It rests on `AlwaysFollowed`: the object that ObjectHandler sees behind a handle is none,
  or the library's.
* `LoadAlwaysLinks`: the action property `LoadLinks`, that a load which succeeds leaves every handle
  of its file linked as saved. `LoadInv` says of a running load that what was read of the file is in
  the store, and that a handle read so far is among those put aside with the link of its entry; no
  handle is put aside twice, also by loads that failed before, so that the last pass links each to
  what the file says and nothing relinks it.

### Files

For any IDs, groups, paths and lists (`SerializationProofs`):

* `LoadsRestore`: at every point of a load, what was read is restored, whatever the store had
  before. `LoadInv` adds to the property only that groups, engines and the load have the shapes they
  should; the work is in `LastOfEach`, since a file may have an ID twice and a later item takes the
  place of an earlier one.
* `TypesCorrect`: `TypeOK`. It is not inductive: that a group which is loaded has a list that could
  be stored follows only from where files come from. `TypeInv` adds `StoredOnly`, that a group in a
  file, or in what a load has yet to read, is there with its list, and `LoadInv`.
* `SavesAlwaysWhole`: `SavesTheClosure`, in every state, for groups nested in any way, in circles
  too, and any limit of the nesting. The proof has no invariant beyond types (`ListsOK`) and follows
  the recursion of `getObjectVector` in four arguments. `Closure` is the least set that contains the
  list and the members of its groups, since a chain of groups as long as there are groups meets one
  of them twice (`ClosureSteps`, `LastStepCloses`, `ClosureIsLeast`). The recursion throws exactly
  if something is missing or `TooDeep` (`ExceptionHasChain`, `NoException`), and else finds exactly
  the closure (`RetrievedIsClosure`), members before their group (`RetrievedInOrder`). Writing
  each object at its first place keeps all of this (`SavedOnce`, `SavedWhole`), which rests on
  `NthHasRank`: the n-th of a finite set of numbers exists and has n of them up to it.

### Selection

For lists of any length, any dates and any priorities (`RateHelperSelectionProofs`):

* `IteratorStaysInRange`: the removal loop, which erases from the vector it walks over, has its
  iterator at a helper of the vector. The inductive invariant `LoopInv` adds types and that the
  helpers are in the order of their dates; `SortingProperties` and `ErasedProperties` say what
  sorting and erasing do to a vector.
* `SpacedWithOneDistance`: given one minimum distance (`OneMinDist`), `Spaced` holds. `SpaceInv`
  adds that the helpers up to the iterator are apart already: erasing the one at the iterator puts a
  later one in its place (`EraseKeepsApart`), and the loop moves on only past a gap
  (`KeepExtendsApart`). With a distance per instrument the property is false (section 6).
* `DominantAlwaysSurvives`: a helper with a higher priority than every helper near it is returned,
  for any minimum distances. What is erased has no higher priority than a neighbour that is near
  (`ErasedIsNoBetter`), which was admitted too, and therefore does not dominate (`DominantKept`).
* `DeposMakeWayForFront` and `DeposAlwaysMakeWay`: `DeposMakeWay`. The loop compares deposits with
  the front futures of the list; `DepoInv` says what that leaves in the vector, however it is sorted
  and thinned after. The property is about *any* futures returned, and needs `FuturesInOrder`: of
  two futures the one that matures no later starts no later, which holds for futures of one tenor,
  as those of one curve are. TLC refutes the property without it.
* `FrontFuturesAlwaysFill`: `FrontFuturesFill`. `FillInv` relates the counters of the loop
  (`included`) to the number of open futures passed (`Counted`), and has a bijection between the
  futures taken and the foremost of those passed (`Fills`), which is extended by every futures that
  is admitted and composed with the permutation of a sort (`BijectionExtended`,
  `BijectionComposed`).

### Conversions

The runs take small inputs; the theorems of `ConversionsProofs` are for inputs of any size. The
first three are about values that no step changes; the last one needs an invariant.

* `DatesAlwaysPrinted`: `DatesPrinted`, for every year from 1970. `TableIsCalendar` relates the
  tables of days to the civil calendar, `DayNumber` a date to its number of days. `YearFound` and
  `MonthFound` say that the searches of `FormatTime`, which start at an estimate, end at the date's
  own year and month: the estimate is never too late, and what lies between does not fit.
  `YearNotFound` has the last days of years and the end of the table, which `DatePrinted` excepts.
* `IDsAlwaysLeadBack`: `IDsLeadBack`, for IDs and counts of every length. `CountsTakeFour` is the
  width that `GetStub` relies on (`StubOfFull`). That keys of two cells differ is `SpelledApart`:
  equal texts end with equal digits, and begin with equal texts of the quotients
  (`PaddedByDigits`), down to the first digit. `PrefixIsReserved` keeps them apart from what users
  may name, in capitals or not. That the full ID leads back is for the IDs that users may give and
  for those of anonymous objects alike (`EveryAnonymousLeadsBack`), whose spelling has no delimiter
  but the one before the count.
* `RangesAlwaysReduced`: `RangesReduced`, for ranges of any size. `Positions` and `Indexed` relate
  the indices of an array to rows and columns; `RowsCounted` and `ColumnsCounted` give the last ones
  that `Pack` keeps. The n-th valid index exists because a finite set has a member at every place of
  its order (`EveryPlaceTaken`, `NthIsMember`). Columns are removed as rows are from the transposed
  array (`ColumnsRemoved`).
* `CalendarsAlwaysAsAsked`: `CalendarsAsAsked`, for every library and for lists of every length. The
  invariant `Registered` says that what the registry has under a full ID was made for an ID of this
  full ID. It needs that `std::less` orders the groups strictly and totally (`GroupsAreOrdered`), so
  that IDs of the same names have one full ID (`FullNames`), and that a group of more than one name
  is no calendar (`ManyNotMade`), which is what refuses lists of five names or more.

### How recursion is proved about

The library's induction theorems take an operator as a parameter, which no prover at hand can
instantiate. Where a proof is by induction on a number, it cites `EveryNumber` instead: a set that
contains 0, and with each number the next one, contains all numbers. It follows from the existence
of least elements (`WFMin` of `WellFoundedInduction`), and what is proved by induction is written as
the set of numbers for which it holds. A recursive function is a CHOOSE of a function that satisfies
its equation, so each has a lemma that there is one, again by `EveryNumber`: `FlatteningExists` for
`FlattenSeq`, `LevelsExist` for the levels of `GetObjectVector`, `ReachExists` for those of
`Closure`, `SpellingExists` for the digits of `Padded`. `DaysAsInTable` does the same for the days
before a month, from the function itself.

## 5. What is only model-checked

Liveness (`CallsReturn`, `CollectionEnds`) and what rests on ENABLED are out of the prover's reach.
Every safety property of a passing run, invariant or action property, is stated by a theorem of
section 4, and every property that a theorem states is checked by a run as well.

## 6. Disagreements between code and documents

Two of these are runs whose property a document states.

* `RepositoryStale`. A precedent that is deleted and stored again under its ID gets a new wrapper,
  which nobody observes. The observers of the old one stay clean, built from an object that is gone.
  `objectwrapper.hpp:37` promises that the state of an object is updated before it is returned.
* `XLIterator`. `clearResidentObjects` increments its iterator before it deletes a resident, as the
  resident's destructor erases its entry (the comment at `callingrange.cpp:74`). But the destructor
  may release another wrapper, deleted before and kept alive only by being observed, whose entry is
  the one that the iterator is at.

Seen in the same models, or met while reading, and without a run of their own. Store and Excel
store:

* `deleteObject` with a list throws at the first unknown ID, with those before it deleted and those
  after it kept, although `repository.hpp:122` speaks of deleting the objects.
* With deletions, a store may fail in `registerObserver` at a precedent that was deleted, after the
  map was changed: the wrapper is then registered with only some of its precedents. This is why
  `RegisteredWithAll` is checked with clients whose precedents exist.
* Objects that come to observe each other, or themselves, notify each other until the stack is
  exhausted (`observable.hpp:121`), and are never destroyed when deleted (`observable.hpp:81`).
  `RepositoryCpp` has such cycles, with a crash at any point of the recursion, for what must hold
  all the same: `LinksMatch` and `NoUseAfterFree`. `NoRunaway` and `NothingLeaks` are checked for
  clients that name only objects of earlier layers.
* A wrapper that was deleted by a client while it was observed keeps its entry in the resident list
  of its cell. When the cell is gone, collection throws at this entry (`callingrange.cpp:91`) and
  leaves the remaining orphans, of this cell and of others, against `repositoryxl.hpp:102`: "Delete
  all objects orphaned by the deletion of the calling cell." TLC finds `OrphansCollected` violated.
* If another cell has stored an object under the ID of such an entry, collection deletes that object
  (`callingrange.cpp:81`), where `callingrange.hpp:66` speaks of the objects associated with the
  range. TLC finds `OnlyOrphansCollected` violated.
* The destructor of such a wrapper unregisters by ID, and takes the one stored since in the same
  cell out of the resident list (`objectwrapperxl.cpp:36`), against `objectwrapperxl.hpp:53`:
  "de-register this object". TLC finds `StoredIsResident` violated. For these three, take the
  constants of `XLIterator`; `XLCells` has no deletions.
* `Repository::precedentIDs` of a group (`repository.cpp:283`) looks its members up without
  `formatID`, so that those listed by their full IDs are left out.

Handles and files:

* When an observer of a library handle throws at the news that the handle was relinked, the new link
  stays and `CurrentLink` names the old object (`handleimpl.hpp:58`). It is documented as the ID of
  the object to which the handle is linked (`handles.xml:13`). `LinkAsNamed` says exactly when the
  two may differ. That observers throw is foreseen in `quotes.cpp:81`, which brings the property of
  a quote in line with QuantLib's.
* Linking to the empty ID leaves the library handle linked as it was (`handleimpl.hpp:54`), where
  `handles.xml:59` has it stand for the null object.
* `CurrentLink` goes on naming an object that was deleted, and, for a handle that was relinked or
  loaded and does not observe its target, one that was stored anew and is another than the linked.
* A load that fails leaves handles in the processor's list (`processor.cpp:70`); the next load that
  gets to its end relinks them, though its file may not mention them, and fails for as long as one
  of them names an object that does not exist.
* `InstrumentProcessor::process` retrieves the pricing engine as it reads the instrument, against
  `processor.hpp:68`. With the instrument first in the file a load ends half way, or, overwriting,
  the instrument keeps the engine that the file then replaces; `LoadRestores` says exactly that.
* An instrument that is recreated because it is dirty, by saving it for instance, loses its engine,
  while `EngineID` stays: recreation runs no processor.
* The file to be overwritten is removed before the new one is opened
  (`serializationfactory.cpp:196`): a save that fails there leaves neither.

Cells:

* A message kept for an array formula stays when the formula is replaced by others in single cells,
  and is then found for cells that have no error; `RelevantErrorRetrieved` is about ranges that no
  such entry contains. A cell that is cut and pasted leaves its message behind.
* A call from the function wizard clears the message of the cell, whose value still shows the error.
* `ohRangeRetrieveError` (`functions/manual.cpp:418`) returns the empty string for every selection
  of several cells, since what it coerces is an array and no error, where `rangereference.hpp:111`
  has the user query any subset of a range.
* `initializeID` rejects IDs that have `OBJ` at positions 0 to 2, `myObject` for instance, not only
  those that start with it (`callingrange.cpp:190`).
* The example of a full ID in `callingrange.hpp:96`, `my_object#00123`, has five digits; the code
  writes four, which is what `getStub` takes off with the delimiter.
* Keys of calling ranges are never given back: after 16^5 of them every new cell fails.

Algorithms:

* `formatTime` throws on the last day of a year, and from 2199 on (`utilities.cpp:328`).
* A joint ID of five names or more, against the comment above `parseID`, is accepted if its names,
  those the expression leaves together as one, spell the key of a joint calendar that somebody has
  asked for before, and only then (`calendarfactory.cpp:86`).
* With a minimum distance per instrument, a removal makes two helpers neighbours that are never
  compared (`ratehelpers.cpp:717`), and may be nearer than one of them asks (`ratehelpers.xml:2348`).
  TLC finds `Spaced` violated with `OneMinDist = FALSE`, distances of 1 and 3 days and three
  instruments; `Selection` and the theorem are about one distance for all.

## 7. What is not modelled, and why

The greater part of the code, by lines, keeps no state and decides nothing, and a model of it would
be a copy. The classes under `QuantLibAddin/qlo` hand their arguments to QuantLib constructors and
keep what they were given as properties; the enumerations are tables that are filled once. The
addins under `QuantLibAddin/Addins` convert arguments between a client's types and those of C++ and
call the store as the generated functions do. The Excel SDK comes from its vendor; QuantLibXL is
workbooks, VBA and menus. Code generation happens before the program runs; its stubs, the functions
that all clients call, are modelled.

Of components that are modelled in part:

* generated functions: the conversion of scalar arguments, element by element, and loops over them.
* serialization: the XML archive, directories and patterns. The processors of legs, extrapolators,
  fixings and swaption volatilities set fields of the object just read, or of QuantLib's own store
  of fixings.
* rate helper selection: `qlRateHelperRate` and the constructors of the helpers.
* conversions: those between cell values and C++ types.
* type factories other than that of calendars: a lookup in a table.
* logging: it only writes.
* worksheet functions: `ohTrigger`, `ohStack` and the counters compute nothing that other state
  depends on.

The Excel C API appears only through what it tells the program: who calls, whether a name still
refers to a range, and which. QuantLib's own observer network, behind the objects' library pointers,
is another repository.

## 8. Plan

Done: the store, its abstract specification and the refinement, proved; the Excel store; calls,
errors, names and counters; handles and coercions; groups and files; the selection; four pure
algorithms; theorems for every safety property. In this order, next:

1. Garbage collection together with loading: objects loaded by a cell, and what becomes of them when
   the cell goes.
2. The processors of legs, extrapolators and fixings, in `Serialization`.
3. `RepositoryXL` over `CallingRanges`, in place of its opaque ranges.
