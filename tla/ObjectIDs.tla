----------------------------- MODULE ObjectIDs -----------------------------
(***************************************************************************)
(* The IDs of objects in Excel (ohxl/callingrange.cpp): the ID that a user *)
(* gives, or one made up for an anonymous object, and the full ID that the *)
(* cell shows, with the update count of the cell appended.  An ID is a     *)
(* sequence of characters.                                                 *)
(***************************************************************************)
EXTENDS Integers, Sequences, SequencesExt

KEY_WIDTH == 5

Digits == <<"0", "1", "2", "3", "4", "5", "6", "7", "8", "9", "a", "b", "c", "d", "e", "f">>

\* std::setw, setfill('0') and setbase: the number with at least width digits.
Padded(number, base, width) ==
  LET spelled[n \in 0 .. number] ==
        IF n < base THEN <<Digits[n + 1]>>
        ELSE Append(spelled[n \div base], Digits[(n % base) + 1])
      text == spelled[number]
  IN [i \in 1 .. (IF Len(text) < width THEN width - Len(text) ELSE 0) |-> "0"] \o text

\* getKeyCount: the hidden name of a cell.
Key(keyCount) == <<"_">> \o Padded(keyCount, 16, KEY_WIDTH)

\* MUTANT of ShownCount: the counter starts again when it has reached 10001.
ShownCountLate(updateCount) == IF updateCount > 10000 THEN 0 ELSE updateCount

\* updateCount, from the counter as it stands.
ShownCount(updateCount) == IF updateCount > 9999 THEN 0 ELSE updateCount

Upper(c) == CASE c = "o" -> "O" [] c = "b" -> "B" [] c = "j" -> "J" [] OTHER -> c
ANONPREFIX == <<"O", "B", "J">>

\* my_iless: whether the repository takes two IDs for the same.
SameID(a, b) == Len(a) = Len(b) /\ \A i \in DOMAIN a : Upper(a[i]) = Upper(b[i])

\* rfind of the prefix from position 2 of the ID in uppercase: it is found at the
\* first position, and at the two after it.
Reserved(id) ==
  \E p \in 1 .. 3 :
    /\ p + 2 <= Len(id)
    /\ [i \in 1 .. 3 |-> Upper(id[p + i - 1])] = ANONPREFIX

\* initializeID: the IDs that a user may give.
Accepted(id) == ~Contains(id, "#") /\ ~Reserved(id)

Anonymous(keyCount) == <<"o", "b", "j">> \o Key(keyCount)

\* updateID, in a cell.
FullID(id, updateCount) == id \o <<"#">> \o Padded(ShownCount(updateCount), 10, 4)

\* getStub: what a full ID, or a normal one, is the ID of.
GetStub(id) ==
  IF Len(id) >= KEY_WIDTH /\ id[Len(id) - KEY_WIDTH + 1] = "#"
    THEN SubSeq(id, 1, Len(id) - KEY_WIDTH) ELSE id

-----------------------------------------------------------------------------

\* The ID that a cell shows leads back to the object at every count, and so does the
\* ID itself.
StubLeadsBack(id, updateCount) == GetStub(FullID(id, updateCount)) = id /\ GetStub(id) = id

\* An ID that a user may give does not begin like that of an anonymous object, in
\* capitals or not, and is the ID of none of them, by itself or as a full ID; nor do
\* the anonymous objects of two cells share one.
AnonymousIsApart(id, keyCount, others, updateCount) ==
  /\ Accepted(id) =>
       /\ ~(Len(id) >= 3 /\ SameID(SubSeq(id, 1, 3), ANONPREFIX))
       /\ \A k \in others : ~SameID(GetStub(FullID(Anonymous(k), updateCount)), GetStub(id))
  /\ \A k \in others \ {keyCount} : ~SameID(Anonymous(k), Anonymous(keyCount))
=============================================================================
