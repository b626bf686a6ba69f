-------------------------- MODULE WorksheetArrays --------------------------
(***************************************************************************)
(* The functions of ObjectHandler on ranges of cells: ohPack,              *)
(* ohRemoveInvalidRows, ohRemoveInvalidColumns and ohFilter                *)
(* (ohxl/functions/manual.cpp).  As in Excel, an array is the sequence of  *)
(* its cells row by row, with its numbers of rows and columns; here it is  *)
(* indexed from 0, as in the code.                                         *)
(***************************************************************************)
EXTENDS Integers, FiniteSets

CONSTANT Invalid  \* the content of a cell that is empty or holds an error

\* Rows, columns and flags that a function returns for nothing at all.
Nothing == [rows |-> 0, columns |-> 0, lparray |-> <<>>]

Indices(n) == 0 .. n - 1

\* The index of a cell in the array.
Position(x, i, j) == i * x.columns + j
Cell(x, i, j) == x.lparray[Position(x, i, j)]
Valid(x, i, j) == Cell(x, i, j) # Invalid

\* The array of this size with the cells given for rows and columns.
Array(rows, columns, cell(_, _)) ==
  [rows |-> rows, columns |-> columns,
   lparray |-> [k \in Indices(rows * columns) |-> cell(k \div columns, k % columns)]]

Largest(S) == CHOOSE n \in S : \A m \in S : m <= n

\* countValidRows: up to the last row that has a valid cell, but at least one.
CountValidRows(x) ==
  Largest({n \in 1 .. x.rows : \E j \in Indices(x.columns) : Valid(x, n - 1, j)} \cup {1})

\* countValidCols
CountValidCols(x) ==
  Largest({n \in 1 .. x.columns : \E i \in Indices(x.rows) : Valid(x, i, n - 1)} \cup {1})

\* ohPack
Pack(x) == Array(CountValidRows(x), CountValidCols(x), LAMBDA i, j : Cell(x, i, j))

RowIsValid(x, i) == \A j \in Indices(x.columns) : Valid(x, i, j)
ColumnIsValid(x, j) == \A i \in Indices(x.rows) : Valid(x, i, j)

\* The k-th of the indices in S, from 0.
Nth(S, k) == CHOOSE n \in S : Cardinality({m \in S : m < n}) = k

\* ohRemoveInvalidRows
RemoveInvalidRows(x) ==
  LET valid == {i \in Indices(x.rows) : RowIsValid(x, i)}
  IN IF valid = {} THEN Nothing
     ELSE Array(Cardinality(valid), x.columns, LAMBDA i2, j : Cell(x, Nth(valid, i2), j))

\* MUTANT of RemoveInvalidColumns: the columns are numbered on from row to row.
RemoveInvalidColumnsAcross(x) ==
  LET valid == {j \in Indices(x.columns) : ColumnIsValid(x, j)}
      n == Cardinality(valid)
  IN IF valid = {} THEN Nothing
     ELSE Array(x.rows, n, LAMBDA i, j2 :
            IF i = 0 THEN Cell(x, 0, Nth(valid, j2)) ELSE x.lparray[i * n + j2])

\* ohRemoveInvalidColumns
RemoveInvalidColumns(x) ==
  LET valid == {j \in Indices(x.columns) : ColumnIsValid(x, j)}
  IN IF valid = {} THEN Nothing
     ELSE Array(x.rows, Cardinality(valid), LAMBDA i, j2 : Cell(x, i, Nth(valid, j2)))

\* ohFilter: a column of the cells that are flagged.
Filter(x, flags) ==
  LET kept == {k \in DOMAIN x.lparray : flags[k]}
  IN Array(Cardinality(kept), 1, LAMBDA i, j : x.lparray[Nth(kept, i)])

-----------------------------------------------------------------------------

Transposed(x) == Array(x.columns, x.rows, LAMBDA i, j : Cell(x, j, i))
AsColumn(x) == Array(x.rows * x.columns, 1, LAMBDA i, j : x.lparray[i])

\* ohPack leaves every valid cell in its place and cuts no more than it must: what
\* it returns has nothing to cut, unless a single row or column is left of it.
PackKeepsAll(x) ==
  LET packed == Pack(x)
      InPacked(i, j) == i < packed.rows /\ j < packed.columns
  IN /\ \A i \in Indices(x.rows), j \in Indices(x.columns) :
          IF InPacked(i, j) THEN Cell(packed, i, j) = Cell(x, i, j) ELSE ~Valid(x, i, j)
     /\ packed.rows = 1 \/ \E j \in Indices(packed.columns) : Valid(packed, packed.rows - 1, j)
     /\ packed.columns = 1 \/ \E i \in Indices(packed.rows) : Valid(packed, i, packed.columns - 1)

\* Removing columns, which lays the cells out anew, is removing rows of the
\* transposed array, and what either leaves has no invalid cell.
ColumnsLikeRows(x) ==
  LET columns == RemoveInvalidColumns(x)  rows == RemoveInvalidRows(Transposed(x))
  IN /\ columns # Nothing => columns = Transposed(rows)
     /\ columns = Nothing <=> rows = Nothing
     /\ Invalid \notin {columns.lparray[k] : k \in DOMAIN columns.lparray}

\* For the cells of an array as one column, ohFilter with the flags of the valid ones
\* returns what ohRemoveInvalidRows does.
FilterLikeRows(x) ==
  LET kept == RemoveInvalidRows(AsColumn(x))
  IN kept # Nothing => kept = Filter(x, [k \in DOMAIN x.lparray |-> x.lparray[k] # Invalid])
=============================================================================
