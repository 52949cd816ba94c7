------------------------------ MODULE SqlTables ------------------------------
(***************************************************************************)
(* What the program uses of pydal and SQLite: tables whose ids the         *)
(* database hands out, and the statements on them.                         *)
(***************************************************************************)
EXTENDS Integers, Sequences, Functions

Null == 0              \* SQL NULL in an id column; ids start at 1

(***************************************************************************)
(* A table is its rows by id and the largest id it ever gave out: pydal    *)
(* creates "id INTEGER PRIMARY KEY AUTOINCREMENT", and the sequence is     *)
(* part of the transaction like any row.                                   *)
(***************************************************************************)
InsertAll_StuckSequence(tab, rows) ==     \* mutant
    [seq  |-> tab.seq,
     rows |-> [i \in DOMAIN tab.rows \cup (tab.seq + 1)..(tab.seq + Len(rows)) |->
                  IF i \in DOMAIN tab.rows THEN tab.rows[i]
                                           ELSE rows[i - tab.seq]]]

InsertAll_NoAutoincrement(tab, rows) ==   \* mutant: counts from the last live row
    LET last == CHOOSE n \in DOMAIN tab.rows \cup {0} : \A m \in DOMAIN tab.rows : m <= n
    IN  [seq  |-> last + Len(rows),
         rows |-> [i \in DOMAIN tab.rows \cup (last + 1)..(last + Len(rows)) |->
                      IF i \in DOMAIN tab.rows THEN tab.rows[i]
                                               ELSE rows[i - last]]]

InsertAll(tab, rows) ==
    [seq  |-> tab.seq + Len(rows),
     rows |-> [i \in DOMAIN tab.rows \cup (tab.seq + 1)..(tab.seq + Len(rows)) |->
                  IF i \in DOMAIN tab.rows THEN tab.rows[i]
                                           ELSE rows[i - tab.seq]]]

Insert(tab, row) == InsertAll(tab, <<row>>)

Delete(tab, ids) ==
    [seq |-> tab.seq, rows |-> Restrict(tab.rows, DOMAIN tab.rows \ ids)]

\* Overwrites the rows of ids that exist: updating a missing row is no error.
Assign(tab, ids, row) ==
    [seq  |-> tab.seq,
     rows |-> [i \in DOMAIN tab.rows |-> IF i \in ids THEN row ELSE tab.rows[i]]]

\* The ids whose row has v in column col.
Having(tab, col, v) == {i \in DOMAIN tab.rows : tab.rows[i][col] = v}

\* db(table).select().last(): the row of the largest id, none if there is no row.
LastIds(tab) == {i \in DOMAIN tab.rows : \A j \in DOMAIN tab.rows : j <= i}

FirstOf(ids) == {i \in ids : \A j \in ids : i <= j}

=============================================================================
