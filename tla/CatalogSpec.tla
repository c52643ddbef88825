----------------------------- MODULE CatalogSpec -----------------------------
(***************************************************************************)
(* What the storage facade promises for DDL and rows (spec section 4.7):   *)
(* Create(schema) and Drop(table) fail when the table's existence          *)
(* contradicts the request and change nothing then; a created table starts *)
(* empty with the key type of its schema; Insert fails on a present key,   *)
(* Update on an absent one, and Delete removes a key.                      *)
(***************************************************************************)
CONSTANTS Names, PkTypes, Keys, Vals, NoValue, NoTable

VARIABLE tables   \* name -> NoTable, or the table's key type and rows

EmptyRows == [k \in Keys |-> NoValue]

TableRecs == [pk : PkTypes, rows : [Keys -> Vals \cup {NoValue}]]

SpecTypeOK == tables \in [Names -> TableRecs \cup {NoTable}]

SpecInit == tables = [n \in Names |-> NoTable]

CreateTable(n, pk) ==
  /\ tables[n] = NoTable
  /\ tables' = [tables EXCEPT ![n] = [pk |-> pk, rows |-> EmptyRows]]

DropTable(n) ==
  /\ tables[n] # NoTable
  /\ tables' = [tables EXCEPT ![n] = NoTable]

InsertRow(n, k, v) ==
  /\ tables[n] # NoTable /\ tables[n].rows[k] = NoValue
  /\ tables' = [tables EXCEPT ![n].rows[k] = v]

UpdateRow(n, k, v) ==
  /\ tables[n] # NoTable /\ tables[n].rows[k] # NoValue
  /\ tables' = [tables EXCEPT ![n].rows[k] = v]

DeleteRow(n, k) ==
  /\ tables[n] # NoTable /\ tables[n].rows[k] # NoValue
  /\ tables' = [tables EXCEPT ![n].rows[k] = NoValue]

SpecNext ==
  \E n \in Names :
    \/ DropTable(n)
    \/ \E pk \in PkTypes : CreateTable(n, pk)
    \/ \E k \in Keys : DeleteRow(n, k) \/ \E v \in Vals : InsertRow(n, k, v) \/ UpdateRow(n, k, v)

CatalogSpecification == SpecInit /\ [][SpecNext]_tables

=============================================================================
