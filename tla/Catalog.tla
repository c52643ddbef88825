------------------------------- MODULE Catalog -------------------------------
(***************************************************************************)
(* BPlusTreeStorage (src/storage/bplus_tree/bplus-tree-storage.hpp): the   *)
(* persistent map from table name to TableMetaPages {data, schema}, the    *)
(* schema blobs and data trees those pages hold, the in-memory DBSchema    *)
(* schema_ and the cache cached_tables_ of opened BPlusTreeTables.  The    *)
(* operations are Create, Drop, the row operations a ModifyHandle passes   *)
(* to BPlusTreeTable (Insert, Update, Delete), a search or scan that only  *)
(* opens the table, and Open of an existing file after a restart.          *)
(*                                                                         *)
(* DDL holds an exclusive lock (spec section 5), so each operation is one  *)
(* step.  A DB_ERR, or a static_cast of a table to the wrong comparator    *)
(* type, ends the process (crashed); Open then rebuilds the in-memory      *)
(* state from the pages.  The collaborators that are not in the           *)
(* repository are modelled from their contracts: PageManager hands out the *)
(* least free pages, a BPlusTree is the function from key to value (or     *)
(* NoValue), a blob holds the key type of the serialized schema, DBSchema  *)
(* is the sequence of added tables (AddTable appends, Find and RemoveTable *)
(* take the first entry of the name).  Names are ordered as the map's      *)
(* string comparator orders them, and keys of every comparator as numbers. *)
(***************************************************************************)
EXTENDS Integers, Sequences, SequencesExt, FiniteSets

CONSTANTS
  Names, PkTypes, Keys, Vals, NoValue, NoTable,
  Pages,         \* the pages the PageManager may hand out
  MaxSchemaLen,  \* bound on the entries of schema_ (each Create adds one)
  MaxTicks,      \* bound on a cached table's ticks_
  BoundVals      \* values of range-scan endpoints

ASSUME Names \subseteq Int /\ Keys \subseteq Int /\ Pages \subseteq Int
ASSUME NoValue \notin Vals

VARIABLES
  map,      \* map_table_name_to_meta_pages_: name -> [data, schema] pages
  blobs,    \* schema blob page -> key type of the schema it stores
  trees,    \* data tree meta page -> the tree's rows
  free,     \* pages not allocated
  schema,   \* schema_: sequence of [name, pk]
  cached,   \* cached_tables_: name -> [pk, data, ticks]
  crashed   \* the process stopped on DB_ERR or a bad cast

vars == <<map, blobs, trees, free, schema, cached, crashed>>

EmptyRows == [k \in Keys |-> NoValue]
Nothing == [x \in {} |-> NoValue]

\* f without the argument x.
Without(f, x) == [y \in DOMAIN f \ {x} |-> f[y]]

\* DBSchema: the names listed, Find's first entry, RemoveTable.
SchemaNames == {schema[i].name : i \in DOMAIN schema}
Find(n) == Min({i \in DOMAIN schema : schema[i].name = n})
RemoveTable(n) == IF n \in SchemaNames THEN RemoveAt(schema, Find(n)) ELSE schema

\* GetPKType: the key type of the schema entry Find returns.
PKType(n) == schema[Find(n)].pk

Init ==
  /\ map = Nothing /\ blobs = Nothing /\ trees = Nothing
  /\ free = Pages
  /\ schema = <<>>
  /\ cached = Nothing
  /\ crashed = FALSE

\* Mutant: a failed Create destroys the tree but not the blob.
CreateKeepBlob(n, pk) ==
  /\ ~crashed /\ Len(schema) < MaxSchemaLen /\ Cardinality(free) >= 2
  /\ LET b == Min(free)
         t == Min(free \ {b})
     IN /\ schema' = Append(schema, [name |-> n, pk |-> pk])
        /\ IF n \in DOMAIN map
           THEN /\ free' = free \ {b}
                /\ UNCHANGED <<map, blobs, trees, cached, crashed>>
           ELSE /\ map' = (n :> [data |-> t, schema |-> b]) @@ map
                /\ blobs' = (b :> pk) @@ blobs
                /\ trees' = (t :> EmptyRows) @@ trees
                /\ free' = free \ {b, t}
                /\ IF n \in DOMAIN cached
                   THEN crashed' = TRUE /\ UNCHANGED cached
                   ELSE cached' = (n :> [pk |-> pk, data |-> t, ticks |-> 0]) @@ cached
                        /\ UNCHANGED crashed

\* Mutant: the map insertion replaces an existing entry.
CreateOverwrite(n, pk) ==
  /\ ~crashed /\ Len(schema) < MaxSchemaLen /\ Cardinality(free) >= 2
  /\ LET b == Min(free)
         t == Min(free \ {b})
     IN /\ schema' = Append(schema, [name |-> n, pk |-> pk])
        /\ map' = (n :> [data |-> t, schema |-> b]) @@ map
        /\ blobs' = (b :> pk) @@ blobs
        /\ trees' = (t :> EmptyRows) @@ trees
        /\ free' = free \ {b, t}
        /\ cached' = (n :> [pk |-> pk, data |-> t, ticks |-> 0]) @@ cached
        /\ UNCHANGED crashed

(***************************************************************************)
(* Create: a blob and a tree are allocated and the table is added to       *)
(* schema_ before the name is inserted into the map.  When the name is     *)
(* taken, tree and blob are destroyed and DBException is thrown, but the   *)
(* schema_ entry stays.  Otherwise the table is cached; a name already in  *)
(* the cache is a DB_ERR.                                                  *)
(***************************************************************************)
Create(n, pk) ==
  /\ ~crashed /\ Len(schema) < MaxSchemaLen /\ Cardinality(free) >= 2
  /\ LET b == Min(free)
         t == Min(free \ {b})
     IN /\ schema' = Append(schema, [name |-> n, pk |-> pk])
        /\ IF n \in DOMAIN map
           THEN UNCHANGED <<map, blobs, trees, free, cached, crashed>>
           ELSE /\ map' = (n :> [data |-> t, schema |-> b]) @@ map
                /\ blobs' = (b :> pk) @@ blobs
                /\ trees' = (t :> EmptyRows) @@ trees
                /\ free' = free \ {b, t}
                /\ IF n \in DOMAIN cached
                   THEN crashed' = TRUE /\ UNCHANGED cached
                   ELSE cached' = (n :> [pk |-> pk, data |-> t, ticks |-> 0]) @@ cached
                        /\ UNCHANGED crashed

\* Mutant: Drop leaves the table in cached_tables_.
DropKeepCache(n) ==
  /\ ~crashed
  /\ n \in DOMAIN map
  /\ LET m == map[n]
     IN /\ map' = Without(map, n)
        /\ trees' = Without(trees, m.data)
        /\ blobs' = Without(blobs, m.schema)
        /\ free' = free \cup {m.data, m.schema}
        /\ schema' = RemoveTable(n)
  /\ UNCHANGED <<cached, crashed>>

(***************************************************************************)
(* Drop: Take the name from the map (DBException when it is absent, with  *)
(* nothing changed), destroy the tree through the cached table or by       *)
(* opening it, destroy the blob, and remove the table from schema_.        *)
(***************************************************************************)
Drop(n) ==
  /\ ~crashed
  /\ n \in DOMAIN map
  /\ LET m == map[n]
     IN /\ map' = Without(map, n)
        /\ trees' = Without(trees, m.data)
        /\ blobs' = Without(blobs, m.schema)
        /\ free' = free \cup {m.data, m.schema}
        /\ cached' = Without(cached, n)
        /\ schema' = RemoveTable(n)
  /\ UNCHANGED crashed

-----------------------------------------------------------------------------
(* GetTable: the cached table, or the one opened from the map with the key *)
(* type its blob stores; neither is "no such table" (DB_ERR).              *)
Missing(n) == n \notin DOMAIN cached /\ n \notin DOMAIN map

TableOf(n) ==
  IF n \in DOMAIN cached THEN cached[n]
  ELSE [pk |-> blobs[map[n].schema], data |-> map[n].data, ticks |-> 0]

\* ApplyFuncOnTable casts the table by GetPKType's type.
MisCast(n) == ~Missing(n) /\ TableOf(n).pk # PKType(n)

\* The access ends the process; a table GetTable opened stays cached.
Fail(n) ==
  /\ crashed' = TRUE
  /\ cached' = IF Missing(n) THEN cached ELSE (n :> TableOf(n)) @@ cached
  /\ UNCHANGED <<map, blobs, trees, free, schema>>

\* Clients name the tables GetDBSchema lists (the planner checks them).
Reach(n) == ~crashed /\ n \in SchemaNames

\* A search handle or an iterator: the table is opened and cached.
Search(n) ==
  /\ Reach(n)
  /\ IF Missing(n) \/ MisCast(n) THEN Fail(n)
     ELSE /\ cached' = (n :> TableOf(n)) @@ cached
          /\ UNCHANGED <<map, blobs, trees, free, schema, crashed>>

\* Mutant: ticks_ counts every Insert call, failed or not.
InsertAlwaysTick(n, k, v) ==
  /\ Reach(n)
  /\ IF Missing(n) \/ MisCast(n) THEN Fail(n)
     ELSE LET tb == TableOf(n)
              ok == trees[tb.data][k] = NoValue
          IN /\ ok => tb.ticks < MaxTicks
             /\ trees' = IF ok THEN [trees EXCEPT ![tb.data][k] = v] ELSE trees
             /\ cached' = (n :> [tb EXCEPT !.ticks = @ + 1]) @@ cached
             /\ UNCHANGED <<map, blobs, free, schema, crashed>>

(* BPlusTreeTable::Insert: the tree refuses a present key; ticks_ counts   *)
(* the successful inserts.                                                 *)
Insert(n, k, v) ==
  /\ Reach(n)
  /\ IF Missing(n) \/ MisCast(n) THEN Fail(n)
     ELSE LET tb == TableOf(n)
              ok == trees[tb.data][k] = NoValue
          IN /\ ok => tb.ticks < MaxTicks
             /\ trees' = IF ok THEN [trees EXCEPT ![tb.data][k] = v] ELSE trees
             /\ cached' = (n :> [tb EXCEPT !.ticks = IF ok THEN @ + 1 ELSE @]) @@ cached
             /\ UNCHANGED <<map, blobs, free, schema, crashed>>

\* BPlusTreeTable::Update and Delete change a present key only.
Update(n, k, v) ==
  /\ Reach(n)
  /\ IF Missing(n) \/ MisCast(n) THEN Fail(n)
     ELSE LET tb == TableOf(n)
          IN /\ trees' = IF trees[tb.data][k] # NoValue
                         THEN [trees EXCEPT ![tb.data][k] = v] ELSE trees
             /\ cached' = (n :> tb) @@ cached
             /\ UNCHANGED <<map, blobs, free, schema, crashed>>

Delete(n, k) ==
  /\ Reach(n)
  /\ IF Missing(n) \/ MisCast(n) THEN Fail(n)
     ELSE LET tb == TableOf(n)
          IN /\ trees' = [trees EXCEPT ![tb.data][k] = NoValue]
             /\ cached' = (n :> tb) @@ cached
             /\ UNCHANGED <<map, blobs, free, schema, crashed>>

(***************************************************************************)
(* Open of the existing file, after a clean close or a crash: the cache    *)
(* is empty and schema_ is rebuilt by iterating the map in name order and  *)
(* reading each table's schema blob.                                       *)
(***************************************************************************)
Open ==
  LET ns == SetToSortSeq(DOMAIN map, LAMBDA a, b : a < b)
  IN /\ schema' = [i \in DOMAIN ns |-> [name |-> ns[i], pk |-> blobs[map[ns[i]].schema]]]
     /\ cached' = Nothing
     /\ crashed' = FALSE
     /\ UNCHANGED <<map, blobs, trees, free>>

Next ==
  \/ Open
  \/ \E n \in Names :
       \/ Drop(n) \/ Search(n)
       \/ \E pk \in PkTypes : Create(n, pk)
       \/ \E k \in Keys : Delete(n, k) \/ \E v \in Vals : Insert(n, k, v) \/ Update(n, k, v)

Spec == Init /\ [][Next]_vars

-----------------------------------------------------------------------------
(* Range iteration (GetRangeIterator, RangeIterator::Next).  An endpoint   *)
(* is [v, empty, closed] as the tuple (value, unbounded?, inclusive?); the *)
(* iterator starts at Begin, LowerBound or UpperBound and stops at the     *)
(* first key past the right endpoint.                                      *)
Bounds == [v : BoundVals, empty : BOOLEAN, closed : BOOLEAN]

TreeKeys(rows) == SetToSortSeq({k \in Keys : rows[k] # NoValue}, LAMBDA a, b : a < b)

\* The position of the first key >= v (LowerBound) or > v (UpperBound).
LowerBound(ks, v) == Len(SelectSeq(ks, LAMBDA x : x < v)) + 1
UpperBound(ks, v) == Len(SelectSeq(ks, LAMBDA x : x <= v)) + 1

StartAt(ks, L) ==
  IF L.empty THEN 1 ELSE IF L.closed THEN LowerBound(ks, L.v) ELSE UpperBound(ks, L.v)

\* Mutant: the right endpoint's closed and open tests swapped.
PastEndSwapped(key, R) == IF R.closed THEN key >= R.v ELSE key > R.v

\* Next returns nullptr at a key past a limited right endpoint.
PastEnd(key, R) == IF R.closed THEN key > R.v ELSE key >= R.v

RECURSIVE RangeFrom(_, _, _)
RangeFrom(ks, i, R) ==
  IF i > Len(ks) \/ (~R.empty /\ PastEnd(ks[i], R)) THEN <<>>
  ELSE <<ks[i]>> \o RangeFrom(ks, i + 1, R)

RangeScan(rows, L, R) == RangeFrom(TreeKeys(rows), StartAt(TreeKeys(rows), L), R)

\* A key lies within an endpoint on the left or on the right.
WithinLeft(k, L) == L.empty \/ k > L.v \/ (L.closed /\ k = L.v)
WithinRight(k, R) == R.empty \/ k < R.v \/ (R.closed /\ k = R.v)

-----------------------------------------------------------------------------
MetaPages == UNION {{map[n].data, map[n].schema} : n \in DOMAIN map}

\* ticks_ never passes its bound; schema_ names tables with a key type.
TypeOK ==
  /\ DOMAIN map \subseteq Names /\ free \subseteq Pages
  /\ schema \in Seq([name : Names, pk : PkTypes])
  /\ \A n \in DOMAIN cached : cached[n].ticks \in 0..MaxTicks
  /\ crashed \in BOOLEAN

(* The tables a reader of the pages sees: each name of the map with the    *)
(* key type of its schema blob and the rows of its data tree.              *)
AbsTables ==
  [n \in Names |-> IF n \in DOMAIN map
                   THEN [pk |-> blobs[map[n].schema], rows |-> trees[map[n].data]]
                   ELSE NoTable]

Abs == INSTANCE CatalogSpec WITH tables <- AbsTables

(* Every step of the storage, a failed Create, a crash and a restart       *)
(* included, is a step of the catalog of spec 4.7 or leaves it unchanged:  *)
(* Create and Drop fail exactly when existence contradicts them and then   *)
(* change no table, and rows survive restarts.                             *)
CatalogRefinement == Abs!CatalogSpecification

(* The pages are accounted for: every allocated page is the blob or the    *)
(* tree of exactly one table of the map, and every such page is            *)
(* allocated, also after a Create that failed half-way and a Drop.         *)
PagesAccounted ==
  /\ MetaPages \cap free = {}
  /\ MetaPages \cup free = Pages
  /\ Cardinality(MetaPages) = 2 * Cardinality(DOMAIN map)
  /\ DOMAIN blobs = {map[n].schema : n \in DOMAIN map}
  /\ DOMAIN trees = {map[n].data : n \in DOMAIN map}

(* Every table in cached_tables_ is a table of the map, opened on its data *)
(* tree with the key type of its blob (Drop's assert), across Drop,        *)
(* re-Create of the name and the lazy opening in GetTable.                 *)
CacheAgreesWithMap ==
  \A n \in DOMAIN cached :
    /\ n \in DOMAIN map
    /\ cached[n].data = map[n].data
    /\ cached[n].pk = blobs[map[n].schema]

(* A range iterator over any table yields exactly the keys within both     *)
(* endpoints, in key order, for every combination of unbounded, closed and *)
(* open endpoints.                                                         *)
RangeScanExact ==
  \A n \in DOMAIN map, L \in Bounds, R \in Bounds :
    LET rows == trees[map[n].data]
    IN RangeScan(rows, L, R) =
         SelectSeq(TreeKeys(rows), LAMBDA k : WithinLeft(k, L) /\ WithinRight(k, R))

(* GetDBSchema, which the planner resolves table names against, lists      *)
(* exactly the tables of the map, each once, with its key type (spec 4.7:  *)
(* a Create that fails changes nothing).                                   *)
SchemaMatchesMap ==
  /\ Len(schema) = Cardinality(DOMAIN map)
  /\ \A n \in DOMAIN map : [name |-> n, pk |-> blobs[map[n].schema]] \in Range(schema)

=============================================================================
