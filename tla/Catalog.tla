------------------------------- MODULE Catalog -------------------------------
(***************************************************************************)
(* The schema catalog of spec 3 and 4.2: a TableChecker (schemaTables)     *)
(* whose entries are the *ast.CreateTableStmt pointers the parser and      *)
(* mergeAlterToTable produce, composed with the merge of AlterMerge.  The  *)
(* catalog holds oldTable under its name in schema MergedSchema, and the   *)
(* tables of schema OtherSchemaName; an ALTER of oldTable is folded and,   *)
(* when the merge returns newTable, the caller adds it to the catalog.     *)
(* Because the catalog stores pointers, what checkColumnByName reads of    *)
(* an entry is the column list the shared heap and backing array hold     *)
(* now, including the writes of the merge.                                 *)
(*                                                                         *)
(* No caller of TableChecker is under src/: the catalog's contents and the *)
(* caller's add after a successful fold are modelled from spec 3 and 4.2.  *)
(***************************************************************************)
EXTENDS AlterMerge, TableChecker

CONSTANTS MergedSchema,    \* the schema of the table being altered
          OtherSchemaName, \* another schema of the catalog
          OtherSchema,     \* its tables: table name -> column names
          QuerySchemas     \* schema qualifiers of the column references

VARIABLE schemaTables  \* t.schemaTables: schema -> table -> entry

\* An entry is a CREATE TABLE header over the heap of AlterMerge, or, for
\* the tables no ALTER touches here, the set of its column names.
ColumnsOf(e) ==
  IF "nCols" \in DOMAIN e THEN {colHeap[colArr[j]].name : j \in 1..e.nCols}
  ELSE e.cols

\* The catalog as checkColumnByName sees it in the current memory.
View ==
  [s \in DOMAIN schemaTables |->
     [t \in DOMAIN schemaTables[s] |-> ColumnsOf(schemaTables[s][t])]]

cvars == <<vars, schemaTables>>

\* The catalog before the ALTER: the other schema's tables, then oldTable.
CatalogInit ==
  /\ Init
  /\ schemaTables =
       Add(FoldLeft(LAMBDA st, t : Add(st, OtherSchemaName, t, [cols |-> OtherSchema[t]]),
                    NewTableChecker, SetToSeq(DOMAIN OtherSchema)),
           MergedSchema, oldTable.table, oldTable)

\* The caller adds the table mergeAlterToTable returned under its (possibly
\* renamed) name.  After a failed merge the catalog keeps oldTable.
Install ==
  /\ ret = "new"
  /\ schemaTables' = Add(schemaTables, MergedSchema, newTable.table, newTable)
  /\ UNCHANGED vars

CatalogNext == (Merge /\ UNCHANGED schemaTables) \/ Install

CatalogSpec == CatalogInit /\ [][CatalogNext]_cvars

\* The column references the checker is asked about: a schema qualifier
\* only comes with a table qualifier.
Queries ==
  {q \in [schema : QuerySchemas, table : TableNames \cup {""}, col : ColNames] :
     q.schema # "" => q.table # ""}

-----------------------------------------------------------------------------
\* checkColumnByName answers every column reference as the ambiguity check
\* of spec 4.2 says, whatever order Go ranges over the two maps in, before
\* and after the ALTER is folded into the catalog: a qualified reference
\* looks only at its table, an unqualified one counts the tables that have
\* the column across schemas.
ColumnResolution ==
  LET st == View
  IN \A q \in Queries, o \in IterationOrders(st) :
       CheckColumnByName(st, q, o) = ColumnRef(st, q)
=============================================================================
