---------------------------- MODULE TableChecker ----------------------------
(***************************************************************************)
(* The schema catalog's lookup structure of src/unnamed/part_001, type     *)
(* TableChecker: schemaTables, a Go map from schema name to a map from     *)
(* table name to a CREATE TABLE, with add and checkColumnByName.           *)
(*                                                                         *)
(* A catalog st is a function from schema names to functions from table    *)
(* names to tables; its DOMAINs are the keys the maps hold.  checkColumn-  *)
(* ByName only reads a table's column names (tableExistCol), so here a     *)
(* table is the set of its column names.  Go ranges over a map in an       *)
(* unspecified order: order.sch is the order of the schemas and            *)
(* order.tbl[s] the order of the tables of schema s.  A column reference   *)
(* q has the fields schema, table and col; "" is an absent qualifier.      *)
(***************************************************************************)
EXTENDS FiniteSets, Sequences, SequencesExt, TLC

\* newTableChecker(): an empty schemaTables.
NewTableChecker == <<>>

\* add: put table under tableName, creating the schema's map if needed.
Add(st, schemaName, tableName, table) ==
  IF schemaName \in DOMAIN st
  THEN [st EXCEPT ![schemaName] = (tableName :> table) @@ st[schemaName]]
  ELSE (schemaName :> (tableName :> table)) @@ st

\* tableExistCol: some column of the table has the name.
TableExistCol(table, colName) == colName \in table

\* if exist { if colExists { colIsAmbiguous = true }; colExists = true },
\* on acc = <<colExists, colIsAmbiguous>>.
Found(acc, exist) == IF exist THEN <<TRUE, acc[2] \/ acc[1]>> ELSE acc

\* Mutant: the continue is lost, so a table-qualified reference also
\* scans every table of the schema.
ScanSchemaNoContinue(st, q, order, acc, s) ==
  LET acc1 == IF q.table \in DOMAIN st[s]
              THEN Found(acc, TableExistCol(st[s][q.table], q.col)) ELSE acc
  IN FoldLeft(LAMBDA a, t : Found(a, TableExistCol(st[s][t], q.col)),
              acc1, order.tbl[s])

\* One iteration of the loop over t.schemaTables for schema s: the table
\* named in the reference, if the schema has it; then, for a reference
\* with no table, every table of the schema.
ScanSchema(st, q, order, acc, s) ==
  LET acc1 == IF q.table \in DOMAIN st[s]
              THEN Found(acc, TableExistCol(st[s][q.table], q.col)) ELSE acc
  IN IF q.table # "" THEN acc1
     ELSE FoldLeft(LAMBDA a, t : Found(a, TableExistCol(st[s][t], q.col)),
                   acc1, order.tbl[s])

\* checkColumnByName: <<colExists, colIsAmbiguous>> for reference q.
CheckColumnByName(st, q, order) ==
  IF q.schema \in DOMAIN st /\ q.table \in DOMAIN st[q.schema]
  THEN <<TableExistCol(st[q.schema][q.table], q.col), FALSE>>
  ELSE IF q.schema # "" THEN <<FALSE, FALSE>>
  ELSE FoldLeft(LAMBDA acc, s : ScanSchema(st, q, order, acc, s),
                <<FALSE, FALSE>>, order.sch)

\* Every order Go may range over the maps of st in.
IterationOrders(st) ==
  {o \in [sch : SetToSeqs(DOMAIN st),
          tbl : [DOMAIN st -> UNION {SetToSeqs(DOMAIN st[s]) : s \in DOMAIN st}]] :
     \A s \in DOMAIN st : o.tbl[s] \in SetToSeqs(DOMAIN st[s])}

-----------------------------------------------------------------------------
(***************************************************************************)
(* Reference: the column ambiguity check of spec 4.2, stated over the set  *)
(* of catalog tables a reference can denote.  A qualifier that is given    *)
(* must match; the column exists when one of the denoted tables has it,    *)
(* and is ambiguous when more than one does.                               *)
(***************************************************************************)
Denoted(st, q) ==
  {d \in UNION {{s} \X DOMAIN st[s] : s \in DOMAIN st} :
     q.schema \in {"", d[1]} /\ q.table \in {"", d[2]}}

ColumnRef(st, q) ==
  LET has == {d \in Denoted(st, q) : q.col \in st[d[1]][d[2]]}
  IN <<has # {}, Cardinality(has) > 1>>
=============================================================================
