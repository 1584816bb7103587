----------------------------- MODULE AlterMerge -----------------------------
(***************************************************************************)
(* mergeAlterToTable (src/unnamed/part_001) folds one ALTER TABLE into the *)
(* CREATE TABLE the catalog holds.  Go memory is modelled as it is: the    *)
(* CREATE's Cols and Constraints are slices of pointers, so the model has  *)
(* a heap of column objects and of constraint objects, and one backing     *)
(* array per slice.  newTable starts as a copy of oldTable's slice headers *)
(* (same array, same length), so a write into the array or through a      *)
(* pointer is seen by oldTable too.                                        *)
(*                                                                         *)
(* One array per slice is exact for this code: every in-place operation on *)
(* a slice (removal while ranging, assignment to s[i]) comes before the    *)
(* appends of its slice in the function, and an append that reallocates   *)
(* only writes positions beyond oldTable's length, which oldTable cannot   *)
(* see; so the capacity of the parser's slices never changes what          *)
(* oldTable or newTable hold.                                              *)
(***************************************************************************)
EXTENDS Naturals, Sequences, SequencesExt, FiniteSets

CONSTANTS ColNames,      \* lower-cased column names (Name.L)
          IdxNames,      \* constraint (index) names
          TableNames,    \* table names
          DefaultValues, \* DEFAULT option values
          InitTables,    \* CREATE TABLE values the catalog can hold
          MaxCols,       \* most columns of a table in InitTables
          MaxCons,       \* most constraints of a table in InitTables
          MaxSpecs       \* most specifications in one ALTER TABLE

NoDefault == "none"

\* A column definition: its name, which statement defined it (0: the
\* CREATE, 1: an ALTER), its DEFAULT option and its column-level PRIMARY KEY
\* option.
ColVal == [name: ColNames, ver: {0, 1}, dflt: DefaultValues \cup {NoDefault},
           pk: BOOLEAN]
\* A table constraint; a PRIMARY KEY constraint has the empty name.
ConVal == [name: IdxNames \cup {""}, tp: {"pk", "uniq", "index"}]
NewCol == [name: ColNames, ver: {1}, dflt: {NoDefault}, pk: {FALSE}]

\* The AlterTableSpecs handled by the merge, one record set per spec type.
AlterSpecs ==
       [tp: {"renameTable"}, newTable: TableNames]
  \cup [tp: {"dropColumn"}, old: ColNames]
  \cup [tp: {"changeColumn"}, old: ColNames, col: NewCol]
  \cup [tp: {"modifyColumn"}, col: NewCol]
  \cup [tp: {"alterColumn"},
        col: [name: ColNames, ver: {1}, dflt: DefaultValues \cup {NoDefault},
              pk: {FALSE}]]
  \cup [tp: {"addColumns"}, col: NewCol]
  \cup [tp: {"dropPrimaryKey"}]
  \cup [tp: {"dropIndex"}, name: IdxNames]
  \cup [tp: {"renameIndex"}, from: IdxNames, to: IdxNames]
  \cup [tp: {"addConstraint"},
        con: {[name |-> "", tp |-> "pk"]} \cup [name: IdxNames, tp: {"uniq", "index"}]]

Alters == UNION {[1..k -> AlterSpecs] : k \in 1..MaxSpecs}

\* Spec i of the ALTER owns one new column object and one new constraint
\* object; these are their heap addresses.
ColPtr(i) == MaxCols + i
ConPtr(i) == MaxCons + i
ColPtrs == 1..(MaxCols + MaxSpecs)
ConPtrs == 1..(MaxCons + MaxSpecs)

VARIABLES colHeap,   \* address -> column object (*ast.ColumnDef)
          conHeap,   \* address -> constraint object (*ast.Constraint)
          colArr,    \* backing array of the Cols slices
          conArr,    \* backing array of the Constraints slices
          oldTable,  \* oldTable: [table, nCols, nCons] slice lengths
          newTable,  \* newTable: the same, once the merge has run
          alter,     \* alterTable.Specs
          ret,       \* "none" before the call; "old", "new" or "panic"
          input      \* the value oldTable had when the merge was called

vars == <<colHeap, conHeap, colArr, conArr, oldTable, newTable, alter, ret, input>>

\* The value a CREATE TABLE header denotes in the current memory.
ValueOf(hdr) ==
  [table |-> hdr.table,
   cols  |-> [j \in 1..hdr.nCols |-> colHeap[colArr[j]]],
   cons  |-> [j \in 1..hdr.nCons |-> conHeap[conArr[j]]]]

TypeOK ==
  /\ DOMAIN colHeap \subseteq ColPtrs /\ \A p \in DOMAIN colHeap : colHeap[p] \in ColVal
  /\ DOMAIN conHeap \subseteq ConPtrs /\ \A q \in DOMAIN conHeap : conHeap[q] \in ConVal
  /\ colArr \in Seq(DOMAIN colHeap) /\ conArr \in Seq(DOMAIN conHeap)
  /\ \A hdr \in {oldTable, newTable} :
        /\ hdr.table \in TableNames
        /\ hdr.nCols <= Len(colArr) /\ hdr.nCons <= Len(conArr)
  /\ alter \in Alters
  /\ ret \in {"none", "old", "new", "panic"}

\* The catalog holds a parsed CREATE TABLE, laid out as the parser leaves
\* it, and an ALTER TABLE arrives with its own new column and constraint
\* objects.
Init ==
  \E t \in InitTables, a \in Alters :
    LET cs == {i \in 1..Len(a) : "col" \in DOMAIN a[i]}
        ks == {i \in 1..Len(a) : "con" \in DOMAIN a[i]}
    IN /\ colHeap = t.cols @@ [p \in {ColPtr(i) : i \in cs} |-> a[p - MaxCols].col]
       /\ conHeap = t.cons @@ [q \in {ConPtr(i) : i \in ks} |-> a[q - MaxCons].con]
       /\ colArr = [j \in 1..Len(t.cols) |-> j]
       /\ conArr = [j \in 1..Len(t.cons) |-> j]
       /\ oldTable = [table |-> t.table, nCols |-> Len(t.cols), nCons |-> Len(t.cons)]
       /\ newTable = oldTable
       /\ alter = a
       /\ ret = "none"
       /\ input = t


-----------------------------------------------------------------------------
(***************************************************************************)
(* The merge.  m is the Go memory during the call: the two heaps, the two  *)
(* backing arrays, newTable's header tbl, and ret, which stays "run" until *)
(* the function returns.                                                   *)
(***************************************************************************)

\* append(s, x) for a slice of length k - 1 over the backing array arr.
Store(arr, k, x) == IF k <= Len(arr) THEN [arr EXCEPT ![k] = x] ELSE Append(arr, x)

\* for i, x := range s { if x \in hit { s = append(s[:i], s[i+1:]...) } }
\* over the backing array arr: s has length n, len0 was its length when the
\* range started, and each iteration reads arr[i] as it is now.  s[i+1:]
\* past the length of s panics.
RECURSIVE RangeRemove(_, _, _, _, _)
RangeRemove(arr, n, i, len0, hit) ==
  IF i > len0 THEN [arr |-> arr, n |-> n, found |-> FALSE, panic |-> FALSE]
  ELSE IF arr[i] \notin hit THEN RangeRemove(arr, n, i + 1, len0, hit)
  ELSE IF i > n THEN [arr |-> arr, n |-> n, found |-> TRUE, panic |-> TRUE]
  ELSE LET r == RangeRemove([j \in DOMAIN arr |-> IF i <= j /\ j < n THEN arr[j + 1]
                                                   ELSE arr[j]],
                            n - 1, i + 1, len0, hit)
       IN [r EXCEPT !.found = TRUE]

\* Positions of newTable.Cols whose column has the given lower-case name.
ColsNamed(m, nm) == {j \in 1..m.tbl.nCols : m.colHeap[m.colArr[j]].name = nm}
\* Positions of newTable.Constraints with the given name.
ConsNamed(m, nm) == {j \in 1..m.tbl.nCons : m.conHeap[m.conArr[j]].name = nm}

ReturnOld(m) == [m EXCEPT !.ret = "old"]

\* GetPrimaryKey / hasPrimaryKey: a PRIMARY KEY constraint, or else a
\* column with the PRIMARY KEY option.
HasPrimaryKey(m) ==
  \/ \E j \in 1..m.tbl.nCons : m.conHeap[m.conArr[j]].tp = "pk"
  \/ \E j \in 1..m.tbl.nCols : m.colHeap[m.colArr[j]].pk

RenameTable(m, i) == [m EXCEPT !.tbl.table = alter[i].newTable]

DropColumn(m, i) ==
  LET r == RangeRemove(m.colArr, m.tbl.nCols, 1, m.tbl.nCols,
                       {p \in DOMAIN m.colHeap : m.colHeap[p].name = alter[i].old})
  IN CASE r.panic  -> [m EXCEPT !.ret = "panic"]
       [] ~r.found -> ReturnOld(m)
       [] OTHER    -> [m EXCEPT !.colArr = r.arr, !.tbl.nCols = r.n]

\* newTable.Cols[i] = spec.NewColumns[0] at every position holding the name.
ReplaceCols(m, i, nm) ==
  LET hits == ColsNamed(m, nm)
  IN IF hits = {} THEN ReturnOld(m)
     ELSE [m EXCEPT !.colArr = [j \in DOMAIN m.colArr |->
                                  IF j \in hits THEN ColPtr(i) ELSE m.colArr[j]]]

ChangeColumn(m, i) == ReplaceCols(m, i, alter[i].old)

ModifyColumn(m, i) == ReplaceCols(m, i, alter[i].col.name)

\* Mutant: ALTER COLUMN ... DROP DEFAULT (Options == nil) leaves the column.
AlterColumnIgnoresDrop(m, i) ==
  LET hits == {m.colArr[j] : j \in ColsNamed(m, alter[i].col.name)}
  IN IF hits = {} THEN ReturnOld(m)
     ELSE IF alter[i].col.dflt = NoDefault THEN m
     ELSE [m EXCEPT !.colHeap = [p \in DOMAIN m.colHeap |->
                                   IF p \in hits
                                   THEN [m.colHeap[p] EXCEPT !.dflt = alter[i].col.dflt]
                                   ELSE m.colHeap[p]]]

\* Both branches write the column object through its pointer: DROP DEFAULT
\* removes the DEFAULT option, SET DEFAULT replaces or appends it.
AlterColumn(m, i) ==
  LET hits == {m.colArr[j] : j \in ColsNamed(m, alter[i].col.name)}
  IN IF hits = {} THEN ReturnOld(m)
     ELSE [m EXCEPT !.colHeap = [p \in DOMAIN m.colHeap |->
                                   IF p \in hits
                                   THEN [m.colHeap[p] EXCEPT !.dflt = alter[i].col.dflt]
                                   ELSE m.colHeap[p]]]

AddColumns(m, i) ==
  IF ColsNamed(m, alter[i].col.name) # {} THEN ReturnOld(m)
  ELSE [m EXCEPT !.colArr = Store(m.colArr, m.tbl.nCols + 1, ColPtr(i)),
                 !.tbl.nCols = m.tbl.nCols + 1]

DropPrimaryKey(m, i) ==
  LET r == RangeRemove(m.conArr, m.tbl.nCons, 1, m.tbl.nCons,
                       {q \in DOMAIN m.conHeap : m.conHeap[q].tp = "pk"})
      live == {m.colArr[j] : j \in 1..m.tbl.nCols}
  IN CASE ~HasPrimaryKey(m) -> ReturnOld(m)
       [] r.panic -> [m EXCEPT !.ret = "panic"]
       [] OTHER ->
            [m EXCEPT !.conArr = r.arr, !.tbl.nCons = r.n,
                      !.colHeap = [p \in DOMAIN m.colHeap |->
                                     IF p \in live THEN [m.colHeap[p] EXCEPT !.pk = FALSE]
                                     ELSE m.colHeap[p]]]

DropIndex(m, i) ==
  LET r == RangeRemove(m.conArr, m.tbl.nCons, 1, m.tbl.nCons,
                       {q \in DOMAIN m.conHeap : m.conHeap[q].name = alter[i].name})
  IN CASE r.panic  -> [m EXCEPT !.ret = "panic"]
       [] ~r.found -> ReturnOld(m)
       [] OTHER    -> [m EXCEPT !.conArr = r.arr, !.tbl.nCons = r.n]

\* constraint.Name = newName, through the constraint's pointer.
RenameIndex(m, i) ==
  LET hits == {m.conArr[j] : j \in ConsNamed(m, alter[i].from)}
  IN IF hits = {} THEN ReturnOld(m)
     ELSE [m EXCEPT !.conHeap = [q \in DOMAIN m.conHeap |->
                                   IF q \in hits
                                   THEN [m.conHeap[q] EXCEPT !.name = alter[i].to]
                                   ELSE m.conHeap[q]]]

AddConstraint(m, i) ==
  IF IF alter[i].con.tp = "pk" THEN HasPrimaryKey(m)
     ELSE ConsNamed(m, alter[i].con.name) # {}
  THEN ReturnOld(m)
  ELSE [m EXCEPT !.conArr = Store(m.conArr, m.tbl.nCons + 1, ConPtr(i)),
                 !.tbl.nCons = m.tbl.nCons + 1]

\* The body of the loop over the specs of one type.
ApplySpec(m, i) ==
  CASE alter[i].tp = "renameTable"    -> RenameTable(m, i)
    [] alter[i].tp = "dropColumn"     -> DropColumn(m, i)
    [] alter[i].tp = "changeColumn"   -> ChangeColumn(m, i)
    [] alter[i].tp = "modifyColumn"   -> ModifyColumn(m, i)
    [] alter[i].tp = "alterColumn"    -> AlterColumn(m, i)
    [] alter[i].tp = "addColumns"     -> AddColumns(m, i)
    [] alter[i].tp = "dropPrimaryKey" -> DropPrimaryKey(m, i)
    [] alter[i].tp = "dropIndex"      -> DropIndex(m, i)
    [] alter[i].tp = "renameIndex"    -> RenameIndex(m, i)
    [] alter[i].tp = "addConstraint"  -> AddConstraint(m, i)

\* for _, spec := range getAlterTableSpecByTp(alterTable.Specs, tp) {...},
\* skipped once the function has returned.
ApplyGroup(m, tp) ==
  FoldLeft(LAMBDA acc, i : IF acc.ret = "run" /\ alter[i].tp = tp THEN ApplySpec(acc, i) ELSE acc,
           m, [i \in 1..Len(alter) |-> i])

\* The groups in the order the function takes them.
GroupOrder == <<"renameTable", "dropColumn", "changeColumn", "modifyColumn",
                "alterColumn", "addColumns", "dropPrimaryKey", "dropIndex",
                "renameIndex", "addConstraint">>

MergeAlterToTable(m) ==
  LET end == FoldLeft(ApplyGroup, m, GroupOrder)
  IN IF end.ret = "run" THEN [end EXCEPT !.ret = "new"] ELSE end

\* The call: newTable copies oldTable's slice headers, the groups run, and
\* the function returns oldTable or newTable.
Merge ==
  /\ ret = "none"
  /\ LET m == MergeAlterToTable([colHeap |-> colHeap, conHeap |-> conHeap,
                                 colArr |-> colArr, conArr |-> conArr,
                                 tbl |-> oldTable, ret |-> "run"])
     IN /\ colHeap' = m.colHeap
        /\ conHeap' = m.conHeap
        /\ colArr' = m.colArr
        /\ conArr' = m.conArr
        /\ newTable' = m.tbl
        /\ ret' = m.ret
  /\ UNCHANGED <<oldTable, alter, input>>

Next == Merge

Spec == Init /\ [][Next]_vars

-----------------------------------------------------------------------------
(***************************************************************************)
(* Reference: the rows of the merge table of spec 4.2 as operations on     *)
(* table values, with no sharing.  They are applied group by group in the *)
(* order the code takes the spec types; Failed is "return original".       *)
(***************************************************************************)

Failed == [failed |-> TRUE]
IsFailed(t) == "failed" \in DOMAIN t

HasCol(t, nm) == \E j \in DOMAIN t.cols : t.cols[j].name = nm
HasCon(t, nm) == \E j \in DOMAIN t.cons : t.cons[j].name = nm
HasPK(t) == (\E j \in DOMAIN t.cons : t.cons[j].tp = "pk") \/ (\E j \in DOMAIN t.cols : t.cols[j].pk)
SetCols(t, nm, F(_)) == [t EXCEPT !.cols = [j \in DOMAIN t.cols |->
                           IF t.cols[j].name = nm THEN F(t.cols[j]) ELSE t.cols[j]]]

RefStep(t, s) ==
  IF IsFailed(t) THEN t
  ELSE CASE s.tp = "renameTable" -> [t EXCEPT !.table = s.newTable]
         [] s.tp = "dropColumn" ->
              IF ~HasCol(t, s.old) THEN Failed
              ELSE [t EXCEPT !.cols = SelectSeq(t.cols, LAMBDA c : c.name # s.old)]
         [] s.tp = "changeColumn" ->
              IF ~HasCol(t, s.old) THEN Failed ELSE SetCols(t, s.old, LAMBDA c : s.col)
         [] s.tp = "modifyColumn" ->
              IF ~HasCol(t, s.col.name) THEN Failed ELSE SetCols(t, s.col.name, LAMBDA c : s.col)
         [] s.tp = "alterColumn" ->
              IF ~HasCol(t, s.col.name) THEN Failed
              ELSE SetCols(t, s.col.name, LAMBDA c : [c EXCEPT !.dflt = s.col.dflt])
         [] s.tp = "addColumns" ->
              IF HasCol(t, s.col.name) THEN Failed ELSE [t EXCEPT !.cols = Append(t.cols, s.col)]
         [] s.tp = "dropPrimaryKey" ->
              IF ~HasPK(t) THEN Failed
              ELSE [t EXCEPT !.cons = SelectSeq(t.cons, LAMBDA k : k.tp # "pk"),
                             !.cols = [j \in DOMAIN t.cols |-> [t.cols[j] EXCEPT !.pk = FALSE]]]
         [] s.tp = "dropIndex" ->
              IF ~HasCon(t, s.name) THEN Failed
              ELSE [t EXCEPT !.cons = SelectSeq(t.cons, LAMBDA k : k.name # s.name)]
         [] s.tp = "renameIndex" ->
              IF ~HasCon(t, s.from) THEN Failed
              ELSE [t EXCEPT !.cons = [j \in DOMAIN t.cons |->
                      IF t.cons[j].name = s.from THEN [t.cons[j] EXCEPT !.name = s.to]
                      ELSE t.cons[j]]]
         [] s.tp = "addConstraint" ->
              IF IF s.con.tp = "pk" THEN HasPK(t) ELSE HasCon(t, s.con.name) THEN Failed
              ELSE [t EXCEPT !.cons = Append(t.cons, s.con)]

GroupedFold(t, a) ==
  FoldLeft(RefStep, t,
           FoldLeft(LAMBDA acc, tp : acc \o SelectSeq(a, LAMBDA s : s.tp = tp), <<>>, GroupOrder))

-----------------------------------------------------------------------------
(* Properties *)

\* The table mergeAlterToTable returns is the spec's value-semantics fold
\* of the ALTER: it returns newTable exactly when no row of the merge table
\* hits its inconsistency (and never panics in the remove-while-ranging
\* loops), and then newTable holds the folded columns and constraints.
\* This is what the in-place slice surgery on newTable has to get right.
ResultMatchesGroupedFold ==
  ret # "none" =>
    LET ref == GroupedFold(input, alter)
    IN IF IsFailed(ref) THEN ret = "old"
       ELSE ret = "new" /\ ValueOf(newTable) = ref

\* Spec 8.4, merge atomicity: when a spec of the ALTER is inconsistent the
\* merge returns the input CREATE unchanged.  mergeAlterToTable returns
\* oldTable, but the groups before the failing one have already written
\* oldTable's backing arrays and shared column and constraint objects.
MergeAtomic == ret = "old" => ValueOf(oldTable) = input

=============================================================================
