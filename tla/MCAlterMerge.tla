---------------------------- MODULE MCAlterMerge ----------------------------
EXTENDS AlterMerge

MCColNames == {"a", "b", "c"}
MCIdxNames == {"k1", "k2"}
MCTableNames == {"t", "t2"}
MCDefaultValues == {"d0", "d1"}

Col(nm, d, pk) == [name |-> nm, ver |-> 0, dflt |-> d, pk |-> pk]
PKCon == [name |-> "", tp |-> "pk"]
K1Con == [name |-> "k1", tp |-> "uniq"]

\* t(a, b): a with or without a DEFAULT, and the primary key as a
\* constraint (as SHOW CREATE TABLE prints it), as a column option (as a
\* CREATE TABLE from the binlog may write it), or absent; with or without a
\* unique key k1.
MCInitTables ==
  {[table |-> "t",
    cols  |-> <<Col("a", d, colPK), Col("b", NoDefault, FALSE)>>,
    cons  |-> cs] :
     d \in {NoDefault, "d0"},
     <<colPK, cs>> \in {<<FALSE, <<>>>>, <<FALSE, <<PKCon>>>>, <<FALSE, <<K1Con>>>>,
                        <<FALSE, <<PKCon, K1Con>>>>, <<TRUE, <<>>>>, <<TRUE, <<K1Con>>>>}}

MCMaxCols == 2
MCMaxCons == 2
MCMaxSpecs == 2
=============================================================================
