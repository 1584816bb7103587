---------------------------- MODULE MCFullApply -----------------------------
EXTENDS FullApply

\* Rendered row lengths: with HeaderLen 3 and BufSizeLimit 10, rows of
\* lengths 1 and 2 fill a statement exactly (3+1+1 + 2+2+1 = 10) or not,
\* and a row of length 7 reaches the limit alone.
Widths == {1, 2, 7}

\* Every ValuesX of at most three rows with ids 1, 2, 3.
RowSeqs == UNION {[1..n -> Widths] : n \in 0..3}
Rows(ws) == [j \in DOMAIN ws |-> [id |-> j, width |-> ws[j]]]

\* The first entry creates the database and table t and copies its rows
\* with the session statements; the second creates t2 and copies one row.
First(ws) == [sysVar |-> TRUE, sqlMode |-> TRUE, db |-> "d", tbs |-> <<"t">>, rows |-> Rows(ws)]
Second == [sysVar |-> FALSE, sqlMode |-> FALSE, db |-> "", tbs |-> <<"t2">>,
           rows |-> <<[id |-> 4, width |-> 1]>>]

MCDumps == {<<First(ws), Second>> : ws \in RowSeqs}
====
