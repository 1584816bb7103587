---------------------------- MODULE MCInspector -----------------------------
EXTENDS Inspector

MCKeyNames == {"PRIMARY", "k1", "k2"}

\* Grants of a replication user: SUPER, REPLICATION SLAVE and SELECT on *.*.
ReplUser == {[privs |-> {"SUPER", "REPLICATION SLAVE", "SELECT"}, scope |-> "*.*"]}

\* The same user without SELECT.
NoSelectUser == {[privs |-> {"SUPER", "REPLICATION SLAVE"}, scope |-> "*.*"]}

\* Servers that pass or fail each check of InitDBConnections, with every
\* answer to @@binlog_row_image, and a table that exists, is a VIEW or is
\* missing, and a where clause that parses or not.
MCSources ==
  [grants: {ReplUser, NoSelectUser}, skipPriv: {FALSE}, gtidMode: {"ON", "OFF"}, logBin: {TRUE},
   binlogFormat: {"ROW", "STATEMENT"}, rowImageVar: RowImageAnswers,
   kind: {"table", "view", "missing"}, whereOK: BOOLEAN]

=============================================================================
