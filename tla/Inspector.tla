------------------------------ MODULE Inspector ------------------------------
(***************************************************************************)
(* The source-side Inspector (src/drivers/mysql/mysql/inspect.go):         *)
(* InitDBConnections opens the connection and validates grants, GTID mode  *)
(* and binlog settings; ValidateOriginalTable checks one table, discovers  *)
(* its unique keys and chooses the replication key on the table           *)
(* descriptor; Close closes the connection.                                *)
(*                                                                         *)
(* The caller (the extractor, not under src/) is modelled from spec 4.1    *)
(* and 7: init errors are fatal, the job is torn down with Close, and the  *)
(* supervisor may restart the job with a fresh Inspector and table         *)
(* descriptor.  The source server is an environment: its grants and        *)
(* settings are fixed for a behaviour, its table's unique keys change      *)
(* with DDL.                                                               *)
(***************************************************************************)
EXTENDS Naturals, Sequences, SequencesExt, FiniteSets

CONSTANTS Sources,        \* source servers: grants, settings, the table
          KeyNames,       \* unique-key names; "PRIMARY" is the primary key
          MaxKeys,        \* most unique keys on the table
          MaxDDLs,        \* DDL statements that change the table's keys
          MaxRestarts,    \* job restarts by the supervisor
          MaxValidations, \* calls of ValidateOriginalTable
          MaxTypeFaults   \* failed ApplyColumnTypes queries

NoKey == "none"

\* Privileges as SHOW GRANTS prints them; a row is one GRANT statement.
Privs == {"ALL PRIVILEGES", "SUPER", "REPLICATION CLIENT", "REPLICATION SLAVE", "SELECT"}
GrantRows == [privs: SUBSET Privs, scope: {"*.*", "db.*"}]

\* A unique key: whether one of its columns is FLOAT or JSON, and whether
\* one is nullable (has_nullable).  PRIMARY KEY columns are NOT NULL.
Keys == {k \in [name: KeyNames, badType: BOOLEAN, nullable: BOOLEAN] :
           k.name = "PRIMARY" => ~k.nullable}
KeySets == {ks \in SUBSET Keys :
              Cardinality(ks) <= MaxKeys /\
              \A k1, k2 \in ks : k1.name = k2.name => k1 = k2}

\* @@binlog_row_image as the server answers, or no such variable (5.5).
RowImageAnswers == {"FULL", "MINIMAL", "NOBLOB", "full", "minimal", "unavailable"}

VARIABLES src,        \* the source server (constant in a behaviour)
          keys,       \* the table's unique keys
          db,         \* i.db: "nil", "open" or "closed"
          rowImage,   \* i.mysqlContext.BinlogRowImage
          useKey,     \* table.UseUniqueKey (by name)
          phase,      \* the caller's stage
          lastErr,    \* the error the last call returned
          discovered, \* the order getCandidateUniqueKeys returned last
          freshBefore,\* no key was chosen before the last validation
          prevValid,  \* keys and chosen key at the last successful validation
          nVal, ddls, restarts, typeFaults

vars == <<src, keys, db, rowImage, useKey, phase, lastErr, discovered, freshBefore,
          prevValid, nVal, ddls, restarts, typeFaults>>

NoPrev == [keys |-> {}, key |-> NoKey]

TypeOK ==
  /\ src \in Sources /\ keys \in KeySets
  /\ db \in {"nil", "open", "closed"}
  /\ rowImage \in {"", "FULL", "MINIMAL", "NOBLOB"}
  /\ useKey \in KeyNames \cup {NoKey}
  /\ phase \in {"new", "initFailed", "ready", "validated", "validateFailed", "closed"}
  /\ discovered \in Seq(Keys) /\ freshBefore \in BOOLEAN
  /\ prevValid \in [keys: KeySets, key: KeyNames \cup {NoKey}]
  /\ nVal \in 0..MaxValidations /\ ddls \in 0..MaxDDLs
  /\ restarts \in 0..MaxRestarts /\ typeFaults \in 0..MaxTypeFaults

Init ==
  /\ src \in Sources
  /\ keys \in KeySets
  /\ db = "nil" /\ rowImage = "" /\ useKey = NoKey /\ phase = "new"
  /\ lastErr = "none" /\ discovered = <<>> /\ freshBefore = TRUE
  /\ prevValid = NoPrev
  /\ nVal = 0 /\ ddls = 0 /\ restarts = 0 /\ typeFaults = 0

-----------------------------------------------------------------------------
(* The checks of InitDBConnections. *)

\* validateGrants: scans every row of SHOW GRANTS for substrings, whatever
\* the row's scope.  StringContainsAll(grant, "SELECT") is a substring test.
validateGrants(s) ==
  LET found(p) == \E r \in s.grants : p \in r.privs
  IN \/ s.skipPriv
     \/ found("ALL PRIVILEGES")
     \/ found("SUPER") /\ found("REPLICATION SLAVE") /\ found("SELECT")
     \/ found("REPLICATION CLIENT") /\ found("REPLICATION SLAVE") /\ found("SELECT")

\* validateGTIDMode
validateGTIDMode(s) == s.gtidMode = "ON"

\* validateBinlogs: log_bin and binlog_format; the row image check is below.
validateBinlogs(s) == s.logBin /\ s.binlogFormat = "ROW"

\* strings.ToUpper on the answers the server can give.
ToUpper(v) == CASE v = "full" -> "FULL" [] v = "minimal" -> "MINIMAL" [] OTHER -> v

\* Mutant: the answer is stored without strings.ToUpper.
RowImageOfRaw(v) == IF v = "unavailable" THEN "FULL" ELSE v

\* select @@binlog_row_image, FULL when the variable does not exist, then
\* upper-cased.
RowImageOf(v) == IF v = "unavailable" THEN "FULL" ELSE ToUpper(v)

\* The error InitDBConnections returns, in the order it checks.
InitResult(s, createOK) ==
  CASE ~createOK           -> "CreateDB"
    [] ~validateGrants(s)  -> "InsufficientPrivileges"
    [] ~validateGTIDMode(s) -> "GtidDisabled"
    [] ~validateBinlogs(s) -> "BadBinlogConfig"
    [] OTHER               -> "none"

\* Init: CreateDB sets i.db (nil when it fails), then the checks in order;
\* BinlogRowImage is written only when validateBinlogs gets that far.
InitDBConnections ==
  /\ phase = "new"
  /\ \E createOK \in BOOLEAN :
       LET err == InitResult(src, createOK)
       IN /\ db' = IF createOK THEN "open" ELSE "nil"
          /\ rowImage' = IF err = "none" THEN RowImageOf(src.rowImageVar) ELSE rowImage
          /\ phase' = IF err = "none" THEN "ready" ELSE "initFailed"
          /\ lastErr' = err
  /\ UNCHANGED <<src, keys, useKey, discovered, freshBefore, prevValid, nVal, ddls,
                 restarts, typeFaults>>

-----------------------------------------------------------------------------
(* ValidateOriginalTable *)

\* A key the loop accepts: no FLOAT/JSON column, no nullable column, and
\* PRIMARY or a FULL row image.
KeyValid(k, img) == ~k.badType /\ ~k.nullable /\ (k.name = "PRIMARY" \/ img = "FULL")

\* Mutant: a valid non-primary key replaces the one already chosen.
RECURSIVE ChooseUniqueKeyLast(_, _, _)
ChooseUniqueKeyLast(uks, use, img) ==
  IF uks = <<>> THEN use
  ELSE LET uk == Head(uks)
       IN IF ~KeyValid(uk, img) THEN ChooseUniqueKeyLast(Tail(uks), use, img)
          ELSE IF uk.name = "PRIMARY" THEN uk.name
          ELSE ChooseUniqueKeyLast(Tail(uks), uk.name, img)

\* for _, uk := range uniqueKeys { ... } over the keys in discovery order,
\* starting from the table.UseUniqueKey the descriptor already has.
RECURSIVE ChooseUniqueKey(_, _, _)
ChooseUniqueKey(uks, use, img) ==
  IF uks = <<>> THEN use
  ELSE LET uk == Head(uks)
       IN IF ~KeyValid(uk, img) THEN ChooseUniqueKey(Tail(uks), use, img)
          ELSE IF uk.name = "PRIMARY" THEN uk.name
          ELSE ChooseUniqueKey(Tail(uks), IF use = NoKey THEN uk.name ELSE use, img)

\* validateTable: SHOW TABLE STATUS finds no row, or a row whose Comment is
\* VIEW.
validateTable(s) ==
  CASE s.kind = "missing" -> "TableMissing"
    [] s.kind = "view"    -> "TableIsView"
    [] OTHER              -> "none"

\* getCandidateUniqueKeys (through InspectTableColumnsAndUniqueKeys): one
\* row per unique index; the query has no ORDER BY, so any order.
getCandidateUniqueKeys(ks) == SetToSeqs(ks)

\* validateTable (missing or VIEW), the keys with their column types from
\* ApplyColumnTypes, whose error is ignored (a key whose query failed keeps
\* unknown types), the key loop, then the where clause, whose parse error
\* is returned.  getCandidateUniqueKeys has no ORDER BY: the keys come in
\* any order.
ValidateOriginalTable ==
  /\ phase \in {"ready", "validated", "validateFailed"}
  /\ nVal < MaxValidations
  /\ \E order \in getCandidateUniqueKeys(keys) : \E failed \in SUBSET DOMAIN order :
       LET seen == [j \in DOMAIN order |->
                      [order[j] EXCEPT !.badType = @ /\ j \notin failed]]
           inspected == src.kind = "table"
           err == CASE validateTable(src) # "none" -> validateTable(src)
                    [] ~src.whereOK -> "WhereParse"
                    [] OTHER        -> "none"
       IN /\ typeFaults + Cardinality(failed) <= MaxTypeFaults
          /\ ~inspected => failed = {}
          /\ useKey' = IF inspected THEN ChooseUniqueKey(seen, useKey, rowImage) ELSE useKey
          /\ discovered' = IF inspected THEN order ELSE discovered
          /\ freshBefore' = (useKey = NoKey)
          /\ lastErr' = err
          /\ phase' = IF err = "none" THEN "validated" ELSE "validateFailed"
          /\ prevValid' = IF err = "none" THEN [keys |-> keys, key |-> useKey'] ELSE prevValid
          /\ typeFaults' = typeFaults + Cardinality(failed)
  /\ nVal' = nVal + 1
  /\ UNCHANGED <<src, keys, db, rowImage, ddls, restarts>>

\* Close: closes i.db when it is set.  The caller tears the job down.
Close ==
  /\ phase \in {"initFailed", "ready", "validated", "validateFailed"}
  /\ db' = IF db = "open" THEN "closed" ELSE db
  /\ phase' = "closed"
  /\ UNCHANGED <<src, keys, rowImage, useKey, lastErr, discovered, freshBefore,
                 prevValid, nVal, ddls, restarts, typeFaults>>

\* The supervisor restarts the job: a new process, Inspector and table
\* descriptor (spec 7, Retries).
Restart ==
  /\ restarts < MaxRestarts
  /\ restarts' = restarts + 1
  /\ db' = "nil" /\ rowImage' = "" /\ useKey' = NoKey /\ phase' = "new"
  /\ lastErr' = "none"
  /\ UNCHANGED <<src, keys, discovered, freshBefore, prevValid, nVal, ddls, typeFaults>>

\* DDL on the source table adds or drops unique keys.
SourceDDL ==
  /\ ddls < MaxDDLs
  /\ ddls' = ddls + 1
  /\ keys' \in KeySets \ {keys}
  /\ UNCHANGED <<src, db, rowImage, useKey, phase, lastErr, discovered, freshBefore,
                 prevValid, nVal, restarts, typeFaults>>

Next ==
  \/ InitDBConnections
  \/ ValidateOriginalTable
  \/ Close
  \/ Restart
  \/ SourceDDL

Spec == Init /\ [][Next]_vars

-----------------------------------------------------------------------------
(* Properties *)

\* The spec's key selection rule (spec 3): among the valid candidates the
\* PRIMARY KEY, else the first in discovery order, else none; valid means
\* no FLOAT/JSON or nullable column, and PRIMARY or a FULL row image.
SpecChoice(order, img) ==
  LET v == SelectSeq(order, LAMBDA k : KeyValid(k, img))
  IN IF \E j \in DOMAIN v : v[j].name = "PRIMARY" THEN "PRIMARY"
     ELSE IF v = <<>> THEN NoKey ELSE v[1].name

\* A validation that succeeds on a descriptor with no key yet chooses the
\* key the rule picks from the keys as getCandidateUniqueKeys returned them,
\* with their real column types: ValidateOriginalTable's loop with its
\* break and its nil check implements the rule.
KeySelectionRule ==
  (phase = "validated" /\ freshBefore) => useKey = SpecChoice(discovered, rowImage)

\* Spec 8.5, key-selection stability: a successful validation of a table
\* whose keys are unchanged since the last successful one chooses the same
\* key, also after the supervisor restarted the job.
KeyStable ==
  [][(nVal' = nVal + 1 /\ phase' = "validated" /\ prevValid # NoPrev
      /\ prevValid.keys = keys) => useKey' = prevValid.key]_vars

=============================================================================
