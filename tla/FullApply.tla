------------------------------ MODULE FullApply ------------------------------
(***************************************************************************)
(* ApplierOracle.ApplyEventQueries (src/unnamed/part_001): applies one     *)
(* bulk-load DumpEntry to the destination.  The session statements run on *)
(* every worker connection, then one transaction executes SET              *)
(* foreign_key_checks = 0, the sysvar, sql_mode, database and table        *)
(* statements, and the rows batched into REPLACE INTO statements of about *)
(* BufSizeLimit rendered bytes.  A deferred function commits the           *)
(* transaction on every return after BeginTx, calls onError(Dead) when    *)
(* the commit fails, and adds the entry's row count to TotalRowsReplayed.  *)
(*                                                                         *)
(* The caller (the full-copy handler, not under src/) is modelled from    *)
(* spec 4.4 and 7: it applies the dump's entries in order, a returned     *)
(* error is fatal, and the supervisor restarts the job, which replays the *)
(* dump from its first entry.  The destination keeps what was committed.  *)
(* DDL commits implicitly in MySQL, so a table or database statement      *)
(* takes effect when it executes.                                         *)
(***************************************************************************)
EXTENDS Naturals, Sequences, SequencesExt, FiniteSets

CONSTANTS Dumps,        \* the dumps the extractor can send: non-empty sequences of entries
          NConns,       \* len(a.dbs): ParallelWorkers
          BufSizeLimit, \* BufSizeLimit, in abstract bytes
          HeaderLen,    \* len("replace into `s`.`t` values (")
          MaxFaults,    \* failed database calls in a behaviour
          MaxRestarts   \* job restarts by the supervisor

\* A row: its id (a key of the table, so REPLACE overwrites it) and the
\* length of its rendered values 'v1','v2',NULL.
\* A DumpEntry: sysvar and sql_mode statements present or not, the
\* database statement's object ("" when none), the tables' statements, rows.

VARIABLES dump,      \* the entries of the dump being copied
          job,       \* "running", "dead" (onError called) or "done"
          ei,        \* index of the entry the caller is applying
          pc,        \* where ApplyEventQueries is
          ci,        \* index into a.dbs in the session loops
          qi,        \* index into queries
          ri,        \* index into entry.ValuesX
          buf,       \* the rows rendered into buf since its last Reset
          txRows,    \* rows executed in the open transaction
          batches,   \* the REPLACE INTO statements executed in this call
          ret,       \* what this call returns: "none", "ok" or "err"
          destRows,  \* rows committed on the destination
          destObjs,  \* databases and tables created on the destination
          callRows,  \* rows this call committed
          rowsReplayed, \* a.TotalRowsReplayed
          faults, restarts

vars == <<dump, job, ei, pc, ci, qi, ri, buf, txRows, batches, ret, destRows,
          destObjs, callRows, rowsReplayed, faults, restarts>>

Entry == dump[ei]
RowIds(rs) == {rs[j].id : j \in DOMAIN rs}
AllRows == UNION {RowIds(dump[k].rows) : k \in DOMAIN dump}
AllObjs == ({dump[k].db : k \in DOMAIN dump} \cup
            UNION {Range(dump[k].tbs) : k \in DOMAIN dump}) \ {""}

\* queries: sysvar, sql_mode, database statement, then the table
\* statements; the empty ones are skipped by the loop.
Queries(e) ==
  SelectSeq(<<IF e.sysVar THEN "sysvar" ELSE "", IF e.sqlMode THEN "sqlmode" ELSE "", e.db>>
              \o e.tbs, LAMBDA q : q # "")

\* buf.Len(): the header before the first row, ",(" before the others,
\* and ")" after each.
RenderLen(rs) ==
  IF rs = <<>> THEN 0
  ELSE HeaderLen + 2 * (Len(rs) - 1) + FoldLeft(LAMBDA acc, r : acc + r.width + 1, 0, rs)

TypeOK ==
  /\ dump \in Dumps
  /\ job \in {"running", "dead", "done"}
  /\ pc \in {"idle", "sysvar", "sqlmode", "begin", "fk", "queries", "rows", "commit", "ret"}
  /\ ei \in 1..Len(dump) + 1 /\ ci \in 1..NConns + 1
  /\ pc # "idle" => qi \in 1..Len(Queries(Entry)) + 1 /\ ri \in 1..Len(Entry.rows) + 1
  /\ RenderLen(buf) \in 0..BufSizeLimit - 1
  /\ txRows \subseteq AllRows /\ callRows \subseteq AllRows /\ destRows \subseteq AllRows
  /\ destObjs \subseteq AllObjs
  /\ ret \in {"none", "ok", "err"}
  /\ faults \in 0..MaxFaults /\ restarts \in 0..MaxRestarts

Init ==
  /\ dump \in Dumps
  /\ job = "running" /\ ei = 1 /\ pc = "idle" /\ ci = 1 /\ qi = 1 /\ ri = 1
  /\ buf = <<>> /\ txRows = {} /\ batches = <<>> /\ ret = "none"
  /\ destRows = {} /\ destObjs = {} /\ callRows = {} /\ rowsReplayed = 0
  /\ faults = 0 /\ restarts = 0

-----------------------------------------------------------------------------
\* A database call fails, within the bound on faults.
Fail == faults < MaxFaults /\ faults' = faults + 1

\* return err before BeginTx: no transaction, nothing deferred.
ReturnEarly == pc' = "ret" /\ ret' = "err"

\* return after BeginTx: the deferred commit runs.
ReturnDeferred(r) == pc' = "commit" /\ ret' = r

\* The caller calls ApplyEventQueries for the next entry.
CallApply ==
  /\ job = "running" /\ pc = "idle" /\ ei <= Len(dump)
  /\ pc' = IF Entry.sysVar THEN "sysvar" ELSE IF Entry.sqlMode THEN "sqlmode" ELSE "begin"
  /\ ci' = 1 /\ qi' = 1 /\ ri' = 1 /\ buf' = <<>> /\ txRows' = {} /\ batches' = <<>>
  /\ ret' = "none" /\ callRows' = {}
  /\ UNCHANGED <<dump, job, ei, destRows, destObjs, rowsReplayed, faults, restarts>>

\* for i := range a.dbs { a.dbs[i].Db.ExecContext(SystemVariablesStatement) }
\* and the same for SqlMode; an error returns at once.
SessionExec ==
  /\ pc \in {"sysvar", "sqlmode"}
  /\ \/ /\ ci <= NConns /\ ci' = ci + 1
        /\ UNCHANGED <<pc, ret, faults>>
     \/ /\ ci <= NConns /\ Fail /\ ReturnEarly
        /\ UNCHANGED ci
     \/ /\ ci > NConns /\ ci' = 1
        /\ pc' = IF pc = "sysvar" /\ Entry.sqlMode THEN "sqlmode" ELSE "begin"
        /\ UNCHANGED <<ret, faults>>
  /\ UNCHANGED <<dump, job, ei, qi, ri, buf, txRows, batches, destRows, destObjs,
                 callRows, rowsReplayed, restarts>>

\* db.BeginTx; its error returns before the defer is registered.
BeginTx ==
  /\ pc = "begin"
  /\ \/ pc' = "fk" /\ UNCHANGED <<ret, faults>>
     \/ Fail /\ ReturnEarly
  /\ UNCHANGED <<dump, job, ei, ci, qi, ri, buf, txRows, batches, destRows, destObjs,
                 callRows, rowsReplayed, restarts>>

\* SET @@session.foreign_key_checks = 0 in the transaction.
SetForeignKeyChecks ==
  /\ pc = "fk"
  /\ \/ pc' = "queries" /\ UNCHANGED <<ret, faults>>
     \/ Fail /\ ReturnDeferred("err")
  /\ UNCHANGED <<dump, job, ei, ci, qi, ri, buf, txRows, batches, destRows, destObjs,
                 callRows, rowsReplayed, restarts>>

\* execQuery on queries[qi].  A statement that creates an object that
\* exists fails with an error sql.IgnoreError accepts, and is skipped; a
\* DDL commits implicitly; any other error is returned.
ExecQuery ==
  /\ pc = "queries"
  /\ IF qi > Len(Queries(Entry))
       THEN pc' = "rows" /\ UNCHANGED <<qi, ret, faults, destObjs>>
       ELSE LET q == Queries(Entry)[qi]
                isDDL == q \notin {"sysvar", "sqlmode"}
            IN \/ /\ qi' = qi + 1 /\ UNCHANGED <<pc, ret, faults>>
                  /\ destObjs' = IF isDDL THEN destObjs \cup {q} ELSE destObjs
               \/ /\ Fail /\ ReturnDeferred("err")
                  /\ UNCHANGED <<qi, destObjs>>
  /\ UNCHANGED <<dump, job, ei, ci, ri, buf, txRows, batches, destRows, callRows,
                 rowsReplayed, restarts>>

\* Mutant: a statement is executed only when the buffer reached the limit.
NeedInsertNoLast(len, last) == len >= BufSizeLimit

\* Mutant: the limit is compared with >.
NeedInsertGT(len, last) == last \/ len > BufSizeLimit

\* needInsert := (i == len(entry.ValuesX)-1) || (buf.Len() >= BufSizeLimit)
NeedInsert(len, last) == last \/ len >= BufSizeLimit

\* One iteration of the rows loop: render row ri into buf and, when
\* needInsert, execute buf and Reset it; an error of that statement is
\* returned.
ApplyRow ==
  /\ pc = "rows"
  /\ IF ri > Len(Entry.rows)
       THEN ReturnDeferred("ok") /\ UNCHANGED <<ri, buf, txRows, batches, faults>>
       ELSE LET b == Append(buf, Entry.rows[ri])
            IN IF ~NeedInsert(RenderLen(b), ri = Len(Entry.rows))
                 THEN ri' = ri + 1 /\ buf' = b /\ UNCHANGED <<pc, ret, txRows, batches, faults>>
                 ELSE /\ buf' = <<>> /\ batches' = Append(batches, b)
                      /\ \/ /\ ri' = ri + 1 /\ txRows' = txRows \cup RowIds(b)
                            /\ UNCHANGED <<pc, ret, faults>>
                         \/ /\ Fail /\ ReturnDeferred("err")
                            /\ UNCHANGED <<ri, txRows>>
  /\ UNCHANGED <<dump, job, ei, ci, qi, destRows, destObjs, callRows, rowsReplayed,
                 restarts>>

\* Mutant: a failed commit is not reported.
DeferCommitSilent ==
  /\ pc = "commit"
  /\ \/ destRows' = destRows \cup txRows /\ callRows' = txRows /\ UNCHANGED faults
     \/ Fail /\ UNCHANGED <<destRows, callRows>>
  /\ pc' = "ret" /\ rowsReplayed' = rowsReplayed + Len(Entry.rows)
  /\ UNCHANGED <<dump, job, ei, ci, qi, ri, buf, txRows, batches, ret, destObjs, restarts>>

\* The deferred function: tx.Commit(), onError(TaskStateDead) when it
\* fails, and TotalRowsReplayed += nRows in either case.  The call's
\* return value is the one already chosen.
DeferCommit ==
  /\ pc = "commit"
  /\ \/ /\ destRows' = destRows \cup txRows /\ callRows' = txRows
        /\ UNCHANGED <<job, faults>>
     \/ /\ Fail /\ job' = "dead"
        /\ UNCHANGED <<destRows, callRows>>
  /\ pc' = "ret" /\ rowsReplayed' = rowsReplayed + Len(Entry.rows)
  /\ UNCHANGED <<dump, ei, ci, qi, ri, buf, txRows, batches, ret, destObjs, restarts>>

\* The caller: an error is fatal (onError), otherwise the next entry; the
\* job is done after the last one.
CallerReturn ==
  /\ pc = "ret" /\ pc' = "idle"
  /\ IF job # "running" THEN UNCHANGED <<job, ei>>
     ELSE IF ret = "err" THEN job' = "dead" /\ UNCHANGED ei
     ELSE /\ ei' = ei + 1
          /\ job' = IF ei = Len(dump) THEN "done" ELSE "running"
  /\ UNCHANGED <<dump, ci, qi, ri, buf, txRows, batches, ret, destRows, destObjs,
                 callRows, rowsReplayed, faults, restarts>>

\* The supervisor restarts a dead job: a new process replays the dump
\* from its first entry on the same destination.
Restart ==
  /\ job = "dead" /\ pc = "idle" /\ restarts < MaxRestarts
  /\ restarts' = restarts + 1 /\ job' = "running" /\ ei' = 1 /\ rowsReplayed' = 0
  /\ UNCHANGED <<dump, pc, ci, qi, ri, buf, txRows, batches, ret, destRows, destObjs,
                 callRows, faults>>

Next ==
  \/ CallApply \/ SessionExec \/ BeginTx \/ SetForeignKeyChecks \/ ExecQuery
  \/ ApplyRow \/ DeferCommit \/ CallerReturn \/ Restart

Spec == Init /\ [][Next]_vars

-----------------------------------------------------------------------------
(* Properties *)

\* Spec 4.4, row batching, as a reference: the statements hold the rows in
\* order, each once; every statement but the last reached BufSizeLimit;
\* no statement reached it before its last row; no rows, no statement.
IsBatching(bs, rows) ==
  /\ FlattenSeq(bs) = rows
  /\ \A k \in DOMAIN bs : bs[k] # <<>> /\ RenderLen(Front(bs[k])) < BufSizeLimit
  /\ \A k \in 1..Len(bs) - 1 : RenderLen(bs[k]) >= BufSizeLimit

\* A call of ApplyEventQueries that returns nil executed the rows in the
\* REPLACE INTO statements the reference batching gives: the rows loop's
\* needInsert and buf.Reset implement spec 4.4.
BatchesMatchReference ==
  (pc = "ret" /\ ret = "ok") => IsBatching(batches, Entry.rows)

\* Spec 8, apply idempotence, and spec 7, retries: when the job completes,
\* after any number of failed calls, failed commits and restarts, the
\* destination holds every row and every object of the dump.  Partial
\* commits of earlier attempts are overwritten by REPLACE INTO and the
\* existing objects' errors are ignored.
ReplayConverges ==
  job = "done" => destRows = AllRows /\ destObjs = AllObjs

\* Spec 4.4, error handling in apply: an error that is not ignored aborts
\* the transaction, so a call that returns an error commits none of the
\* entry's rows.  The deferred function commits on every return.
AbortOnError ==
  (pc = "ret" /\ ret = "err") => callRows = {}

=============================================================================
