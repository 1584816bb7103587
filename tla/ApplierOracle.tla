--------------------------- MODULE ApplierOracle ---------------------------
(***************************************************************************)
(* The Oracle applier of src/unnamed/part_001 (type ApplierOracle): its    *)
(* start-up sequence Run, the NATS "_incr_hete" subscription callback with *)
(* the message merger (incrNMM) and the bounded incrBytesQueue, and the    *)
(* error/stop path onError -> Shutdown, which several goroutines may enter *)
(* at once.                                                                *)
(*                                                                         *)
(* Goroutines that may call onError or Shutdown:                           *)
(*   "run"   the Run goroutine (checkJobFinish, init steps)                *)
(*   "cb"    the NATS subscription callback goroutine                      *)
(*   "store" the DstPutNats error callback of the coordination store       *)
(*   "incr"  the goroutine started at the end of Run around ai.Run()       *)
(*   "pause" the task driver's pause API, which calls Shutdown directly    *)
(* The extractor (the sender of segments) and the ApplierOracleIncr        *)
(* consumer of incrBytesQueue are not in the source: they are modelled     *)
(* from the spec (sections 4.3 and 4.4).                                   *)
(***************************************************************************)
EXTENDS Naturals, Sequences

CONSTANTS
  NMsgs,       \* logical messages the extractor publishes on S_incr_hete
  NSegs,       \* segments each message is split into
  QueueCap,    \* capacity of incrBytesQueue
  WaitCap,     \* capacity of a.waitCh (made by the driver, not under src/)
  MaxFaults,   \* bound on spontaneous errors (store, DB, NATS, ai.Run)
  EarlySender  \* TRUE: the extractor publishes as soon as DstPutNats has
               \* advertised the address; FALSE: only once ai is created

ASSUME /\ NMsgs \in Nat \ {0}
       /\ NSegs \in Nat \ {0}
       /\ QueueCap \in Nat \ {0}
       /\ WaitCap \in Nat
       /\ MaxFaults \in Nat
       /\ EarlySender \in BOOLEAN

Callers == {"run", "cb", "store", "incr", "pause"}

\* A segment is <<message, index>>; the last index carries the final bit.
Segment == (1..NMsgs) \X (1..NSegs)
NoSeg == <<0, 0>>
IsFinal(seg) == seg[2] = NSegs
Payload(m) == [s \in 1..NSegs |-> <<m, s>>]

VARIABLES
  runPc,         \* next statement of Run
  natsConn,      \* a.natsConn: "nil", "open" or "closed"
  subscribed,    \* the _incr_hete subscription is registered
  natsPut,       \* DstPutNats has advertised the address
  storeWatching, \* DstPutNats may still report an error through onError
  db,            \* a.db / a.dbs: "nil", "open" or "closed"
  ai,            \* a.ai: "nil" or "ready"
  incrRunning,   \* the goroutine running ai.Run() is alive
  shutdown,      \* a.shutdown, set together with close(a.shutdownCh)
  sdHolder,      \* holder of a.shutdownLock, or "none"
  sdDone,        \* a Shutdown call has run to its end (DBs closed)
  oe,            \* per goroutine: where it is inside onError/Shutdown
  exitResults,   \* ExitResults sent on a.waitCh, by sending goroutine
  received,      \* ExitResults the task driver has taken off a.waitCh
  paused,        \* the pause API has called Shutdown
  cbPc,          \* the subscription callback's position
  buf,           \* incrNMM's buffer: the segments merged so far
  queue,         \* a.ai.incrBytesQueue
  consumed,      \* payloads ApplierOracleIncr has taken off the queue
  sMsg, sSeg,    \* the extractor's next segment to publish
  sWait,         \* the extractor waits for the reply of its segment
  inflight,      \* the published segment not yet handed to the callback
  crashed,       \* the process panicked
  faults         \* spontaneous errors so far

runVars == <<runPc, natsConn, subscribed, natsPut, storeWatching, db, ai,
             incrRunning>>
sdVars == <<shutdown, sdHolder, sdDone, oe, exitResults, received, paused>>
cbVars == <<cbPc, buf, queue, consumed>>
sendVars == <<sMsg, sSeg, sWait, inflight>>
vars == <<runVars, sdVars, cbVars, sendVars, crashed, faults>>

OePc == {"idle", "check", "report", "sdLock", "sdClose", "sdMark", "sdEnd"}

TypeOK ==
  /\ runPc \in {"checkJobFinish", "connect", "subscribe", "putNats",
                "initDB", "newIncr", "startIncr", "done"}
  /\ natsConn \in {"nil", "open", "closed"}
  /\ db \in {"nil", "open", "closed"}
  /\ ai \in {"nil", "ready"}
  /\ {subscribed, natsPut, storeWatching, incrRunning, shutdown, sdDone,
      paused, sWait, crashed} \subseteq BOOLEAN
  /\ sdHolder \in Callers \cup {"none"}
  /\ oe \in [Callers -> OePc]
  /\ exitResults \in Seq(Callers) /\ received \in 0..1
  /\ cbPc \in {"idle", "ackSegment", "select", "ackPayload"}
  /\ buf \in Seq(Segment) /\ Len(buf) <= NSegs
  /\ queue \in Seq(Seq(Segment))
  /\ consumed \in Seq(Seq(Segment))
  /\ sMsg \in 1..NMsgs + 1 /\ sSeg \in 1..NSegs
  /\ inflight \in Segment \cup {NoSeg}
  /\ faults \in 0..MaxFaults

Init ==
  /\ runPc = "checkJobFinish"
  /\ natsConn = "nil" /\ db = "nil" /\ ai = "nil"
  /\ subscribed = FALSE /\ natsPut = FALSE /\ storeWatching = FALSE
  /\ incrRunning = FALSE
  /\ shutdown = FALSE /\ sdHolder = "none" /\ sdDone = FALSE
  /\ oe = [g \in Callers |-> "idle"]
  /\ exitResults = <<>> /\ received = 0 /\ paused = FALSE
  /\ cbPc = "idle" /\ buf = <<>> /\ queue = <<>> /\ consumed = <<>>
  /\ sMsg = 1 /\ sSeg = 1 /\ sWait = FALSE /\ inflight = NoSeg
  /\ crashed = FALSE /\ faults = 0

Alive == ~crashed

\* One spontaneous error more (a failed store, DB or NATS call).
Fault == faults < MaxFaults /\ faults' = faults + 1

\* Goroutine g calls onError(common.TaskStateDead, err), or Shutdown().
CallOnError(g) == oe' = [oe EXCEPT ![g] = "check"]
CallShutdown(g) == oe' = [oe EXCEPT ![g] = "sdLock"]

-----------------------------------------------------------------------------
(* onError and Shutdown, entered by goroutine g.                           *)

\* onError reads a.shutdown without holding shutdownLock.
OnErrorCheck(g) ==
  /\ Alive /\ oe[g] = "check"
  /\ oe' = [oe EXCEPT ![g] = IF shutdown THEN "idle" ELSE "report"]
  /\ UNCHANGED <<runVars, shutdown, sdHolder, sdDone, exitResults, received, paused,
                 cbVars, sendVars, crashed, faults>>

\* The ExitResults sent but not yet received: the channel's buffer.
WaitChLen == Len(exitResults) - received

\* Publish the ControlMsg on S_control2 (best effort), then a.waitCh <- the
\* ExitResult, and call Shutdown.  The send blocks until the buffer has
\* room, or, unbuffered, until the driver takes it; the driver takes one
\* result per job, so a send that finds neither blocks for good.
OnErrorReport(g) ==
  /\ Alive /\ oe[g] = "report"
  /\ \/ WaitChLen < WaitCap /\ UNCHANGED received
     \/ WaitChLen = 0 /\ received = 0 /\ received' = 1
  /\ exitResults' = Append(exitResults, g)
  /\ oe' = [oe EXCEPT ![g] = "sdLock"]
  /\ UNCHANGED <<runVars, shutdown, sdHolder, sdDone, paused, cbVars,
                 sendVars, crashed, faults>>

\* shutdownLock.Lock(); if a.shutdown { return nil } (the deferred Unlock).
ShutdownLock(g) ==
  /\ Alive /\ oe[g] = "sdLock" /\ sdHolder = "none"
  /\ IF shutdown
       THEN oe' = [oe EXCEPT ![g] = "idle"] /\ UNCHANGED sdHolder
       ELSE oe' = [oe EXCEPT ![g] = "sdClose"] /\ sdHolder' = g
  /\ UNCHANGED <<runVars, shutdown, sdDone, exitResults, received, paused, cbVars,
                 sendVars, crashed, faults>>

\* if a.natsConn != nil { a.natsConn.Close() }
ShutdownCloseNats(g) ==
  /\ Alive /\ oe[g] = "sdClose"
  /\ natsConn' = IF natsConn = "open" THEN "closed" ELSE natsConn
  /\ oe' = [oe EXCEPT ![g] = "sdMark"]
  /\ UNCHANGED <<runPc, subscribed, natsPut, storeWatching, db, ai,
                 incrRunning, shutdown, sdHolder, sdDone, exitResults, received, paused,
                 cbVars, sendVars, crashed, faults>>

\* a.shutdown = true; close(a.shutdownCh)
ShutdownMark(g) ==
  /\ Alive /\ oe[g] = "sdMark"
  /\ shutdown' = TRUE
  /\ oe' = [oe EXCEPT ![g] = "sdEnd"]
  /\ UNCHANGED <<runVars, sdHolder, sdDone, exitResults, received, paused, cbVars,
                 sendVars, crashed, faults>>

\* a.ai.wg.Wait(); a.wg.Wait(); a.cancelFunc(); CloseDB; CloseConns; Unlock.
\* Nothing in this file does a.wg.Add, so the waits return at once.
ShutdownFinish(g) ==
  /\ Alive /\ oe[g] = "sdEnd"
  /\ db' = IF db = "open" THEN "closed" ELSE db
  /\ sdHolder' = "none" /\ sdDone' = TRUE
  /\ oe' = [oe EXCEPT ![g] = "idle"]
  /\ UNCHANGED <<runPc, natsConn, subscribed, natsPut, storeWatching, ai,
                 incrRunning, shutdown, exitResults, received, paused, cbVars, sendVars,
                 crashed, faults>>

OnErrorStep(g) ==
  \/ OnErrorCheck(g) \/ OnErrorReport(g)
  \/ ShutdownLock(g) \/ ShutdownCloseNats(g) \/ ShutdownMark(g)
  \/ ShutdownFinish(g)

-----------------------------------------------------------------------------
(* Run: the start-up statements, in the order of the code. An error calls  *)
(* onError and returns, except in checkJobFinish, which carries on.        *)

RunIdle == Alive /\ oe["run"] = "idle"

\* A call that fails: always when its precondition does not hold, else as
\* one of the spontaneous errors.
CallFails(healthy) == IF healthy THEN Fault ELSE UNCHANGED faults

\* GetJobStatus; TargetGtidFinished -> Shutdown; an error -> onError. In
\* every case Run goes on to initNatSubClient.
checkJobFinish ==
  /\ RunIdle /\ runPc = "checkJobFinish"
  /\ runPc' = "connect"
  /\ \/ UNCHANGED <<oe, faults>>
     \/ CallShutdown("run") /\ UNCHANGED faults
     \/ Fault /\ CallOnError("run")
  /\ UNCHANGED <<natsConn, subscribed, natsPut, storeWatching, db, ai,
                 incrRunning>>

\* Steps after checkJobFinish: each either succeeds or calls onError and
\* makes Run return. next is the following statement, effect the change.
RunCall(pc, next, healthy, effect) ==
  /\ RunIdle /\ runPc = pc
  /\ \/ healthy /\ effect /\ runPc' = next /\ UNCHANGED <<oe, faults>>
     \/ CallFails(healthy) /\ CallOnError("run") /\ runPc' = "done"
        /\ UNCHANGED <<natsConn, subscribed, natsPut, storeWatching, ai,
                       incrRunning>>

\* gonats.Connect(a.NatsAddr)
initNatSubClient ==
  /\ RunCall("connect", "subscribe", TRUE,
       /\ natsConn' = "open"
       /\ UNCHANGED <<subscribed, natsPut, storeWatching, ai, incrRunning>>)
  /\ UNCHANGED db

\* a.natsConn.Subscribe(S_incr_hete, callback); fails on a closed connection
subscribeNats ==
  /\ RunCall("subscribe", "putNats", natsConn = "open",
       /\ subscribed' = TRUE
       /\ UNCHANGED <<natsConn, natsPut, storeWatching, ai, incrRunning>>)
  /\ UNCHANGED db

\* a.storeManager.DstPutNats(subject, NatsAddr, shutdownCh, onError)
DstPutNats ==
  /\ RunCall("putNats", "initDB", TRUE,
       /\ natsPut' = TRUE /\ storeWatching' = TRUE
       /\ UNCHANGED <<natsConn, subscribed, ai, incrRunning>>)
  /\ UNCHANGED db

\* InitDB (sql.CreateDB), CreateConns, GetSomeSysVars, ValidateGrants. A
\* failure after CreateDB leaves a.db open.
initDBConnections ==
  /\ RunCall("initDB", "newIncr", TRUE,
       /\ UNCHANGED <<natsConn, subscribed, natsPut, storeWatching, ai,
                      incrRunning>>)
  /\ \/ runPc' = "newIncr" /\ db' = "open"
     \/ runPc' = "done" /\ db' \in {db, "open"}

\* a.ai, err = NewApplierOracleIncr(...)
NewApplierOracleIncr ==
  /\ RunCall("newIncr", "startIncr", TRUE,
       /\ ai' = "ready"
       /\ UNCHANGED <<natsConn, subscribed, natsPut, storeWatching,
                      incrRunning>>)
  /\ UNCHANGED db

\* go func() { err := a.ai.Run(); if err != nil { a.onError(...) } }()
StartIncr ==
  /\ RunIdle /\ runPc = "startIncr"
  /\ runPc' = "done" /\ incrRunning' = TRUE
  /\ UNCHANGED <<natsConn, subscribed, natsPut, storeWatching, db, ai, oe,
                 faults>>

RunStep ==
  /\ \/ checkJobFinish \/ initNatSubClient \/ subscribeNats \/ DstPutNats
     \/ initDBConnections \/ NewApplierOracleIncr \/ StartIncr
  /\ UNCHANGED <<shutdown, sdHolder, sdDone, exitResults, received, paused, cbVars,
                 sendVars, crashed>>

-----------------------------------------------------------------------------
(* The S_incr_hete subscription callback. NATS runs the callbacks of one   *)
(* subscription one after another on one goroutine.                        *)

\* The extractor gets the reply of its current segment and moves on.
ReplyReceived ==
  /\ sWait' = FALSE
  /\ IF sSeg = NSegs THEN sMsg' = sMsg + 1 /\ sSeg' = 1
                     ELSE sSeg' = sSeg + 1 /\ UNCHANGED sMsg
  /\ UNCHANGED inflight

\* segmentFinished, err := incrNMM.Handle(m.Data); an error -> onError.
IncrHandle ==
  /\ Alive /\ cbPc = "idle" /\ oe["cb"] = "idle"
  /\ inflight # NoSeg /\ subscribed /\ natsConn = "open"
  /\ inflight' = NoSeg
  /\ \/ buf' = Append(buf, inflight)
        /\ cbPc' = (IF IsFinal(inflight) THEN "select" ELSE "ackSegment")
        /\ UNCHANGED <<oe, faults>>
     \/ Fault /\ CallOnError("cb") /\ UNCHANGED <<buf, cbPc>>
  /\ UNCHANGED <<runVars, shutdown, sdHolder, sdDone, exitResults, received, paused,
                 queue, consumed, sMsg, sSeg, sWait, crashed>>

\* a.natsConn.Publish(m.Reply, nil) from position pc; an error (always on
\* a closed connection) -> onError. The callback then returns.
PublishReply(pc) ==
  /\ Alive /\ cbPc = pc
  /\ cbPc' = "idle"
  /\ \/ natsConn = "open" /\ ReplyReceived /\ UNCHANGED <<oe, faults>>
     \/ CallFails(natsConn = "open") /\ CallOnError("cb")
        /\ UNCHANGED sendVars
  /\ UNCHANGED <<runVars, shutdown, sdHolder, sdDone, exitResults, received, paused,
                 buf, queue, consumed, crashed>>

\* Mutant: the reply to a non-final segment is never published.
IncrAckSegmentDropped ==
  /\ Alive /\ cbPc = "ackSegment" /\ cbPc' = "idle"
  /\ UNCHANGED <<runVars, sdVars, buf, queue, consumed, sendVars, crashed,
                 faults>>

\* !segmentFinished: acknowledge the segment.
IncrAckSegment == PublishReply("ackSegment")

\* Mutant: incrNMM.Reset() is missing after the enqueue.
IncrEnqueueNoReset ==
  /\ Alive /\ cbPc = "select"
  /\ \/ ai = "nil" /\ crashed' = TRUE /\ UNCHANGED <<cbPc, queue>>
     \/ ai = "ready" /\ shutdown /\ cbPc' = "idle" /\ UNCHANGED <<queue, crashed>>
     \/ ai = "ready" /\ Len(queue) < QueueCap /\ queue' = Append(queue, buf)
        /\ cbPc' = "ackPayload" /\ UNCHANGED crashed
  /\ UNCHANGED <<runVars, sdVars, buf, consumed, sendVars, faults>>

\* bs := incrNMM.GetBytes(); select { case <-a.shutdownCh: return
\* case a.ai.incrBytesQueue <- bs: incrNMM.Reset(); ... }. The channel
\* operand a.ai.incrBytesQueue is evaluated on entry: with a.ai nil the
\* goroutine panics. With both cases ready Go picks either.
IncrEnqueue ==
  /\ Alive /\ cbPc = "select"
  /\ \/ ai = "nil" /\ crashed' = TRUE /\ UNCHANGED <<cbPc, buf, queue>>
     \/ ai = "ready" /\ shutdown /\ cbPc' = "idle"
        /\ UNCHANGED <<buf, queue, crashed>>
     \/ ai = "ready" /\ Len(queue) < QueueCap
        /\ queue' = Append(queue, buf) /\ buf' = <<>>
        /\ cbPc' = "ackPayload" /\ UNCHANGED crashed
  /\ UNCHANGED <<runVars, sdVars, consumed, sendVars, faults>>

\* After the enqueue: acknowledge the final segment.
IncrAckPayload == PublishReply("ackPayload")

-----------------------------------------------------------------------------
(* The environment: the extractor, ApplierOracleIncr, failing callbacks    *)
(* and the pause API.                                                      *)

\* The extractor publishes its next segment once it knows the address, and
\* waits for the reply before the next one (spec 4.3).
ExtractorPublish ==
  /\ Alive /\ ~sWait /\ sMsg <= NMsgs
  /\ natsPut /\ (EarlySender \/ ai = "ready")
  /\ inflight' = <<sMsg, sSeg>> /\ sWait' = TRUE
  /\ UNCHANGED <<runVars, sdVars, cbVars, sMsg, sSeg, crashed, faults>>

\* ApplierOracleIncr takes a payload off incrBytesQueue until shutdown.
IncrConsume ==
  /\ Alive /\ incrRunning /\ ~shutdown /\ queue # <<>>
  /\ consumed' = Append(consumed, Head(queue)) /\ queue' = Tail(queue)
  /\ UNCHANGED <<runVars, sdVars, cbPc, buf, sendVars, crashed, faults>>

\* a.ai.Run() returns an error.
IncrRunFails ==
  /\ Alive /\ incrRunning /\ Fault
  /\ incrRunning' = FALSE /\ CallOnError("incr")
  /\ UNCHANGED <<runPc, natsConn, subscribed, natsPut, storeWatching, db, ai,
                 shutdown, sdHolder, sdDone, exitResults, received, paused, cbVars,
                 sendVars, crashed>>

\* The store calls the onError passed to DstPutNats.
DstPutNatsFails ==
  /\ Alive /\ storeWatching /\ Fault
  /\ storeWatching' = FALSE /\ CallOnError("store")
  /\ UNCHANGED <<runPc, natsConn, subscribed, natsPut, db, ai, incrRunning,
                 shutdown, sdHolder, sdDone, exitResults, received, paused, cbVars,
                 sendVars, crashed>>

\* The task driver receives the job's ExitResult from a.waitCh, once
\* (spec 7: one final result per job).
DriverReceive ==
  /\ received = 0 /\ WaitChLen > 0
  /\ received' = 1
  /\ UNCHANGED <<runVars, shutdown, sdHolder, sdDone, oe, exitResults, paused,
                 cbVars, sendVars, crashed, faults>>

\* The pause API calls a.Shutdown().
PauseShutdown ==
  /\ Alive /\ ~paused
  /\ paused' = TRUE /\ CallShutdown("pause")
  /\ UNCHANGED <<runVars, shutdown, sdHolder, sdDone, exitResults, received, cbVars,
                 sendVars, crashed, faults>>

CallbackStep ==
  \/ IncrHandle \/ IncrAckSegment \/ IncrEnqueue \/ IncrAckPayload

Next ==
  \/ RunStep
  \/ CallbackStep
  \/ \E g \in Callers : OnErrorStep(g)
  \/ ExtractorPublish \/ IncrConsume
  \/ IncrRunFails \/ DstPutNatsFails \/ PauseShutdown \/ DriverReceive

\* Go schedules every runnable goroutine eventually: the applier's own
\* goroutines, the NATS callback, the extractor and the consumer are weakly
\* fair, and so is the task driver's goroutine waiting on a.waitCh.
\* Errors and the pause API are not: they may never happen.
Fairness ==
  /\ WF_vars(RunStep)
  /\ WF_vars(IncrHandle) /\ WF_vars(IncrAckSegment)
  /\ WF_vars(IncrEnqueue) /\ WF_vars(IncrAckPayload)
  /\ \A g \in Callers : WF_vars(OnErrorStep(g))
  /\ WF_vars(ExtractorPublish) /\ WF_vars(IncrConsume)
  /\ WF_vars(DriverReceive)

Spec == Init /\ [][Next]_vars /\ Fairness

-----------------------------------------------------------------------------
(* Properties.                                                             *)

\* The message a payload is, or 0 when it is not exactly one whole message.
MsgOf(p) == IF p # <<>> /\ p = Payload(p[1][1]) THEN p[1][1] ELSE 0

\* The refinement mapping: incrBytesQueue and what ApplierOracleIncr took
\* are the abstract queue and consumed payloads; the messages the extractor
\* has seen acknowledged are the abstract acknowledgements.
Ingest == INSTANCE IngestQueue
            WITH queue <- [i \in DOMAIN queue |-> MsgOf(queue[i])],
                 consumed <- [i \in DOMAIN consumed |-> MsgOf(consumed[i])],
                 acked <- sMsg - 1

\* The callback, incrNMM, the select on incrBytesQueue and the replies
\* together implement the in-order bounded delivery queue of spec 4.3 and
\* 4.4: every step of the applier, the extractor and the consumer is a step
\* of IngestQueue or leaves its state unchanged.
IngestRefinement == Ingest!Spec

\* Progress: the callback, the consumer and the extractor keep the stream
\* moving: every message is eventually consumed unless the applier shuts
\* down or the process dies of the nil-a.ai panic.
Progress == <>(Len(consumed) = NMsgs \/ shutdown \/ crashed)

\* The callback never dereferences a.ai before Run has set it (a panic
\* kills the task).
NoNilIncrQueue == ~crashed

NothingOpenAfterShutdown == sdDone => natsConn # "open" /\ db # "open"

=============================================================================
