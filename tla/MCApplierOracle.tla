-------------------------- MODULE MCApplierOracle --------------------------
(* Model-checking instance of ApplierOracle: three messages of three      *)
(* segments (so a message spans several callbacks, has a middle segment,  *)
(* and more than one message can wait behind a full queue), a queue of    *)
(* two payloads (so the callback blocks on a full queue while the         *)
(* consumer holds a backlog), and two spontaneous errors (enough for two  *)
(* goroutines to fail independently around one Shutdown). waitCh holds  *)
(* one result, so a second ExitResult can block its sender.              *)
EXTENDS ApplierOracle

MCNMsgs == 3
MCNSegs == 3
MCQueueCap == 2
MCMaxFaults == 2
\* The driver that makes a.waitCh is not under src/: a buffer of one
\* result, read once, is assumed.
MCWaitCap == 1
=============================================================================
