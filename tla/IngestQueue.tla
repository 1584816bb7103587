---------------------------- MODULE IngestQueue -----------------------------
(***************************************************************************)
(* What the incremental ingest path promises (spec 4.3 and 4.4), with no   *)
(* segments, callbacks or goroutines: the extractor's messages 1..NMsgs    *)
(* enter a queue of at most QueueCap payloads whole and in order, the      *)
(* consumer takes them from its head, and a message is acknowledged to the *)
(* extractor only once it is on the queue or consumed (backpressure).      *)
(* A message the queue holds is its number; 0 stands for any payload that  *)
(* is not exactly one message, which no step of this module produces.      *)
(***************************************************************************)
EXTENDS Naturals, Sequences

CONSTANTS NMsgs, QueueCap

VARIABLES queue,    \* payloads accepted and not yet taken, oldest first
          consumed, \* payloads taken by the consumer, in the order taken
          acked     \* messages whose last segment the extractor saw acknowledged

vars == <<queue, consumed, acked>>

\* Messages accepted so far.
Accepted == Len(consumed) + Len(queue)

Init == queue = <<>> /\ consumed = <<>> /\ acked = 0

\* The next message joins the queue when there is room.
Accept ==
  /\ Accepted < NMsgs /\ Len(queue) < QueueCap
  /\ queue' = Append(queue, Accepted + 1)
  /\ UNCHANGED <<consumed, acked>>

\* The consumer takes the oldest payload.
Take ==
  /\ queue # <<>>
  /\ consumed' = Append(consumed, Head(queue)) /\ queue' = Tail(queue)
  /\ UNCHANGED acked

\* The extractor learns that its next message was accepted.
Acknowledge ==
  /\ acked < Accepted
  /\ acked' = acked + 1
  /\ UNCHANGED <<queue, consumed>>

Next == Accept \/ Take \/ Acknowledge

Spec == Init /\ [][Next]_vars
=============================================================================
