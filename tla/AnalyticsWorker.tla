-------------------------- MODULE AnalyticsWorker --------------------------
(***************************************************************************)
(* The analytics worker (workers/analytics-worker.ts): validate, collect   *)
(* into a micro-batch, insert the batch into click_events in one statement *)
(* (click-event-repository.ts), announce the clicks on Redis, acknowledge. *)
(*                                                                         *)
(* flushBatch empties the batch before it awaits the INSERT, so a worker   *)
(* may have several flushes in flight while the consumer fills the next    *)
(* batch.  The worker never reconnects: when the broker closes its channel *)
(* cleanly the process lives on without a consumer ("deaf").               *)
(***************************************************************************)
EXTENDS EventBroker

CONSTANTS
  BatchSize,    (* BATCH_SIZE                                              *)
  Malformed     (* events whose payload clickEventSchema refuses           *)

ASSUME BatchSizePositive == BatchSize \in Nat \ {0}
ASSUME MalformedAreEvents == Malformed \subseteq Events

VARIABLES
  mode,       (* per worker: the state of its process                      *)
  batch,      (* per worker: copies pushed and not yet flushed             *)
  timer,      (* per worker: flushTimer is not null                        *)
  inflight,   (* per worker: flushes awaiting the database                 *)
  awaited,    (* per worker: the batch whose flush stop() awaits           *)
  clicks,     (* per event: its rows in click_events                       *)
  announced   (* events published on analytics:click:<code>                *)

localVars == <<mode, batch, timer, inflight, awaited>>
workerVars == <<mode, batch, timer, inflight, awaited, clicks, announced>>

Flush == [copies : SUBSET Messages, inserted : BOOLEAN]

WorkerTypeOK ==
  /\ mode \in [Workers -> {"down", "running", "stopping", "deaf"}]
  /\ batch \in [Workers -> SUBSET Messages]
  /\ timer \in [Workers -> BOOLEAN]
  /\ inflight \in [Workers -> SUBSET Flush]
  /\ awaited \in [Workers -> SUBSET Messages]
  /\ clicks \in [Events -> {0, 1}]
  /\ announced \subseteq Events

WorkerInit ==
  /\ mode = [w \in Workers |-> "down"]
  /\ batch = [w \in Workers |-> {}]
  /\ timer = [w \in Workers |-> FALSE]
  /\ inflight = [w \in Workers |-> {}]
  /\ awaited = [w \in Workers |-> {}]
  /\ clicks = [e \in Events |-> 0]
  /\ announced = {}

Consuming(w) == mode[w] \in {"running", "stopping"}

WorkerStart(w) ==
  /\ mode[w] = "down"
  /\ mode' = [mode EXCEPT ![w] = "running"]
  /\ UNCHANGED <<batch, timer, inflight, awaited, clicks, announced,
                 brokerVars, disruptions>>

(* flushBatch up to its first await: disarm the timer, take the batch.     *)
StartFlush(w, copies) ==
  /\ timer' = [timer EXCEPT ![w] = FALSE]
  /\ batch' = [batch EXCEPT ![w] = {}]
  /\ inflight' = [inflight EXCEPT ![w] = @ \cup
       {[copies |-> c, inserted |-> FALSE] : c \in {copies} \ {{}}}]

(* The consume callback, payload unparseable or refused by the schema.     *)
RejectMalformed(w, m) ==
  /\ Consuming(w) /\ Deliverable(w, m)
  /\ m.event \in Malformed
  /\ queue' = queue \ {m}
  /\ dlq' = dlq \cup {m}
  /\ UNCHANGED <<unacked, redelivered, disruptions, workerVars>>

(* Mutant of Collect: the payload is not validated.                        *)
CollectUnvalidated(w, m) ==
  LET filled == batch[w] \cup {m} IN
  /\ Consuming(w) /\ Deliverable(w, m)
  /\ queue' = queue \ {m}
  /\ unacked' = [unacked EXCEPT ![w] = @ \cup {m}]
  /\ \/ /\ Cardinality(filled) >= BatchSize
        /\ StartFlush(w, filled)
     \/ /\ Cardinality(filled) < BatchSize
        /\ batch' = [batch EXCEPT ![w] = filled]
        /\ timer' = [timer EXCEPT ![w] = TRUE]
        /\ UNCHANGED inflight
  /\ UNCHANGED <<redelivered, dlq, disruptions, mode, awaited, clicks, announced>>

(* Mutant of Collect: the timer is armed only while no flush is running.   *)
CollectTimerUnlessFlushing(w, m) ==
  LET filled == batch[w] \cup {m} IN
  /\ Consuming(w) /\ Deliverable(w, m)
  /\ m.event \notin Malformed
  /\ queue' = queue \ {m}
  /\ unacked' = [unacked EXCEPT ![w] = @ \cup {m}]
  /\ \/ /\ Cardinality(filled) >= BatchSize
        /\ StartFlush(w, filled)
     \/ /\ Cardinality(filled) < BatchSize
        /\ batch' = [batch EXCEPT ![w] = filled]
        /\ timer' = [timer EXCEPT ![w] = inflight[w] = {}]
        /\ UNCHANGED inflight
  /\ UNCHANGED <<redelivered, dlq, disruptions, mode, awaited, clicks, announced>>

(* The consume callback, payload accepted: push, then flush a full batch   *)
(* or see to it that a timer will.                                         *)
Collect(w, m) ==
  LET filled == batch[w] \cup {m} IN
  /\ Consuming(w) /\ Deliverable(w, m)
  /\ m.event \notin Malformed
  /\ queue' = queue \ {m}
  /\ unacked' = [unacked EXCEPT ![w] = @ \cup {m}]
  /\ \/ /\ Cardinality(filled) >= BatchSize
        /\ StartFlush(w, filled)
     \/ /\ Cardinality(filled) < BatchSize
        /\ batch' = [batch EXCEPT ![w] = filled]
        /\ timer' = [timer EXCEPT ![w] = TRUE]
        /\ UNCHANGED inflight
  /\ UNCHANGED <<redelivered, dlq, disruptions, mode, awaited, clicks, announced>>

TimerFires(w) ==
  /\ timer[w]
  /\ StartFlush(w, batch[w])
  /\ UNCHANGED <<mode, awaited, clicks, announced, brokerVars, disruptions>>

(* Mutant of InsertCommits: no ON CONFLICT clause and no unique event_id.  *)
InsertWithoutConflictClause(w, f) ==
  /\ f \in inflight[w] /\ ~f.inserted
  /\ clicks' = [e \in Events |-> IF e \in EventsOf(f.copies)
                                 THEN clicks[e] + 1 ELSE clicks[e]]
  /\ inflight' = [inflight EXCEPT ![w] =
                    (@ \ {f}) \cup {[copies |-> f.copies, inserted |-> TRUE]}]
  /\ UNCHANGED <<mode, batch, timer, awaited, announced, brokerVars, disruptions>>

(* INSERT ... ON CONFLICT (event_id) DO NOTHING commits for one flush.     *)
InsertCommits(w, f) ==
  /\ f \in inflight[w] /\ ~f.inserted
  /\ clicks' = [e \in Events |-> IF e \in EventsOf(f.copies) /\ clicks[e] = 0
                                 THEN 1 ELSE clicks[e]]
  /\ inflight' = [inflight EXCEPT ![w] =
                    (@ \ {f}) \cup {[copies |-> f.copies, inserted |-> TRUE]}]
  /\ UNCHANGED <<mode, batch, timer, awaited, announced, brokerVars, disruptions>>

(* flushBatch returns for flush f.                                         *)
FlushOver(w, f) ==
  /\ inflight' = [inflight EXCEPT ![w] = @ \ {f}]
  /\ awaited' = [awaited EXCEPT ![w] = IF @ = f.copies THEN {} ELSE @]

(* Mutant of FlushSucceeds: announce and acknowledge without awaiting the  *)
(* INSERT.                                                                 *)
FlushUnawaited(w, f) ==
  /\ f \in inflight[w]
  /\ Consuming(w)
  /\ announced' = announced \cup EventsOf(f.copies)
  /\ Settle(w, f.copies, {}, {})
  /\ FlushOver(w, f)
  /\ UNCHANGED <<mode, batch, timer, clicks, disruptions>>

(* The INSERT returns: announce each click, then ack each copy.            *)
FlushSucceeds(w, f) ==
  /\ f \in inflight[w] /\ f.inserted
  /\ Consuming(w)
  /\ announced' = announced \cup EventsOf(f.copies)
  /\ Settle(w, f.copies, {}, {})
  /\ FlushOver(w, f)
  /\ UNCHANGED <<mode, batch, timer, clicks, disruptions>>

(* Mutant of FlushFails: every copy is dead-lettered at once.              *)
FlushFailsBuries(w, f) ==
  /\ f \in inflight[w]
  /\ Consuming(w)
  /\ Disrupt
  /\ Settle(w, {}, {}, f.copies)
  /\ FlushOver(w, f)
  /\ UNCHANGED <<mode, batch, timer, clicks, announced>>

(* Mutant of FlushFails: first deliveries are neither requeued nor kept.   *)
FlushFailsForgets(w, f) ==
  /\ f \in inflight[w]
  /\ Consuming(w)
  /\ Disrupt
  /\ Settle(w, {}, {}, f.copies \cap redelivered)
  /\ FlushOver(w, f)
  /\ UNCHANGED <<mode, batch, timer, clicks, announced>>

(* The INSERT throws, whether or not the database committed it: each copy  *)
(* is dead-lettered on a redelivery and requeued on a first delivery.      *)
FlushFails(w, f) ==
  LET again == f.copies \cap redelivered IN
  /\ f \in inflight[w]
  /\ Consuming(w)
  /\ Disrupt
  /\ Settle(w, {}, f.copies \ again, again)
  /\ FlushOver(w, f)
  /\ UNCHANGED <<mode, batch, timer, clicks, announced>>

(* The process ends: its memory is gone, its channel closes.               *)
Exit(w) ==
  /\ mode' = [mode EXCEPT ![w] = "down"]
  /\ batch' = [batch EXCEPT ![w] = {}]
  /\ timer' = [timer EXCEPT ![w] = FALSE]
  /\ inflight' = [inflight EXCEPT ![w] = {}]
  /\ awaited' = [awaited EXCEPT ![w] = {}]
  /\ CloseChannels({w})

(* A flush of a deaf worker: announce, then ack and nack both throw on the *)
(* closed channel and the unhandled rejection ends the process.            *)
DeafFlushEnds(w, f) ==
  /\ f \in inflight[w] /\ f.inserted
  /\ mode[w] = "deaf"
  /\ announced' = announced \cup EventsOf(f.copies)
  /\ Exit(w)
  /\ UNCHANGED <<clicks, disruptions>>

WorkerCrashes(w) ==
  /\ mode[w] # "down"
  /\ Disrupt
  /\ Exit(w)
  /\ UNCHANGED <<clicks, announced>>

(* stop(): flush the current batch.  The consumer is not cancelled and     *)
(* flushes already in flight are not awaited.                              *)
StopRequested(w) ==
  /\ mode[w] = "running"
  /\ Disrupt
  /\ mode' = [mode EXCEPT ![w] = "stopping"]
  /\ awaited' = [awaited EXCEPT ![w] = batch[w]]
  /\ StartFlush(w, batch[w])
  /\ UNCHANGED <<clicks, announced, brokerVars>>

(* The awaited flush is over: close the channel and exit.                  *)
StopCompletes(w) ==
  /\ mode[w] = "stopping"
  /\ awaited[w] = {}
  /\ Exit(w)
  /\ UNCHANGED <<clicks, announced, disruptions>>

(* The broker closes worker w's channel cleanly.                           *)
LoseChannel(w) == IF mode[w] = "running" THEN "deaf"
                  ELSE IF mode[w] = "stopping" THEN "down" ELSE mode[w]

WorkerProgress(w) ==
  \/ WorkerStart(w)
  \/ \E m \in queue : RejectMalformed(w, m) \/ Collect(w, m)
  \/ TimerFires(w)
  \/ \E f \in inflight[w] :
       InsertCommits(w, f) \/ FlushSucceeds(w, f) \/ DeafFlushEnds(w, f)
  \/ StopCompletes(w)

WorkerNext ==
  \E w \in Workers :
    \/ WorkerProgress(w)
    \/ \E f \in inflight[w] : FlushFails(w, f)
    \/ WorkerCrashes(w)
    \/ StopRequested(w)
=============================================================================
