--------------------------- MODULE ClickPipeline ---------------------------
(***************************************************************************)
(* The asynchronous path of a click: outbox row, publisher, broker,        *)
(* analytics worker, click_events row; and the dead-letter queue with its  *)
(* inspector.  It composes OutboxRelay and AnalyticsWorker over the broker *)
(* they share.                                                             *)
(***************************************************************************)
EXTENDS OutboxRelay, AnalyticsWorker

CONSTANT
  BrokerRestarts   (* TRUE: the broker may shut down cleanly and come back *)

ASSUME BrokerRestartsBoolean == BrokerRestarts \in BOOLEAN

VARIABLE
  logged   (* copies the DLQ inspector has logged as evidence              *)

vars == <<relayVars, workerVars, brokerVars, logged, disruptions>>

TypeOK ==
  /\ BrokerTypeOK
  /\ RelayTypeOK
  /\ WorkerTypeOK
  /\ logged \subseteq Messages

Init ==
  /\ BrokerInit
  /\ RelayInit
  /\ WorkerInit
  /\ logged = {}

(* The inspector's handler: log, then ack, which takes the copy off the    *)
(* dead-letter queue.                                                      *)
InspectDeadLetter(m) ==
  /\ m \in dlq
  /\ logged' = logged \cup {m}
  /\ dlq' = dlq \ {m}
  /\ UNCHANGED <<queue, unacked, redelivered, disruptions, relayVars, workerVars>>

(* The inspector dies after the log line and before the broker has its     *)
(* ack: the dead letter is delivered, and logged, again.                   *)
InspectorDies(m) ==
  /\ m \in dlq
  /\ Disrupt
  /\ logged' = logged \cup {m}
  /\ UNCHANGED <<brokerVars, relayVars, workerVars>>

(* A clean shutdown and restart of the broker.  Queues and persistent      *)
(* copies survive it, connections do not: pending confirms are rejected,   *)
(* unacknowledged copies are requeued.                                     *)
BrokerRestart ==
  LET waiting == {p \in Publishers : pc[p] = "awaiting"} IN
  /\ BrokerRestarts
  /\ Disrupt
  /\ pc' = [p \in Publishers |-> IF p \in waiting THEN "idle" ELSE pc[p]]
  /\ held' = [p \in Publishers |-> IF p \in waiting THEN {} ELSE held[p]]
  /\ wire' = [p \in Publishers |-> IF p \in waiting THEN {} ELSE wire[p]]
  /\ channel' = [p \in Publishers |->
                   IF p \in waiting THEN "none"
                   ELSE IF channel[p] = "open" THEN "closed" ELSE channel[p]]
  /\ CloseChannels(Workers)
  /\ mode' = [w \in Workers |-> LoseChannel(w)]
  /\ batch' = [w \in Workers |-> IF mode[w] = "stopping" THEN {} ELSE batch[w]]
  /\ timer' = [w \in Workers |-> timer[w] /\ mode[w] # "stopping"]
  /\ inflight' = [w \in Workers |-> IF mode[w] = "stopping" THEN {} ELSE inflight[w]]
  /\ awaited' = [w \in Workers |-> {}]
  /\ UNCHANGED <<tableVars, clicks, announced, logged>>

RelayStep == RelayNext /\ UNCHANGED <<workerVars, logged>>
WorkerStep == WorkerNext /\ UNCHANGED <<relayVars, logged>>
InspectorStep == \E m \in dlq : InspectDeadLetter(m) \/ InspectorDies(m)

Next == RelayStep \/ WorkerStep \/ InspectorStep \/ BrokerRestart

Spec == Init /\ [][Next]_vars

(* What the runtime keeps doing: deadlines pass, the publisher loop and    *)
(* the event loops run, restart policies bring processes back.  Clicks,    *)
(* failures, stops and purges are not promised.                            *)
Fairness ==
  /\ \A e \in Events :
       WF_vars(BackoffElapses(e) /\ UNCHANGED <<workerVars, logged>>)
  /\ \A p \in Publishers :
       WF_vars(PublisherProgress(p) /\ UNCHANGED <<workerVars, logged>>)
  /\ \A w \in Workers :
       WF_vars(WorkerProgress(w) /\ UNCHANGED <<relayVars, logged>>)
  /\ WF_vars(\E m \in dlq : InspectDeadLetter(m))

FairSpec == Spec /\ Fairness
-----------------------------------------------------------------------------
(* Clicks whose outbox INSERT has committed.                               *)
Accepted == {e \in Events : row[e] \notin {"absent", "lost"}}

(* Copies the broker has taken and nobody has acknowledged, and the        *)
(* evidence of the dead letters.                                           *)
Kept == queue \cup Unacked \cup dlq \cup logged

(* The click of row e is in somebody's hands: a copy is kept, or the click *)
(* is in click_events.                                                     *)
InCustody(e) == e \in EventsOf(Kept) \/ clicks[e] > 0

(* Nothing is lost after the INSERT commits (migration 002, milestone 10): *)
(* a row counts as published only once its click is in custody, and stays  *)
(* so whatever crashes, restarts or is purged afterwards.                  *)
NoClickLost ==
  \A e \in Rows("published") \cup Rows("purged") : InCustody(e)

(* Manual acks (milestone 11): a copy disappears from analytics.clicks     *)
(* only when its click is stored or it moves to the dead-letter queue.     *)
AckedOnlyWhenSettled ==
  [][\A m \in queue \cup Unacked :
       m \in (queue \cup Unacked)' \/ clicks'[m.event] > 0 \/ m \in dlq']_vars

(* "First delivery -> requeue, redelivery -> DLQ": a copy is dead-lettered *)
(* only if its payload is malformed or it has already been given back once.*)
DeadLetterJustified ==
  \A m \in dlq \cup logged : m.event \in Malformed \/ m \in redelivered

(* Each publication is one copy and has one place: the attempts bump of    *)
(* the claim makes the header unique, and no handler both settles and      *)
(* requeues a delivery.                                                    *)
OnePlacePerCopy ==
  /\ queue \cap Unacked = {}
  /\ (queue \cup Unacked) \cap (dlq \cup logged) = {}
  /\ \A v, w \in Workers : v # w => unacked[v] \cap unacked[w] = {}
  /\ \A p \in Publishers :
       wire[p] \cap (queue \cup Unacked \cup dlq \cup logged) = {}

(* A worker remembers every delivery it has not answered, in its batch or  *)
(* in one flush: a forgotten one would hold a prefetch slot for ever.      *)
NoForgottenDelivery ==
  \A w \in Workers : Consuming(w) =>
    /\ unacked[w] = batch[w] \cup UNION {f.copies : f \in inflight[w]}
    /\ \A f \in inflight[w] : f.copies \cap batch[w] = {}
    /\ \A f, g \in inflight[w] : f # g => f.copies \cap g.copies = {}

(* A partial batch is always going to be flushed: whoever pushes the first *)
(* copy arms the timer, and a flush disarms it only as it takes the batch. *)
NoStrandedBatch ==
  \A w \in Workers : batch[w] # {} => timer[w]

(* An SSE client that re-reads the statistics on an announcement sees the  *)
(* click: announcements follow the commit (click-event-architecture 484).  *)
AnnouncedAfterStored ==
  \A e \in announced : clicks[e] > 0

(* Every committed outbox row is eventually counted, or logged as a dead   *)
(* letter, once things stop going wrong.                                   *)
EventuallySettled ==
  \A e \in Events :
    row[e] = "pending" ~> clicks[e] > 0 \/ e \in EventsOf(logged)

(* ... and its row is eventually marked, so that the outbox drains.        *)
EventuallyMarked ==
  \A e \in Events : row[e] = "pending" ~> row[e] \in {"published", "purged"}

-----------------------------------------------------------------------------
(* The inductive invariant behind NoClickLost, OnePlacePerCopy,            *)
(* NoForgottenDelivery and DeliverySpec.                                   *)

(* A publisher holds copies only while publishBatch runs, has copies on    *)
(* the wire only while it awaits confirms, and what is off the wire is in  *)
(* the broker's custody: that is what entitles it to mark the rows.        *)
ConfirmedInCustody ==
  \A p \in Publishers :
    /\ pc[p] = "idle" => held[p] = {}
    /\ pc[p] # "awaiting" => wire[p] = {}
    /\ \A m \in held[p] \ wire[p] : InCustody(m.event)

(* Copies a worker process has in its memory.                              *)
InMemory(w) == batch[w] \cup UNION {f.copies : f \in inflight[w]}

(* Whatever travels stems from a committed row; only pending rows are due. *)
OnlyAcceptedTravel ==
  /\ due \subseteq Rows("pending")
  /\ \A m \in Kept : m.event \in Accepted
  /\ \A p \in Publishers : \A m \in held[p] \cup wire[p] : m.event \in Accepted
  /\ \A w \in Workers : \A m \in InMemory(w) : m.event \in Accepted \ Malformed

(* A flush is ready to acknowledge only clicks that are stored.            *)
InsertedAreStored ==
  \A w \in Workers : \A f \in inflight[w] :
    f.inserted => \A m \in f.copies : clicks[m.event] > 0

(* No copy carries a number the attempts column has not reached, so that   *)
(* the next claim makes a new copy.                                        *)
NumberedByClaim ==
  /\ \A m \in Kept : m.attempt <= attempts[m.event]
  /\ \A p \in Publishers : \A m \in wire[p] : m.attempt <= attempts[m.event]

(* One publisher claims a row at a time.                                   *)
WiresApart ==
  \A p, q \in Publishers : p # q => wire[p] \cap wire[q] = {}

(* The broker waits for no answer on a channel that is gone, and a process *)
(* that is gone remembers nothing.                                         *)
GoneHoldNothing ==
  \A w \in Workers :
    /\ ~Consuming(w) => unacked[w] = {}
    /\ mode[w] = "down" => batch[w] = {} /\ inflight[w] = {}

(* Where each copy is, and what keeps it from being in two places.         *)
PlacesInv ==
  /\ TypeOK
  /\ OnePlacePerCopy
  /\ NoForgottenDelivery
  /\ NumberedByClaim
  /\ WiresApart
  /\ GoneHoldNothing

(* The types, no lost click, each copy in its place, and what the          *)
(* processes rely on for that.                                             *)
IInv ==
  /\ TypeOK
  /\ NoClickLost
  /\ ConfirmedInCustody
  /\ OnlyAcceptedTravel
  /\ InsertedAreStored
  /\ PlacesInv

-----------------------------------------------------------------------------
(* What the pipeline promises, and how its state maps to it.               *)
Buried == EventsOf(dlq \cup logged)

Delivery == INSTANCE ClickDelivery WITH
  accepted <- Accepted, counted <- clicks, buried <- Buried

(* Outbox, broker and worker deliver as ClickDelivery promises: a click is*)
(* counted at most once and only if accepted, and no outcome is taken back.*)
DeliverySpec == Delivery!Spec
=============================================================================
