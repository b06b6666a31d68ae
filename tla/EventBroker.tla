---------------------------- MODULE EventBroker ----------------------------
(***************************************************************************)
(* RabbitMQ as rabbitmq/connection.ts declares it and as the publisher,    *)
(* the analytics worker and the DLQ inspector use it: the durable queue    *)
(* analytics.clicks, the copies delivered to a worker and not yet          *)
(* acknowledged, and the dead-letter queue analytics.clicks.dlq.           *)
(*                                                                         *)
(* A copy of an event is identified by the `attempts` header the publisher *)
(* puts on it: the claim that precedes a publication increments it, so two *)
(* publications of one outbox row are two copies.  Order inside the queue  *)
(* is left out: nothing downstream depends on it.                          *)
(***************************************************************************)
EXTENDS Naturals, FiniteSets

CONSTANTS
  Events,          (* outbox row ids; each stands for one click            *)
  Workers,         (* analytics worker processes                           *)
  Prefetch,        (* PREFETCH: unacknowledged copies per worker           *)
  MaxDisruptions   (* bound: crashes, errors, stops and broker restarts    *)

ASSUME EventsAreIds == Events \subseteq Nat
ASSUME PrefetchPositive == Prefetch \in Nat \ {0}
ASSUME MaxDisruptionsNat == MaxDisruptions \in Nat

VARIABLES
  queue,        (* copies ready for delivery                               *)
  unacked,      (* per worker: copies delivered, neither acked nor nacked  *)
  redelivered,  (* copies whose next delivery carries fields.redelivered   *)
  dlq,          (* copies in the dead-letter queue                         *)
  disruptions   (* disruptions so far                                      *)

brokerVars == <<queue, unacked, redelivered, dlq>>

Messages == [event : Events, attempt : Nat]
EventsOf(S) == {m.event : m \in S}
Unacked == UNION {unacked[w] : w \in Workers}

BrokerTypeOK ==
  /\ queue \subseteq Messages
  /\ unacked \in [Workers -> SUBSET Messages]
  /\ redelivered \subseteq Messages
  /\ dlq \subseteq Messages
  /\ disruptions \in 0..MaxDisruptions

BrokerInit ==
  /\ queue = {}
  /\ unacked = [w \in Workers |-> {}]
  /\ redelivered = {}
  /\ dlq = {}
  /\ disruptions = 0

(* One more thing goes wrong, or is stopped by an operator.                *)
Disrupt ==
  /\ disruptions < MaxDisruptions
  /\ disruptions' = disruptions + 1

(* The durable queue takes responsibility for copy m.                      *)
Accept(m) ==
  /\ queue' = queue \cup {m}
  /\ UNCHANGED <<unacked, redelivered, dlq>>

(* Worker w's prefetch window has room for one more copy from the queue.   *)
Deliverable(w, m) ==
  /\ m \in queue
  /\ Cardinality(unacked[w]) < Prefetch

(* channel.ack, channel.nack(requeue) and channel.reject(no requeue) of    *)
(* copies worker w holds.  A requeued copy comes back flagged redelivered; *)
(* a rejected one moves to the DLQ through the dead-letter exchange.       *)
Settle(w, acked, requeued, rejected) ==
  /\ unacked' = [unacked EXCEPT ![w] = @ \ (acked \cup requeued \cup rejected)]
  /\ queue' = queue \cup requeued
  /\ redelivered' = redelivered \cup requeued
  /\ dlq' = dlq \cup rejected

(* The channels of the workers in W close: the broker requeues what they   *)
(* had not acknowledged.                                                   *)
CloseChannels(W) ==
  LET returned == UNION {unacked[w] : w \in W} IN
  /\ unacked' = [w \in Workers |-> IF w \in W THEN {} ELSE unacked[w]]
  /\ queue' = queue \cup returned
  /\ redelivered' = redelivered \cup returned
  /\ dlq' = dlq
=============================================================================
