---------------------------- MODULE OutboxRelay ----------------------------
(***************************************************************************)
(* The transactional outbox and its relay: OutboxClickEmitter appends a    *)
(* row per click (outbox-emitter.ts), publishers claim due rows, publish   *)
(* them with publisher confirms and mark them published                    *)
(* (outbox-repository.ts, workers/publisher.ts), and the purge scheduler   *)
(* deletes old published rows (server.ts).                                 *)
(*                                                                         *)
(* Time: next_attempt_at is a deadline, and `due` holds the rows whose     *)
(* deadline has passed.  The backoff's length is left out: nothing bounds  *)
(* how long a publisher takes, so any claim may outlive its backoff.       *)
(***************************************************************************)
EXTENDS EventBroker

CONSTANTS
  Publishers,   (* publisher processes                                     *)
  ClaimLimit    (* CLAIM_LIMIT                                             *)

ASSUME ClaimLimitPositive == ClaimLimit \in Nat \ {0}

VARIABLES
  row,       (* per event: its outbox row                                  *)
  attempts,  (* per event: the row's attempts column                       *)
  due,       (* pending rows with next_attempt_at NULL or in the past      *)
  pc,        (* per publisher: where publishBatch is suspended             *)
  channel,   (* per publisher: its confirm channel                         *)
  held,      (* per publisher: copies of the rows it claimed               *)
  wire       (* per publisher: copies sent and not yet confirmed           *)

tableVars == <<row, attempts, due>>
publisherVars == <<pc, channel, held, wire>>
relayVars == <<row, attempts, due, pc, channel, held, wire>>

RowStates == {"absent", "lost", "pending", "published", "purged"}

RelayTypeOK ==
  /\ row \in [Events -> RowStates]
  /\ attempts \in [Events -> Nat]
  /\ due \subseteq Events
  /\ pc \in [Publishers -> {"idle", "awaiting", "marking"}]
  /\ channel \in [Publishers -> {"none", "open", "closed"}]
  /\ held \in [Publishers -> SUBSET Messages]
  /\ wire \in [Publishers -> SUBSET Messages]

RelayInit ==
  /\ row = [e \in Events |-> "absent"]
  /\ attempts = [e \in Events |-> 0]
  /\ due = {}
  /\ pc = [p \in Publishers |-> "idle"]
  /\ channel = [p \in Publishers |-> "none"]
  /\ held = [p \in Publishers |-> {}]
  /\ wire = [p \in Publishers |-> {}]

Rows(state) == {e \in Events : row[e] = state}

(* The INSERT commits: from here on the click must not be lost.            *)
Append(e) ==
  /\ row[e] = "absent"
  /\ row' = [row EXCEPT ![e] = "pending"]
  /\ due' = due \cup {e}
  /\ UNCHANGED <<attempts, publisherVars, brokerVars, disruptions>>

(* The fire-and-forget INSERT fails or dies with the API process: the      *)
(* redirect was served, the click is lost and nobody retries.              *)
AppendFails(e) ==
  /\ row[e] = "absent"
  /\ Disrupt
  /\ row' = [row EXCEPT ![e] = "lost"]
  /\ UNCHANGED <<attempts, due, publisherVars, brokerVars>>

(* Mutant of BackoffElapses: a row is given up after its first attempt.    *)
BackoffGivesUp(e) ==
  /\ row[e] = "pending"
  /\ e \notin due
  /\ attempts[e] = 0
  /\ due' = due \cup {e}
  /\ UNCHANGED <<row, attempts, publisherVars, brokerVars, disruptions>>

(* next_attempt_at passes while the row is still pending.                  *)
BackoffElapses(e) ==
  /\ row[e] = "pending"
  /\ e \notin due
  /\ due' = due \cup {e}
  /\ UNCHANGED <<row, attempts, publisherVars, brokerVars, disruptions>>

(* ORDER BY id LIMIT n: the due rows with fewer than n due rows before.    *)
ClaimableRows ==
  {e \in due : Cardinality({d \in due : d < e}) < ClaimLimit}

(* Mutant of ClaimBatch: the claim moves the deadline, not the attempts.   *)
ClaimWithoutBump ==
  /\ ClaimableRows # {}
  /\ due' = due \ ClaimableRows
  /\ UNCHANGED <<row, attempts>>

(* The claim transaction: attempts + 1 and a deadline in the future.       *)
ClaimBatch ==
  /\ ClaimableRows # {}
  /\ attempts' = [e \in Events |-> IF e \in ClaimableRows THEN attempts[e] + 1
                                                         ELSE attempts[e]]
  /\ due' = due \ ClaimableRows
  /\ UNCHANGED row

(* A connected publisher claims a batch and writes every row to the        *)
(* channel, then waits for the confirms.                                   *)
PublishBatch(p) ==
  LET copies == {[event |-> e, attempt |-> attempts[e] + 1] : e \in ClaimableRows}
  IN
  /\ pc[p] = "idle" /\ channel[p] = "open"
  /\ ClaimBatch
  /\ pc' = [pc EXCEPT ![p] = "awaiting"]
  /\ held' = [held EXCEPT ![p] = copies]
  /\ wire' = [wire EXCEPT ![p] = copies]
  /\ UNCHANGED <<channel, brokerVars, disruptions>>

(* The channel was closed by the broker since the last batch, which the    *)
(* loop only learns from channel.publish: after the claim has committed.   *)
PublishOnClosedChannel(p) ==
  /\ pc[p] = "idle" /\ channel[p] = "closed"
  /\ ClaimBatch
  /\ channel' = [channel EXCEPT ![p] = "none"]
  /\ UNCHANGED <<pc, held, wire, brokerVars, disruptions>>

(* The broker stores copy m and confirms it.                               *)
BrokerAccepts(p, m) ==
  /\ m \in wire[p]
  /\ Accept(m)
  /\ wire' = [wire EXCEPT ![p] = @ \ {m}]
  /\ UNCHANGED <<tableVars, pc, channel, held, disruptions>>

(* Mutant of ConfirmsArrive: waitForConfirms is not awaited.               *)
ConfirmsNotAwaited(p) ==
  /\ pc[p] = "awaiting"
  /\ pc' = [pc EXCEPT ![p] = "marking"]
  /\ UNCHANGED <<tableVars, channel, held, wire, brokerVars, disruptions>>

(* waitForConfirms resolves.                                               *)
ConfirmsArrive(p) ==
  /\ pc[p] = "awaiting" /\ wire[p] = {}
  /\ pc' = [pc EXCEPT ![p] = "marking"]
  /\ UNCHANGED <<tableVars, channel, held, wire, brokerVars, disruptions>>

(* UPDATE ... SET published_at WHERE id IN ids: whatever the row's state,  *)
(* except that a purged row is no longer there.                            *)
MarkPublishedBatch(p) ==
  /\ pc[p] = "marking"
  /\ row' = [e \in Events |-> IF e \in EventsOf(held[p]) /\ row[e] # "purged"
                              THEN "published" ELSE row[e]]
  /\ due' = due \ EventsOf(held[p])
  /\ pc' = [pc EXCEPT ![p] = "idle"]
  /\ held' = [held EXCEPT ![p] = {}]
  /\ UNCHANGED <<attempts, channel, wire, brokerVars, disruptions>>

(* publishBatch forgets its batch and the loop drops the connection.       *)
Abandon(p) ==
  /\ pc' = [pc EXCEPT ![p] = "idle"]
  /\ channel' = [channel EXCEPT ![p] = "none"]
  /\ held' = [held EXCEPT ![p] = {}]
  /\ wire' = [wire EXCEPT ![p] = {}]

(* An error (nack, lost connection, database) or the end of the process,   *)
(* at any point: the claimed rows are left to their backoff.               *)
PublisherFails(p) ==
  /\ channel[p] # "none"
  /\ Disrupt
  /\ Abandon(p)
  /\ UNCHANGED <<tableVars, brokerVars>>

Connect(p) ==
  /\ pc[p] = "idle" /\ channel[p] = "none"
  /\ channel' = [channel EXCEPT ![p] = "open"]
  /\ UNCHANGED <<tableVars, pc, held, wire, brokerVars, disruptions>>

(* DELETE ... WHERE published_at <= cutoff: any published row may be old.  *)
PurgePublished ==
  \E old \in SUBSET Rows("published") \ {{}} :
    /\ row' = [e \in Events |-> IF e \in old THEN "purged" ELSE row[e]]
    /\ UNCHANGED <<attempts, due, publisherVars, brokerVars, disruptions>>

PublisherProgress(p) ==
  \/ Connect(p)
  \/ PublishBatch(p)
  \/ PublishOnClosedChannel(p)
  \/ \E m \in wire[p] : BrokerAccepts(p, m)
  \/ ConfirmsArrive(p)
  \/ MarkPublishedBatch(p)

RelayNext ==
  \/ \E e \in Events : Append(e) \/ AppendFails(e) \/ BackoffElapses(e)
  \/ \E p \in Publishers : PublisherProgress(p) \/ PublisherFails(p)
  \/ PurgePublished
=============================================================================
