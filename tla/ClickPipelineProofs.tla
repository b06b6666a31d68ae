------------------------ MODULE ClickPipelineProofs ------------------------
(***************************************************************************)
(* Proofs about ClickPipeline for any number of clicks, publishers,        *)
(* workers and disruptions, any batch sizes and any prefetch window: types,*)
(* armed timers, justified dead letters, and one place for every copy;     *)
(* then its inductive invariant, and with it that no committed click is    *)
(* lost, that a copy is acknowledged only once its click is settled, and   *)
(* that the pipeline implements ClickDelivery.                             *)
(***************************************************************************)
EXTENDS ClickPipeline, TLAPS

(* The state variables keep their types.                                   *)
LEMMA TypeInit == Init => TypeOK
BY MaxDisruptionsNat, SMT
DEF Init, BrokerInit, RelayInit, WorkerInit, TypeOK, BrokerTypeOK, RelayTypeOK,
    WorkerTypeOK, RowStates

(* Kept and settled copies are copies.                                     *)
LEMMA CloseChannelsTyped ==
  ASSUME TypeOK, NEW W \in SUBSET Workers, CloseChannels(W)
  PROVE  /\ queue' \subseteq Messages
         /\ unacked' \in [Workers -> SUBSET Messages]
         /\ redelivered' \subseteq Messages
         /\ dlq' \subseteq Messages
BY SMT DEF TypeOK, BrokerTypeOK, CloseChannels

LEMMA SettleTyped ==
  ASSUME TypeOK, NEW w \in Workers,
         NEW a \in SUBSET Messages, NEW r \in SUBSET Messages,
         NEW d \in SUBSET Messages, Settle(w, a, r, d)
  PROVE  /\ queue' \subseteq Messages
         /\ unacked' \in [Workers -> SUBSET Messages]
         /\ redelivered' \subseteq Messages
         /\ dlq' \subseteq Messages
BY SMT DEF TypeOK, BrokerTypeOK, Settle

LEMMA StartFlushTyped ==
  ASSUME TypeOK, NEW w \in Workers, NEW c \in SUBSET Messages, StartFlush(w, c)
  PROVE  /\ timer' \in [Workers -> BOOLEAN]
         /\ batch' \in [Workers -> SUBSET Messages]
         /\ inflight' \in [Workers -> SUBSET Flush]
<1>1. {[copies |-> x, inserted |-> FALSE] : x \in {c} \ {{}}} \subseteq Flush
  <2>1. [copies |-> c, inserted |-> FALSE] \in Flush
    BY DEF Flush
  <2>2. QED BY <2>1
<1>2. inflight' \in [Workers -> SUBSET Flush]
  BY <1>1, SMT DEF TypeOK, WorkerTypeOK, StartFlush
<1>3. QED
  BY <1>2, SMT DEF TypeOK, WorkerTypeOK, StartFlush

LEMMA DisruptTyped ==
  ASSUME TypeOK, Disrupt PROVE disruptions' \in 0..MaxDisruptions
BY MaxDisruptionsNat, SMT DEF TypeOK, BrokerTypeOK, Disrupt

LEMMA ExitTyped ==
  ASSUME TypeOK, NEW w \in Workers, Exit(w)
  PROVE  /\ mode' \in [Workers -> {"down", "running", "stopping", "deaf"}]
         /\ batch' \in [Workers -> SUBSET Messages]
         /\ timer' \in [Workers -> BOOLEAN]
         /\ inflight' \in [Workers -> SUBSET Flush]
         /\ awaited' \in [Workers -> SUBSET Messages]
         /\ queue' \subseteq Messages
         /\ unacked' \in [Workers -> SUBSET Messages]
         /\ redelivered' \subseteq Messages
         /\ dlq' \subseteq Messages
<1>1. CloseChannels({w}) BY DEF Exit
<1>2. {w} \in SUBSET Workers OBVIOUS
<1>3. /\ queue' \subseteq Messages
      /\ unacked' \in [Workers -> SUBSET Messages]
      /\ redelivered' \subseteq Messages
      /\ dlq' \subseteq Messages
  BY <1>1, <1>2, CloseChannelsTyped
<1>4. /\ mode' \in [Workers -> {"down", "running", "stopping", "deaf"}]
      /\ timer' \in [Workers -> BOOLEAN]
  BY SMT DEF Exit, TypeOK, WorkerTypeOK
<1>5. /\ batch' \in [Workers -> SUBSET Messages]
      /\ inflight' \in [Workers -> SUBSET Flush]
      /\ awaited' \in [Workers -> SUBSET Messages]
  BY SMT DEF Exit, TypeOK, WorkerTypeOK
<1>6. QED BY <1>3, <1>4, <1>5

-----------------------------------------------------------------------------
(* Every step of the outbox, the publishers and the purge keeps the types. *)
LEMMA ClaimTyped ==
  ASSUME TypeOK, ClaimBatch
  PROVE  /\ row' \in [Events -> RowStates]
         /\ attempts' \in [Events -> Nat]
         /\ due' \subseteq Events
         /\ \A e \in ClaimableRows :
              [event |-> e, attempt |-> attempts[e] + 1] \in Messages
BY SMT DEF TypeOK, RelayTypeOK, ClaimBatch, ClaimableRows, Messages

LEMMA RelayTyped ==
  ASSUME TypeOK, RelayStep
  PROVE  TypeOK'
<1> USE DEF TypeOK, RelayTypeOK
<1>1. workerVars' = workerVars /\ logged' = logged
  BY DEF RelayStep
<1>2. WorkerTypeOK' /\ logged' \subseteq Messages
  BY <1>1 DEF WorkerTypeOK, workerVars
<1>3. SUFFICES BrokerTypeOK' /\ RelayTypeOK'
  BY <1>2
<1>4. ASSUME NEW e \in Events, Append(e) PROVE BrokerTypeOK' /\ RelayTypeOK'
  BY <1>4, SMT DEF Append, publisherVars, brokerVars, BrokerTypeOK, RowStates
<1>5. ASSUME NEW e \in Events, AppendFails(e) PROVE BrokerTypeOK' /\ RelayTypeOK'
  <2>1. disruptions' \in 0..MaxDisruptions
    BY <1>5, DisruptTyped DEF AppendFails
  <2>2. QED
    BY <1>5, <2>1, SMT DEF AppendFails, publisherVars, brokerVars, BrokerTypeOK,
                           RowStates
<1>6. ASSUME NEW e \in Events, BackoffElapses(e)
      PROVE  BrokerTypeOK' /\ RelayTypeOK'
  BY <1>6, SMT DEF BackoffElapses, publisherVars, brokerVars, BrokerTypeOK
<1>7. ASSUME NEW p \in Publishers, PublishBatch(p)
      PROVE  BrokerTypeOK' /\ RelayTypeOK'
  <2> DEFINE copies ==
        {[event |-> e, attempt |-> attempts[e] + 1] : e \in ClaimableRows}
  <2>1. /\ row' \in [Events -> RowStates]
        /\ attempts' \in [Events -> Nat]
        /\ due' \subseteq Events
        /\ copies \in SUBSET Messages
    BY <1>7, ClaimTyped DEF PublishBatch
  <2>2. /\ held' = [held EXCEPT ![p] = copies]
        /\ wire' = [wire EXCEPT ![p] = copies]
        /\ pc' = [pc EXCEPT ![p] = "awaiting"]
        /\ UNCHANGED <<channel, queue, unacked, redelivered, dlq, disruptions>>
    BY <1>7 DEF PublishBatch, brokerVars
  <2> HIDE DEF copies
  <2>3. QED
    BY <2>1, <2>2, SMT DEF BrokerTypeOK
<1>8. ASSUME NEW p \in Publishers, PublishOnClosedChannel(p)
      PROVE  BrokerTypeOK' /\ RelayTypeOK'
  <2>1. /\ row' \in [Events -> RowStates]
        /\ attempts' \in [Events -> Nat]
        /\ due' \subseteq Events
    BY <1>8, ClaimTyped DEF PublishOnClosedChannel
  <2>2. QED
    BY <1>8, <2>1, SMT DEF PublishOnClosedChannel, brokerVars, BrokerTypeOK
<1>9. ASSUME NEW p \in Publishers, NEW m \in wire[p], BrokerAccepts(p, m)
      PROVE  BrokerTypeOK' /\ RelayTypeOK'
  BY <1>9, SMT DEF BrokerAccepts, Accept, tableVars, BrokerTypeOK
<1>10. ASSUME NEW p \in Publishers, ConfirmsArrive(p)
       PROVE  BrokerTypeOK' /\ RelayTypeOK'
  BY <1>10, SMT DEF ConfirmsArrive, tableVars, brokerVars, BrokerTypeOK
<1>11. ASSUME NEW p \in Publishers, MarkPublishedBatch(p)
       PROVE  BrokerTypeOK' /\ RelayTypeOK'
  <2>1. row' \in [Events -> RowStates]
    BY <1>11, SMT DEF MarkPublishedBatch, RowStates
  <2>2. QED
    BY <1>11, <2>1, SMT DEF MarkPublishedBatch, brokerVars, BrokerTypeOK
<1>12. ASSUME NEW p \in Publishers, PublisherFails(p)
       PROVE  BrokerTypeOK' /\ RelayTypeOK'
  <2>1. disruptions' \in 0..MaxDisruptions
    BY <1>12, DisruptTyped DEF PublisherFails
  <2>2. QED
    BY <1>12, <2>1, SMT DEF PublisherFails, Abandon, tableVars, brokerVars, BrokerTypeOK
<1>13. ASSUME NEW p \in Publishers, Connect(p)
       PROVE  BrokerTypeOK' /\ RelayTypeOK'
  BY <1>13, SMT DEF Connect, tableVars, brokerVars, BrokerTypeOK
<1>14. ASSUME PurgePublished PROVE BrokerTypeOK' /\ RelayTypeOK'
  <2>1. row' \in [Events -> RowStates]
    BY <1>14, SMT DEF PurgePublished, RowStates
  <2>2. QED
    BY <1>14, <2>1 DEF PurgePublished, publisherVars, brokerVars, BrokerTypeOK
<1>15. QED
  BY <1>4, <1>5, <1>6, <1>7, <1>8, <1>9, <1>10, <1>11, <1>12, <1>13, <1>14
  DEF RelayStep, RelayNext, PublisherProgress

-----------------------------------------------------------------------------
(* Every step of a worker keeps the types.                                 *)
LEMMA WorkerTyped ==
  ASSUME TypeOK, WorkerStep
  PROVE  TypeOK'
<1> USE DEF TypeOK, WorkerTypeOK
<1>1. relayVars' = relayVars /\ logged' = logged
  BY DEF WorkerStep
<1>2. RelayTypeOK' /\ logged' \subseteq Messages
  BY <1>1 DEF RelayTypeOK, relayVars
<1>3. SUFFICES BrokerTypeOK' /\ WorkerTypeOK'
  BY <1>2
<1>4. PICK w \in Workers :
        \/ WorkerProgress(w)
        \/ \E f \in inflight[w] : FlushFails(w, f)
        \/ WorkerCrashes(w)
        \/ StopRequested(w)
  BY DEF WorkerStep, WorkerNext
<1>5. CASE WorkerStart(w)
  BY <1>5, SMT DEF WorkerStart, brokerVars, BrokerTypeOK
<1>6. ASSUME NEW m \in queue, RejectMalformed(w, m)
      PROVE  BrokerTypeOK' /\ WorkerTypeOK'
  BY <1>6, SMT DEF RejectMalformed, workerVars, BrokerTypeOK
<1>7. ASSUME NEW m \in queue, Collect(w, m)
      PROVE  BrokerTypeOK' /\ WorkerTypeOK'
  <2> DEFINE filled == batch[w] \cup {m}
  <2>1. filled \in SUBSET Messages
    BY DEF BrokerTypeOK
  <2>2. /\ timer' \in [Workers -> BOOLEAN]
        /\ batch' \in [Workers -> SUBSET Messages]
        /\ inflight' \in [Workers -> SUBSET Flush]
    <3>1. CASE StartFlush(w, filled)
      BY <2>1, <3>1, StartFlushTyped
    <3>2. CASE /\ batch' = [batch EXCEPT ![w] = filled]
               /\ timer' = [timer EXCEPT ![w] = TRUE]
               /\ UNCHANGED inflight
      BY <2>1, <3>2, SMT
    <3>3. QED
      BY <1>7, <3>1, <3>2 DEF Collect
  <2>3. BrokerTypeOK'
    BY <1>7, SMT DEF Collect, BrokerTypeOK
  <2>4. QED
    BY <1>7, <2>2, <2>3 DEF Collect
<1>8. CASE TimerFires(w)
  <2>1. /\ timer' \in [Workers -> BOOLEAN]
        /\ batch' \in [Workers -> SUBSET Messages]
        /\ inflight' \in [Workers -> SUBSET Flush]
    BY <1>8, StartFlushTyped DEF TimerFires
  <2>2. QED
    BY <1>8, <2>1 DEF TimerFires, brokerVars, BrokerTypeOK
<1>9. ASSUME NEW f \in inflight[w]
       PROVE  f.copies \in SUBSET Messages /\ f.inserted \in BOOLEAN
  BY DEF Flush
<1>10. ASSUME NEW f \in inflight[w], FlushOver(w, f)
       PROVE  /\ inflight' \in [Workers -> SUBSET Flush]
              /\ awaited' \in [Workers -> SUBSET Messages]
  BY <1>10, SMT DEF FlushOver
<1>11. ASSUME NEW f \in inflight[w], InsertCommits(w, f)
      PROVE  BrokerTypeOK' /\ WorkerTypeOK'
  <2>1. [copies |-> f.copies, inserted |-> TRUE] \in Flush
    BY <1>9 DEF Flush
  <2> DEFINE after == (inflight[w] \ {f}) \cup {[copies |-> f.copies, inserted |-> TRUE]}
  <2>2. inflight' \in [Workers -> SUBSET Flush]
    <3>1. after \in SUBSET Flush
      BY <2>1
    <3>2. inflight' = [inflight EXCEPT ![w] = after]
      BY <1>11 DEF InsertCommits
    <3> HIDE DEF after
    <3>3. QED
      BY <3>1, <3>2, SMT
  <2>3. clicks' \in [Events -> {0, 1}]
    BY <1>11, SMT DEF InsertCommits
  <2>4. QED
    BY <1>11, <2>2, <2>3 DEF InsertCommits, brokerVars, BrokerTypeOK
<1>12. ASSUME NEW f \in inflight[w]
       PROVE  EventsOf(f.copies) \subseteq Events
  BY <1>9 DEF EventsOf, Messages
<1>13. ASSUME NEW f \in inflight[w], FlushSucceeds(w, f)
       PROVE  BrokerTypeOK' /\ WorkerTypeOK'
  <2>1. /\ queue' \subseteq Messages
        /\ unacked' \in [Workers -> SUBSET Messages]
        /\ redelivered' \subseteq Messages
        /\ dlq' \subseteq Messages
    <3>1. Settle(w, f.copies, {}, {})
      BY <1>13 DEF FlushSucceeds
    <3>2. {} \in SUBSET Messages
      OBVIOUS
    <3>3. QED
      BY <1>9, <3>1, <3>2, SettleTyped
  <2>2. QED
    BY <1>10, <1>12, <1>13, <2>1 DEF FlushSucceeds, BrokerTypeOK
<1>14. ASSUME NEW f \in inflight[w], FlushFails(w, f)
       PROVE  BrokerTypeOK' /\ WorkerTypeOK'
  <2>1. /\ queue' \subseteq Messages
        /\ unacked' \in [Workers -> SUBSET Messages]
        /\ redelivered' \subseteq Messages
        /\ dlq' \subseteq Messages
    <3>1. /\ f.copies \ (f.copies \cap redelivered) \in SUBSET Messages
          /\ f.copies \cap redelivered \in SUBSET Messages
      BY <1>9
    <3>2. QED
      BY <1>14, <3>1, SettleTyped DEF FlushFails
  <2>2. disruptions' \in 0..MaxDisruptions
    BY <1>14, DisruptTyped DEF FlushFails
  <2>3. QED
    BY <1>10, <1>14, <2>1, <2>2 DEF FlushFails, BrokerTypeOK
<1>15. ASSUME NEW f \in inflight[w], DeafFlushEnds(w, f)
       PROVE  BrokerTypeOK' /\ WorkerTypeOK'
  BY <1>12, <1>15, ExitTyped DEF DeafFlushEnds, BrokerTypeOK
<1>16. CASE WorkerCrashes(w)
  BY <1>16, ExitTyped, DisruptTyped DEF WorkerCrashes, BrokerTypeOK
<1>17. CASE StopRequested(w)
  <2>1. disruptions' \in 0..MaxDisruptions
    BY <1>17, DisruptTyped DEF StopRequested
  <2>2. /\ timer' \in [Workers -> BOOLEAN]
        /\ batch' \in [Workers -> SUBSET Messages]
        /\ inflight' \in [Workers -> SUBSET Flush]
    BY <1>17, StartFlushTyped DEF StopRequested
  <2>3. /\ mode' \in [Workers -> {"down", "running", "stopping", "deaf"}]
        /\ awaited' \in [Workers -> SUBSET Messages]
    BY <1>17, SMT DEF StopRequested
  <2>4. QED
    BY <1>17, <2>1, <2>2, <2>3 DEF StopRequested, brokerVars, BrokerTypeOK
<1>18. CASE StopCompletes(w)
  BY <1>18, ExitTyped DEF StopCompletes, BrokerTypeOK
<1>19. QED
  BY <1>4, <1>5, <1>6, <1>7, <1>8, <1>11, <1>13, <1>14, <1>15, <1>16, <1>17, <1>18
  DEF WorkerProgress

(* Inspecting a dead letter and restarting the broker keep the types.      *)
LEMMA InspectorTyped ==
  ASSUME TypeOK, InspectorStep
  PROVE  TypeOK'
<1>1. PICK m \in dlq : InspectDeadLetter(m) \/ InspectorDies(m)
  BY DEF InspectorStep
<1>2. /\ queue' \subseteq Messages
      /\ unacked' \in [Workers -> SUBSET Messages]
      /\ redelivered' \subseteq Messages
      /\ dlq' \subseteq Messages
      /\ logged' \subseteq Messages
  BY <1>1, SMT DEF InspectDeadLetter, InspectorDies, brokerVars, TypeOK, BrokerTypeOK
<1>3. disruptions' \in 0..MaxDisruptions
  BY <1>1, DisruptTyped DEF InspectDeadLetter, InspectorDies, TypeOK, BrokerTypeOK
<1>4. relayVars' = relayVars /\ workerVars' = workerVars
  BY <1>1 DEF InspectDeadLetter, InspectorDies
<1>5. RelayTypeOK'
  BY <1>4 DEF TypeOK, RelayTypeOK, relayVars
<1>6. WorkerTypeOK'
  BY <1>4 DEF TypeOK, WorkerTypeOK, workerVars
<1>7. QED
  BY <1>2, <1>3, <1>5, <1>6 DEF TypeOK, BrokerTypeOK

LEMMA BrokerRestartTyped ==
  ASSUME TypeOK, BrokerRestart
  PROVE  TypeOK'
<1>1. /\ queue' \subseteq Messages
      /\ unacked' \in [Workers -> SUBSET Messages]
      /\ redelivered' \subseteq Messages
      /\ dlq' \subseteq Messages
  BY CloseChannelsTyped DEF BrokerRestart
<1>2. disruptions' \in 0..MaxDisruptions
  BY DisruptTyped DEF BrokerRestart
<1>3. RelayTypeOK'
  BY SMT DEF BrokerRestart, TypeOK, RelayTypeOK, tableVars
<1>4. mode' \in [Workers -> {"down", "running", "stopping", "deaf"}]
  BY SMT DEF BrokerRestart, LoseChannel, TypeOK, WorkerTypeOK
<1>5. /\ batch' \in [Workers -> SUBSET Messages]
      /\ timer' \in [Workers -> BOOLEAN]
      /\ inflight' \in [Workers -> SUBSET Flush]
      /\ awaited' \in [Workers -> SUBSET Messages]
  BY SMT DEF BrokerRestart, TypeOK, WorkerTypeOK
<1>6. QED
  BY <1>1, <1>2, <1>3, <1>4, <1>5
  DEF BrokerRestart, TypeOK, BrokerTypeOK, WorkerTypeOK

LEMMA TypeStutter == TypeOK /\ UNCHANGED vars => TypeOK'
<1> SUFFICES ASSUME TypeOK, UNCHANGED vars PROVE TypeOK'
  OBVIOUS
<1>1. BrokerTypeOK' /\ logged' \subseteq Messages
  BY DEF TypeOK, BrokerTypeOK, vars, brokerVars
<1>2. RelayTypeOK'
  BY DEF TypeOK, RelayTypeOK, vars, relayVars
<1>3. WorkerTypeOK'
  BY DEF TypeOK, WorkerTypeOK, vars, workerVars
<1>4. QED
  BY <1>1, <1>2, <1>3 DEF TypeOK

LEMMA TypeNext == TypeOK /\ [Next]_vars => TypeOK'
BY RelayTyped, WorkerTyped, InspectorTyped, BrokerRestartTyped, TypeStutter DEF Next

(* Type correctness, for every instance of the pipeline.                   *)
THEOREM TypeCorrect == Spec => []TypeOK
BY TypeInit, TypeNext, PTL DEF Spec

-----------------------------------------------------------------------------
(* A partial batch has its timer: every action that fills a batch arms the *)
(* timer, and the actions that disarm it empty the batch.                  *)
LEMMA NoStrandedBatchStep ==
  ASSUME TypeOK, NoStrandedBatch, [Next]_vars
  PROVE  NoStrandedBatch'
<1> DEFINE Armed(w) == batch[w] # {} => timer[w]
<1>1. SUFFICES ASSUME NEW v \in Workers PROVE Armed(v)'
  BY DEF NoStrandedBatch
<1>2. Armed(v)
  BY DEF NoStrandedBatch
<1>3. CASE batch' = batch /\ timer' = timer
  BY <1>2, <1>3
<1>4. ASSUME NEW w \in Workers, NEW c, StartFlush(w, c) PROVE Armed(v)'
  BY <1>2, <1>4, SMT DEF StartFlush, TypeOK, WorkerTypeOK
<1>5. ASSUME NEW w \in Workers, Exit(w) PROVE Armed(v)'
  BY <1>2, <1>5, SMT DEF Exit, TypeOK, WorkerTypeOK
<1>6. ASSUME NEW w \in Workers, NEW m \in queue, Collect(w, m) PROVE Armed(v)'
  <2>1. CASE StartFlush(w, batch[w] \cup {m})
    BY <1>4, <2>1
  <2>2. CASE /\ batch' = [batch EXCEPT ![w] = batch[w] \cup {m}]
             /\ timer' = [timer EXCEPT ![w] = TRUE]
    BY <1>2, <2>2, SMT DEF TypeOK, WorkerTypeOK
  <2>3. QED
    BY <1>6, <2>1, <2>2 DEF Collect
<1> HIDE DEF Armed
<1>7. CASE RelayStep
  BY <1>3, <1>7 DEF RelayStep, workerVars
<1>8. CASE WorkerStep
  <2>1. PICK w \in Workers :
          \/ WorkerProgress(w)
          \/ \E f \in inflight[w] : FlushFails(w, f)
          \/ WorkerCrashes(w)
          \/ StopRequested(w)
    BY <1>8 DEF WorkerStep, WorkerNext
  <2>2. QED
    BY <1>3, <1>4, <1>5, <1>6, <2>1
    DEF WorkerProgress, WorkerStart, RejectMalformed, TimerFires, InsertCommits,
        FlushSucceeds, FlushFails, DeafFlushEnds, WorkerCrashes, StopRequested,
        StopCompletes, workerVars
<1>9. CASE InspectorStep
  BY <1>3, <1>9 DEF InspectorStep, InspectDeadLetter, InspectorDies, workerVars
<1>10. CASE BrokerRestart
  BY <1>2, <1>10, SMT DEF BrokerRestart, Armed, TypeOK, WorkerTypeOK
<1>11. CASE UNCHANGED vars
  BY <1>3, <1>11 DEF vars, workerVars
<1>12. QED
  BY <1>7, <1>8, <1>9, <1>10, <1>11 DEF Next

(* A partial batch is always going to be flushed (NoStrandedBatch).        *)
THEOREM NoStrandedBatchHolds == Spec => []NoStrandedBatch
<1>1. Init => NoStrandedBatch
  BY DEF Init, WorkerInit, NoStrandedBatch
<1>2. QED
  BY <1>1, NoStrandedBatchStep, TypeCorrect, PTL DEF Spec

-----------------------------------------------------------------------------
(* How a step may change what is dead and what is flagged redelivered.     *)
LEMMA DeadLetterStep ==
  ASSUME TypeOK, DeadLetterJustified, [Next]_vars
  PROVE  DeadLetterJustified'
<1> DEFINE Justified(m) == m.event \in Malformed \/ m \in redelivered
           Dead == dlq \cup logged
<1>1. SUFFICES /\ redelivered \subseteq redelivered'
               /\ \A m \in Dead' : m \in Dead \/ Justified(m)
  BY DEF DeadLetterJustified
<1>2. CASE UNCHANGED <<brokerVars, logged>>
  BY <1>2 DEF brokerVars
<1>3. ASSUME NEW W, CloseChannels(W), logged' = logged
      PROVE  redelivered \subseteq redelivered' /\ Dead' = Dead
  BY <1>3 DEF CloseChannels
<1>4. CASE RelayStep
  BY <1>2, <1>4
  DEF RelayStep, RelayNext, PublisherProgress, Append, AppendFails, BackoffElapses,
      Connect, PublishBatch, PublishOnClosedChannel, BrokerAccepts, Accept,
      ConfirmsArrive, MarkPublishedBatch, PublisherFails, PurgePublished
<1>5. CASE WorkerStep
  <2>1. PICK w \in Workers :
          \/ WorkerProgress(w)
          \/ \E f \in inflight[w] : FlushFails(w, f)
          \/ WorkerCrashes(w)
          \/ StopRequested(w)
    BY <1>5 DEF WorkerStep, WorkerNext
  <2>2. logged' = logged
    BY <1>5 DEF WorkerStep
  <2>3. ASSUME NEW m \in queue, RejectMalformed(w, m) \/ Collect(w, m)
        PROVE  /\ redelivered \subseteq redelivered'
               /\ \A x \in Dead' : x \in Dead \/ Justified(x)
    BY <2>2, <2>3 DEF RejectMalformed, Collect
  <2>4. ASSUME NEW f \in inflight[w], FlushSucceeds(w, f) \/ FlushFails(w, f)
        PROVE  /\ redelivered \subseteq redelivered'
               /\ \A x \in Dead' : x \in Dead \/ Justified(x)
    BY <2>2, <2>4 DEF FlushSucceeds, FlushFails, Settle
  <2>5. CASE Exit(w)
    BY <1>3, <2>2, <2>5 DEF Exit
  <2>6. CASE UNCHANGED brokerVars
    BY <1>2, <2>2, <2>6
  <2>7. QED
    BY <2>1, <2>3, <2>4, <2>5, <2>6
    DEF WorkerProgress, WorkerStart, TimerFires, InsertCommits, DeafFlushEnds,
        StopCompletes, WorkerCrashes, StopRequested
<1>6. CASE InspectorStep
  BY <1>6 DEF InspectorStep, InspectDeadLetter, InspectorDies, brokerVars
<1>7. CASE BrokerRestart
  BY <1>3, <1>7 DEF BrokerRestart
<1>8. CASE UNCHANGED vars
  BY <1>2, <1>8 DEF vars
<1>9. QED
  BY <1>4, <1>5, <1>6, <1>7, <1>8 DEF Next

(* A copy is dead-lettered only if it is malformed or was given back once  *)
(* before (DeadLetterJustified).                                           *)
THEOREM DeadLetterJustifiedHolds == Spec => []DeadLetterJustified
<1>1. Init => DeadLetterJustified
  BY DEF Init, BrokerInit, DeadLetterJustified
<1>2. QED
  BY <1>1, DeadLetterStep, TypeCorrect, PTL DEF Spec

-----------------------------------------------------------------------------
(* The places of a copy, two by two.                                       *)
Dead == dlq \cup logged

Apart ==
  /\ queue \cap Dead = {}
  /\ \A w \in Workers : unacked[w] \cap (queue \cup Dead) = {}
  /\ \A v, w \in Workers : v # w => unacked[v] \cap unacked[w] = {}
  /\ \A p \in Publishers : wire[p] \cap (queue \cup Dead) = {}
  /\ \A p \in Publishers, w \in Workers : wire[p] \cap unacked[w] = {}
  /\ \A p, q \in Publishers : p # q => wire[p] \cap wire[q] = {}

LEMMA PlacesAreApart == OnePlacePerCopy /\ WiresApart => Apart
BY DEF OnePlacePerCopy, WiresApart, Apart, Dead, Unacked

LEMMA ApartArePlaces == Apart => OnePlacePerCopy /\ WiresApart
<1> SUFFICES ASSUME Apart PROVE OnePlacePerCopy /\ WiresApart
  OBVIOUS
<1>1. \A m \in Unacked : \E w \in Workers : m \in unacked[w]
  BY DEF Unacked
<1>2. QED
  BY <1>1 DEF OnePlacePerCopy, WiresApart, Apart, Dead

(* The memory of a worker: each delivery in the batch or in one flush.     *)
Distinct(w) ==
  /\ \A f \in inflight[w] : f.copies \cap batch[w] = {}
  /\ \A f, g \in inflight[w] : f # g => f.copies \cap g.copies = {}

Tidy(w) == unacked[w] = InMemory(w) /\ Distinct(w)

(* What the rest of the system sees of PlacesInv.                          *)
LEMMA PlacesFacts ==
  ASSUME PlacesInv
  PROVE  /\ Apart
         /\ \A w \in Workers : Consuming(w) => Tidy(w)
         /\ \A w \in Workers : \A f \in inflight[w] : Consuming(w) => f.copies \subseteq unacked[w]
<1>1. Apart
  BY PlacesAreApart DEF PlacesInv
<1>2. \A w \in Workers : Consuming(w) => Tidy(w)
  BY DEF PlacesInv, NoForgottenDelivery, Tidy, Distinct, InMemory
<1>3. QED
  BY <1>1, <1>2 DEF Tidy, InMemory

LEMMA PlacesFromParts ==
  ASSUME TypeOK', Apart', NumberedByClaim', GoneHoldNothing',
         \A w \in Workers : Consuming(w)' => Tidy(w)'
  PROVE  PlacesInv'
<1>1. OnePlacePerCopy' /\ WiresApart'
  <2>1. \A m \in Unacked' : \E w \in Workers : m \in unacked'[w]
    BY DEF Unacked
  <2>2. QED
    BY <2>1 DEF OnePlacePerCopy, WiresApart, Apart, Dead
<1>2. NoForgottenDelivery'
  BY DEF NoForgottenDelivery, Tidy, Distinct, InMemory
<1>3. QED
  BY <1>1, <1>2 DEF PlacesInv

-----------------------------------------------------------------------------
(* The memory of the workers.                                              *)

(* Starting a flush moves the batch, and what joins it, into one flush.    *)
LEMMA StartFlushMemory ==
  ASSUME TypeOK, NEW w \in Workers, NEW c, StartFlush(w, c),
         \A f \in inflight[w] : f.copies \cap c = {},
         \A f, g \in inflight[w] : f # g => f.copies \cap g.copies = {}
  PROVE  /\ Distinct(w)'
         /\ InMemory(w)' = c \cup UNION {f.copies : f \in inflight[w]}
         /\ \A v \in Workers : v # w => batch'[v] = batch[v] /\ inflight'[v] = inflight[v]
<1> DEFINE new == {[copies |-> x, inserted |-> FALSE] : x \in {c} \ {{}}}
<1>1. /\ batch'[w] = {}
      /\ inflight'[w] = inflight[w] \cup new
      /\ \A v \in Workers : v # w => batch'[v] = batch[v] /\ inflight'[v] = inflight[v]
  BY SMT DEF StartFlush, TypeOK, WorkerTypeOK
<1>2. \A f \in new : f.copies = c /\ f.inserted = FALSE
  OBVIOUS
<1>3. c # {} => [copies |-> c, inserted |-> FALSE] \in new
  OBVIOUS
<1>4. \A f, g \in new : f = g
  OBVIOUS
<1>5. c \subseteq UNION {f.copies : f \in new}
  BY <1>2, <1>3
<1>6. UNION {f.copies : f \in new} \subseteq c
  BY <1>2
<1> HIDE DEF new
<1>7. Distinct(w)'
  BY <1>1, <1>2, <1>4 DEF Distinct
<1>8. InMemory(w)' = c \cup UNION {f.copies : f \in inflight[w]}
  BY <1>1, <1>5, <1>6 DEF InMemory
<1>9. QED
  BY <1>1, <1>7, <1>8

(* When a flush ends, what it held is out of the worker's memory, whole.   *)
LEMMA FlushOverMemory ==
  ASSUME TypeOK, NEW w \in Workers, NEW f \in inflight[w], FlushOver(w, f),
         UNCHANGED batch, Distinct(w)
  PROVE  /\ Distinct(w)'
         /\ InMemory(w)' = InMemory(w) \ f.copies
         /\ \A v \in Workers : v # w => inflight'[v] = inflight[v]
<1>1. /\ inflight'[w] = inflight[w] \ {f}
      /\ \A v \in Workers : v # w => inflight'[v] = inflight[v]
  BY SMT DEF FlushOver, TypeOK, WorkerTypeOK
<1>2. Distinct(w)'
  BY <1>1 DEF Distinct
<1>3. \A g \in inflight'[w] : g.copies \cap f.copies = {}
  BY <1>1 DEF Distinct
<1>4. batch[w] \cap f.copies = {}
  BY DEF Distinct
<1>5. InMemory(w)' = InMemory(w) \ f.copies
  BY <1>1, <1>3, <1>4 DEF InMemory
<1>6. QED
  BY <1>1, <1>2, <1>5

(* The INSERT of a flush changes nothing of what it holds.                 *)
LEMMA InsertMemory ==
  ASSUME TypeOK, NEW w \in Workers, NEW f \in inflight[w], InsertCommits(w, f)
  PROVE  /\ Distinct(w) => Distinct(w)'
         /\ InMemory(w)' = InMemory(w)
         /\ \A v \in Workers : v # w => inflight'[v] = inflight[v]
<1> DEFINE g == [copies |-> f.copies, inserted |-> TRUE]
<1>1. /\ batch' = batch
      /\ inflight'[w] = (inflight[w] \ {f}) \cup {g}
      /\ \A v \in Workers : v # w => inflight'[v] = inflight[v]
  BY SMT DEF InsertCommits, TypeOK, WorkerTypeOK
<1>2. g.copies = f.copies
  OBVIOUS
<1> HIDE DEF g
<1>3. Distinct(w) => Distinct(w)'
  BY <1>1, <1>2 DEF Distinct
<1>4. InMemory(w)' = InMemory(w)
  BY <1>1, <1>2 DEF InMemory
<1>5. QED
  BY <1>1, <1>3, <1>4

-----------------------------------------------------------------------------
(* How the actions on the broker change each worker's window.              *)
LEMMA SettleWindow ==
  ASSUME TypeOK, NEW w \in Workers, NEW a, NEW r, NEW d, Settle(w, a, r, d)
  PROVE  \A v \in Workers :
           unacked'[v] = IF v = w THEN unacked[w] \ (a \cup r \cup d) ELSE unacked[v]
BY SMT DEF Settle, TypeOK, BrokerTypeOK

LEMMA CollectWindow ==
  ASSUME TypeOK, NEW w \in Workers, NEW m \in queue, Collect(w, m)
  PROVE  \A v \in Workers :
           unacked'[v] = IF v = w THEN unacked[w] \cup {m} ELSE unacked[v]
BY SMT DEF Collect, TypeOK, BrokerTypeOK

(* What a worker knows of its window, and what it must not know.           *)
Sound(w) ==
  /\ Consuming(w) => Tidy(w)
  /\ ~Consuming(w) => unacked[w] = {}
  /\ mode[w] = "down" => batch[w] = {} /\ inflight[w] = {}

LEMMA SoundWorkers ==
  ASSUME PlacesInv, NEW w \in Workers PROVE Sound(w)
BY PlacesFacts DEF PlacesInv, GoneHoldNothing, Sound

LEMMA SoundFrame ==
  ASSUME NEW w \in Workers, Sound(w), unacked'[w] = unacked[w], mode'[w] = mode[w],
         batch'[w] = batch[w], inflight'[w] = inflight[w]
  PROVE  Sound(w)'
BY DEF Sound, Tidy, Distinct, InMemory, Consuming

LEMMA ExitSound ==
  ASSUME PlacesInv, NEW w \in Workers, Exit(w), NEW v \in Workers
  PROVE  Sound(v)'
<1>1. CASE v = w
  <2>1. /\ unacked'[w] = {} /\ mode'[w] = "down"
        /\ batch'[w] = {} /\ inflight'[w] = {}
    BY SMT DEF Exit, CloseChannels, PlacesInv, TypeOK, WorkerTypeOK
  <2>2. QED
    BY <1>1, <2>1 DEF Sound, Consuming
<1>2. CASE v # w
  <2>1. /\ unacked'[v] = unacked[v] /\ mode'[v] = mode[v]
        /\ batch'[v] = batch[v] /\ inflight'[v] = inflight[v]
    BY <1>2, SMT DEF Exit, CloseChannels, PlacesInv, TypeOK, WorkerTypeOK
  <2>2. QED
    BY <2>1, SoundFrame, SoundWorkers
<1>3. QED BY <1>1, <1>2

(* A flush that starts finds the window as large as before.                *)
LEMMA StartFlushSound ==
  ASSUME PlacesInv, NEW w \in Workers, StartFlush(w, batch[w]), UNCHANGED unacked,
         NEW v \in Workers,
         mode'[v] = mode[v] \/ (Consuming(v) /\ Consuming(v)')
  PROVE  Sound(v)'
<1>1. Sound(v)
  BY SoundWorkers
<1>2. CASE v # w
  <2>1. batch'[v] = batch[v] /\ inflight'[v] = inflight[v]
    BY <1>2, SMT DEF StartFlush, PlacesInv, TypeOK, WorkerTypeOK
  <2>2. QED
    BY <1>1, <2>1 DEF Sound, Tidy, Distinct, InMemory, Consuming
<1>3. CASE v = w /\ Consuming(w)
  <2>1. Tidy(w)
    BY <1>1, <1>3 DEF Sound
  <2>2. /\ Distinct(w)'
        /\ InMemory(w)' = batch[w] \cup UNION {f.copies : f \in inflight[w]}
    BY <2>1, StartFlushMemory DEF PlacesInv, Tidy, Distinct
  <2>3. Tidy(w)' /\ Consuming(w)'
    BY <1>3, <2>1, <2>2 DEF Tidy, InMemory, Consuming
  <2>4. QED
    BY <1>3, <2>3 DEF Sound, Consuming
<1>4. CASE v = w /\ ~Consuming(w)
  <2>1. mode'[w] = mode[w] /\ unacked[w] = {}
    BY <1>1, <1>4 DEF Sound
  <2>2. CASE mode[w] = "down"
    <3>1. batch[w] = {} /\ inflight[w] = {}
      BY <1>1, <1>4, <2>2 DEF Sound
    <3>2. batch'[w] = {} /\ inflight'[w] = {}
      BY <3>1, SMT DEF StartFlush, PlacesInv, TypeOK, WorkerTypeOK
    <3>3. QED
      BY <1>4, <2>1, <3>2 DEF Sound, Consuming
  <2>3. QED
    BY <1>4, <2>1, <2>2 DEF Sound, Consuming
<1>5. QED
  BY <1>2, <1>3, <1>4

LEMMA CollectSound ==
  ASSUME PlacesInv, NEW w \in Workers, NEW m \in queue, Collect(w, m), NEW v \in Workers
  PROVE  Sound(v)'
<1> DEFINE filled == batch[w] \cup {m}
<1>1. Sound(v) /\ Consuming(w) /\ Sound(w)
  BY SoundWorkers DEF Collect
<1>2. /\ mode' = mode
      /\ \A x \in Workers :
           unacked'[x] = IF x = w THEN unacked[w] \cup {m} ELSE unacked[x]
  BY CollectWindow DEF Collect, PlacesInv
<1>3. Tidy(w)
  BY <1>1 DEF Sound
<1>4. m \notin InMemory(w)
  BY <1>3, PlacesFacts DEF Tidy, Apart
<1>5. /\ \A f \in inflight[w] : f.copies \cap filled = {}
      /\ \A f, g \in inflight[w] : f # g => f.copies \cap g.copies = {}
  BY <1>3, <1>4 DEF Tidy, Distinct, InMemory
<1>6. /\ Distinct(w)'
      /\ InMemory(w)' = filled \cup UNION {f.copies : f \in inflight[w]}
      /\ \A x \in Workers : x # w => batch'[x] = batch[x] /\ inflight'[x] = inflight[x]
  <2>1. CASE StartFlush(w, filled)
    BY <1>5, <2>1, StartFlushMemory DEF PlacesInv
  <2>2. CASE /\ batch' = [batch EXCEPT ![w] = filled]
             /\ UNCHANGED inflight
    <3>1. /\ batch'[w] = filled
          /\ \A x \in Workers : x # w => batch'[x] = batch[x]
      BY <2>2, SMT DEF PlacesInv, TypeOK, WorkerTypeOK
    <3>2. QED
      BY <1>5, <2>2, <3>1 DEF Distinct, InMemory
  <2>3. QED
    BY <2>1, <2>2 DEF Collect
<1>7. CASE v = w
  <2>1. Tidy(w)'
    BY <1>2, <1>3, <1>6 DEF Tidy, InMemory
  <2>2. QED
    BY <1>1, <1>2, <1>7, <2>1 DEF Sound, Consuming
<1>8. CASE v # w
  BY <1>1, <1>2, <1>6, <1>8, SoundFrame
<1>9. QED BY <1>7, <1>8

(* A worker settles exactly what it forgets.                               *)
LEMMA SettleSound ==
  ASSUME PlacesInv, NEW w \in Workers, NEW f \in inflight[w],
         NEW a, NEW r, NEW d, a \cup r \cup d = f.copies,
         Settle(w, a, r, d), FlushOver(w, f), Consuming(w),
         UNCHANGED <<mode, batch>>, NEW v \in Workers
  PROVE  Sound(v)'
<1>1. Sound(v) /\ Tidy(w)
  BY SoundWorkers, PlacesFacts
<1>2. \A x \in Workers :
        unacked'[x] = IF x = w THEN unacked[w] \ f.copies ELSE unacked[x]
  <2>1. TypeOK
    BY DEF PlacesInv
  <2>2. \A x \in Workers :
          unacked'[x] = IF x = w THEN unacked[w] \ (a \cup r \cup d) ELSE unacked[x]
    BY <2>1, SettleWindow
  <2>3. QED
    BY <2>2
<1>3. /\ Distinct(w)'
      /\ InMemory(w)' = InMemory(w) \ f.copies
      /\ \A x \in Workers : x # w => inflight'[x] = inflight[x]
  <2>1. TypeOK /\ Distinct(w) /\ batch' = batch
    BY <1>1 DEF PlacesInv, Tidy
  <2>2. QED
    BY <2>1, FlushOverMemory
<1>4. CASE v = w
  <2>1. Tidy(w)'
    BY <1>1, <1>2, <1>3 DEF Tidy
  <2>2. QED
    BY <1>4, <2>1 DEF Sound, Consuming
<1>5. CASE v # w
  BY <1>1, <1>2, <1>3, <1>5, SoundFrame
<1>6. QED BY <1>4, <1>5

LEMMA InsertSound ==
  ASSUME PlacesInv, NEW w \in Workers, NEW f \in inflight[w], InsertCommits(w, f),
         NEW v \in Workers
  PROVE  Sound(v)'
<1>1. Sound(v)
  BY SoundWorkers
<1>2. /\ Distinct(w) => Distinct(w)'
      /\ InMemory(w)' = InMemory(w)
      /\ \A x \in Workers : x # w => inflight'[x] = inflight[x]
  BY InsertMemory DEF PlacesInv
<1>3. UNCHANGED <<mode, batch, unacked>>
  BY DEF InsertCommits, brokerVars
<1>4. CASE v = w
  <2>1. mode[w] # "down"
    BY <1>1, <1>4 DEF Sound
  <2>2. QED
    BY <1>1, <1>2, <1>3, <1>4, <2>1 DEF Sound, Tidy, Consuming
<1>5. CASE v # w
  BY <1>1, <1>2, <1>3, <1>5, SoundFrame
<1>6. QED BY <1>4, <1>5

LEMMA WorkerStepSound ==
  ASSUME PlacesInv, WorkerStep, NEW v \in Workers
  PROVE  Sound(v)'
<1>1. PICK w \in Workers :
        \/ WorkerProgress(w)
        \/ \E f \in inflight[w] : FlushFails(w, f)
        \/ WorkerCrashes(w)
        \/ StopRequested(w)
  BY DEF WorkerStep, WorkerNext
<1>2. Sound(v) /\ Sound(w) /\ TypeOK
  BY SoundWorkers DEF PlacesInv
<1>3. CASE WorkerStart(w)
  <2>1. mode[w] = "down" /\ UNCHANGED <<unacked, batch, inflight>>
    BY <1>3 DEF WorkerStart, brokerVars
  <2>2. mode'[v] = IF v = w THEN "running" ELSE mode[v]
    BY <1>2, <1>3, SMT DEF WorkerStart, TypeOK, WorkerTypeOK
  <2>3. CASE v = w
    <3>1. unacked[w] = {} /\ batch[w] = {} /\ inflight[w] = {}
      BY <1>2, <2>1 DEF Sound, Consuming
    <3>2. InMemory(w)' = {} /\ Distinct(w)'
      BY <2>1, <3>1 DEF InMemory, Distinct
    <3>3. QED
      BY <2>1, <2>2, <2>3, <3>1, <3>2 DEF Sound, Tidy, Consuming
  <2>4. QED
    BY <1>2, <2>1, <2>2, <2>3, SoundFrame
<1>4. ASSUME NEW m \in queue, RejectMalformed(w, m) PROVE Sound(v)'
  BY <1>2, <1>4, SoundFrame DEF RejectMalformed, workerVars
<1>5. ASSUME NEW m \in queue, Collect(w, m) PROVE Sound(v)'
  BY <1>5, CollectSound
<1>6. CASE TimerFires(w)
  <2>1. StartFlush(w, batch[w]) /\ UNCHANGED <<unacked, mode>>
    BY <1>6 DEF TimerFires, brokerVars
  <2>2. QED
    BY <2>1, StartFlushSound
<1>7. ASSUME NEW f \in inflight[w], InsertCommits(w, f) PROVE Sound(v)'
  BY <1>7, InsertSound
<1>8. ASSUME NEW f \in inflight[w], FlushSucceeds(w, f) PROVE Sound(v)'
  <2>1. /\ Settle(w, f.copies, {}, {}) /\ FlushOver(w, f) /\ Consuming(w)
        /\ UNCHANGED <<mode, batch>>
    BY <1>8 DEF FlushSucceeds
  <2>2. f.copies \cup {} \cup {} = f.copies
    OBVIOUS
  <2>3. QED
    BY <2>1, <2>2, SettleSound
<1>9. ASSUME NEW f \in inflight[w], FlushFails(w, f) PROVE Sound(v)'
  <2> DEFINE again == f.copies \cap redelivered
  <2>1. /\ Settle(w, {}, f.copies \ again, again) /\ FlushOver(w, f) /\ Consuming(w)
        /\ UNCHANGED <<mode, batch>>
    BY <1>9 DEF FlushFails
  <2>2. {} \cup (f.copies \ again) \cup again = f.copies
    OBVIOUS
  <2> HIDE DEF again
  <2>3. QED
    BY <2>1, <2>2, SettleSound
<1>10. CASE Exit(w)
  BY <1>10, ExitSound
<1>11. CASE StopRequested(w)
  <2>1. StartFlush(w, batch[w]) /\ unacked' = unacked
    BY <1>11 DEF StopRequested, brokerVars
  <2>2. mode'[v] = mode[v] \/ (Consuming(v) /\ Consuming(v)')
    BY <1>2, <1>11, SMT DEF StopRequested, Consuming, TypeOK, WorkerTypeOK
  <2>3. QED
    BY <2>1, <2>2, StartFlushSound
<1>12. QED
  BY <1>1, <1>3, <1>4, <1>5, <1>6, <1>7, <1>8, <1>9, <1>10, <1>11
  DEF WorkerProgress, DeafFlushEnds, StopCompletes, WorkerCrashes

(* A clean restart of the broker leaves no worker consuming.               *)
LEMMA RestartSound ==
  ASSUME PlacesInv, BrokerRestart, NEW v \in Workers
  PROVE  Sound(v)'
<1>1. Sound(v) /\ TypeOK
  BY SoundWorkers DEF PlacesInv
<1>2. unacked'[v] = {}
  BY DEF BrokerRestart, CloseChannels
<1>3. /\ mode'[v] = LoseChannel(v)
      /\ batch'[v] = IF mode[v] = "stopping" THEN {} ELSE batch[v]
      /\ inflight'[v] = IF mode[v] = "stopping" THEN {} ELSE inflight[v]
  BY DEF BrokerRestart
<1>4. mode[v] \in {"down", "running", "stopping", "deaf"}
  BY <1>1 DEF TypeOK, WorkerTypeOK
<1>5. mode'[v] \in {"deaf", "down"}
  BY <1>3, <1>4 DEF LoseChannel
<1>6. mode'[v] = "down" => batch'[v] = {} /\ inflight'[v] = {}
  BY <1>1, <1>3, <1>4 DEF LoseChannel, Sound
<1>7. QED
  BY <1>2, <1>5, <1>6 DEF Sound, Consuming

LEMMA WorkersSound ==
  ASSUME PlacesInv, Next, NEW v \in Workers
  PROVE  Sound(v)'
<1>1. CASE RelayStep
  <2>1. UNCHANGED <<mode, batch, inflight, unacked>>
    BY <1>1
    DEF RelayStep, RelayNext, PublisherProgress, Append, AppendFails, BackoffElapses,
        Connect, PublishBatch, PublishOnClosedChannel, BrokerAccepts, Accept,
        ConfirmsArrive, MarkPublishedBatch, PublisherFails, PurgePublished,
        workerVars, brokerVars
  <2>2. QED
    BY <2>1, SoundWorkers, SoundFrame
<1>2. CASE InspectorStep
  <2>1. UNCHANGED <<mode, batch, inflight, unacked>>
    BY <1>2 DEF InspectorStep, InspectDeadLetter, InspectorDies, workerVars, brokerVars
  <2>2. QED
    BY <2>1, SoundWorkers, SoundFrame
<1>3. QED
  BY <1>1, <1>2, WorkerStepSound, RestartSound DEF Next

-----------------------------------------------------------------------------
(* The numbers of the copies.                                              *)

(* A new copy has a number no copy of its row had before.                  *)
LEMMA AttemptsGrow ==
  ASSUME TypeOK, Next, NEW e \in Events
  PROVE  attempts[e] \in Nat /\ attempts'[e] \in Nat /\ attempts[e] <= attempts'[e]
<1>1. attempts[e] \in Nat
  BY DEF TypeOK, RelayTypeOK
<1>2. CASE attempts' = attempts
  BY <1>1, <1>2, SMT
<1>3. CASE ClaimBatch
  BY <1>1, <1>3, SMT DEF ClaimBatch
<1>4. CASE RelayStep
  BY <1>2, <1>3, <1>4
  DEF RelayStep, RelayNext, PublisherProgress, Append, AppendFails, BackoffElapses,
      Connect, PublishBatch, PublishOnClosedChannel, BrokerAccepts,
      ConfirmsArrive, MarkPublishedBatch, PublisherFails, PurgePublished, tableVars
<1>5. CASE WorkerStep
  BY <1>2, <1>5 DEF WorkerStep, relayVars
<1>6. CASE InspectorStep
  BY <1>2, <1>6 DEF InspectorStep, InspectDeadLetter, InspectorDies, relayVars
<1>7. CASE BrokerRestart
  BY <1>2, <1>7 DEF BrokerRestart, tableVars
<1>8. QED
  BY <1>4, <1>5, <1>6, <1>7 DEF Next

(* A publisher's wire only loses copies, but for the copies it publishes.  *)
Published ==
  {[event |-> e, attempt |-> attempts[e] + 1] : e \in ClaimableRows}

LEMMA WireStep ==
  ASSUME TypeOK, Next
  PROVE  \/ \A q \in Publishers : wire'[q] \subseteq wire[q]
         \/ \E p \in Publishers :
              /\ PublishBatch(p)
              /\ \A q \in Publishers : wire'[q] = IF q = p THEN Published ELSE wire[q]
<1> DEFINE Shrinks == \A q \in Publishers : wire'[q] \subseteq wire[q]
<1>1. CASE wire' = wire
  BY <1>1
<1>2. CASE RelayStep
  <2>1. ASSUME NEW p \in Publishers, PublishBatch(p)
        PROVE  \A q \in Publishers : wire'[q] = IF q = p THEN Published ELSE wire[q]
    BY <2>1, SMT DEF PublishBatch, Published, TypeOK, RelayTypeOK
  <2>2. ASSUME NEW p \in Publishers, NEW m \in wire[p], BrokerAccepts(p, m) PROVE Shrinks
    BY <2>2, SMT DEF BrokerAccepts, TypeOK, RelayTypeOK
  <2>3. ASSUME NEW p \in Publishers, PublisherFails(p) PROVE Shrinks
    BY <2>3, SMT DEF PublisherFails, Abandon, TypeOK, RelayTypeOK
  <2> HIDE DEF Shrinks
  <2>4. wire' = wire => Shrinks
    BY DEF Shrinks
  <2>5. QED
    BY <1>2, <2>1, <2>2, <2>3, <2>4
    DEF RelayStep, RelayNext, PublisherProgress, Append, AppendFails, BackoffElapses,
        Connect, PublishOnClosedChannel, ConfirmsArrive, MarkPublishedBatch,
        PurgePublished, publisherVars, Shrinks
<1>3. CASE WorkerStep
  BY <1>1, <1>3 DEF WorkerStep, relayVars
<1>4. CASE InspectorStep
  BY <1>1, <1>4 DEF InspectorStep, InspectDeadLetter, InspectorDies, relayVars
<1>5. CASE BrokerRestart
  BY <1>5 DEF BrokerRestart
<1>6. QED
  BY <1>2, <1>3, <1>4, <1>5 DEF Next

-----------------------------------------------------------------------------
(* Every step takes each copy to one place.                                *)
OnWire == UNION {wire[p] : p \in Publishers}

(* The copies of a claim are new: nobody has them yet.                     *)
LEMMA PublishedAreNew ==
  ASSUME PlacesInv
  PROVE  Published \cap (Kept \cup OnWire) = {}
<1>1. SUFFICES ASSUME NEW m \in Published, m \in Kept \cup OnWire PROVE FALSE
  OBVIOUS
<1>2. PICK e \in ClaimableRows : m = [event |-> e, attempt |-> attempts[e] + 1]
  BY DEF Published
<1>3. m.event = e /\ m.attempt = attempts[e] + 1
  BY <1>2
<1>4. attempts[e] \in Nat
  BY DEF PlacesInv, TypeOK, RelayTypeOK, ClaimableRows
<1>5. m.attempt <= attempts[m.event]
  BY <1>1 DEF PlacesInv, NumberedByClaim, OnWire
<1>6. QED
  BY <1>3, <1>4, <1>5, SMT

LEMMA ApartNow ==
  ASSUME PlacesInv
  PROVE  TypeOK /\ Apart /\ Kept = queue \cup Unacked \cup Dead
BY PlacesFacts DEF PlacesInv, Kept, Dead

(* Channels that close give back what they held.                           *)
LEMMA CloseApart ==
  ASSUME PlacesInv, NEW W \in SUBSET Workers, CloseChannels(W), logged' = logged,
         \A q \in Publishers : wire'[q] \subseteq wire[q]
  PROVE  Apart' /\ Kept' \subseteq Kept
<1> DEFINE returned == UNION {unacked[w] : w \in W}
<1>1. /\ \A v \in Workers : unacked'[v] = IF v \in W THEN {} ELSE unacked[v]
      /\ queue' = queue \cup returned
      /\ Dead' = Dead
  BY DEF CloseChannels, Dead
<1>2. \A m \in returned : \E w \in W : m \in unacked[w]
  OBVIOUS
<1> HIDE DEF returned
<1>3. Apart
  BY ApartNow
<1>4. queue' \cap Dead' = {}
  BY <1>1, <1>2, <1>3 DEF Apart
<1>5. \A v \in Workers : unacked'[v] \cap (queue' \cup Dead') = {}
  BY <1>1, <1>2, <1>3 DEF Apart
<1>6. \A q \in Publishers : wire'[q] \cap (queue' \cup Dead') = {}
  BY <1>1, <1>2, <1>3 DEF Apart
<1>7. Apart'
  BY <1>1, <1>3, <1>4, <1>5, <1>6 DEF Apart
<1>8. Kept' \subseteq Kept
  BY <1>1, <1>2 DEF Kept, Unacked, Dead
<1>9. QED BY <1>7, <1>8

(* A worker's answers move copies out of its window, each to one place.    *)
LEMMA SettleApart ==
  ASSUME PlacesInv, NEW w \in Workers, NEW a, NEW r, NEW d, Settle(w, a, r, d),
         r \subseteq unacked[w], d \subseteq unacked[w], r \cap d = {},
         UNCHANGED <<wire, logged>>
  PROVE  Apart' /\ Kept' \subseteq Kept
<1>1. Apart /\ TypeOK
  BY ApartNow
<1>2. /\ \A v \in Workers :
           unacked'[v] = IF v = w THEN unacked[w] \ (a \cup r \cup d) ELSE unacked[v]
      /\ queue' = queue \cup r
      /\ Dead' = Dead \cup d
  BY <1>1, SettleWindow DEF Settle, Dead
<1>3. queue' \cap Dead' = {}
  BY <1>1, <1>2 DEF Apart
<1>4. \A v \in Workers : unacked'[v] \cap (queue' \cup Dead') = {}
  BY <1>1, <1>2 DEF Apart
<1>5. \A q \in Publishers : wire'[q] \cap (queue' \cup Dead') = {}
  BY <1>1, <1>2 DEF Apart
<1>6. Apart'
  BY <1>1, <1>2, <1>3, <1>4, <1>5 DEF Apart
<1>7. Kept' \subseteq Kept
  BY <1>2 DEF Kept, Unacked, Dead
<1>8. QED BY <1>6, <1>7

LEMMA SameBrokerApart ==
  ASSUME PlacesInv, UNCHANGED <<brokerVars, logged>>,
         \A q \in Publishers : wire'[q] \subseteq wire[q]
  PROVE  Apart' /\ Kept' \subseteq Kept
BY ApartNow DEF brokerVars, Apart, Dead, Kept, Unacked

LEMMA RelayApart ==
  ASSUME PlacesInv, RelayStep
  PROVE  Apart' /\ Kept' \subseteq Kept \cup OnWire
<1>1. Next /\ TypeOK /\ logged' = logged
  BY ApartNow DEF RelayStep, Next
<1>2. ASSUME NEW p \in Publishers, NEW m \in wire[p], BrokerAccepts(p, m)
      PROVE  Apart' /\ Kept' \subseteq Kept \cup OnWire
  <2>1. /\ queue' = queue \cup {m}
        /\ UNCHANGED <<unacked, dlq>>
        /\ \A q \in Publishers : wire'[q] = IF q = p THEN wire[p] \ {m} ELSE wire[q]
    BY <1>1, <1>2, SMT DEF BrokerAccepts, Accept, TypeOK, RelayTypeOK
  <2>2. Dead' = Dead
    BY <1>1, <2>1 DEF Dead
  <2>3. Apart
    BY ApartNow
  <2>4. Apart'
    BY <2>1, <2>2, <2>3 DEF Apart
  <2>5. Kept' \subseteq Kept \cup {m}
    BY <1>1, <2>1 DEF Kept, Unacked
  <2>6. QED
    BY <2>4, <2>5 DEF OnWire
<1>3. CASE UNCHANGED brokerVars
  <2>1. CASE \A q \in Publishers : wire'[q] \subseteq wire[q]
    BY <1>1, <1>3, <2>1, SameBrokerApart
  <2>2. ASSUME NEW p \in Publishers, PublishBatch(p),
               \A q \in Publishers : wire'[q] = IF q = p THEN Published ELSE wire[q]
        PROVE  Apart' /\ Kept' \subseteq Kept \cup OnWire
    <3>1. Apart /\ Kept = queue \cup Unacked \cup Dead
      BY ApartNow
    <3>2. Published \cap (queue \cup Dead) = {}
      BY <3>1, PublishedAreNew
    <3>3. /\ \A w \in Workers : Published \cap unacked[w] = {}
          /\ \A q \in Publishers : Published \cap wire[q] = {}
      BY PublishedAreNew DEF OnWire, Kept, Unacked
    <3>4. UNCHANGED <<queue, unacked, Dead>> /\ Kept' = Kept
      BY <1>1, <1>3 DEF brokerVars, Dead, Kept, Unacked
    <3>5. Apart'
      BY <2>2, <3>1, <3>2, <3>3, <3>4 DEF Apart
    <3>6. QED BY <3>4, <3>5
  <2>3. QED
    BY <1>1, <2>1, <2>2, WireStep
<1>4. QED
  BY <1>2, <1>3
  DEF RelayStep, RelayNext, PublisherProgress, Append, AppendFails, BackoffElapses,
      Connect, PublishBatch, PublishOnClosedChannel, ConfirmsArrive,
      MarkPublishedBatch, PublisherFails, PurgePublished

LEMMA WorkerApart ==
  ASSUME PlacesInv, WorkerStep
  PROVE  Apart' /\ Kept' \subseteq Kept
<1>1. PICK w \in Workers :
        \/ WorkerProgress(w)
        \/ \E f \in inflight[w] : FlushFails(w, f)
        \/ WorkerCrashes(w)
        \/ StopRequested(w)
  BY DEF WorkerStep, WorkerNext
<1>2. /\ logged' = logged
      /\ wire' = wire
      /\ TypeOK /\ Apart
  BY ApartNow DEF WorkerStep, relayVars
<1>3. ASSUME NEW m \in queue, RejectMalformed(w, m)
      PROVE  Apart' /\ Kept' \subseteq Kept
  <2>1. /\ queue' = queue \ {m}
        /\ Dead' = Dead \cup {m}
        /\ unacked' = unacked
    BY <1>2, <1>3 DEF RejectMalformed, Dead
  <2>2. Apart'
    BY <1>2, <2>1 DEF Apart
  <2>3. Kept' \subseteq Kept
    BY <2>1 DEF Kept, Unacked, Dead
  <2>4. QED BY <2>2, <2>3
<1>4. ASSUME NEW m \in queue, Collect(w, m)
      PROVE  Apart' /\ Kept' \subseteq Kept
  <2>1. /\ queue' = queue \ {m}
        /\ Dead' = Dead
        /\ \A v \in Workers :
             unacked'[v] = IF v = w THEN unacked[w] \cup {m} ELSE unacked[v]
    BY <1>2, <1>4, CollectWindow DEF Collect, Dead
  <2>2. \A v \in Workers : m \notin unacked[v]
    BY <1>2 DEF Apart
  <2>3. \A u, v \in Workers : u # v => unacked'[u] \cap unacked'[v] = {}
    BY <1>2, <2>1, <2>2 DEF Apart
  <2>4. Apart'
    BY <1>2, <2>1, <2>3 DEF Apart
  <2>5. Kept' \subseteq Kept
    BY <2>1 DEF Kept, Unacked, Dead
  <2>6. QED BY <2>4, <2>5
<1>5. ASSUME NEW f \in inflight[w], FlushSucceeds(w, f)
      PROVE  Apart' /\ Kept' \subseteq Kept
  BY <1>2, <1>5, SettleApart DEF FlushSucceeds
<1>6. ASSUME NEW f \in inflight[w], FlushFails(w, f)
      PROVE  Apart' /\ Kept' \subseteq Kept
  <2> DEFINE again == f.copies \cap redelivered
  <2>1. f.copies \subseteq unacked[w]
    BY <1>6, PlacesFacts DEF FlushFails
  <2>2. f.copies \ again \subseteq unacked[w] /\ again \subseteq unacked[w]
    BY <2>1
  <2>3. Settle(w, {}, f.copies \ again, again)
    BY <1>6 DEF FlushFails
  <2>4. (f.copies \ again) \cap again = {}
    OBVIOUS
  <2> HIDE DEF again
  <2>5. QED
    BY <1>2, <2>2, <2>3, <2>4, SettleApart
<1>7. CASE Exit(w)
  BY <1>2, <1>7, CloseApart DEF Exit
<1>8. CASE UNCHANGED brokerVars
  BY <1>2, <1>8, SameBrokerApart
<1>9. QED
  BY <1>1, <1>3, <1>4, <1>5, <1>6, <1>7, <1>8
  DEF WorkerProgress, WorkerStart, TimerFires, InsertCommits, DeafFlushEnds,
      StopCompletes, WorkerCrashes, StopRequested

LEMMA InspectorApart ==
  ASSUME PlacesInv, InspectorStep
  PROVE  Apart' /\ Kept' \subseteq Kept
<1>1. /\ UNCHANGED <<queue, unacked, wire>>
      /\ Dead' \subseteq Dead
  BY DEF InspectorStep, InspectDeadLetter, InspectorDies, brokerVars, relayVars, Dead
<1>2. Apart'
  BY <1>1, ApartNow DEF Apart
<1>3. QED
  BY <1>1, <1>2 DEF Kept, Unacked, Dead

LEMMA StepApart ==
  ASSUME PlacesInv, Next
  PROVE  Apart' /\ Kept' \subseteq Kept \cup OnWire
<1>1. CASE BrokerRestart
  <2>1. \A q \in Publishers : wire'[q] \subseteq wire[q]
    BY <1>1 DEF BrokerRestart
  <2>2. CloseChannels(Workers) /\ logged' = logged
    BY <1>1 DEF BrokerRestart
  <2>3. QED
    BY <2>1, <2>2, CloseApart
<1>2. QED
  BY <1>1, RelayApart, WorkerApart, InspectorApart DEF Next

(* No copy overtakes its row's attempts.                                   *)
LEMMA StepNumbered ==
  ASSUME PlacesInv, Next
  PROVE  NumberedByClaim'
<1>1. TypeOK /\ NumberedByClaim
  BY DEF PlacesInv
<1>2. ASSUME NEW m \in Kept \cup OnWire PROVE m.attempt <= attempts'[m.event]
  <2>1. m \in Messages /\ m.attempt <= attempts[m.event]
    BY <1>1
    DEF NumberedByClaim, OnWire, TypeOK, BrokerTypeOK, RelayTypeOK, Kept, Unacked
  <2>2. m.event \in Events /\ m.attempt \in Nat
    BY <2>1 DEF Messages
  <2>3. /\ attempts[m.event] \in Nat /\ attempts'[m.event] \in Nat
        /\ attempts[m.event] <= attempts'[m.event]
    BY <1>1, <2>2, AttemptsGrow
  <2>4. QED
    BY <2>1, <2>2, <2>3, SMT
<1>3. ASSUME NEW m \in Kept' PROVE m.attempt <= attempts'[m.event]
  BY <1>2, <1>3, StepApart
<1>4. ASSUME NEW q \in Publishers, NEW m \in wire'[q] PROVE m.attempt <= attempts'[m.event]
  <2>1. CASE m \in OnWire
    BY <1>2, <2>1
  <2>2. ASSUME NEW p \in Publishers, PublishBatch(p), m \in Published
        PROVE  m.attempt <= attempts'[m.event]
    <3>1. PICK e \in ClaimableRows : m = [event |-> e, attempt |-> attempts[e] + 1]
      BY <2>2 DEF Published
    <3>2. e \in Events /\ attempts[e] \in Nat
      BY <1>1 DEF ClaimableRows, TypeOK, RelayTypeOK
    <3>3. attempts'[e] = attempts[e] + 1
      BY <2>2, <3>1, <3>2 DEF PublishBatch, ClaimBatch
    <3>4. m.event = e /\ m.attempt = attempts[e] + 1
      BY <3>1
    <3>5. QED
      BY <3>2, <3>3, <3>4, SMT
  <2>3. QED
    BY <1>1, <1>4, <2>1, <2>2, WireStep DEF OnWire
<1>5. QED
  BY <1>3, <1>4 DEF NumberedByClaim

-----------------------------------------------------------------------------
(* The invariant is inductive.                                             *)
LEMMA PlacesInit == Init => PlacesInv
<1> SUFFICES ASSUME Init PROVE PlacesInv
  OBVIOUS
<1>1. TypeOK
  BY TypeInit
<1>2. /\ queue = {} /\ dlq = {} /\ logged = {}
      /\ \A w \in Workers : /\ unacked[w] = {} /\ mode[w] = "down"
                            /\ batch[w] = {} /\ inflight[w] = {}
      /\ \A p \in Publishers : wire[p] = {}
  BY DEF Init, BrokerInit, RelayInit, WorkerInit
<1>3. Unacked = {}
  BY <1>2 DEF Unacked
<1>4. OnePlacePerCopy /\ WiresApart /\ NumberedByClaim
  BY <1>2, <1>3 DEF OnePlacePerCopy, WiresApart, NumberedByClaim, Kept
<1>5. NoForgottenDelivery /\ GoneHoldNothing
  BY <1>2 DEF NoForgottenDelivery, GoneHoldNothing, Consuming
<1>6. QED
  BY <1>1, <1>4, <1>5 DEF PlacesInv

LEMMA PlacesNext == PlacesInv /\ [Next]_vars => PlacesInv'
<1> SUFFICES ASSUME PlacesInv, [Next]_vars PROVE PlacesInv'
  OBVIOUS
<1>1. CASE Next
  <2>1. TypeOK'
    BY <1>1, TypeNext DEF PlacesInv
  <2>2. Apart' /\ NumberedByClaim'
    BY <1>1, StepApart, StepNumbered
  <2>3. \A v \in Workers : Sound(v)'
    BY <1>1, WorkersSound
  <2>4. GoneHoldNothing' /\ \A v \in Workers : Consuming(v)' => Tidy(v)'
    BY <2>3 DEF Sound, GoneHoldNothing, Consuming
  <2>5. QED
    BY <2>1, <2>2, <2>4, PlacesFromParts
<1>2. CASE UNCHANGED vars
  <2>1. TypeOK'
    BY <1>2, TypeNext DEF PlacesInv
  <2>2. UNCHANGED <<brokerVars, logged, wire, attempts, mode, batch, inflight>>
    BY <1>2 DEF vars, relayVars, workerVars
  <2>3. Apart'
    BY <2>2, SameBrokerApart
  <2>4. NumberedByClaim'
    BY <2>2 DEF PlacesInv, NumberedByClaim, brokerVars, Kept, Unacked
  <2>5. \A v \in Workers : Sound(v)'
    BY <2>2, SoundWorkers, SoundFrame DEF brokerVars
  <2>6. GoneHoldNothing' /\ \A v \in Workers : Consuming(v)' => Tidy(v)'
    BY <2>5 DEF Sound, GoneHoldNothing, Consuming
  <2>7. QED
    BY <2>1, <2>3, <2>4, <2>6, PlacesFromParts
<1>3. QED
  BY <1>1, <1>2

(* Every copy has its one place, whoever fails and however often the       *)
(* broker restarts.                                                        *)
THEOREM PlacesHold == Spec => []PlacesInv
BY PlacesInit, PlacesNext, PTL DEF Spec

(* Each publication is one copy and has one place (OnePlacePerCopy).       *)
THEOREM OnePlacePerCopyHolds == Spec => []OnePlacePerCopy
<1>1. PlacesInv => OnePlacePerCopy
  BY DEF PlacesInv
<1>2. QED
  BY <1>1, PlacesHold, PTL

(* A worker remembers every delivery it has not answered                   *)
(* (NoForgottenDelivery).                                                  *)
THEOREM NoForgottenDeliveryHolds == Spec => []NoForgottenDelivery
<1>1. PlacesInv => NoForgottenDelivery
  BY DEF PlacesInv
<1>2. QED
  BY <1>1, PlacesHold, PTL

-----------------------------------------------------------------------------
(* How one step changes the set of kept copies.                            *)
LEMMA KeptUnchanged ==
  ASSUME UNCHANGED <<brokerVars, logged>>
  PROVE  Kept' = Kept
BY DEF brokerVars, Kept, Unacked

LEMMA SettleKept ==
  ASSUME TypeOK, NEW w \in Workers, NEW a, NEW r, NEW d,
         Settle(w, a, r, d), logged' = logged
  PROVE  /\ \A m \in Kept : m \in Kept' \/ m \in a
         /\ \A m \in Kept' : m \in Kept \/ m \in r \cup d
<1>1. ASSUME NEW v \in Workers
      PROVE  unacked'[v] = IF v = w THEN unacked[w] \ (a \cup r \cup d) ELSE unacked[v]
  BY SMT DEF Settle, TypeOK, BrokerTypeOK
<1>2. ASSUME NEW m \in Kept PROVE m \in Kept' \/ m \in a
  <2>1. CASE m \in queue \cup dlq \cup logged
    BY <2>1 DEF Kept, Settle
  <2>2. CASE m \in Unacked
    <3>1. PICK v \in Workers : m \in unacked[v]
      BY <2>2 DEF Unacked
    <3>2. m \in unacked'[v] \/ m \in a \cup r \cup d
      BY <1>1, <3>1
    <3>3. QED
      BY <3>2 DEF Kept, Unacked, Settle
  <2>3. QED
    BY <1>2, <2>1, <2>2 DEF Kept
<1>3. ASSUME NEW m \in Kept' PROVE m \in Kept \/ m \in r \cup d
  <2>1. CASE m \in Unacked'
    <3>1. PICK v \in Workers : m \in unacked'[v]
      BY <2>1 DEF Unacked
    <3>2. m \in unacked[v]
      BY <1>1, <3>1
    <3>3. QED
      BY <3>2 DEF Kept, Unacked
  <2>2. QED
    BY <1>3, <2>1 DEF Kept, Settle
<1>4. QED
  BY <1>2, <1>3

LEMMA CloseKept ==
  ASSUME NEW W \in SUBSET Workers, CloseChannels(W), logged' = logged
  PROVE  Kept' = Kept
<1>1. ASSUME NEW m \in Kept PROVE m \in Kept'
  <2>1. CASE m \in Unacked
    <3>1. PICK v \in Workers : m \in unacked[v]
      BY <2>1 DEF Unacked
    <3>2. CASE v \in W
      BY <3>1, <3>2 DEF Kept, CloseChannels
    <3>3. CASE v \notin W
      <4>1. unacked'[v] = unacked[v]
        BY <3>3 DEF CloseChannels
      <4>2. QED
        BY <3>1, <4>1 DEF Kept, Unacked
    <3>4. QED BY <3>2, <3>3
  <2>2. QED
    BY <1>1, <2>1 DEF Kept, CloseChannels
<1>2. ASSUME NEW m \in Kept' PROVE m \in Kept
  <2>1. CASE m \in Unacked'
    <3>1. PICK v \in Workers : m \in unacked'[v]
      BY <2>1 DEF Unacked
    <3>2. m \in unacked[v]
      BY <3>1 DEF CloseChannels
    <3>3. QED BY <3>2 DEF Kept, Unacked
  <2>2. CASE m \in queue'
    BY <2>2 DEF Kept, Unacked, CloseChannels
  <2>3. QED
    BY <1>2, <2>1, <2>2 DEF Kept, CloseChannels
<1>3. QED BY <1>1, <1>2

(* A copy stays kept until its click is stored; new ones come off a wire   *)
(* or out of a worker's memory.                                            *)
LEMMA KeptStep ==
  ASSUME TypeOK, InsertedAreStored, Next
  PROVE  /\ \A m \in Kept : m \in Kept' \/ clicks[m.event] > 0
         /\ \A m \in Kept' : \/ m \in Kept
                             \/ \E p \in Publishers : m \in wire[p]
                             \/ \E w \in Workers : m \in InMemory(w)
<1> DEFINE Stays == \A m \in Kept : m \in Kept' \/ clicks[m.event] > 0
           Grows == \A m \in Kept' : \/ m \in Kept
                                     \/ \E p \in Publishers : m \in wire[p]
                                     \/ \E w \in Workers : m \in InMemory(w)
<1>1. ASSUME Kept' = Kept PROVE Stays /\ Grows
  BY <1>1
<1>2. CASE RelayStep
  <2>1. ASSUME NEW p \in Publishers, NEW m \in wire[p], BrokerAccepts(p, m)
        PROVE  Stays /\ Grows
    <3>1. Kept' = Kept \cup {m}
      BY <1>2, <2>1 DEF BrokerAccepts, Accept, Kept, Unacked, RelayStep
    <3>2. QED BY <3>1
  <2>2. CASE UNCHANGED brokerVars
    BY <1>1, <1>2, <2>2, KeptUnchanged DEF RelayStep
  <2>3. QED
    BY <1>2, <2>1, <2>2
    DEF RelayStep, RelayNext, PublisherProgress, Append, AppendFails, BackoffElapses,
        Connect, PublishBatch, PublishOnClosedChannel, ConfirmsArrive,
        MarkPublishedBatch, PublisherFails, PurgePublished
<1>3. CASE WorkerStep
  <2>1. PICK w \in Workers :
          \/ WorkerProgress(w)
          \/ \E f \in inflight[w] : FlushFails(w, f)
          \/ WorkerCrashes(w)
          \/ StopRequested(w)
    BY <1>3 DEF WorkerStep, WorkerNext
  <2>2. logged' = logged
    BY <1>3 DEF WorkerStep
  <2>3. ASSUME NEW m \in queue, RejectMalformed(w, m)
        PROVE  Stays /\ Grows
    <3>1. Kept' = Kept
      BY <2>2, <2>3 DEF RejectMalformed, Kept, Unacked
    <3>2. QED BY <1>1, <3>1
  <2>4. ASSUME NEW m \in queue, Collect(w, m)
        PROVE  Stays /\ Grows
    <3>1. ASSUME NEW v \in Workers
          PROVE  unacked'[v] = IF v = w THEN unacked[w] \cup {m} ELSE unacked[v]
      BY <2>4, SMT DEF Collect, TypeOK, BrokerTypeOK
    <3>2. Unacked' = Unacked \cup {m}
      BY <3>1 DEF Unacked
    <3>3. queue' = queue \ {m} /\ dlq' = dlq
      BY <2>4 DEF Collect
    <3>4. Kept' = Kept
      BY <2>2, <3>2, <3>3 DEF Kept
    <3>5. QED BY <1>1, <3>4
  <2>5. ASSUME NEW f \in inflight[w], FlushSucceeds(w, f)
        PROVE  Stays /\ Grows
    <3>1. Settle(w, f.copies, {}, {})
      BY <2>5 DEF FlushSucceeds
    <3>2. \A m \in f.copies : clicks[m.event] > 0
      BY <2>5 DEF FlushSucceeds, InsertedAreStored
    <3>3. /\ \A m \in Kept : m \in Kept' \/ m \in f.copies
          /\ \A m \in Kept' : m \in Kept \/ m \in {} \cup {}
      BY <2>2, <3>1, SettleKept
    <3>4. QED BY <3>2, <3>3
  <2>6. ASSUME NEW f \in inflight[w], FlushFails(w, f)
        PROVE  Stays /\ Grows
    <3>1. Settle(w, {}, f.copies \ (f.copies \cap redelivered), f.copies \cap redelivered)
      BY <2>6 DEF FlushFails
    <3>2. /\ \A m \in Kept : m \in Kept' \/ m \in {}
          /\ \A m \in Kept' : m \in Kept \/ m \in f.copies
      BY <2>2, <3>1, SettleKept
    <3>3. f.copies \subseteq InMemory(w)
      BY DEF InMemory
    <3>4. QED BY <3>2, <3>3
  <2>7. CASE Exit(w)
    <3>1. Kept' = Kept
      BY <2>2, <2>7, CloseKept DEF Exit
    <3>2. QED BY <1>1, <3>1
  <2>8. CASE UNCHANGED brokerVars
    BY <1>1, <2>2, <2>8, KeptUnchanged
  <2>9. QED
    BY <2>1, <2>3, <2>4, <2>5, <2>6, <2>7, <2>8
    DEF WorkerProgress, WorkerStart, TimerFires, InsertCommits, DeafFlushEnds,
        StopCompletes, WorkerCrashes, StopRequested
<1>4. CASE InspectorStep
  <2>1. Kept' = Kept
    BY <1>4 DEF InspectorStep, InspectDeadLetter, InspectorDies, brokerVars, Kept, Unacked
  <2>2. QED BY <1>1, <2>1
<1>5. CASE BrokerRestart
  <2>1. Kept' = Kept
    BY <1>5, CloseKept DEF BrokerRestart
  <2>2. QED BY <1>1, <2>1
<1>6. QED
  BY <1>2, <1>3, <1>4, <1>5 DEF Next

(* A counted click stays counted, and each step counts only clicks of one  *)
(* flush, once.                                                            *)
LEMMA ClicksStep ==
  ASSUME TypeOK, Next
  PROVE  \/ clicks' = clicks
         \/ \E w \in Workers : \E f \in inflight[w] : InsertCommits(w, f)
<1>1. CASE RelayStep
  BY <1>1 DEF RelayStep, workerVars
<1>2. CASE WorkerStep
  BY <1>2
  DEF WorkerStep, WorkerNext, WorkerProgress, WorkerStart, RejectMalformed, Collect,
      TimerFires, FlushSucceeds, FlushFails, DeafFlushEnds, WorkerCrashes,
      StopRequested, StopCompletes, workerVars
<1>3. CASE InspectorStep
  BY <1>3 DEF InspectorStep, InspectDeadLetter, InspectorDies, workerVars
<1>4. CASE BrokerRestart
  BY <1>4 DEF BrokerRestart
<1>5. QED
  BY <1>1, <1>2, <1>3, <1>4 DEF Next

LEMMA ClicksGrow ==
  ASSUME TypeOK, Next, NEW e \in Events, clicks[e] > 0
  PROVE  clicks'[e] > 0
<1>1. ASSUME NEW w \in Workers, NEW f \in inflight[w], InsertCommits(w, f)
      PROVE  clicks'[e] > 0
  BY <1>1, SMT DEF InsertCommits, TypeOK, WorkerTypeOK
<1>2. QED
  BY <1>1, ClicksStep

LEMMA KeptTyped ==
  ASSUME TypeOK
  PROVE  Kept \subseteq Messages
BY DEF TypeOK, BrokerTypeOK, Kept, Unacked

(* Custody, once established, is never given up.                           *)
LEMMA CustodyStays ==
  ASSUME TypeOK, InsertedAreStored, Next, NEW e \in Events, InCustody(e)
  PROVE  InCustody(e)'
<1>1. CASE clicks[e] > 0
  BY <1>1, ClicksGrow DEF InCustody
<1>2. CASE e \in EventsOf(Kept)
  <2>1. PICK m \in Kept : m.event = e
    BY <1>2 DEF EventsOf
  <2>2. m \in Kept' \/ clicks[e] > 0
    BY <2>1, KeptStep
  <2>3. CASE m \in Kept'
    BY <2>1, <2>3 DEF InCustody, EventsOf
  <2>4. QED
    BY <1>1, <2>2, <2>3
<1>3. QED
  BY <1>1, <1>2 DEF InCustody

-----------------------------------------------------------------------------
(* An accepted click stays accepted, and a row is published or purged only *)
(* if it was before or a publisher marks it.                               *)
LEMMA RowStep ==
  ASSUME TypeOK, OnlyAcceptedTravel, Next, NEW e \in Events
  PROVE  /\ e \in Accepted => e \in Accepted'
         /\ row'[e] \in {"published", "purged"} =>
              \/ row[e] \in {"published", "purged"}
              \/ \E p \in Publishers : MarkPublishedBatch(p) /\ e \in EventsOf(held[p])
         /\ row[e] = "pending" =>
              \/ row'[e] = "pending"
              \/ \E p \in Publishers : MarkPublishedBatch(p) /\ e \in EventsOf(held[p])
<1> USE DEF Accepted
<1>1. CASE row' = row
  BY <1>1
<1>2. ASSUME NEW d \in Events, Append(d) \/ AppendFails(d)
      PROVE  /\ row[e] = row'[e] \/ row[e] = "absent"
             /\ row'[e] \in {row[e], "pending", "lost"}
  BY <1>2, SMT DEF Append, AppendFails, TypeOK, RelayTypeOK
<1>3. ASSUME NEW p \in Publishers, MarkPublishedBatch(p)
      PROVE  row'[e] = IF e \in EventsOf(held[p]) /\ row[e] # "purged"
                       THEN "published" ELSE row[e]
  BY <1>3 DEF MarkPublishedBatch
<1>4. ASSUME PurgePublished
      PROVE  row'[e] = row[e] \/ (row[e] = "published" /\ row'[e] = "purged")
  BY <1>4 DEF PurgePublished, Rows
<1>5. CASE RelayStep
  <2>1. CASE row' = row
    BY <1>1, <2>1
  <2>2. ASSUME NEW d \in Events, Append(d) \/ AppendFails(d)
        PROVE  /\ row[e] = row'[e] \/ row[e] = "absent"
               /\ row'[e] \in {row[e], "pending", "lost"}
    BY <1>2, <2>2
  <2>3. QED
    BY <1>2, <1>3, <1>4, <1>5, <2>1
    DEF RelayStep, RelayNext, PublisherProgress, BackoffElapses, Connect,
        PublishBatch, PublishOnClosedChannel, ClaimBatch, BrokerAccepts,
        ConfirmsArrive, PublisherFails, tableVars
<1>6. CASE WorkerStep
  BY <1>1, <1>6 DEF WorkerStep, relayVars
<1>7. CASE InspectorStep
  BY <1>1, <1>7 DEF InspectorStep, InspectDeadLetter, InspectorDies, relayVars
<1>8. CASE BrokerRestart
  BY <1>1, <1>8 DEF BrokerRestart, tableVars
<1>9. QED
  BY <1>5, <1>6, <1>7, <1>8 DEF Next

LEMMA NoClickLostStep == ASSUME IInv, Next PROVE NoClickLost'
<1>1. SUFFICES ASSUME NEW e \in Events, row'[e] \in {"published", "purged"}
               PROVE  InCustody(e)'
  BY DEF NoClickLost, Rows
<1>2. InCustody(e)
  <2>1. CASE row[e] \in {"published", "purged"}
    BY <2>1 DEF IInv, NoClickLost, Rows
  <2>2. ASSUME NEW p \in Publishers, MarkPublishedBatch(p), e \in EventsOf(held[p])
        PROVE  InCustody(e)
    <3>1. pc[p] = "marking"
      BY <2>2 DEF MarkPublishedBatch
    <3>2. wire[p] = {}
      BY <3>1 DEF IInv, ConfirmedInCustody
    <3>3. PICK m \in held[p] : m.event = e
      BY <2>2 DEF EventsOf
    <3>4. QED
      BY <3>2, <3>3 DEF IInv, ConfirmedInCustody
  <2>3. QED
    BY <1>1, <2>1, <2>2, RowStep DEF IInv
<1>3. QED
  BY <1>2, CustodyStays DEF IInv

(* What a publisher may mark is in custody.                                *)
LEMMA ConfirmedStep == ASSUME IInv, Next PROVE ConfirmedInCustody'
<1> DEFINE Entitled(q) == /\ pc[q] = "idle" => held[q] = {}
                          /\ pc[q] # "awaiting" => wire[q] = {}
                          /\ \A m \in held[q] \ wire[q] : InCustody(m.event)
<1>1. SUFFICES ASSUME NEW q \in Publishers PROVE Entitled(q)'
  BY DEF ConfirmedInCustody
<1>2. Entitled(q)
  BY DEF IInv, ConfirmedInCustody
<1>3. \A m \in held[q] : InCustody(m.event) => InCustody(m.event)'
  <2>1. \A m \in held[q] : m.event \in Events
    BY DEF IInv, TypeOK, RelayTypeOK, Messages
  <2>2. QED
    BY <2>1, CustodyStays DEF IInv
<1>4. CASE pc'[q] = pc[q] /\ held'[q] = held[q] /\ wire'[q] = wire[q]
  BY <1>2, <1>3, <1>4
<1>5. CASE pc'[q] = "idle" /\ held'[q] = {} /\ wire'[q] = {}
  BY <1>5
<1> HIDE DEF Entitled
<1>6. CASE RelayStep
  <2> USE DEF IInv, TypeOK, RelayTypeOK
  <2>1. CASE UNCHANGED <<pc, held, wire>>
    BY <1>4, <2>1
  <2>2. ASSUME NEW p \in Publishers, PublishBatch(p) PROVE Entitled(q)'
    <3>1. CASE p = q
      <4>1. pc'[q] = "awaiting" /\ held'[q] = wire'[q]
        BY <2>2, <3>1, SMT DEF PublishBatch
      <4>2. QED BY <4>1 DEF Entitled
    <3>2. CASE p # q
      BY <1>4, <2>2, <3>2, SMT DEF PublishBatch
    <3>3. QED BY <3>1, <3>2
  <2>3. ASSUME NEW p \in Publishers, NEW m \in wire[p], BrokerAccepts(p, m)
        PROVE  Entitled(q)'
    <3>1. CASE p = q
      <4>1. /\ pc'[q] = pc[q] /\ held'[q] = held[q]
            /\ wire'[q] = wire[q] \ {m}
        BY <2>3, <3>1, SMT DEF BrokerAccepts
      <4>2. InCustody(m.event)'
        BY <2>3 DEF BrokerAccepts, Accept, InCustody, Kept, EventsOf
      <4>3. QED
        BY <1>2, <1>3, <4>1, <4>2 DEF Entitled
    <3>2. CASE p # q
      BY <1>4, <2>3, <3>2, SMT DEF BrokerAccepts
    <3>3. QED BY <3>1, <3>2
  <2>4. ASSUME NEW p \in Publishers, ConfirmsArrive(p) PROVE Entitled(q)'
    <3>1. CASE p = q
      <4>1. pc'[q] = "marking" /\ held'[q] = held[q] /\ wire'[q] = {} /\ wire[q] = {}
        BY <2>4, <3>1, SMT DEF ConfirmsArrive
      <4>2. QED BY <1>2, <1>3, <4>1 DEF Entitled
    <3>2. CASE p # q
      BY <1>4, <2>4, <3>2, SMT DEF ConfirmsArrive
    <3>3. QED BY <3>1, <3>2
  <2>5. ASSUME NEW p \in Publishers, MarkPublishedBatch(p) PROVE Entitled(q)'
    <3>1. CASE p = q
      <4>1. pc'[q] = "idle" /\ held'[q] = {} /\ wire'[q] = wire[q] /\ pc[q] = "marking"
        BY <2>5, <3>1, SMT DEF MarkPublishedBatch
      <4>2. QED BY <1>2, <1>5, <4>1 DEF Entitled
    <3>2. CASE p # q
      BY <1>4, <2>5, <3>2, SMT DEF MarkPublishedBatch
    <3>3. QED BY <3>1, <3>2
  <2>6. ASSUME NEW p \in Publishers, PublisherFails(p) PROVE Entitled(q)'
    <3>1. CASE p = q
      BY <1>5, <2>6, <3>1, SMT DEF PublisherFails, Abandon
    <3>2. CASE p # q
      BY <1>4, <2>6, <3>2, SMT DEF PublisherFails, Abandon
    <3>3. QED BY <3>1, <3>2
  <2>7. QED
    BY <1>6, <2>1, <2>2, <2>3, <2>4, <2>5, <2>6
    DEF RelayStep, RelayNext, PublisherProgress, Append, AppendFails, BackoffElapses,
        Connect, PublishOnClosedChannel, PurgePublished, publisherVars
<1>7. CASE WorkerStep
  BY <1>4, <1>7 DEF WorkerStep, relayVars
<1>8. CASE InspectorStep
  BY <1>4, <1>8 DEF InspectorStep, InspectDeadLetter, InspectorDies, relayVars
<1>9. CASE BrokerRestart
  <2>1. CASE pc[q] = "awaiting"
    BY <1>5, <1>9, <2>1 DEF BrokerRestart
  <2>2. CASE pc[q] # "awaiting"
    BY <1>4, <1>9, <2>2 DEF BrokerRestart
  <2>3. QED BY <2>1, <2>2
<1>10. QED
  BY <1>6, <1>7, <1>8, <1>9 DEF Next

(* A flush claims to be stored only after its INSERT has committed.        *)
LEMMA StoredStep == ASSUME IInv, Next PROVE InsertedAreStored'
<1>1. SUFFICES ASSUME NEW v \in Workers, NEW g \in inflight'[v], g.inserted,
                      NEW m \in g.copies
               PROVE  clicks'[m.event] > 0
  BY DEF InsertedAreStored
<1>2. m.event \in Events
  BY <1>1, TypeNext DEF IInv, TypeOK, WorkerTypeOK, Flush, Messages
<1>3. CASE g \in inflight[v]
  <2>1. clicks[m.event] > 0
    BY <1>1, <1>3 DEF IInv, InsertedAreStored
  <2>2. QED
    BY <1>2, <2>1, ClicksGrow DEF IInv
<1>4. CASE g \notin inflight[v]
  <2> USE DEF IInv, TypeOK, WorkerTypeOK
  <2>1. PICK w \in Workers : WorkerStep /\
          (\/ WorkerProgress(w)
           \/ \E f \in inflight[w] : FlushFails(w, f)
           \/ WorkerCrashes(w)
           \/ StopRequested(w))
    BY <1>1, <1>4
    DEF Next, RelayStep, InspectorStep, InspectDeadLetter, InspectorDies, BrokerRestart,
        workerVars, WorkerStep, WorkerNext
  <2>2. ASSUME NEW copies, StartFlush(w, copies) PROVE FALSE
    <3>1. inflight'[v] \subseteq inflight[v] \cup {[copies |-> copies, inserted |-> FALSE]}
      BY <2>2, SMT DEF StartFlush
    <3>2. g = [copies |-> copies, inserted |-> FALSE]
      BY <1>1, <1>4, <3>1
    <3>3. QED
      BY <1>1, <3>2
  <2>3. ASSUME NEW f \in inflight[w], InsertCommits(w, f)
        PROVE  clicks'[m.event] > 0
    <3>1. inflight'[v] \subseteq inflight[v] \cup {[copies |-> f.copies, inserted |-> TRUE]}
      BY <2>3, SMT DEF InsertCommits
    <3>2. g = [copies |-> f.copies, inserted |-> TRUE]
      BY <1>1, <1>4, <3>1
    <3>3. m \in f.copies
      BY <1>1, <3>2
    <3>4. m.event \in EventsOf(f.copies)
      BY <3>3 DEF EventsOf
    <3>5. QED
      BY <1>2, <2>3, <3>4, SMT DEF InsertCommits
  <2>4. ASSUME NEW f, FlushOver(w, f) PROVE FALSE
    BY <1>1, <1>4, <2>4, SMT DEF FlushOver
  <2>5. CASE Exit(w)
    BY <1>1, <1>4, <2>5, SMT DEF Exit
  <2>6. CASE inflight' = inflight
    BY <1>1, <1>4, <2>6
  <2>7. QED
    BY <2>1, <2>2, <2>3, <2>4, <2>5, <2>6
    DEF WorkerProgress, WorkerStart, RejectMalformed, Collect, TimerFires, FlushSucceeds,
        FlushFails, DeafFlushEnds, WorkerCrashes, StopRequested, StopCompletes, workerVars
<1>5. QED
  BY <1>3, <1>4

-----------------------------------------------------------------------------
(* What a step puts into a publisher's hands are copies of due rows, and   *)
(* into a worker's memory well-formed copies from the queue.               *)
LEMMA HandsStep ==
  ASSUME TypeOK, Next, NEW q \in Publishers, NEW m \in held'[q] \cup wire'[q]
  PROVE  m \in held[q] \cup wire[q] \/ m.event \in due
<1> USE DEF TypeOK, RelayTypeOK
<1>1. CASE held'[q] \subseteq held[q] /\ wire'[q] \subseteq wire[q]
  BY <1>1
<1>2. CASE RelayStep
  <2>1. ASSUME NEW p \in Publishers, PublishBatch(p)
        PROVE  m \in held[q] \cup wire[q] \/ m.event \in due
    <3> DEFINE copies == {[event |-> e, attempt |-> attempts[e] + 1] : e \in ClaimableRows}
    <3>1. held'[q] \in {held[q], copies} /\ wire'[q] \in {wire[q], copies}
      BY <2>1, SMT DEF PublishBatch
    <3>2. ASSUME NEW c \in copies PROVE c.event \in due
      <4>1. PICK e \in ClaimableRows : c = [event |-> e, attempt |-> attempts[e] + 1]
        OBVIOUS
      <4>2. c.event = e /\ e \in due
        BY <4>1 DEF ClaimableRows
      <4>3. QED BY <4>2
    <3> HIDE DEF copies
    <3>3. QED BY <3>1, <3>2
  <2>2. ASSUME NEW p \in Publishers, NEW c \in wire[p], BrokerAccepts(p, c)
        PROVE  held'[q] \subseteq held[q] /\ wire'[q] \subseteq wire[q]
    BY <2>2, SMT DEF BrokerAccepts
  <2>3. ASSUME NEW p \in Publishers, MarkPublishedBatch(p) \/ PublisherFails(p)
        PROVE  held'[q] \subseteq held[q] /\ wire'[q] \subseteq wire[q]
    BY <2>3, SMT DEF MarkPublishedBatch, PublisherFails, Abandon
  <2>4. CASE UNCHANGED <<held, wire>>
    BY <1>1, <2>4
  <2>5. QED
    BY <1>1, <1>2, <2>1, <2>2, <2>3, <2>4
    DEF RelayStep, RelayNext, PublisherProgress, Append, AppendFails, BackoffElapses,
        Connect, PublishOnClosedChannel, ConfirmsArrive, PurgePublished, publisherVars
<1>3. CASE WorkerStep \/ InspectorStep
  BY <1>1, <1>3 DEF WorkerStep, InspectorStep, InspectDeadLetter, InspectorDies, relayVars
<1>4. CASE BrokerRestart
  BY <1>1, <1>4 DEF BrokerRestart
<1>5. QED
  BY <1>2, <1>3, <1>4 DEF Next

LEMMA MemoryStep ==
  ASSUME TypeOK, Next, NEW v \in Workers, NEW m \in InMemory(v)'
  PROVE  m \in InMemory(v) \/ (m \in queue /\ m.event \notin Malformed)
<1> USE DEF TypeOK, WorkerTypeOK
<1> DEFINE Goal == m \in InMemory(v) \/ (m \in queue /\ m.event \notin Malformed)
<1>1. CASE batch'[v] \subseteq batch[v] /\ inflight'[v] \subseteq inflight[v]
  BY <1>1 DEF InMemory
<1>2. CASE WorkerStep
  <2>1. PICK w \in Workers :
          \/ WorkerProgress(w)
          \/ \E f \in inflight[w] : FlushFails(w, f)
          \/ WorkerCrashes(w)
          \/ StopRequested(w)
    BY <1>2 DEF WorkerStep, WorkerNext
  <2>2. ASSUME NEW copies \in SUBSET Messages, StartFlush(w, copies)
        PROVE  m \in InMemory(v) \/ (v = w /\ m \in copies)
    <3>1. /\ batch'[v] \subseteq batch[v]
          /\ v # w => inflight'[v] = inflight[v]
          /\ v = w => inflight'[v] \subseteq
               inflight[v] \cup {[copies |-> copies, inserted |-> FALSE]}
      BY <2>2, SMT DEF StartFlush
    <3>2. QED BY <3>1 DEF InMemory
  <2>3. ASSUME NEW c \in queue, Collect(w, c) PROVE Goal
    <3>1. c.event \notin Malformed
      BY <2>3 DEF Collect
    <3>2. batch[w] \cup {c} \in SUBSET Messages
      BY DEF BrokerTypeOK
    <3>3. CASE StartFlush(w, batch[w] \cup {c})
      <4>1. m \in InMemory(v) \/ (v = w /\ m \in batch[w] \cup {c})
        BY <2>2, <3>2, <3>3
      <4>2. QED BY <3>1, <4>1 DEF InMemory
    <3>4. CASE batch' = [batch EXCEPT ![w] = batch[w] \cup {c}] /\ inflight' = inflight
      <4>1. batch'[v] \subseteq batch[v] \cup {c} /\ inflight'[v] = inflight[v]
        BY <3>4, SMT
      <4>2. QED BY <3>1, <4>1 DEF InMemory
    <3>5. QED BY <2>3, <3>3, <3>4 DEF Collect
  <2>4. CASE StartFlush(w, batch[w])
    <3>1. m \in InMemory(v) \/ (v = w /\ m \in batch[w])
      BY <2>2, <2>4
    <3>2. QED BY <3>1 DEF InMemory
  <2>5. ASSUME NEW f \in inflight[w], InsertCommits(w, f) PROVE Goal
    <3>1. /\ batch'[v] = batch[v]
          /\ v # w => inflight'[v] = inflight[v]
          /\ v = w => inflight'[v] \subseteq
               inflight[v] \cup {[copies |-> f.copies, inserted |-> TRUE]}
      BY <2>5, SMT DEF InsertCommits
    <3>2. QED BY <2>5, <3>1 DEF InMemory
  <2>6. ASSUME NEW f, FlushOver(w, f), batch' = batch PROVE Goal
    <3>1. inflight'[v] \subseteq inflight[v]
      BY <2>6, SMT DEF FlushOver
    <3>2. QED BY <1>1, <2>6, <3>1
  <2>7. CASE Exit(w)
    <3>1. batch'[v] \subseteq batch[v] /\ inflight'[v] \subseteq inflight[v]
      BY <2>7, SMT DEF Exit
    <3>2. QED BY <1>1, <3>1
  <2>8. CASE UNCHANGED <<batch, inflight>>
    BY <1>1, <2>8
  <2>9. QED
    BY <2>1, <2>3, <2>4, <2>5, <2>6, <2>7, <2>8
    DEF WorkerProgress, WorkerStart, RejectMalformed, TimerFires, FlushSucceeds,
        FlushFails, DeafFlushEnds, WorkerCrashes, StopRequested, StopCompletes, workerVars
<1>3. CASE RelayStep \/ InspectorStep
  BY <1>1, <1>3 DEF RelayStep, InspectorStep, InspectDeadLetter, InspectorDies, workerVars
<1>4. CASE BrokerRestart
  BY <1>1, <1>4 DEF BrokerRestart
<1>5. QED
  BY <1>2, <1>3, <1>4 DEF Next

(* Only pending rows are due: a claim and a mark both take rows out.       *)
LEMMA DueStep ==
  ASSUME TypeOK, OnlyAcceptedTravel, Next PROVE (due \subseteq Rows("pending"))'
<1>1. SUFFICES ASSUME NEW e \in due' PROVE e \in Events /\ row'[e] = "pending"
  BY DEF Rows
<1>2. e \in Events
  BY TypeNext DEF TypeOK, RelayTypeOK
<1>3. ASSUME NEW p \in Publishers, MarkPublishedBatch(p)
      PROVE  e \in due /\ e \notin EventsOf(held[p])
  BY <1>3 DEF MarkPublishedBatch
<1>4. CASE e \in due
  <2>1. row[e] = "pending"
    BY <1>4 DEF OnlyAcceptedTravel, Rows
  <2>2. ASSUME NEW p \in Publishers, MarkPublishedBatch(p) PROVE row'[e] = row[e]
    BY <1>2, <1>3, <2>2 DEF MarkPublishedBatch
  <2>3. QED
    BY <1>2, <1>3, <2>1, RowStep
<1>5. CASE e \notin due
  <2>1. ASSUME NEW d \in Events, Append(d) \/ BackoffElapses(d), e = d
        PROVE  row'[e] = "pending"
    BY <2>1, SMT DEF Append, BackoffElapses, TypeOK, RelayTypeOK
  <2>2. ASSUME NEW d \in Events, Append(d) \/ BackoffElapses(d)
        PROVE  e = d
    BY <1>5, <2>2 DEF Append, BackoffElapses
  <2>3. CASE due' \subseteq due
    BY <1>1, <1>5, <2>3
  <2>4. CASE RelayStep
    BY <1>2, <2>1, <2>2, <2>3, <2>4
    DEF RelayStep, RelayNext, PublisherProgress, AppendFails, Connect, PublishBatch,
        PublishOnClosedChannel, ClaimBatch, BrokerAccepts, ConfirmsArrive,
        MarkPublishedBatch, PublisherFails, PurgePublished, tableVars
  <2>5. CASE WorkerStep \/ InspectorStep \/ BrokerRestart
    BY <2>3, <2>5
    DEF WorkerStep, InspectorStep, InspectDeadLetter, InspectorDies, BrokerRestart,
        relayVars, tableVars
  <2>6. QED
    BY <1>2, <2>4, <2>5 DEF Next
<1>6. QED
  BY <1>4, <1>5

(* Everything that travels is a copy of a committed row.                   *)
LEMMA TravelStep == ASSUME IInv, Next PROVE OnlyAcceptedTravel'
<1> USE DEF IInv
<1>1. \A e \in Accepted : e \in Accepted'
  BY RowStep DEF Accepted
<1>2. due \subseteq Accepted
  BY DEF OnlyAcceptedTravel, Rows, Accepted
<1>3. (due \subseteq Rows("pending"))'
  BY DueStep
<1>4. ASSUME NEW m \in Kept' PROVE m.event \in Accepted'
  BY <1>1, <1>4, KeptStep DEF OnlyAcceptedTravel
<1>5. ASSUME NEW p \in Publishers, NEW m \in held'[p] \cup wire'[p]
      PROVE  m.event \in Accepted'
  BY <1>1, <1>2, <1>5, HandsStep DEF OnlyAcceptedTravel
<1>6. ASSUME NEW w \in Workers, NEW m \in InMemory(w)'
      PROVE  m.event \in Accepted' \ Malformed
  BY <1>1, <1>6, MemoryStep DEF OnlyAcceptedTravel, Kept
<1>7. QED
  BY <1>3, <1>4, <1>5, <1>6 DEF OnlyAcceptedTravel

-----------------------------------------------------------------------------
LEMMA InvInit == Init => IInv
<1> SUFFICES ASSUME Init PROVE IInv
  OBVIOUS
<1> USE DEF Init, BrokerInit, RelayInit, WorkerInit
<1>1. TypeOK
  BY TypeInit
<1>2. NoClickLost
  BY DEF NoClickLost, Rows
<1>3. ConfirmedInCustody
  BY DEF ConfirmedInCustody
<1>4. Kept = {} /\ \A w \in Workers : InMemory(w) = {}
  BY DEF Kept, Unacked, InMemory
<1>5. OnlyAcceptedTravel
  BY <1>4 DEF OnlyAcceptedTravel, Rows
<1>6. InsertedAreStored
  BY DEF InsertedAreStored
<1>7. QED
  BY <1>1, <1>2, <1>3, <1>5, <1>6, PlacesInit DEF IInv

LEMMA InvStutter == ASSUME IInv, UNCHANGED vars PROVE IInv'
<1> USE DEF IInv, vars, relayVars, workerVars, brokerVars
<1>1. TypeOK'
  BY TypeStutter
<1>2. Kept' = Kept /\ \A w \in Workers : InMemory(w)' = InMemory(w)
  BY DEF Kept, Unacked, InMemory
<1>3. \A e : InCustody(e)' = InCustody(e)
  BY <1>2 DEF InCustody
<1>4. NoClickLost'
  BY <1>3 DEF NoClickLost, Rows
<1>5. ConfirmedInCustody'
  BY <1>3 DEF ConfirmedInCustody
<1>6. OnlyAcceptedTravel'
  BY <1>2 DEF OnlyAcceptedTravel, Rows, Accepted
<1>7. InsertedAreStored'
  BY DEF InsertedAreStored
<1>8. PlacesInv'
  BY PlacesNext
<1>9. QED
  BY <1>1, <1>4, <1>5, <1>6, <1>7, <1>8

(* The strengthened invariant is inductive and holds in every reachable    *)
(* state, for any number of clicks, publishers and workers and any bound   *)
(* on the failures.                                                        *)
THEOREM InvariantHolds == Spec => []IInv
<1>1. IInv /\ [Next]_vars => IInv'
  <2> SUFFICES ASSUME IInv, [Next]_vars PROVE IInv'
    OBVIOUS
  <2>1. CASE Next
    <3>1. TypeOK'
      BY <2>1, TypeNext DEF IInv
    <3>2. PlacesInv'
      BY <2>1, PlacesNext DEF IInv
    <3>3. QED
      BY <2>1, <3>1, <3>2, NoClickLostStep, ConfirmedStep, TravelStep, StoredStep DEF IInv
  <2>2. CASE UNCHANGED vars
    BY <2>2, InvStutter
  <2>3. QED
    BY <2>1, <2>2
<1>2. QED
  BY <1>1, InvInit, PTL DEF Spec

(* The outbox keeps its promise: a published or purged row's click is in   *)
(* click_events, in the broker's queues, or logged as a dead letter.       *)
THEOREM NoClickLostHolds == Spec => []NoClickLost
<1>1. IInv => NoClickLost
  BY DEF IInv
<1>2. QED
  BY <1>1, InvariantHolds, PTL

-----------------------------------------------------------------------------
(* Announcements follow the commit of the INSERT.                          *)
LEMMA AnnouncedStep ==
  ASSUME IInv, AnnouncedAfterStored, Next PROVE AnnouncedAfterStored'
<1> USE DEF IInv, TypeOK, WorkerTypeOK
<1>1. SUFFICES ASSUME NEW e \in announced' PROVE clicks'[e] > 0
  BY DEF AnnouncedAfterStored
<1>2. e \in Events
  BY TypeNext
<1>3. CASE e \in announced
  BY <1>2, <1>3, ClicksGrow DEF AnnouncedAfterStored
<1>4. CASE e \notin announced
  <2>1. PICK w \in Workers : \E f \in inflight[w] :
          FlushSucceeds(w, f) \/ DeafFlushEnds(w, f)
    BY <1>1, <1>4
    DEF Next, RelayStep, InspectorStep, InspectDeadLetter, InspectorDies, BrokerRestart,
        WorkerStep, WorkerNext, WorkerProgress, WorkerStart, RejectMalformed, Collect,
        TimerFires, InsertCommits, FlushFails, WorkerCrashes, StopRequested,
        StopCompletes, workerVars
  <2>2. PICK f \in inflight[w] : f.inserted /\ e \in EventsOf(f.copies)
    BY <1>1, <1>4, <2>1 DEF FlushSucceeds, DeafFlushEnds
  <2>3. clicks[e] > 0
    BY <2>2 DEF InsertedAreStored, EventsOf
  <2>4. QED
    BY <1>2, <2>3, ClicksGrow
<1>5. QED
  BY <1>3, <1>4

(* Whoever re-reads the statistics on an announcement finds the click.     *)
THEOREM AnnouncedAfterStoredHolds == Spec => []AnnouncedAfterStored
<1>1. Init => AnnouncedAfterStored
  BY DEF Init, WorkerInit, AnnouncedAfterStored
<1>2. IInv /\ AnnouncedAfterStored /\ [Next]_vars => AnnouncedAfterStored'
  BY AnnouncedStep DEF AnnouncedAfterStored, vars, workerVars
<1>3. QED
  BY <1>1, <1>2, InvariantHolds, PTL DEF Spec

-----------------------------------------------------------------------------
(* How one step changes what ClickDelivery sees.                           *)
LEMMA AcceptedStep ==
  ASSUME IInv, RelayStep
  PROVE  Accepted' = Accepted \/ \E e \in Events \ Accepted : Accepted' = Accepted \cup {e}
<1> USE DEF IInv, TypeOK, RelayTypeOK, Accepted
<1>1. ASSUME NEW e \in Events, Append(e)
      PROVE  e \notin Accepted /\ Accepted' = Accepted \cup {e}
  <2>1. \A d \in Events : row'[d] = IF d = e THEN "pending" ELSE row[d]
    BY <1>1 DEF Append
  <2>2. row[e] = "absent"
    BY <1>1 DEF Append
  <2>3. QED
    BY <2>1, <2>2
<1>2. ASSUME NEW e \in Events, AppendFails(e)
      PROVE  Accepted' = Accepted
  <2>1. \A d \in Events : row'[d] = IF d = e THEN "lost" ELSE row[d]
    BY <1>2 DEF AppendFails
  <2>2. row[e] = "absent"
    BY <1>2 DEF AppendFails
  <2>3. QED
    BY <2>1, <2>2
<1>3. ASSUME NEW p \in Publishers, MarkPublishedBatch(p)
      PROVE  Accepted' = Accepted
  <2>1. \A d \in EventsOf(held[p]) : d \in Accepted
    BY DEF OnlyAcceptedTravel, EventsOf
  <2>2. \A d \in Events : row'[d] = IF d \in EventsOf(held[p]) /\ row[d] # "purged"
                                     THEN "published" ELSE row[d]
    BY <1>3 DEF MarkPublishedBatch
  <2>3. QED
    BY <2>1, <2>2
<1>4. ASSUME PurgePublished
      PROVE  Accepted' = Accepted
  BY <1>4 DEF PurgePublished, Rows
<1>5. CASE row' = row
  BY <1>5
<1>6. QED
  BY <1>1, <1>2, <1>3, <1>4, <1>5
  DEF RelayStep, RelayNext, PublisherProgress, BackoffElapses, Connect, PublishBatch,
      PublishOnClosedChannel, ClaimBatch, BrokerAccepts, ConfirmsArrive,
      PublisherFails, tableVars

(* Each step counts a batch, buries a set of clicks, or does neither.      *)
LEMMA CountStep ==
  ASSUME IInv, NEW w \in Workers, NEW f \in inflight[w], InsertCommits(w, f)
  PROVE  \E S \in SUBSET Events :
           /\ S \subseteq Accepted \ Malformed
           /\ \A e \in S : clicks[e] = 0
           /\ clicks' = [e \in Events |-> IF e \in S THEN 1 ELSE clicks[e]]
<1> DEFINE S == {e \in Events : e \in EventsOf(f.copies) /\ clicks[e] = 0}
<1>1. \A e \in EventsOf(f.copies) : e \in Accepted \ Malformed
  BY DEF IInv, OnlyAcceptedTravel, InMemory, EventsOf
<1>2. clicks' = [e \in Events |-> IF e \in S THEN 1 ELSE clicks[e]]
  BY DEF InsertCommits
<1>3. QED
  BY <1>1, <1>2

LEMMA BuriedStep ==
  ASSUME IInv, WorkerStep \/ InspectorStep
  PROVE  \E S \in SUBSET Events : S \subseteq Accepted /\ Buried' = Buried \cup S
<1>1. dlq \cup logged \subseteq (dlq \cup logged)'
  BY DEF WorkerStep, WorkerNext, WorkerProgress, WorkerStart, RejectMalformed, Collect,
     TimerFires, InsertCommits, FlushSucceeds, FlushFails, DeafFlushEnds, WorkerCrashes,
     StopRequested, StopCompletes, Exit, CloseChannels, Settle, brokerVars,
     InspectorStep, InspectDeadLetter, InspectorDies
<1>2. Accepted' = Accepted
  BY DEF WorkerStep, InspectorStep, InspectDeadLetter, InspectorDies, relayVars, Accepted
<1>3. \A m \in Kept' : m.event \in Accepted'
  BY TravelStep DEF Next, OnlyAcceptedTravel
<1>4. Buried' \subseteq Accepted
  BY <1>2, <1>3 DEF Buried, EventsOf, Kept
<1>5. Buried \subseteq Buried'
  BY <1>1 DEF Buried, EventsOf
<1>6. Accepted \subseteq Events
  BY DEF Accepted
<1>7. QED
  BY <1>4, <1>5, <1>6

(* The pipeline implements ClickDelivery: clicks are counted at most once, *)
(* only if accepted and well-formed, and no outcome is taken back.         *)
THEOREM PipelineDelivers == Spec => DeliverySpec
<1>1. Init => Delivery!Init
  <2> SUFFICES ASSUME Init PROVE Delivery!Init
    OBVIOUS
  <2>1. Accepted = {} /\ Buried = {} /\ clicks = [e \in Events |-> 0]
    BY DEF Init, BrokerInit, RelayInit, WorkerInit, Accepted, Buried, EventsOf
  <2>2. QED
    BY <2>1 DEF Delivery!Init
<1>2. IInv /\ [Next]_vars => [Delivery!Next]_(Delivery!vars)
  <2> SUFFICES ASSUME IInv, [Next]_vars
               PROVE  Delivery!Next \/ UNCHANGED Delivery!vars
    OBVIOUS
  <2>1. CASE RelayStep
    <3>1. clicks' = clicks /\ Buried' = Buried
      BY <2>1
      DEF RelayStep, RelayNext, PublisherProgress, Append, AppendFails, BackoffElapses,
          Connect, PublishBatch, PublishOnClosedChannel, BrokerAccepts, Accept,
          ConfirmsArrive, MarkPublishedBatch, PublisherFails, PurgePublished,
          workerVars, brokerVars, Buried
    <3>2. CASE Accepted' = Accepted
      BY <3>1, <3>2 DEF Delivery!vars
    <3>3. ASSUME NEW e \in Events \ Accepted, Accepted' = Accepted \cup {e}
          PROVE  Delivery!Next
      BY <3>1, <3>3 DEF Delivery!Next, Delivery!Accept
    <3>4. QED
      BY <2>1, <3>2, <3>3, AcceptedStep
  <2>2. CASE WorkerStep \/ InspectorStep
    <3>1. Accepted' = Accepted
      BY <2>2 DEF WorkerStep, InspectorStep, InspectDeadLetter, InspectorDies,
         relayVars, Accepted
    <3>2. CASE clicks' = clicks
      <4>1. PICK S \in SUBSET Events : S \subseteq Accepted /\ Buried' = Buried \cup S
        BY <2>2, BuriedStep
      <4>2. QED
        BY <3>1, <3>2, <4>1 DEF Delivery!Next, Delivery!Bury
    <3>3. ASSUME NEW w \in Workers, NEW f \in inflight[w], InsertCommits(w, f),
                 logged' = logged
          PROVE  Delivery!Next
      <4>1. Buried' = Buried
        BY <3>3 DEF InsertCommits, brokerVars, Buried
      <4>2. PICK S \in SUBSET Events :
              /\ S \subseteq Accepted \ Malformed
              /\ \A e \in S : clicks[e] = 0
              /\ clicks' = [e \in Events |-> IF e \in S THEN 1 ELSE clicks[e]]
        BY <3>3, CountStep
      <4>3. QED
        BY <3>1, <4>1, <4>2 DEF Delivery!Next, Delivery!Count
    <3>4. clicks' = clicks \/
          (logged' = logged /\ \E w \in Workers : \E f \in inflight[w] : InsertCommits(w, f))
      BY <2>2, ClicksStep
      DEF IInv, Next, WorkerStep, InspectorStep, InspectDeadLetter, InspectorDies, workerVars
    <3>5. QED
      BY <3>2, <3>3, <3>4
  <2>3. CASE BrokerRestart
    BY <2>3 DEF BrokerRestart, CloseChannels, tableVars, Delivery!vars, Accepted, Buried
  <2>4. CASE UNCHANGED vars
    BY <2>4 DEF vars, relayVars, workerVars, brokerVars, Delivery!vars, Accepted, Buried
  <2>5. QED
    BY <2>1, <2>2, <2>3, <2>4 DEF Next
<1>3. QED
  BY <1>1, <1>2, InvariantHolds, PTL DEF Spec, DeliverySpec, Delivery!Spec

-----------------------------------------------------------------------------
(* A copy leaves the queue and the workers' windows only for the DLQ or    *)
(* because its click is stored.                                            *)
LEMMA AckedStep ==
  ASSUME IInv, Next, NEW m \in queue \cup Unacked
  PROVE  m \in (queue \cup Unacked)' \/ clicks'[m.event] > 0 \/ m \in dlq'
<1> DEFINE Settled == m \in (queue \cup Unacked)' \/ clicks'[m.event] > 0 \/ m \in dlq'
<1> SUFFICES Settled
  OBVIOUS
<1>1. TypeOK /\ InsertedAreStored /\ m.event \in Events
  BY DEF IInv, TypeOK, BrokerTypeOK, Unacked, Messages
<1>2. \A W \in SUBSET Workers : CloseChannels(W) => Settled
  <2> SUFFICES ASSUME NEW W \in SUBSET Workers, CloseChannels(W), m \in Unacked
               PROVE  Settled
    BY DEF CloseChannels
  <2>1. PICK v \in Workers : m \in unacked[v]
    BY DEF Unacked
  <2>2. CASE v \in W
    BY <2>1, <2>2 DEF CloseChannels
  <2>3. CASE v \notin W
    BY <2>1, <2>3 DEF CloseChannels, Unacked
  <2>4. QED
    BY <2>2, <2>3
<1>3. ASSUME NEW w \in Workers, NEW a, NEW r, NEW d, Settle(w, a, r, d)
      PROVE  Settled \/ m \in a
  <2>1. \A v \in Workers :
          unacked'[v] = IF v = w THEN unacked[w] \ (a \cup r \cup d) ELSE unacked[v]
    BY <1>1, <1>3, SettleWindow
  <2>2. CASE m \in queue
    BY <1>3, <2>2 DEF Settle
  <2>3. CASE m \in Unacked
    <3>1. PICK v \in Workers : m \in unacked[v]
      BY <2>3 DEF Unacked
    <3>2. m \in unacked'[v] \/ m \in a \cup r \cup d
      BY <2>1, <3>1
    <3>3. QED
      BY <1>3, <3>2 DEF Settle, Unacked
  <2>4. QED
    BY <2>2, <2>3
<1>4. CASE UNCHANGED <<queue, unacked>>
  BY <1>4 DEF Unacked
<1>5. CASE RelayStep
  <2>1. ASSUME NEW p \in Publishers, NEW c \in wire[p], BrokerAccepts(p, c) PROVE Settled
    BY <2>1 DEF BrokerAccepts, Accept, Unacked
  <2>2. QED
    BY <1>4, <1>5, <2>1
    DEF RelayStep, RelayNext, PublisherProgress, Append, AppendFails, BackoffElapses,
        Connect, PublishBatch, PublishOnClosedChannel, ConfirmsArrive,
        MarkPublishedBatch, PublisherFails, PurgePublished, brokerVars
<1>6. CASE WorkerStep
  <2>1. PICK w \in Workers :
          \/ WorkerProgress(w)
          \/ \E f \in inflight[w] : FlushFails(w, f)
          \/ WorkerCrashes(w)
          \/ StopRequested(w)
    BY <1>6 DEF WorkerStep, WorkerNext
  <2>2. ASSUME NEW c \in queue, RejectMalformed(w, c) PROVE Settled
    BY <2>2 DEF RejectMalformed, Unacked
  <2>3. ASSUME NEW c \in queue, Collect(w, c) PROVE Settled
    <3>1. /\ queue' = queue \ {c}
          /\ \A v \in Workers :
               unacked'[v] = IF v = w THEN unacked[w] \cup {c} ELSE unacked[v]
      BY <1>1, <2>3, CollectWindow DEF Collect
    <3>2. Unacked' = Unacked \cup {c}
      BY <3>1 DEF Unacked
    <3>3. QED
      BY <3>1, <3>2
  <2>4. ASSUME NEW f \in inflight[w], FlushSucceeds(w, f) PROVE Settled
    <3>1. Settled \/ m \in f.copies
      BY <1>3, <2>4 DEF FlushSucceeds
    <3>2. m \in f.copies => clicks[m.event] > 0
      BY <1>1, <2>4 DEF FlushSucceeds, InsertedAreStored
    <3>3. clicks' = clicks
      BY <2>4 DEF FlushSucceeds
    <3>4. QED
      BY <3>1, <3>2, <3>3
  <2>5. ASSUME NEW f \in inflight[w], FlushFails(w, f) PROVE Settled
    <3>1. Settled \/ m \in {}
      BY <1>3, <2>5 DEF FlushFails
    <3>2. QED
      BY <3>1
  <2>6. CASE Exit(w)
    BY <1>2, <2>6 DEF Exit
  <2>7. QED
    BY <1>4, <2>1, <2>2, <2>3, <2>4, <2>5, <2>6
    DEF WorkerProgress, WorkerStart, TimerFires, InsertCommits, DeafFlushEnds,
        StopCompletes, WorkerCrashes, StopRequested, brokerVars
<1>7. CASE InspectorStep
  BY <1>4, <1>7 DEF InspectorStep, InspectDeadLetter, InspectorDies, brokerVars
<1>8. CASE BrokerRestart
  BY <1>2, <1>8 DEF BrokerRestart
<1>9. QED
  BY <1>5, <1>6, <1>7, <1>8 DEF Next

(* Manual acks: a copy disappears from analytics.clicks only when its      *)
(* click is stored or it moves to the dead-letter queue                    *)
(* (AckedOnlyWhenSettled).                                                 *)
THEOREM AckedOnlyWhenSettledHolds == Spec => AckedOnlyWhenSettled
<1> DEFINE Acked == \A m \in queue \cup Unacked :
                      m \in (queue \cup Unacked)' \/ clicks'[m.event] > 0 \/ m \in dlq'
<1>1. IInv /\ [Next]_vars => [Acked]_vars
  BY AckedStep
<1>2. QED
  BY <1>1, InvariantHolds, PTL DEF Spec, AckedOnlyWhenSettled
=============================================================================
