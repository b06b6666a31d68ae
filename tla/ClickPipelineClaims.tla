------------------------ MODULE ClickPipelineClaims ------------------------
(***************************************************************************)
(* A statement the repository's documents make about the click pipeline    *)
(* and its code does not keep.                                             *)
(***************************************************************************)
EXTENDS ClickPipeline

(* click-event-architecture.md:514: with PostgreSQL down the worker "nacks *)
(* messages, they return to queue ... PG recovery restores flow"; :516     *)
(* keeps the DLQ "for poison messages".  Only malformed clicks go there.   *)
OutageNeverBuries ==
  \A m \in dlq : m.event \in Malformed
=============================================================================
