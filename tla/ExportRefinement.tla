-------------------------- MODULE ExportRefinement --------------------------
(***************************************************************************)
(* The way backends and worker use the queue implements the record queue,  *)
(* so that RingQueue, which implements it too, may stand in for `queue`.   *)
(***************************************************************************)
EXTENDS SpanExport

Queue == INSTANCE SpanQueue WITH
  batch      <- [b \in Backends |-> IF pc[b] = "push" THEN batch[b] ELSE << >>],
  Bytes      <- Len,
  ChunkBytes <- CHUNK

\* What publish, take_chunk, shutdown, crash and restart do to the queue is what
\* the record queue allows: in particular nothing that happens to the worker
\* loses a record that is still queued, and no statement is queued in part.
ImplementsSpanQueue == Queue!Spec
=============================================================================
