----------------------------- MODULE SpanQueue -----------------------------
(***************************************************************************)
(* What the span queue promises to its users (src/queue.rs, "Guarantees"): *)
(* a bounded first-in first-out queue of records to which a backend adds   *)
(* the records of one statement as a whole or not at all, and from which   *)
(* the worker takes whole records.                                         *)
(*                                                                         *)
(* Nothing here knows of bytes, positions, wrap-around, locks, latches or  *)
(* signals: RingQueue implements this specification (RingRefinement), and  *)
(* so does SpanExport, which uses the queue (ExportRefinement).            *)
(***************************************************************************)
EXTENDS Naturals, Sequences

CONSTANTS
  Backends,          \* processes that queue spans
  Records,           \* records that may be queued
  Bytes(_),          \* the space a sequence of records takes
  Cap,               \* the space there is
  ChunkBytes         \* the most the worker asks for

VARIABLES
  batch,    \* batch[b]: the records backend b has collected for its statement
  queue,    \* the records queued, oldest first
  chunk     \* the records the worker took last and has not handed on yet

vars == <<batch, queue, chunk>>

Init ==
  /\ batch = [b \in Backends |-> << >>]
  /\ queue = << >>
  /\ chunk = << >>

\* The backend adds records to what it has collected.
Collect(b) ==
  /\ batch'[b] \in Seq(Records)
  /\ Len(batch[b]) <= Len(batch'[b])
  /\ batch[b] = SubSeq(batch'[b], 1, Len(batch[b]))
  /\ batch' = [batch EXCEPT ![b] = batch'[b]]
  /\ UNCHANGED <<queue, chunk>>

\* All records of the statement are queued, behind everything queued before.
Enqueue(b) ==
  /\ batch[b] # << >>
  /\ Bytes(queue) + Bytes(batch[b]) <= Cap
  /\ queue' = queue \o batch[b]
  /\ batch' = [batch EXCEPT ![b] = << >>]
  /\ UNCHANGED chunk

\* The only reason to drop a statement is that it does not fit.
Refuse(b) ==
  /\ Bytes(queue) + Bytes(batch[b]) > Cap
  /\ batch' = [batch EXCEPT ![b] = << >>]
  /\ UNCHANGED <<queue, chunk>>

\* The oldest records leave the queue: as many as ChunkBytes allows, but at least
\* one if any is queued.
Removed(n) ==
  /\ chunk = << >>
  /\ n = 1 \/ Bytes(SubSeq(queue, 1, n)) <= ChunkBytes
  /\ n = Len(queue) \/ Bytes(SubSeq(queue, 1, n + 1)) > ChunkBytes
  /\ queue' = SubSeq(queue, n + 1, Len(queue))
  /\ UNCHANGED batch

\* The worker takes them ...
Take == \E n \in 1 .. Len(queue) : Removed(n) /\ chunk' = SubSeq(queue, 1, n)

\* ... or finds that none of them can be decoded.
Discard == \E n \in 1 .. Len(queue) : Removed(n) /\ UNCHANGED chunk

HandOn ==
  /\ chunk # << >>
  /\ chunk' = << >>
  /\ UNCHANGED <<batch, queue>>

\* The server restarts: nothing is kept.
Restart ==
  /\ batch' = [b \in Backends |-> << >>]
  /\ queue' = << >>
  /\ chunk' = << >>

Next ==
  \/ \E b \in Backends : Collect(b) \/ Enqueue(b) \/ Refuse(b)
  \/ Take \/ Discard
  \/ HandOn
  \/ Restart

Spec == Init /\ [][Next]_vars
=============================================================================
