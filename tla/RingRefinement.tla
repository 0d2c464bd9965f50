--------------------------- MODULE RingRefinement ---------------------------
(***************************************************************************)
(* The byte ring implements the record queue.  The mapping reads the bytes *)
(* back the way the consumer does (records and split_record of             *)
(* src/queue.rs); it uses no history variable of RingQueue.                *)
(***************************************************************************)
EXTENDS RingQueue

\* records(bytes): the payloads of a byte stream; the iteration ends at the
\* first prefix that is truncated or out of range.
Split(bytes) ==
  LET rest[i \in 0 .. Len(bytes)] ==
        IF Len(bytes) - i < LEN_PREFIX_BYTES THEN << >>
        ELSE LET len  == Decode(bytes[i + 1], bytes[i + 2])
                 next == i + LEN_PREFIX_BYTES + len
             IN IF len > MAX_RECORD_BYTES \/ next > Len(bytes) THEN << >>
                ELSE <<SubSeq(bytes, i + LEN_PREFIX_BYTES + 1, next)>> \o rest[next]
  IN rest[0]

\* The bytes that payloads occupy in a batch.
BatchBytes(payloads) ==
  LET sum[i \in 0 .. Len(payloads)] ==
        IF i = 0 THEN 0 ELSE sum[i - 1] + LEN_PREFIX_BYTES + Len(payloads[i])
  IN sum[Len(payloads)]

Queue == INSTANCE SpanQueue WITH
  batch          <- [b \in Backends |-> Split(batch[b].bytes)],
  queue          <- Split(CopyOut(head, used)),
  chunk          <- IF wpc = "decode" THEN Split(out) ELSE << >>,
  Records        <- {p \in Payloads : Len(p) <= MAX_RECORD_BYTES},
  Bytes          <- BatchBytes,
  ChunkBytes     <- CHUNK_BYTES

\* Every step of the ring is a step of the record queue or invisible there: a
\* statement's records become visible together or, only if they do not fit, not
\* at all; they are taken oldest first, whole, and as many as the limit allows.
ImplementsSpanQueue == Queue!Spec
=============================================================================
