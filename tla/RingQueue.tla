----------------------------- MODULE RingQueue -----------------------------
(***************************************************************************)
(* The byte ring of src/queue.rs as src/shared.rs uses it: a slice of      *)
(* shared memory, two byte counters, and an LWLock around every access.    *)
(*                                                                         *)
(* A backend builds a batch of length-prefixed records without the lock    *)
(* (Batch::push_record), then pushes it with the lock held                 *)
(* (Ring::push_batch); the worker drains whole records with the lock held  *)
(* (Ring::drain_into).  The critical sections are split into the steps     *)
(* that read or write shared memory, so that it is the lock, and not the   *)
(* model, that makes them atomic.                                          *)
(*                                                                         *)
(* A "byte" is a digit below Radix and a length prefix has two of them,    *)
(* least significant first, instead of four bytes of 256 values.           *)
(***************************************************************************)
EXTENDS Integers, Sequences

CONSTANTS
  Backends,          \* processes that push
  Worker,            \* the exporter worker, the only reader
  NoProcess,         \* holder of the free lock
  Cap,               \* Ring::capacity
  Radix,             \* number of values of a byte
  MAX_RECORD_BYTES,
  CHUNK_BYTES,       \* max_bytes of drain_into
  Payloads,          \* payloads that spans encode to
  MaxBatchBytes,     \* bound: a batch is not extended beyond this size
  MaxTail,           \* bound: tail does not pass this ("a u64 does not wrap")
  MaxFaults          \* bound: memory corruptions considered

LEN_PREFIX_BYTES == 2

Byte == 0 .. Radix - 1

ASSUME RingAssumption ==
  /\ Cap \in Nat \ {0}
  /\ Radix \in Nat \ {0, 1}
  /\ MAX_RECORD_BYTES \in Nat
  /\ MAX_RECORD_BYTES < Radix * Radix     \* a length fits its prefix
  /\ CHUNK_BYTES \in Nat
  /\ Payloads \subseteq Seq(Byte)
  /\ MaxBatchBytes \in Nat
  /\ MaxTail \in Nat
  /\ MaxFaults \in Nat
  /\ Worker \notin Backends
  /\ NoProcess \notin Backends \cup {Worker}

VARIABLES
  head, tail,   \* RingState
  data,         \* the slice of shared memory
  lock,         \* holder of the queue's LWLock
  pc,           \* pc[b]: what backend b is doing
  batch,        \* batch[b]: its Batch
  wpc,          \* what the worker is doing
  available,    \* measure_drain: bytes queued when the drain began
  taken,        \* measure_drain: bytes of the records accepted so far
  records,      \* measure_drain: number of these records
  out,          \* the worker's buffer
  \* History, read by properties only:
  stream,       \* stream[c]: the byte pushed at counter c, for c in the window
  starts,       \* the counters in the window at which a record was pushed
  tainted,      \* memory was corrupted and the queue not discarded since
  sound,        \* the last drain read memory that was not corrupted
  faults        \* number of corruptions so far

ring == <<head, tail, data>>
producers == <<pc, batch>>
consumer == <<wpc, available, taken, records, out>>
history == <<stream, starts, tainted, sound>>
vars == <<ring, lock, producers, consumer, history, faults>>

----------------------------------------------------------------------------
(* Records and batches *)

Encode(len) == <<len % Radix, len \div Radix>>        \* (len as u32).to_le_bytes()

\* Mutant: the prefix is read most significant byte first.
DecodeBigEndian(low, high) == Radix * low + high

Decode(low, high) == low + Radix * high               \* u32::from_le_bytes

Record(payload) == Encode(Len(payload)) \o payload

\* Batch::starts is history: the offsets at which records begin.
EmptyBatch == [bytes |-> << >>, records |-> 0, starts |-> {}]

\* Batch::push_record: a payload that is too large leaves the batch as it was.
WithRecord(b, payload) ==
  IF Len(payload) > MAX_RECORD_BYTES
  THEN b
  ELSE [bytes   |-> b.bytes \o Record(payload),
        records |-> b.records + 1,
        starts  |-> b.starts \cup {Len(b.bytes)}]

----------------------------------------------------------------------------
(* Positions and copies *)

\* Mutant: the positions are trusted.
trusted == TRUE

is_consistent == tail >= head /\ tail - head <= Cap
used == IF is_consistent THEN tail - head ELSE 0

\* Mutant: a copy that wraps a byte too early.
FirstEarly(pos, len) ==
  LET room == Cap - 1 - (pos % Cap) IN IF len <= room THEN len ELSE room

\* The part of a copy of len bytes at counter pos that does not wrap.
First(pos, len) ==
  LET room == Cap - (pos % Cap) IN IF len <= room THEN len ELSE room

\* Ring::copy_in: the slice after writing src at counter pos.
CopyIn(pos, src) ==
  LET start == pos % Cap
      first == First(pos, Len(src))
  IN [c \in 0 .. Cap - 1 |->
        IF c < Len(src) - first THEN src[first + c + 1]
        ELSE IF c \in start .. start + first - 1 THEN src[c - start + 1]
        ELSE data[c]]

\* Ring::copy_out_slice: the len bytes at counter pos.
CopyOut(pos, len) ==
  LET start == pos % Cap
      first == First(pos, len)
  IN [i \in 1 .. len |-> IF i <= first THEN data[start + i - 1]
                                       ELSE data[i - first - 1]]

read_len(pos) ==
  LET prefix == CopyOut(pos, LEN_PREFIX_BYTES) IN Decode(prefix[1], prefix[2])

----------------------------------------------------------------------------
(* LockGuard: LWLockAcquire waits until the lock is free, Drop releases it. *)

\* Mutants: no lock is taken; a lock is not released.
Unguarded == TRUE
Forget == lock' = lock

Free == lock = NoProcess
Release == lock' = NoProcess

----------------------------------------------------------------------------
Init ==
  /\ head = 0 /\ tail = 0
  /\ data = [c \in 0 .. Cap - 1 |-> 0]
  /\ lock = NoProcess
  /\ pc = [b \in Backends |-> "build"]
  /\ batch = [b \in Backends |-> EmptyBatch]
  /\ wpc = "idle"
  /\ available = 0 /\ taken = 0 /\ records = 0
  /\ out = << >>
  /\ stream = [c \in {} |-> 0]
  /\ starts = {}
  /\ tainted = FALSE
  /\ sound = TRUE
  /\ faults = 0

\* History of a queue whose contents were discarded.
Discarded ==
  /\ stream' = [c \in {} |-> 0]
  /\ starts' = {}
  /\ tainted' = FALSE
  /\ UNCHANGED sound

\* Batch::push_record, without the lock.
PushRecord(b, payload) ==
  /\ pc[b] = "build"
  /\ Len(batch[b].bytes) + LEN_PREFIX_BYTES + Len(payload) <= MaxBatchBytes
  /\ batch' = [batch EXCEPT ![b] = WithRecord(@, payload)]
  /\ UNCHANGED <<ring, lock, pc, consumer, history, faults>>

\* Mutant: a batch that fills the queue is refused.
DoesNotFitFull(bytes) == Len(bytes) >= Cap - used

DoesNotFit(bytes) == Len(bytes) > Cap - used

\* with_ring takes the lock and push_batch repairs inconsistent positions; a
\* batch that does not fit is dropped and the lock released.
PushLock(b) ==
  /\ pc[b] = "build"
  /\ batch[b].records > 0
  /\ Free
  /\ IF is_consistent
     THEN UNCHANGED <<head, tail, history>>
     ELSE head' = 0 /\ tail' = 0 /\ Discarded
  /\ IF DoesNotFit(batch[b].bytes)
     THEN /\ batch' = [batch EXCEPT ![b] = EmptyBatch]
          /\ UNCHANGED <<lock, pc>>
     ELSE /\ tail' + Len(batch[b].bytes) <= MaxTail
          /\ lock' = b
          /\ pc' = [pc EXCEPT ![b] = "copy"]
          /\ UNCHANGED batch
  /\ UNCHANGED <<data, consumer, faults>>

PushCopy(b) ==
  /\ pc[b] = "copy"
  /\ data' = CopyIn(tail, batch[b].bytes)
  /\ pc' = [pc EXCEPT ![b] = "advance"]
  /\ UNCHANGED <<head, tail, lock, batch, consumer, history, faults>>

\* The new records become visible, and the lock is released.
PushAdvance(b) ==
  /\ pc[b] = "advance"
  /\ tail' = tail + Len(batch[b].bytes)
  /\ Release
  /\ pc' = [pc EXCEPT ![b] = "build"]
  /\ batch' = [batch EXCEPT ![b] = EmptyBatch]
  /\ IF tainted
     THEN UNCHANGED <<stream, starts>>
     ELSE /\ stream' = [c \in head .. tail' - 1 |->
                          IF c < tail THEN stream[c] ELSE batch[b].bytes[c - tail + 1]]
          /\ starts' = starts \cup {tail + s : s \in batch[b].starts}
  /\ UNCHANGED <<head, data, consumer, tainted, sound, faults>>

----------------------------------------------------------------------------
\* drain_into takes the lock; inconsistent positions discard the contents.
DrainLock ==
  /\ wpc = "idle"
  /\ Free
  /\ out' = << >>
  /\ IF is_consistent
     THEN /\ lock' = Worker
          /\ wpc' = "measure"
          /\ available' = used /\ taken' = 0 /\ records' = 0
          /\ UNCHANGED <<head, tail, history>>
     ELSE /\ head' = 0 /\ tail' = 0
          /\ Discarded
          /\ wpc' = "corrupted"
          /\ UNCHANGED <<lock, available, taken, records>>
  /\ UNCHANGED <<data, producers, faults>>

\* One iteration of measure_drain.
DrainMeasure ==
  /\ wpc = "measure"
  /\ taken < available
  /\ LET remaining == available - taken
         len == read_len(head + taken)
         size == LEN_PREFIX_BYTES + len
     IN IF remaining < LEN_PREFIX_BYTES \/ len > MAX_RECORD_BYTES \/ size > remaining
        THEN /\ head' = tail
             /\ Discarded
             /\ Release
             /\ wpc' = "corrupted"
             /\ UNCHANGED <<taken, records>>
        ELSE /\ IF records > 0 /\ taken + size > CHUNK_BYTES
                THEN wpc' = "move" /\ UNCHANGED <<taken, records>>
                ELSE /\ taken' = taken + size
                     /\ records' = records + 1
                     /\ UNCHANGED wpc
             /\ UNCHANGED <<head, lock, history>>
  /\ UNCHANGED <<tail, data, producers, available, out, faults>>

\* The oldest n bytes are copied out, and the lock is released.
Move(n) ==
  /\ out' = CopyOut(head, n)
  /\ head' = head + n
  /\ Release
  /\ wpc' = IF n = 0 THEN "idle" ELSE "decode"
  /\ IF tainted
     THEN UNCHANGED <<stream, starts>>
     ELSE /\ stream' = [c \in head' .. tail - 1 |-> stream[c]]
          /\ starts' = {s \in starts : s >= head'}
  /\ sound' = ~tainted
  /\ UNCHANGED <<tail, data, producers, available, taken, records, tainted, faults>>

Measured == wpc = "move" \/ (wpc = "measure" /\ taken >= available)

\* Mutant: the chunk is filled to the last byte.
DrainMoveFull ==
  Measured /\ Move(IF available <= CHUNK_BYTES THEN available ELSE CHUNK_BYTES)

\* What was measured is taken.
DrainMove == Measured /\ Move(taken)

\* take_chunk hands the records on, or logs that the contents were discarded.
DrainDone ==
  /\ wpc \in {"decode", "corrupted"}
  /\ wpc' = "idle"
  /\ UNCHANGED <<ring, lock, producers, available, taken, records, out, history, faults>>

----------------------------------------------------------------------------
\* Stray writes into shared memory, which the code is meant to survive.
Corrupt ==
  /\ faults < MaxFaults
  /\ \/ \E c \in 0 .. Cap - 1, v \in Byte :
          data' = [data EXCEPT ![c] = v] /\ UNCHANGED <<head, tail>>
     \/ \E p \in 0 .. MaxTail : head' = p /\ UNCHANGED <<tail, data>>
     \/ \E p \in 0 .. MaxTail : tail' = p /\ UNCHANGED <<head, data>>
  /\ tainted' = TRUE
  /\ faults' = faults + 1
  /\ UNCHANGED <<lock, producers, consumer, stream, starts, sound>>

\* A backend dies with the lock held or not: the postmaster terminates all
\* processes and creates the shared memory anew.
Restart ==
  /\ head' = 0 /\ tail' = 0
  /\ data' = [c \in 0 .. Cap - 1 |-> 0]
  /\ lock' = NoProcess
  /\ pc' = [b \in Backends |-> "build"]
  /\ batch' = [b \in Backends |-> EmptyBatch]
  /\ wpc' = "idle"
  /\ available' = 0 /\ taken' = 0 /\ records' = 0
  /\ out' = << >>
  /\ Discarded
  /\ UNCHANGED faults

Push(b) == PushLock(b) \/ PushCopy(b) \/ PushAdvance(b)
Drain == DrainLock \/ DrainMeasure \/ DrainMove \/ DrainDone

Next ==
  \/ \E b \in Backends : (\E payload \in Payloads : PushRecord(b, payload)) \/ Push(b)
  \/ Drain
  \/ Corrupt
  \/ Restart

Spec == Init /\ [][Next]_vars

\* A process that holds the lock runs: nothing in a critical section waits.
HolderRuns ==
  /\ \A b \in Backends : WF_vars(PushCopy(b) \/ PushAdvance(b))
  /\ WF_vars(DrainMeasure \/ DrainMove)

FairSpec == Spec /\ HolderRuns

----------------------------------------------------------------------------
(* Properties *)

\* Types, and the processes that may be inside a critical section.

TypeOK ==
  /\ head \in Nat /\ tail \in Nat
  /\ data \in [0 .. Cap - 1 -> Byte]
  /\ lock \in Backends \cup {Worker, NoProcess}
  /\ pc \in [Backends -> {"build", "copy", "advance"}]
  /\ batch \in [Backends -> [bytes : Seq(Byte), records : Nat, starts : SUBSET Nat]]
  /\ wpc \in {"idle", "measure", "move", "decode", "corrupted"}
  /\ available \in Nat /\ taken \in Nat /\ records \in Nat
  /\ out \in Seq(Byte)
  /\ starts \subseteq Nat
  /\ tainted \in BOOLEAN /\ sound \in BOOLEAN
  /\ faults \in Nat

\* The ring holds, byte for byte, what was pushed and not yet taken, across
\* wrap-around and in the middle of a push or a drain ("copy_in", "copy_out").
Window ==
  ~tainted =>
    /\ is_consistent
    /\ DOMAIN stream = head .. tail - 1
    /\ \A c \in head .. tail - 1 : data[c % Cap] = stream[c]

\* The bytes byte[from], ..., byte[to - 1] are whole records that begin at the
\* positions in begin, each right behind the one before it.
Framing(byte, begin, from, to) ==
  /\ begin \subseteq from .. to - 1
  /\ from \in begin \cup {to}
  /\ \A s \in begin :
       /\ s + LEN_PREFIX_BYTES <= to
       /\ LET len  == Decode(byte[s], byte[s + 1])
              next == s + LEN_PREFIX_BYTES + len
          IN /\ len \in 0 .. MAX_RECORD_BYTES
             /\ next \in begin \cup {to}
             /\ \A t \in begin : t > s => t >= next

BytesFraming(bytes, begin) ==
  Framing([i \in 0 .. Len(bytes) - 1 |-> bytes[i + 1]], begin, 0, Len(bytes))

\* "The reader copies out whole records only": the buffer handed to the decoder
\* ends where a record ends, whatever CHUNK_BYTES cut it to.
WholeRecords ==
  (wpc = "decode" /\ sound) =>
    \E begin \in SUBSET (0 .. Len(out) - 1) : BytesFraming(out, begin)

\* Corrupted memory never makes a copy leave the slice ("instead of reading out
\* of bounds"): what is copied in or out is never longer than the slice.
InBounds ==
  /\ \A b \in Backends : pc[b] # "build" => Len(batch[b].bytes) <= Cap
  /\ wpc \in {"measure", "move"} => taken <= available /\ available <= Cap

\* Only corruption makes the queue throw its contents away: with intact memory
\* no drain reports Corrupted and no push or drain resets the positions.
NoFalseCorruption ==
  [][ /\ wpc' = "corrupted" => wpc = "corrupted" \/ tainted
      /\ head' < head => tainted \/ Corrupt \/ Restart ]_vars

\* The worker takes the oldest bytes, in the order in which they were pushed.
TakesOldest ==
  [][ (wpc' = "decode" /\ wpc # "decode" /\ ~tainted) =>
        \A i \in 1 .. Len(out') : out'[i] = stream[head + i - 1] ]_vars

\* A critical section ends ("instead of ... looping"), with corrupted lengths too.
LockReleased == \A p \in Backends \cup {Worker} : (lock = p) ~> (lock # p)

----------------------------------------------------------------------------
(* The inductive invariant: Window, and what it takes to preserve it. *)

\* Only the holder of the lock is inside a critical section.
Mutex ==
  /\ \A b \in Backends : pc[b] # "build" => lock = b
  /\ wpc \in {"measure", "move"} => lock = Worker

\* The window is a sequence of the records that were pushed.
WindowFramed ==
  ~tainted => Framing(stream, starts, head, tail)

BatchFramed == \A b \in Backends : BytesFraming(batch[b].bytes, batch[b].starts)

\* A push writes behind the window, and has room to.
PushInv ==
  \A b \in Backends :
    /\ pc[b] # "build" /\ ~tainted => tail - head + Len(batch[b].bytes) <= Cap
    /\ pc[b] = "advance" /\ ~tainted =>
         \A i \in 1 .. Len(batch[b].bytes) :
            data[(tail + i - 1) % Cap] = batch[b].bytes[i]

\* A drain stands between two records of the window.
DrainInv ==
  wpc \in {"measure", "move"} /\ ~tainted =>
    /\ available = tail - head
    /\ head + taken \in starts \cup {tail}

RingInv ==
  /\ TypeOK /\ Mutex /\ InBounds
  /\ Window /\ WindowFramed
  /\ BatchFramed /\ PushInv /\ DrainInv /\ WholeRecords
=============================================================================
