# Formal models of pg_otel

pg_otel hooks into PostgreSQL's executor, turns each traced statement into
OpenTelemetry spans, and hands the spans through shared memory to a background
worker that exports them. These TLA+ modules model the whole way of a span: the
hooks that collect it, the walk over the plan, its times, the trace it belongs to, the
query text it carries, its encoding, the queue and the worker. TLC checks them on small
instances; TLAPS proves what matters most about the byte ring, the export of spans, the
executor hooks, the plan walk and the sanitizing of texts for all instances.

Paths below are relative to the root of the repository's tree (`src/queue.rs` is
the Rust file of that name). Names of operators and states follow the code.

## 1. The system

| Part | State it keeps | Operations | Talks to |
| --- | --- | --- | --- |
| Byte ring, `src/queue.rs` | `head`, `tail`, a slice of bytes; a backend's `Batch` | `push_record`, `push_batch`, `drain_into`, `records` | called with the lock held by `shared.rs` |
| Shared memory, `src/shared.rs` | `Header`: ring state, `worker_proc_number`, `dropped_spans`; an LWLock | `publish`, `drain_into`, `register_worker`, `wake_worker` | backends write, the worker reads; wake-ups are latches |
| Exporter worker, `src/worker.rs` | `PendingSignals`, the exporter, `DroppedSpansReport` | main loop, reload, drain, flush on shutdown | drains the queue, exports over OTLP, reacts to SIGHUP and SIGTERM |
| Entry points, `src/lib.rs` | previous hooks | `_PG_init`, executor hooks, `background_worker_main` | postmaster restarts the worker |
| Collection, `src/postgres.rs` | once-per-backend log flag | `request_instrumentation`, `collect_spans`, plan children, trace context | executor state, `span.rs`, `shared::publish` |
| Spans, `src/span.rs` | none | `walk_plan`, `from_plan`, `from_query`, `parse_traceparent` | called by collection |
| Codec, `src/codec.rs` | none | `encode_batch`, `decode_records` | backend and worker |
| Sanitizing, `src/sanitize.rs` | message suppression while parsing | `sanitize` | PostgreSQL's scanner |
| Compatibility, `src/compat/` | none | instrumentation and times of PG 18 and 19 | executor state |
| Configuration, `src/config.rs` | GUCs | `ExporterConfig::load` | PostgreSQL's GUC machinery |

What is hard about it:

* **Concurrency.** Many backends push into one ring; the lock is held for the copy
  only. Whether to wake the worker is decided under the lock, the wake-up itself
  happens after it, through a process number that may be stale.
* **Signals.** Reading a signal flag consumes it, and so does waiting for the latch;
  signals arrive during exports that may take seconds.
* **Failure.** Exports fail or hang; the worker is terminated or dies and starts
  again 10 seconds later in another process slot; shared memory may be damaged.
* **Boundaries.** Records and even length prefixes wrap around; a chunk's limit falls
  anywhere; the span limit falls between a node and its children; clock ticks become
  nanoseconds in 64 bits.
* **Foreign text.** A statement's text is read twice, by a plain scan for comments and
  by PostgreSQL's scanner; literals must never leave, whatever the text, and no loop may
  hang on it. Bytes from shared memory are decoded whatever they are.

What makes each part correct: the ring is a first-in first-out queue of whole
records, statements go in as a whole or not at all, and damage is contained; no
wake-up is lost; a shutdown or reload waits for one export at most and is never
forgotten; every span is delivered at most once, in order, or accounted for as
dropped; the spans of a statement form one connected tree shaped like the plan, nest,
and carry their nodes' times; the caller's trace is found; nothing but the normalized
text of the statement itself is exported; what is decoded is what was encoded.

## 2. Modules

| Module | What it is |
| --- | --- |
| `SpanQueue` | abstract specification: a bounded FIFO of records, statements in as a whole, whole records out |
| `RingQueue` | `queue.rs` under the lock of `shared.rs`, down to bytes |
| `RingRefinement` | `RingQueue` implements `SpanQueue` |
| `RingQueueProofs` | the theorems about `RingQueue` |
| `RingRefinementProofs` | the theorem that `RingQueue` implements `SpanQueue` |
| `ExporterConfig` | the exporter's settings: `ExporterConfig::load`, `build_exporter` |
| `SpanExport` | `publish`, `wake_worker`, the worker's loop, signals, reloads, restarts |
| `SpanExportProofs` | theorems about `SpanExport`: types, wake-ups, signals, order of delivery, and that it uses the queue as `SpanQueue` allows |
| `AccountProofs` | theorem about `SpanExport`: no span is lost without account or in two places |
| `ExportRefinement` | `SpanExport` uses the queue as `SpanQueue` allows |
| `Instrument` | `src/compat/`: usable measurements, folding, nanoseconds, on both versions |
| `PlanWalk` | `walk_plan`, `plan_state_children` and `from_plan` |
| `PlanWalkProofs` | the theorems about `PlanWalk`, and the arithmetic of `Instrument` |
| `PlanExplain` | EXPLAIN's walk (external), to compare with |
| `Collector` | the executor hooks: requests for instrumentation, collection and its errors |
| `CollectorProofs` | the theorems about `Collector` |
| `SqlText` | texts as both readers below see them |
| `TraceContext` | `decide_parent`, the scan for comments and pairs, `parse_traceparent` |
| `Sanitize` | `sanitize`: statement, tokens, lists, rendering, truncation |
| `QueryText` | the two in the order of the hook, with their properties |
| `QueryTextProofs` | the theorems about `QueryText` |
| `Codec` | `encode_batch` and `decode_records` |
| `CodecProofs` | the theorems about `Codec` |
| `MCRingQueue`, `MCSpanExport`, `MCPlanWalk`, `MCCollector`, `MCQueryText`, `MCCodec` | constants for TLC |

`SpanQueue` is what ties the two halves together: the ring implements it, and the
processes around the ring need no more than it. `SpanExport` therefore has a
sequence of records where the code has a ring, and a push or a drain is one step.
`Codec` is what lies between a span and a record at both ends of the queue, and
`PlanWalk` and `QueryText` are two steps of `Collector`, which models their order, their
errors and the early return in between.

### RingQueue

`head`, `tail`, `data` are `RingState` and the slice; `lock` is the holder of the
LWLock. A push is `PushLock` (take the lock, repair inconsistent positions, drop a
batch that does not fit), `PushCopy` (`copy_in`) and `PushAdvance` (`tail`
advances, the lock is released). A drain is `DrainLock`, one `DrainMeasure` per
iteration of `measure_drain`, and `DrainMove`. These are the points between which
another process could interfere if the lock did not work; nothing else in a
critical section reads or writes shared memory. `Batch::push_record` is
`PushRecord`, without the lock.

Abstractions: a byte has `Radix` values and the prefix has two bytes rather than
four of 256 values, so that prefixes wrap, exceed the limit and are damaged on an
instance TLC can enumerate. A payload is a short sequence of bytes. `tail` stops at
`MaxTail`; the code relies on a `u64` not wrapping.

`Corrupt` is a stray write to one byte or to one position at any moment, also
inside a critical section. `Restart` is the postmaster's reaction to the death of a
process: all others end and shared memory is initialised again.

`stream`, `starts`, `tainted`, `sound` are history: the bytes pushed and the counters
at which records begin, and whether memory has been damaged since the queue was
last emptied by a discard. No action reads them to decide anything.

### SpanExport

A backend goes `idle -> push -> (load -> set) | drop -> idle`: `Publish` counts the
spans that could not be encoded and has the batch; `Push` is the critical section,
with `should_wake` evaluated inside; `LoadWorker` reads `worker_proc_number`,
`SetLatch` sets that entry's latch, whoever owns it by then; `CountDropped` counts
a refused batch.

The worker goes `down -> register -> build -> loop`, and then round `loop -> poll ->
(reload) -> drain -> take -> export -> drain ... -> report -> loop`, or from `poll` to
`flush -> flushTake -> flushExport -> ... -> exit -> down`. `got` are the flags the
signal handlers set, `pending` is `PendingSignals`. `WakeUp` and `IdleTimeout` are
the two ways out of `wait_latch`, which resets the latch and consumes a SIGTERM.
The latch, the signal flags and `wait_latch` are PostgreSQL's and pgrx's; they are
modelled as `worker.rs` uses them. A configuration is a version of the settings file;
whether it makes an exporter is for `build_exporter` of `ExporterConfig` to say, which
takes the values of the settings: unset, not UTF-8, empty, or a text that the libraries
or the file system refuse. Whether a certificate can be read does not change while a
version is in force. When the worker starts its latch may be set or not
and it may get any process slot.

`Crash` (an ERROR or panic in the worker) may come at every step; `Exit` is
`proc_exit` and the unregistration. `Deadline` is the clock reaching the end of the
flush, `FlushCancelled` the timeout around an export that hangs.

Not modelled: death of the postmaster (everything ends), shutdown of the old
exporter (its result is only logged), the 60 seconds between two reports and the 10
seconds before a restart (both may take any time, which includes these).

A chunk of which nothing decodes ends the drain when it is taken (`Take`). Of any other
chunk any part may decode; which one is left open until it is delivered (`Delivered`),
since nothing looks at the records before. That a drain finds the queue itself damaged
and discards it (`src/worker.rs:354`) belongs to `RingQueue`, where `NoFalseCorruption`
shows that it takes damage to get there.

`log`, `exported`, `lost`, `refused`, `reported`, `caughtUp`, `overdue` are history.
`KeepHistory = FALSE` leaves the accounts empty, all records equal and the number of
statements unbounded; the state space is then finite without a bound on how much
is ever published, which the liveness properties need.

### Instrument and PlanWalk

`Instrument` has what `src/compat/` reads of PostgreSQL's instrumentation:
`node_instrument` (nothing for a node without instrumentation or interrupted in the
middle of a cycle, else `InstrEndLoop` and the totals), and the conversion of times, from
seconds on version 18 and from clock ticks on version 19, with the two-part
multiplication and i64's saturation. `TICKS_PER_SCALE` and `MAX_I64` are 2^14 and 2^63-1
in the code and small here. NaN seconds are left out.

A plan is given by the initPlan list, the other children and the subPlan list of every
node; a sub-plan is identified with its top node. `Visit` is the beginning of an iteration
of the loop of `walk_plan`: pop, make a span if below the limit (`from_plan`, which folds
the node's last cycle and caps the span's end at its parent's). `Refer` follows one
pointer of `plan_state_children`: `push_subplans` reports a sub-plan once
(`printed_subplans`), `push_child` skips null pointers. `Descend` pushes the children in
reverse. `bare` nodes are those for which `from_plan` returns nothing. A null sub-plan
state is skipped by the code and is not in a list here. Names, relations and costs are
copied from the plan and left out.

### Collector

One backend, with any number of statements open at once. `stmt[s]` is what the hooks
see of a `QueryDesc`: whether the nodes and the statement have instrumentation. A
hook at work is a sequence of steps, `cp` says which is next and `current` for which
statement: `start -> complete -> idle` for `my_executor_start_hook`, with PostgreSQL's
`ExecutorStart` in the middle, and `decide -> plan -> query -> (lex) -> publish -> restore
-> end -> idle` for `my_executor_end_hook`, with an early return from `decide`. `Raise` is an
ERROR or a panic at any of these steps: it goes to `report` (`catch_others`) or, for a
cancel, to `rethrow`. `context` and `messages` are what collection changes of the
backend's state and must put back.

Facts about PostgreSQL that the model takes from how the code uses it: on version 19
the statement timer is allocated inside `ExecutorStart`, on version 18 by our hook
after it, or by another extension's; `ExecutorEnd` is not called for a statement that
failed; settings may change whenever no hook is at work (a function's
`set_config`, a reload between statements of a cursor), not inside one; a cancel is
noticed only where catalogs are read, that is while plan nodes are named, and the
scanner does not look for it; after a cancel has left the hook, the error recovery of
PostgreSQL, not the hook, puts a memory context back (`rethrow -> rollback`); no
statement runs inside a hook's own code. `FATAL` and
`PANIC` end the process and are left out. `decide_parent` may decide anything.
Reporting a failure writes to the log and nothing else.

### SqlText, TraceContext, Sanitize, QueryText

A text is a sequence of bytes, and to keep texts short a whole word is one byte too
(`SqlText` lists them). Lengths in the code count bytes; a word's length has no influence
on anything but the limits. One character has two bytes, `e1` and `e2`, so that limits
and locations can fall into it.

`TraceContext` is `decide_parent`. `ReadSetting` is the setting and the early look for the
key; `ScanOpen`, `ScanClose`, `ScanOther` and `ScanEnd` are one iteration of
`block_comments`; `NextComment`, `StrayMark` and `Keyed` one iteration of
`traceparent_values`, with `split_value`, `percent_decode` and `parse_traceparent` as
operators. A value of `traceparent` is its sequence of fields, each well-formed, all
zeros or neither. The propagator of the library (external) refuses ids of zeros.

`Sanitize` is `sanitize`. `Extract` is `current_statement` with the range PostgreSQL gives
(`CleanQuerytext` is external) and the early returns of `normalize`; `ScanToken`,
`ScanFails` and `EndOfInput` are one iteration of `scan_tokens`, where `NextToken` of
`SqlText` stands for PostgreSQL's scanner; `Compact`, `Emit` and `RenderEnd` one iteration
of `render`; `Truncate` is `truncate_utf8`. The check in `render` that a literal's
position belongs to a token never fails for the tokens `lex` makes and is left out.
Placeholder numbers saturate at `MAX_PLACEHOLDER`, an i32's maximum in the code; `Params`
says which words are parameters, with any numbers up to it. `Terminators` has one word for
the keywords of clauses (`FROM`) and one for those that join SELECTs (`UNION`). The
containment of the scanner's errors and message levels is in `Collector`.

`QueryText` puts them in the order of `collect_spans_unguarded`, with nothing sanitized
for a trace that is not sampled. An input of `QueryText` comes with what a reader of the
documentation expects of it: the parent for comments made of pairs, the rendered text
for statements made of columns and clauses.

### Codec

`EncodeSpan` is an iteration of `encode_batch` (a span too large for a record is counted
and skipped), `DecodeRecord` one of `decode_records` over `records(bytes)`. The formats of
both kinds of span have all their fields in the code's order; a reader returns a set of
at most one result, which is empty where the code returns `DecodeError`. Numbers have one
byte, lengths two; byte `BASE - 1` is not UTF-8. `Damage` changes or cuts the stream at
any one place, before it is read.

## 3. Runs

| Run | Shows | Bounds and why they suffice |
| --- | --- | --- |
| `ring` | `Window`, `WholeRecords`, `TakesOldest`, `ImplementsSpanQueue` | two backends, capacity 6, records of 2, 3 and 5 bytes, `tail` up to 12: every record, and every prefix, wraps at every offset; full, exact-fit and refused batches occur; a drain of 4 bytes stops between records, and takes a record of 5 bytes alone |
| `ring_faults` | `InBounds`, `NoFalseCorruption`, `LockReleased` | one stray write of any value to any byte or position in any state; one backend, since the lock is the subject of `ring`. `SpanQueue` knows no damage |
| `export_wakeups` | `TypeOK`, `NoStrandedSpans`, `AtMostOneExport` | a queue of four records, so that the two conditions of `should_wake` differ; two backends and two slots, so a stale number and a late wake-up coexist with another push; one SIGHUP, one SIGTERM, one crash; settings that make an exporter and settings that do not; any number of statements |
| `export_accounts` | `Accounted`, `DeliveredInOrder`, `ImplementsSpanQueue` | two statements of up to two spans in a queue of three, chunks of two: refused, oversized, failed, cut off and crashed exports all occur, chunks of which one record or none decodes, and chunks that hold parts of two statements |
| `export_liveness` | `TermObeyed`, `ConfigApplied`, `QueueDrained` | one backend that may publish forever, two reloads with settings that make an exporter or do not, one SIGTERM |
| `plan_walk` | `Connected`, `SpansNest`, `TimesExact`, `EachNodeOnce`, `Summary`, `ExplainOrderUnlessNested` | all plans of four nodes, up to two second references to sub-plans, up to two bare nodes, limits 0 to 3 and none; for times, a chain of three nodes and a further child with every mix of five measurements, on clocks of both versions, scaled up, down and not at all; `MAX_I64` is 31, so that sums and products saturate |
| `collector` | `HandsBackClean`, `ExportedWasMeasured`, `ReachesExecutorEnd`, `CancelHonoured` | two statements, so one starts, ends or is rolled back inside the other; settings off, everything and slow only, changed any number of times; both server versions, leader and parallel worker; any statement may have a statement timer of another extension, from before or after ours; statements restart without bound |
| `query_text` | `TypeOK`, `NothingRaw`, `PlaceholdersApart`, `NeverFused`, `CutAtCharacter`, `CommentsFound`, `ParentFound`, `SelectListsShortened`, `OnlyItsText`, `ScansEnd` | every text of seven comment marks and keys; comments with every pair of items, of every shape of value, among them quotes that only the second item closes; statements of up to three columns, nested lists and five kinds of clauses, alone and between siblings; every location and length from below zero to beyond the end; `MAX_LEN` 12 cuts inside a character, between a placeholder and what follows and behind a shortened list (`more` stands for its whole text and is not cut inside); `MAX_NORMALIZE_INPUT_BYTES` 30 refuses the longest; parameters `$2` and `$7`, and `MAX_PLACEHOLDER` 9 in place of the largest i32: two literals beside `$7` use the numbers up exactly, a third one saturates |
| `codec` | `TypeOK`, `RoundTrip`, `Canonical`, `DamageConfined` | two or three spans of both kinds, with and without their optional values, one too large by a byte and one exactly as large as may be; every byte changed to every value and every cut; base 8, so that lengths of text and records have two digits and `MAX_RECORD_BYTES` 45 lies between |
| `dropped_restart` | `ReportedOnce` is violated | see findings |
| `nested_subplans` | `ExplainOrder` is violated | see findings |
| `encoded_keys` | `EncodedKeysFound` is violated | see findings; the comments with pairs of `query_text` |

No run switches deadlock checking off: the worker's loop, the ring's `Restart`, the
finished walk's and codec's `Done` and `Finished` of `QueryText` always have a next step.

**Fairness.** `HolderRuns` in `RingQueue`: a process inside a critical section runs,
because nothing there waits or calls into PostgreSQL. In `SpanExport` every backend
finishes its publish, the worker keeps running (`wait_latch` returns after a second
at the latest, an export ends by its own timeout, in a flush by the deadline), the
clock advances and the postmaster restarts the worker. Nothing obliges a backend to
publish, a signal to arrive, an export to succeed or the worker to crash. In
`Collector` a hook that was called runs on: it waits for nothing but the queue's lock, and
`HolderRuns` is about that. Nothing obliges a statement to start, end or be
cancelled. In `QueryText` the scans run on; that they end is not a matter of fairness but
of what they consume. All fairness is weak.

The inductive invariants (`RingInv`, `MappedInv`, `ExportInv`, `LogInv`, `CollectorInv`,
`NodesInv`, `SanitizeInv`, `OwnInv`, `ContextInv`, `CommentsInv`, `StreamInv`) and the type
invariants of the ring, the hooks and the plan walk are not among the properties of the
runs: section 4 proves them, and the runs check what they are for.

Every property has a mutant, an operator next to the one it replaces that makes a
plausible mistake; TLC finds the property violated with it.

## 4. Proofs

`RingQueueProofs` proves, for every capacity, radix, record limit, chunk limit, set
of backends and payloads and any number of stray writes, from `RingAssumption`
alone (the capacity is positive, a length fits its prefix, payloads are bytes, the
processes are distinct):

* `RingInvariant`: `Spec => []RingInv`, and from it `TypeCorrect`, `WindowIsFifo`,
  `DrainsWholeRecords`, `CopiesInBounds`;
* `DiscardsOnlyCorrupted` and `DrainsOldestFirst`, the action properties.

`Window` (what lies between `head` and `tail` is what was pushed) is not inductive.
It needs `Mutex`, since otherwise two pushes write to the same place; `PushInv`, since
`PushAdvance` makes visible what `PushCopy` wrote a step earlier, and that copy must
not have touched the window; `WindowFramed` and `BatchFramed`, since a drain stays
inside the window only if the prefixes it reads are those of records, one behind
the other; and `DrainInv`, since a drain's measurements must still be true when it
moves. `InBounds` is what remains of this when memory is damaged. `RingInv` is
their conjunction. The proof has one lemma per action; below them are the
arithmetic of `%` (`ModUnique`, `ModStep`, `ModDiffer`), what the two halves of a copy
that wraps do (`CopyInLemma`, `CopyOutLemma`) and that a prefix survives encoding
(`PrefixRoundTrip`).

`RingRefinementProofs` proves from `RingAssumption` that the ring keeps the promise of
`SpanQueue`:

* `RingImplementsSpanQueue`: `Spec /\ [][~Corrupt]_vars => ImplementsSpanQueue`, for every
  behaviour without a stray write, and `IntactRingImplementsSpanQueue`, the same where
  `MaxFaults = 0`, as in the run. With stray writes it is false: contents that are
  found damaged are discarded.

The mapping reads records out of the bytes with a recursive function (`Split`), and their
size with another (`BatchBytes`). `Laid(bytes, recs, pos)` says without recursion that the
bytes are the records of `recs`, which end at the places `pos`. `SplitIs` and
`BytesOfPrefix` show that then `Split` finds just these records, and `BatchBytes` these
places, by a least counterexample in the number of records behind or before the place;
`SplitExists` that such a function exists at all. `LaidRecord`, `LaidConcat` and
`LaidSlice` are what `push_record`, a push and a drain do to such bytes. `ContentsAre` is
where `RingInv` comes in: what the consumer would copy out is what was pushed, whatever
wraps. The invariant of the mapping, `MappedInv`, says that batches, contents and
the worker's buffer are laid out so, that a batch that is being pushed is not empty, and
`Accepting`: `measure_drain` has counted whole records from the front, stays within the
limit from the second on, and stops only in front of one that exceeds it. One lemma per
action then names the step of `SpanQueue`: `PushRecord` collects, `PushAdvance` queues,
a `PushLock` that finds no room refuses, `DrainMove` takes, `DrainDone` hands on, and the
rest is invisible.

`SpanExportProofs` proves, for every set of backends and process slots, every queue and
chunk size and every number of statements, reloads, SIGTERMs and crashes, from
`ExportAssumption` (the queue and a chunk hold at least one record, `NO_WORKER` is
no process slot):

* `TypeCorrect`: `Spec => []TypeOK`;
* `SlowCollectorDelay`: `Spec => []AtMostOneExport`. That at most one export begins
  beside a waiting signal is not inductive by itself: one has to know that the signal
  is still in `got` or `pending` when the drain is asked for the next chunk, and that the
  worker is not already past that question. This is `SignalInv`; the lemmas
  `WaitKeeps`, `InterruptedKeeps` and `DeliverKeeps` show that no step forgets a signal;
* `NoWakeUpLost`: `Spec => []NoStrandedSpans`, if every chunk has a record that decodes
  (`MaxUndecodable = 0`; without this it is false, see the notes below). It needs `WakeInv`,
  which says the same of the moment before the worker sleeps and counts a signal that
  is waiting as a reason not to; `RegisteredInv`, since a backend that reads
  `worker_proc_number` must find this worker's; and `StartsBehind`;
* `LogInvariant`: `Spec => []LogInv`, and from it `DeliveryOrder`: `Spec =>
  []DeliveredInOrder`, for the models that keep the history (`KeepHistory`). `LogInv`
  splits the log of accepted records in three: those handled, among which the delivered
  ones are found in the same order (`LogOrder`), the chunk in the worker's hands, and the
  queue (`LogEnds`). `ChunkInv` is needed because a chunk
  that is taken while another is held would leave a gap. Chunks that decode in part
  (`Delivered`, `DeliveredOrder`) or not at all, failed exports and crashes are included.
* `ExportImplementsSpanQueue`: `Spec => ImplementsSpanQueue`, step by step: a `Push` is a
  push of the whole statement or a refusal, taking a chunk is a drain of whole records
  from the front, the end of an export hands the chunk on, and everything else (wake-ups,
  reloads, crashes, restarts, refused batches) is invisible to the queue. It needs the types
  and `ChunkInv`: the worker asks for a chunk only when it holds none.

The bounds of `SpanExport` (`MaxSpans`, `MaxStatements`, ...) are arbitrary numbers in
the proofs, and so are the settings: any set of values of the exporter's settings.

`CollectorProofs` proves, for any number of open statements, any settings and times, from
`CollectorAssumption` (statement times are natural numbers, settings integers, there is
a name for no statement):

* `TypeCorrect`: `Spec => []TypeOK`;
* `CollectionLeavesNoTrace`: `Spec => []HandsBackClean`, by `CleanInv`: a foreign memory
  context is left current only on a way that still passes `RestoreContext` or leaves the
  hook as an error;
* `OnlyMeasuredExported`: `Spec => []ExportedWasMeasured`, by `MeasuredInv`. The nodes'
  instrumentation and the statement timer are requested at two moments, and read at a
  third; the proof rests on the setting being the same at the first two
  (`stmt[current].nodes = Wants(current)` while a start is at work), so that a timer of
  ours means measured nodes. A timer of another extension means nothing of the kind, and
  `ExportedWasMeasured` says so; what a comment in the code says instead is noted in section 5;
* `CollectorInvariant`: `Spec => []CollectorInv`, the conjunction of these.

`AccountProofs` proves for the models that keep the history:

* `SpansAccounted`: `Spec => []Accounted`, if the counter's bound leaves room for every
  span there can be (`MaxDropped >= MaxStatements * (MaxSpans + 1)`). `Accounted`
  compares sizes of sets and sequences, and these add up only if nothing occurs
  twice. So `Apart` follows a batch on its way: its records are new when they are
  published, no two batches that are still to be queued or counted share one, and none
  is in the log or refused before its backend's next step. `Placed` says the same of
  the handled part of the log: `exported` and `lost` hold each of its records, and no
  more of them than there are (`PickedOrLeft`, for a chunk of which some records decode). `Counted` is the balance of the drop counter, which
  `Push` and `CountDropped` keep in two separate steps, with what is refused and
  not yet counted in between.

`PlanWalkProofs` proves for any set of plans,
of any size and shape, with any measurements, from `PlanAssumption` and
`InstrumentAssumption` (numbers are numbers, plans refer to nodes of their own):

* `TypeCorrect`: `Spec => []TypeOK`;
* `SpansWithinParents`: `Spec => []SpansNest`, by `NestInv`: every parent link, of the
  span under way and of each entry of the stack too, is the statement's or one that a
  span made earlier has offered, so its end is known to be capped already;
* `TimesToTheNanosecond`: `ClocksFit => (Spec => []TimesExact)`, by `TimesInv`: a node's
  instrumentation is the one PostgreSQL left or that one folded, and folding once more
  changes nothing (`FoldedOnce`), so a sub-plan seen twice has one time. `TicksExact` is
  about the two products of the version 19 conversion, `SecondsExact` about the rounding
  of version 18. `ClocksFit` is what the two-part multiplication relies on: the scale,
  and the scale times what the division by 2^14 leaves of the ticks, fit into an i64. The
  scale is 2^14 times the nanoseconds of a tick, so every clock that ticks twice a minute
  is within it;

and with `TreeAssumption` too (a plan is a tree of nodes and sub-plans; sub-plans may be
referred to from anywhere and any number of times, also from below themselves):

* `NodesReportedOnce`: `Spec => []EachNodeOnce`. That nothing is visited twice is
  `OnceInv`: visited nodes, the stack and the children found so far have no node in common
  and hold none twice. It needs `ReachInv`, which says by which reference the walk came
  across each of them; the reference at hand is another one, so in a tree it leads to
  another node (`TreeRefs`). That nothing is forgotten is `FollowInv`: every reference that
  was followed led to a node the walk has come across. Both speak of single
  references, so no induction over the tree is needed: at the end the visited nodes are
  closed under `successors`, and so they contain the least such set, `InPlan`;
* `OmittedIsExact`: `Spec => []Summary`, by `CountInv`: the spans, the omitted nodes and the
  nodes without a span among those visited add up;
* `TopPartConnected`: `Spec => []Connected`, by `LinkInv`: the link of an entry of the stack
  is the nearest ancestor's. `Ancestor` is a recursive function that climbs through
  `hangs`; TLAPS knows it only by its equation, which may have several solutions if nodes
  hang in a circle. So `LinkInv` carries along that it has only one (`Only`), and
  `ClimbMore` and `ClimbSame` show that this stays so when a node is pushed below a visited
  one, and when a node that nothing hangs off yet gets a span.

`QueryTextProofs` proves for every text, range, encoding, mode and limit, from
`InputAssumption` (a text is a sequence of bytes, none of them the sign `$` with which the
model writes a placeholder; a range is a pair of integers, inside the text or not) and
`SanitizeAssumption`:

* `TypeCorrect`: `Spec => []TypeOK`;
* `NoLiteralExported`: `Spec => []NothingRaw`. The scan makes a literal's token a constant
  (`LexInv`: a token is the bytes its place and length say, and its code is that of those
  bytes), the rendering writes a placeholder for it (`RawInv`), and neither "...(N more
  columns)" nor a cut adds any. What comes from outside the tokens, the text between
  them, is reduced to a blank;
* `PlaceholdersStayApart`: `Spec => []PlaceholdersApart`, by `HoldersInv`: the first number
  is above those of all parameters among the tokens, of lists that are left out too
  (`FirstAbove`), and every number written is below the next, as long as the numbers
  suffice (`NumbersFit`: the highest parameter and the number of literals together do not
  exceed `MAX_PLACEHOLDER`). Beyond that the code's numbers saturate and collide. No
  statement that PostgreSQL has run gets there: its parameters are at most as many as
  parameter types fit into an allocation (`MaxAllocSize / sizeof(Oid)`, a quarter of 2^30),
  and its literals fewer than `MAX_NORMALIZE_INPUT_BYTES`;
* `WordsStayApart`: `Spec => []NeverFused`. `EmitIs` says what one token adds: a blank where
  a word would touch a word, and then a placeholder, one byte, or one whole character;
* `CutBetweenCharacters`: `Spec => []CutAtCharacter`. `CutIs` finds the cut at the limit
  or one byte before it, because no character has two second bytes in a row (`WrittenInv`).
  The statement's text has whole characters wherever the range cut the query's
  (`StatementIsWhole`, `LossyIsWhole`);
* `EveryListShortened`: `Spec => []AllShortened`: the rendering has shortened all lists when
  it ends. It compares positions with `=`, so a list that begins inside another, or out of
  order, would be passed over, and all behind it. `ListInv` says that the lists still to
  come begin at or behind the place reached, in order and without overlap. The lists that
  are kept are chosen by a recursive definition (`NonOverlapping`). `PicksExist` shows that
  it defines a function at all, by a least counterexample in the number of lists left,
  and `KeptAreFound` that what it picks are lists that were found, and apart. The induction
  is written out, since the library's theorems on it have an operator as a parameter, which
  TLAPS's provers cannot instantiate;
* `EveryCommentFound`: `Spec => []CommentsFound`. The two scans of comments, the code's loop
  and PostgreSQL's reading, keep a stack of the comments that are open. `PgComments` is a
  recursive function of a place, the stack and whether the byte before may end an
  operator, written with one argument, a triple, for the provers. `CommentsInv` says what
  the code's loop and that function have in common at every step: what is found already,
  followed by what the function finds from here on, is what it finds of the whole text,
  unless an operator has touched a comment. That the function exists is shown by a least
  counterexample in the bytes that are left;
* `OnlyOwnText`: `Spec => []OnlyItsText`, from one more assumption on the inputs,
  `StatementInputAssumption`: of a text with several statements the bytes `"sibling"` are
  those outside the place (`Own`) that location and length name, and the bytes `"secret"`
  inside it are in comments (`IsComment`) that lie in it wholly. `OwnInv` follows them
  through `sanitize`. What is cut out stands in the text at some offset, without more
  than blanks missing at its ends (`CleanInside`, `ValidatedIsOwn`, `StatementStands`), so it
  has no `"sibling"` and its comments are the same (`CommentStands`, `Hides`). The scanner never
  stands in a comment and finds no token there (`OutsideInv`): `CommentSkipped` shows that
  wherever it starts outside, `NextToken` ends outside, by a last counterexample among the
  offsets that it passes. And what the rendering writes for a token is a sign of its own
  or the token's first byte (`EmittedWords`).

`CodecProofs` proves for every radix, every record limit and all statements of spans of
both kinds, with any values in their fields, any strings and any times, from
`CodecAssumption` (a prefix of two digits can hold the length of a record, and there are
bytes for the tags) and `StatementsAssumption` (a span has a kind, and the fields of this
kind, each of its type):

* `TypeCorrect`: `Spec => []TypeOK`, and `NothingElseDecoded`: `Spec => []Canonical`, both
  from `TypeInv`. They rest on two facts about each type of field, one for each
  direction. `FieldBack`: what `put` writes of a value, with anything behind it, `read`
  returns, and the rest is what was behind it. `FieldRead`: what `read` returns of any
  bytes is a value of the type; `put` makes exactly the bytes that were read of it. The
  fields of a span are as many such steps (`FieldsBack`, `FieldsRead`), a span its header
  and its fields (`SpanBack`, `SpanRead`), and a record a prefix and its payload
  (`RecordBack`, `RecordRead`). `read_fields` is a recursive function of the number of
  fields, and `FlattenSeq` one too: `FirstFieldsExist` and `FlattensExist` show that there
  are such functions, by least counterexamples (`Upwards`);
* `WrittenSpansRead`: `Spec => []RoundTrip`, and `OneRecordLost`: `Spec => []DamageConfined`, by
  `StreamInv`. It compares the stream with `Bytes(records, k)`, the bytes of the first `k`
  records as they were made. While the worker is in front of the damage (`InFront`), the
  stream is the bytes of the records that were read, followed by what it has left; then it
  reads the damaged record, and behind it (`Behind`) the undamaged stream is the bytes
  of the records passed, followed by what is left, if the prefix of the damaged record
  was spared: only then does the next record begin where it should. `DamagedIn` says in
  which record the damage is, and that a spared prefix means a payload of the same
  length. `DamageInRecord` finds it (`WhichRecord`: the ends of the records grow), and
  `AtDamage` and `BehindDamage` pass it. At the end nothing is left, so the bytes of the
  records passed are all there were, and as many bytes are as many records (`SameCount`).

Only model-checked, and why:

* liveness (`TermObeyed`, `ConfigApplied`, `QueueDrained`, `LockReleased`,
  `ReachesExecutorEnd`, `CancelHonoured`, `ScansEnd`): TLAPS 1.4.5 has no rules for
  fairness and ENABLED that its provers could use;
* `ExplainOrderUnlessNested`: EXPLAIN's walk is recursive over the plan;
* `ParentFound`, `SelectListsShortened`: these compare with what the author of an input
  expects of it, and are about the inputs of the run.

## 5. Findings

1. **Dropped spans are reported again after a restart.** `DroppedSpansReport::new`
   (`src/worker.rs:157`) starts at 0, the counter it reports lives in shared memory.
   The worker's first report after a restart presents every span dropped since
   server start as newly dropped, against `src/worker.rs:150`, "so the log shows the
   change instead of a running total only".
2. **A shared sub-plan may hang off the wrong node.** `plan_state_children`
   (`src/postgres.rs:273`) claims the sub-plans of a node when the node is visited,
   before its children; EXPLAIN prints children first. If a node and a node below it
   refer to one sub-plan (a bitmap heap scan's recheck condition and the bitmap
   index scan's condition), EXPLAIN shows it below the lower, the trace below the
   upper one. `src/postgres.rs:259` says "in the order and with the relationships
   EXPLAIN shows them". `ExplainOrderUnlessNested` shows this is the only difference.
3. **A traceparent with an encoded key may be missed.** `traceparent_from_comments`
   (`src/postgres.rs:509`) first looks for the plain bytes of the key anywhere in the text,
   to skip the scan for most statements. `src/postgres.rs:562` says "Keys and values are
   percent-decoded", and so they are, but a comment whose key is encoded
   (`%74raceparent`) is not looked at unless the plain key stands somewhere too.
   `ParentFound` shows that any other parent is found.

Notes on behaviour that the models show or leave aside, without a run of its own:

* **The sample configuration exports nothing.** An empty `pg_otel.otlp_ca_certificate` is
  a path to `get_otlp_ca_certificate` (`src/config.rs:122`); reading the file "" fails, and
  `build_exporter` (`src/worker.rs:198`) returns without an exporter. The repository's
  README (lines 45 to 54) gives just these settings under "Then you can point it to the
  OpenTelemetry collector endpoint". `build_exporter` of `ExporterConfig` has it so.
* **Statements that were not instrumented may be exported.** "There is none when
  instrumentation was not requested (tracing was disabled at ExecutorStart)", says
  `src/postgres.rs:137` of the measured total. It is read from the statement timer, which
  may be another extension's (`src/compat/pg18.rs:31` expects one). If tracing is switched
  on before such a statement ends, it is exported, with nodes flagged
  `instrumentation_incomplete`. `ExportedWasMeasured` allows for it, and shows that
  there is no other way.
* **An undecodable chunk ends a drain.** `take_chunk` (`src/worker.rs:343`) returns no
  spans both for an empty queue and for a chunk of which nothing decodes, and
  `drain_queue` takes both for the end. The rest waits for the next wake-up or
  `IDLE_TIMEOUT`, and a flush on shutdown leaves it behind without saying so. It takes
  damaged records to get there. `NoWakeUpLost` assumes there are none for this reason.
* **Select lists.** Only parentheses count for depth: a comma inside `[...]` ends the first
  item and is counted as a column. Keywords that may occur inside an expression
  (`IS DISTINCT FROM`, `WITHIN GROUP`) end a list early, and clauses that
  `select_list_terminator` does not know (`ON CONFLICT`, `RETURNING`) are swallowed. No
  literal is exported by any of this.
* **The plain scan for comments** is not PostgreSQL's: it misses `SELECT */* c */ ...`
  (`CommentsFound` states it) and does not know quotes. A quote that is not closed in its
  pair is closed by a later pair's, which then belongs to the value (`ParentFound`
  expects this).
* **HTTP ignores `otlp_ca_certificate`**, and an authorization that is not UTF-8 is
  dropped with a log line: the exporter is built without it.
* **Children of an incomplete node** get spans of length zero, since ends are capped at
  their parent's and it ends at once.

A cancel is the one error that leaves collection, and then `ExecutorEnd` is not called.
The documentation of `collect_spans` says so; the comment in the hook (`src/lib.rs:128`,
"Never raises") is loose about it. `ReachesExecutorEnd` shows there is no other.

## 6. What is left

Not modelled, and why:

* the declarations of the settings with their ranges and defaults, SQL scripts and
  packaging: static data;
* the OTLP libraries behind `build_exporter` and `export`, PostgreSQL's scanner, latches and
  executor: external, modelled only as the code uses them;
* `SpanData` and its attributes, names of nodes and sub-plans, relations and costs: copied
  field by field, without state or order;
* where `log_min_messages` lies in each server version: an address;
* the installation of the hooks in `_PG_init` and the SQL functions: executed once or
  without effect on the rest.
