----------------------------- MODULE SpanExport -----------------------------
(***************************************************************************)
(* From the end of a statement to the collector: backends publish spans to *)
(* the shared queue and wake the worker (src/shared.rs), the exporter      *)
(* background worker drains the queue and exports chunk by chunk, reacting *)
(* to SIGHUP and SIGTERM (src/worker.rs), and the postmaster starts it     *)
(* again whenever it exits (src/lib.rs).                                   *)
(*                                                                         *)
(* The queue is a sequence of records of equal size, and a push or a drain *)
(* is one step, which RingQueue shows the lock and the ring to provide.    *)
(* Everything outside the lock is a step of its own.                       *)
(***************************************************************************)
EXTENDS Integers, Sequences, FiniteSets, Functions, ExporterConfig

CONSTANTS
  Backends,
  Slots,             \* entries of the PGPROC array a worker may get
  NoWorker,          \* NO_WORKER
  Settings,          \* values the exporter's settings may get
  Cap,               \* records the queue holds
  CHUNK,             \* records of a full chunk (CHUNK_BYTES)
  MaxSpans,          \* bound: spans of a statement
  MaxStatements,     \* bound: statements published
  MaxHups,           \* bound: configuration reloads
  MaxTerms,          \* bound: SIGTERMs sent to the worker
  MaxCrashes,        \* bound: ERRORs that end the worker
  MaxUndecodable,    \* bound: chunks of which no record decodes
  MaxDropped,        \* bound: where the count of dropped spans stops
  KeepHistory        \* FALSE: statements have no identity and are not bounded

ASSUME ExportAssumption ==
  /\ Cap \in Nat \ {0}
  /\ CHUNK \in Nat \ {0}
  /\ NoWorker \notin Slots
  /\ {MaxSpans, MaxStatements, MaxHups, MaxTerms, MaxCrashes} \subseteq Nat
  /\ {MaxUndecodable, MaxDropped} \subseteq Nat
  /\ KeepHistory \in BOOLEAN

NoExporter == 0

VARIABLES
  \* shared memory
  queue,        \* records queued, oldest first
  dropped,      \* Header::dropped_spans
  workerProc,   \* Header::worker_proc_number
  latch,        \* the latch of the worker's PGPROC entry is set
  \* backends
  pc,           \* pc[b]: what b does next
  batch,        \* batch[b]: the records of the statement b publishes
  target,       \* target[b]: the entry whose latch b is about to set
  \* the worker
  wpc,          \* what it does next
  slot,         \* MyProcNumber
  got,          \* flags set by the signal handlers
  pending,      \* PendingSignals
  exporter,     \* version of the configuration it was built from, or NoExporter
  loaded,       \* version of the configuration the process last read
  chunk,        \* records taken and not yet handed to the exporter
  late,         \* SHUTDOWN_FLUSH_TIMEOUT has passed
  lastTotal,    \* DroppedSpansReport::last_total
  \* its environment
  config,       \* config[v]: the settings in version v of the configuration file
  budget,       \* what is left of the bounds
  \* history, read by properties only
  statements,   \* number of statements published
  log,          \* records ever accepted into the queue, in order
  exported,     \* records the exporter delivered, in order
  lost,         \* records accepted and given up
  refused,      \* records the queue had no room for, or too large to be encoded
  reported,     \* sum of the "newly dropped" numbers logged
  caughtUp,     \* the worker has found the queue empty since it started
  overdue       \* exports begun since a signal arrived that is not acted upon

shared == <<queue, dropped, workerProc, latch>>
backends == <<pc, batch, target>>
signals == <<got, pending>>
exporting == <<exporter, loaded, chunk, late, lastTotal>>
environment == <<config, budget>>
accounts == <<statements, log, exported, lost, refused>>
vars == <<shared, backends, wpc, slot, signals, exporting, environment,
          accounts, reported, caughtUp, overdue>>

Signal == {"hup", "term"}
NoSignal == [s \in Signal |-> FALSE]

\* Mutant: only a SIGTERM interrupts.
AnyTerm(f) == f["term"]

\* PendingSignals::any, of the flags f.
Any(f) == \E s \in Signal : f[s]

\* PendingSignals::poll: the flags are consumed and remembered.
Polled == [s \in Signal |-> pending[s] \/ got[s]]

\* Mutant: an empty queue that gets a few spans wakes nobody.
should_wake_filling(used_before, used_after) ==
  used_before < Cap \div 2 /\ used_after >= Cap \div 2

\* should_wake
should_wake(used_before, used_after) ==
  \/ used_before = 0
  \/ used_before < Cap \div 2 /\ used_after >= Cap \div 2

Capped(n) == IF n <= MaxDropped THEN n ELSE MaxDropped

\* The record of the i-th span of a statement.
Span(statement, i) == IF KeepHistory THEN <<statement, i>> ELSE <<0, 0>>

----------------------------------------------------------------------------
Init ==
  /\ queue = << >> /\ dropped = 0 /\ workerProc = NoWorker
  /\ latch = FALSE
  /\ pc = [b \in Backends |-> "idle"]
  /\ batch = [b \in Backends |-> << >>]
  /\ target = [b \in Backends |-> NoWorker]
  /\ wpc = "down" /\ slot \in Slots
  /\ got = NoSignal /\ pending = NoSignal
  /\ exporter = NoExporter /\ loaded = 1 /\ chunk = << >> /\ late = FALSE /\ lastTotal = 0
  /\ \E settings \in Settings : config = <<settings>>
  /\ budget = [hups |-> MaxHups, terms |-> MaxTerms, crashes |-> MaxCrashes,
               undecodable |-> MaxUndecodable]
  /\ statements = 0
  /\ log = << >> /\ exported = << >> /\ lost = {} /\ refused = {}
  /\ reported = 0 /\ caughtUp = FALSE /\ overdue = 0

----------------------------------------------------------------------------
(* Backends *)

\* publish: the spans that could not be encoded are counted; an empty batch is
\* not queued.
Publish(b, n, skipped) ==
  /\ pc[b] = "idle"
  /\ statements < MaxStatements
  /\ statements' = IF KeepHistory THEN statements + 1 ELSE statements
  /\ dropped' = Capped(dropped + skipped)
  /\ batch' = [batch EXCEPT ![b] = [i \in 1 .. n |-> Span(statements', i)]]
  /\ pc' = [pc EXCEPT ![b] = IF n = 0 THEN "idle" ELSE "push"]
  /\ refused' = IF KeepHistory THEN refused \cup {Span(statements', n + i) : i \in 1 .. skipped}
                               ELSE refused
  /\ UNCHANGED <<queue, workerProc, latch, target, wpc, slot, signals, exporting,
                 environment, log, exported, lost, reported, caughtUp, overdue>>

\* Mutant: the last free entry is never used.
FitsBelow(records) == Len(queue) + Len(records) < Cap

\* Ring::push_batch drops a batch that does not fit.
Fits(records) == Len(queue) + Len(records) <= Cap

\* The critical section of publish: with_ring(push_batch, should_wake).
Push(b) ==
  /\ pc[b] = "push"
  /\ IF Fits(batch[b])
     THEN /\ queue' = queue \o batch[b]
          /\ log' = IF KeepHistory THEN log \o batch[b] ELSE log
          /\ pc' = [pc EXCEPT ![b] =
                      IF should_wake(Len(queue), Len(queue')) THEN "load" ELSE "idle"]
          /\ batch' = [batch EXCEPT ![b] = << >>]
          /\ UNCHANGED refused
     ELSE /\ pc' = [pc EXCEPT ![b] = "drop"]
          /\ refused' = IF KeepHistory THEN refused \cup Range(batch[b]) ELSE refused
          /\ UNCHANGED <<queue, log, batch>>
  /\ UNCHANGED <<dropped, workerProc, latch, target, wpc, slot, signals, exporting,
                 environment, statements, exported, lost, reported, caughtUp, overdue>>

\* count_dropped(batch.records())
CountDropped(b) ==
  /\ pc[b] = "drop"
  /\ dropped' = Capped(dropped + Len(batch[b]))
  /\ batch' = [batch EXCEPT ![b] = << >>]
  /\ pc' = [pc EXCEPT ![b] = "idle"]
  /\ UNCHANGED <<queue, workerProc, latch, target, wpc, slot, signals, exporting,
                 environment, accounts, reported, caughtUp, overdue>>

\* Mutant: NO_WORKER is taken for an entry.
AnyProc == TRUE

Registered == workerProc # NoWorker

\* wake_worker reads worker_proc_number ...
LoadWorker(b) ==
  /\ pc[b] = "load"
  /\ target' = [target EXCEPT ![b] = workerProc]
  /\ pc' = [pc EXCEPT ![b] = IF Registered THEN "set" ELSE "idle"]
  /\ UNCHANGED <<shared, batch, wpc, slot, signals, exporting, environment, accounts,
                 reported, caughtUp, overdue>>

\* ... and sets that entry's latch, whoever owns the entry by now.
SetLatch(b) ==
  /\ pc[b] = "set"
  /\ latch' = (latch \/ (wpc # "down" /\ target[b] = slot))
  /\ target' = [target EXCEPT ![b] = NoWorker]
  /\ pc' = [pc EXCEPT ![b] = "idle"]
  /\ UNCHANGED <<queue, dropped, workerProc, batch, wpc, slot, signals, exporting,
                 environment, accounts, reported, caughtUp, overdue>>

----------------------------------------------------------------------------
(* The worker *)

\* What no step of the worker changes.
Others == UNCHANGED <<backends, environment, statements, log, refused>>

\* The postmaster starts the worker, with the configuration it has itself read,
\* in any PGPROC entry and with its latch in any state.
Start ==
  /\ wpc = "down"
  /\ wpc' = "register"
  /\ slot' \in Slots
  /\ latch' \in BOOLEAN
  /\ loaded' = Len(config)
  /\ Others
  /\ UNCHANGED <<queue, dropped, workerProc, signals, exporter, chunk, late, lastTotal,
                 exported, lost, reported, caughtUp, overdue>>

\* register_worker
Register ==
  /\ wpc = "register"
  /\ workerProc' = slot
  /\ wpc' = "build"
  /\ Others
  /\ UNCHANGED <<queue, dropped, latch, slot, signals, exporting, exported, lost, reported,
                 caughtUp, overdue>>

\* build_exporter before the loop, from the values the process was forked with.
Build ==
  /\ wpc = "build"
  /\ exporter' = IF build_exporter(config[loaded]) THEN loaded ELSE NoExporter
  /\ wpc' = "loop"
  /\ Others
  /\ UNCHANGED <<shared, slot, signals, loaded, chunk, late, lastTotal, exported, lost,
                 reported, caughtUp, overdue>>

\* The loop does not sleep while a signal waits to be acted upon.
SkipWait ==
  /\ wpc = "loop" /\ Any(pending)
  /\ wpc' = "poll"
  /\ Others
  /\ UNCHANGED <<shared, slot, signals, exporting, exported, lost, reported, caughtUp, overdue>>

\* Mutant: the result of wait_latch is ignored.
Forgotten == pending

\* A SIGTERM that wait_latch has consumed is remembered.
Remembered == [pending EXCEPT !["term"] = @ \/ got["term"]]

\* BackgroundWorker::wait_latch returns: it resets the latch and consumes a
\* SIGTERM, which the loop remembers.
WaitReturns ==
  /\ latch' = FALSE
  /\ got' = [got EXCEPT !["term"] = FALSE]
  /\ pending' = Remembered
  /\ wpc' = "poll"
  /\ Others
  /\ UNCHANGED <<queue, dropped, workerProc, slot, exporting, exported, lost, reported,
                 caughtUp, overdue>>

Asleep == wpc = "loop" /\ ~Any(pending)

WakeUp == Asleep /\ latch /\ WaitReturns

IdleTimeout == Asleep /\ WaitReturns

\* signals.poll() and the two decisions that follow it.
Poll ==
  /\ wpc = "poll"
  /\ got' = NoSignal
  /\ IF Polled["term"]
     THEN wpc' = "flush" /\ pending' = Polled
     ELSE /\ wpc' = IF Polled["hup"] THEN "reload" ELSE "drain"
          /\ pending' = [Polled EXCEPT !["hup"] = FALSE]
  /\ overdue' = 0
  /\ Others
  /\ UNCHANGED <<shared, slot, exporting, exported, lost, reported, caughtUp>>

\* reload_exporter: a configuration that cannot be used keeps the old exporter.
Reload ==
  /\ wpc = "reload"
  /\ loaded' = Len(config)
  /\ exporter' = IF build_exporter(config[loaded']) THEN loaded' ELSE exporter
  /\ wpc' = "drain"
  /\ Others
  /\ UNCHANGED <<shared, slot, signals, chunk, late, lastTotal, exported, lost, reported,
                 caughtUp, overdue>>

\* Mutants: signals are looked at one chunk later; nothing is drained without an
\* exporter.
interrupted_later == Any(pending)
interrupted_idle == Any(Polled) \/ exporter = NoExporter

\* The closure that export_pending gives to drain_queue.
interrupted == Any(Polled)

\* drain_queue of export_pending: interrupted() before every chunk.
Interrupted ==
  /\ wpc = "drain"
  /\ got' = NoSignal
  /\ pending' = Polled
  /\ wpc' = IF interrupted THEN "report" ELSE "take"
  /\ Others
  /\ UNCHANGED <<shared, slot, exporting, exported, lost, reported, caughtUp, overdue>>

\* The records of the next chunk.
Oldest == SubSeq(queue, 1, IF Len(queue) <= CHUNK THEN Len(queue) ELSE CHUNK)

\* Mutant: one record too many is removed.
RemainingLess == SubSeq(queue, Len(Oldest) + 2, Len(queue))

Remaining == SubSeq(queue, Len(Oldest) + 1, Len(queue))

\* take_chunk, from the loop or from the flush.  An empty chunk ends the drain;
\* so does a chunk of which no record decodes.  Which records of any other chunk
\* decode is left open until it is delivered (Delivered), since nothing looks at them
\* before.  That drain_into finds the positions or prefixes damaged and discards the
\* whole queue is not modelled here: intact contents never are (RingQueue).
Take(whenEmpty, whenTaken) ==
  /\ queue' = Remaining
  /\ \/ /\ Oldest = << >>
        /\ wpc' = whenEmpty
        /\ caughtUp' = TRUE
        /\ UNCHANGED <<chunk, lost, budget>>
     \/ /\ Oldest # << >>
        /\ chunk' = Oldest
        /\ wpc' = whenTaken
        /\ UNCHANGED <<lost, caughtUp, budget>>
     \/ /\ Oldest # << >>
        /\ budget.undecodable > 0
        /\ budget' = [budget EXCEPT !.undecodable = @ - 1]
        /\ lost' = IF KeepHistory THEN lost \cup Range(Oldest) ELSE lost
        /\ wpc' = whenEmpty
        /\ caughtUp' = TRUE
        /\ UNCHANGED chunk
  /\ UNCHANGED <<dropped, workerProc, latch, backends, slot, signals, exporter, loaded, late,
                 lastTotal, config, statements, log, exported, refused, reported>>

TakeChunk ==
  /\ wpc = "take"
  /\ Take("report", "export")
  /\ overdue' = IF wpc' = "export" /\ Any(Polled) THEN overdue + 1 ELSE overdue

\* Mutant: spans whose export failed are queued again.
Requeue == queue' = queue \o chunk /\ UNCHANGED <<exported, lost>>

\* There is no exporter, or the export failed.
GiveUp ==
  /\ lost' = IF KeepHistory THEN lost \cup Range(chunk) ELSE lost
  /\ UNCHANGED <<queue, exported>>

\* Any k of n places, in ascending order.
Ascending(k, n) == {at \in [1 .. k -> 1 .. n] : \A i, j \in 1 .. k : i < j => at[i] < at[j]}

\* The records at the places `at` decode and are delivered, in their order; the others
\* are discarded, which is only logged.
Delivered(k, at) ==
  /\ exported' = IF KeepHistory THEN exported \o [i \in 1 .. k |-> chunk[at[i]]] ELSE exported
  /\ lost' = IF KeepHistory THEN lost \cup {chunk[i] : i \in DOMAIN chunk \ Range(at)} ELSE lost
  /\ UNCHANGED queue

\* export_chunk: what decodes is delivered, or all is given up because there is no
\* exporter or the export fails, which is only logged.
Handled(next) ==
  /\ \/ /\ exporter # NoExporter
        /\ \E k \in 1 .. Len(chunk) : \E at \in Ascending(k, Len(chunk)) : Delivered(k, at)
     \/ GiveUp
  /\ chunk' = << >>
  /\ wpc' = next
  /\ Others
  /\ UNCHANGED <<dropped, workerProc, latch, slot, signals, exporter, loaded, late, lastTotal,
                 reported, caughtUp>>

ExportChunk ==
  /\ wpc = "export"
  /\ Handled("drain")
  /\ UNCHANGED overdue

\* dropped_report.log_if_due: whether DROPPED_LOG_INTERVAL has passed is open.
Report ==
  /\ wpc = "report"
  /\ \/ /\ dropped > lastTotal
        /\ lastTotal' = dropped
        /\ reported' = reported + (dropped - lastTotal)
     \/ UNCHANGED <<lastTotal, reported>>
  /\ wpc' = "loop"
  /\ Others
  /\ UNCHANGED <<shared, slot, signals, exporter, loaded, chunk, late, exported, lost, caughtUp,
                 overdue>>

\* flush_and_shutdown: the clock is looked at before every chunk.
FlushCheck ==
  /\ wpc = "flush"
  /\ wpc' = IF late THEN "exit" ELSE "flushTake"
  /\ Others
  /\ UNCHANGED <<shared, slot, signals, exporting, exported, lost, reported, caughtUp, overdue>>

FlushTake ==
  /\ wpc = "flushTake"
  /\ Take("exit", "flushExport")
  /\ UNCHANGED overdue

FlushExport ==
  /\ wpc = "flushExport"
  /\ Handled("flush")
  /\ UNCHANGED overdue

\* tokio::time::timeout cancels an export that is still waiting; whether the
\* collector has received the chunk is open.
FlushCancelled ==
  /\ wpc = "flushExport" /\ late /\ exporter # NoExporter
  /\ Handled("exit")
  /\ UNCHANGED overdue

\* The clock reaches the deadline of the flush.
Deadline ==
  /\ wpc \in {"flush", "flushTake", "flushExport"} /\ ~late
  /\ late' = TRUE
  /\ Others
  /\ UNCHANGED <<shared, wpc, slot, signals, exporter, loaded, chunk, lastTotal, exported, lost,
                 reported, caughtUp, overdue>>

\* proc_exit(1), and unregister_worker_on_exit.  The memory of the process is
\* gone, what it drained last with it.
Exit ==
  /\ wpc = "exit"
  /\ workerProc' = NoWorker
  /\ wpc' = "down"
  /\ latch' = FALSE
  /\ got' = NoSignal /\ pending' = NoSignal
  /\ exporter' = NoExporter /\ chunk' = << >> /\ late' = FALSE /\ lastTotal' = 0
  /\ lost' = IF KeepHistory THEN lost \cup Range(chunk) ELSE lost
  /\ caughtUp' = FALSE /\ overdue' = 0
  /\ Others
  /\ UNCHANGED <<queue, dropped, slot, loaded, exported, reported>>

----------------------------------------------------------------------------
(* The environment *)

\* An ERROR or a panic ends the worker.
Crash ==
  /\ wpc \notin {"down", "exit"}
  /\ budget.crashes > 0
  /\ budget' = [budget EXCEPT !.crashes = @ - 1]
  /\ wpc' = "exit"
  /\ UNCHANGED <<shared, backends, slot, signals, exporting, config, accounts, reported,
                 caughtUp, overdue>>

\* The signal handlers set a flag and the process's latch.
Deliver(s) ==
  IF wpc = "down"
  THEN UNCHANGED <<got, latch>>
  ELSE /\ got' = [got EXCEPT ![s] = TRUE]
       /\ latch' = TRUE

\* The configuration file is changed and pg_reload_conf() called.
ReloadConfig ==
  /\ budget.hups > 0
  /\ budget' = [budget EXCEPT !.hups = @ - 1]
  /\ \E settings \in Settings : config' = Append(config, settings)
  /\ Deliver("hup")
  /\ UNCHANGED <<queue, dropped, workerProc, backends, wpc, slot, pending, exporting, accounts,
                 reported, caughtUp, overdue>>

\* pg_terminate_backend() on the worker, or a shutdown of the server.
Terminate ==
  /\ budget.terms > 0 /\ wpc # "down"
  /\ budget' = [budget EXCEPT !.terms = @ - 1]
  /\ Deliver("term")
  /\ UNCHANGED <<queue, dropped, workerProc, backends, wpc, slot, pending, exporting, config,
                 accounts, reported, caughtUp, overdue>>

----------------------------------------------------------------------------
Backend(b) == Push(b) \/ CountDropped(b) \/ LoadWorker(b) \/ SetLatch(b)

Worker ==
  \/ Register \/ Build
  \/ SkipWait \/ WakeUp \/ IdleTimeout \/ Poll \/ Reload
  \/ Interrupted \/ TakeChunk \/ ExportChunk \/ Report
  \/ FlushCheck \/ FlushTake \/ FlushExport \/ FlushCancelled \/ Exit

Next ==
  \/ \E b \in Backends :
       \/ \E n \in 0 .. MaxSpans, skipped \in 0 .. 1 : Publish(b, n, skipped)
       \/ Backend(b)
  \/ Start \/ Worker \/ Deadline
  \/ Crash \/ ReloadConfig \/ Terminate

Spec == Init /\ [][Next]_vars

\* Backends finish what they publish and the worker's process keeps running (an
\* export ends by its own timeout, a wait by IDLE_TIMEOUT), the clock reaches the
\* deadline, and the postmaster starts the worker again.  Nothing makes a backend
\* publish, a signal arrive or the worker crash.
Fairness ==
  /\ \A b \in Backends : WF_vars(Backend(b))
  /\ WF_vars(Worker)
  /\ WF_vars(Deadline)
  /\ WF_vars(Start)

FairSpec == Spec /\ Fairness

----------------------------------------------------------------------------
(* Properties *)

\* A record is the number of its statement and of the span in it.
Records == Nat \X Nat

SharedType ==
  /\ queue \in Seq(Records)
  /\ dropped \in 0 .. MaxDropped
  /\ workerProc \in Slots \cup {NoWorker}
  /\ latch \in BOOLEAN

BackendsType ==
  /\ pc \in [Backends -> {"idle", "push", "drop", "load", "set"}]
  /\ batch \in [Backends -> Seq(Records)]
  /\ target \in [Backends -> Slots \cup {NoWorker}]
  /\ \A b \in Backends : pc[b] = "set" => target[b] \in Slots

ControlType ==
  /\ wpc \in {"down", "register", "build", "loop", "poll", "reload", "drain", "take", "export",
               "report", "flush", "flushTake", "flushExport", "exit"}
  /\ slot \in Slots
  /\ got \in [Signal -> BOOLEAN]
  /\ pending \in [Signal -> BOOLEAN]
  /\ caughtUp \in BOOLEAN
  /\ overdue \in Nat

ExportingType ==
  /\ config \in Seq(Settings)
  /\ loaded \in 1 .. Len(config)
  /\ exporter \in 0 .. Len(config)
  /\ chunk \in Seq(Records)
  /\ late \in BOOLEAN
  /\ lastTotal \in 0 .. MaxDropped
  /\ reported \in Nat

BudgetType ==
  budget \in [hups : 0 .. MaxHups, terms : 0 .. MaxTerms, crashes : 0 .. MaxCrashes,
              undecodable : 0 .. MaxUndecodable]

AccountsType ==
  /\ statements \in 0 .. MaxStatements
  /\ log \in Seq(Records) /\ exported \in Seq(Records)
  /\ lost \subseteq Records /\ refused \subseteq Records

\* Every variable has its type, a backend about to set a latch knows which one, and
\* the worker's configuration and exporter are versions that exist.
TypeOK ==
  SharedType /\ BackendsType /\ ControlType /\ ExportingType /\ BudgetType /\ AccountsType

\* A wake-up is under way to the worker.
WakeUnderWay == \E b \in Backends : \/ pc[b] = "load"
                                    \/ pc[b] = "set" /\ target[b] = slot

\* No lost wake-up (worker.rs: "leaving data behind would strand it"): once the
\* worker has found the queue empty it never sleeps beside queued spans unless
\* its latch is set or about to be set; IDLE_TIMEOUT is not needed for this.
NoStrandedSpans ==
  Asleep /\ caughtUp /\ queue # << >> => latch \/ WakeUnderWay

\* "a slow collector cannot delay a reload or shutdown by more than one export":
\* at most one export begins between a signal's arrival and the worker's acting.
AtMostOneExport == overdue <= 1

\* Counted as dropped, or about to be counted.
Uncounted == UNION {Range(batch[b]) : b \in {d \in Backends : pc[d] = "drop"}}

\* Every span that was published is in exactly one place: counted as dropped,
\* queued, in the worker's hands, delivered, or given up.
Accounted ==
  /\ Range(log) = Range(queue) \cup Range(chunk) \cup Range(exported) \cup lost
  /\ Cardinality(Range(log)) =
       Len(queue) + Len(chunk) + Len(exported) + Cardinality(lost)
  /\ dropped + Cardinality(Uncounted) = Cardinality(refused)
  /\ Range(log) \cap refused = {}

\* Spans are delivered at most once and in the order in which they were queued,
\* through failed exports, reloads, shutdowns and restarts of the worker.
DeliveredInOrder ==
  \A i, j \in 1 .. Len(exported) : i < j =>
    \E k, l \in 1 .. Len(log) : k < l /\ log[k] = exported[i] /\ log[l] = exported[j]

\* The log reports every dropped span at most once ("so the log shows the change
\* instead of a running total only", DroppedSpansReport).
ReportedOnce == reported <= dropped

\* A SIGTERM is obeyed although backends go on publishing and the collector may
\* hang or be missing: the worker exits.
TermObeyed == got["term"] \/ pending["term"] ~> wpc = "down"

\* A configuration that can be used comes to be used, whatever the worker is doing
\* when the SIGHUP arrives, unless the configuration changes once more.
ConfigApplied ==
  \A v \in 1 .. MaxHups + 1 :
    Len(config) = v /\ build_exporter(config[v]) ~> exporter = v \/ Len(config) > v

\* A full queue does not stay full: with and without a usable collector.
QueueDrained == Len(queue) = Cap ~> Len(queue) < Cap

----------------------------------------------------------------------------
(* Inductive invariants: what NoStrandedSpans, AtMostOneExport and            *)
(* DeliveredInOrder rest on.                                                  *)

\* A worker that is past its registration is the one backends see.
RegisteredInv ==
  wpc \notin {"down", "register", "exit"} => workerProc = slot

\* A worker that has just been started has not looked at the queue yet.
StartsBehind ==
  wpc \in {"down", "register", "build"} => ~caughtUp

\* From the moment the worker finds the queue empty until it looks at it again.
WakeInv ==
  wpc \in {"report", "loop"} /\ caughtUp /\ queue # << >> =>
    latch \/ WakeUnderWay \/ Any(pending)

\* An export that has begun beside a signal is the last one before the signal is
\* acted upon, and the signal is not forgotten meanwhile.
SignalInv == overdue = 0 \/ (overdue = 1 /\ Any(Polled) /\ wpc # "take")

ExportInv == RegisteredInv /\ StartsBehind /\ WakeInv /\ SignalInv

\* Records handled so far, in the order of the log.
Handed == Len(log) - Len(queue) - Len(chunk)

\* The worker holds a chunk only between taking it and handing it on.
ChunkInv == wpc \notin {"export", "flushExport", "exit"} => chunk = << >>

\* The log ends with what is in the worker's hands and what is queued.
LogEnds ==
  /\ Handed >= 0
  /\ \A i \in 1 .. Len(chunk) : chunk[i] = log[Handed + i]
  /\ \A i \in 1 .. Len(queue) : queue[i] = log[Handed + Len(chunk) + i]

\* What was delivered is found before that, in the same order.
LogOrder ==
  \E at \in [1 .. Len(exported) -> 1 .. Handed] :
    /\ \A i \in 1 .. Len(exported) : log[at[i]] = exported[i]
    /\ \A i, j \in 1 .. Len(exported) : i < j => at[i] < at[j]

LogInv == ChunkInv /\ LogEnds /\ LogOrder
=============================================================================
