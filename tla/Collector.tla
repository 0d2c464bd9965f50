------------------------------ MODULE Collector ------------------------------
(***************************************************************************)
(* The executor hooks of one backend (src/lib.rs) and the collection of    *)
(* spans inside them (src/postgres.rs, src/sanitize.rs, src/compat/): what *)
(* is asked of the executor when a statement starts, what is found of it   *)
(* when the statement ends, and what becomes of errors raised in between.  *)
(*                                                                         *)
(* Statements of a backend overlap: functions run statements inside        *)
(* others, cursors stay open.  The settings may change whenever no hook is *)
(* at work.  PostgreSQL's part is modelled as the hooks use it.            *)
(***************************************************************************)
EXTENDS Integers, FiniteSets

CONSTANTS
  Statements,        \* statements that may be open at once
  NoStatement,
  MinDurations,      \* values of pg_otel.min_duration_ms; -1 disables tracing
  Durations          \* times a statement may take

ASSUME CollectorAssumption ==
  /\ NoStatement \notin Statements
  /\ MinDurations \subseteq Int
  /\ Durations \subseteq Nat /\ 0 \in Durations

VARIABLES
  build,          \* PostgreSQL 18 or 19, parallel worker or not: never changes
  min_duration,   \* pg_otel.min_duration_ms
  stmt,           \* stmt[s]: the QueryDesc of statement s
  cp,             \* what the hook at work does next, or "idle"
  current,        \* the statement whose hook is at work
  error,          \* what has been raised in collect_spans and not dealt with
  context,        \* CurrentMemoryContext
  messages        \* client_min_messages and log_min_messages

vars == <<build, min_duration, stmt, cp, current, error, context, messages>>

\* A QueryDesc: instrument_options ask for rows and timers of the nodes; the statement
\* timer (totaltime, query_instr) is missing, was asked for by this extension, or only
\* by another one, which may want time or only counts.
Fresh == [phase |-> "new", explain |-> FALSE, nodes |-> FALSE, timer |-> "none",
          exported |-> FALSE]

Closed == {"new", "ended", "aborted", "cancelled"}
Phases == Closed \cup {"starting", "open", "ending"}
OtherTimers == {"none", "timed", "untimed"}
Timers == OtherTimers \cup {"ours"}
QueryDescs == [phase : Phases, explain : BOOLEAN, nodes : BOOLEAN, timer : Timers,
               exported : BOOLEAN]

Open == {s \in Statements : stmt[s].phase = "open"}

----------------------------------------------------------------------------
(* Decisions *)

\* tracing_enabled_here
Tracing == min_duration >= 0 /\ ~build.parallel

\* wants_instrumentation
Wants(s) == ~stmt[s].explain /\ Tracing

\* Mutant: without a timer the statement took no time.
AlwaysTotal(s) == TRUE

\* query_total_ns returns something.
HasTotal(s) ==
  IF build.pg18 THEN stmt[s].timer \in {"ours", "timed"} ELSE stmt[s].timer # "none"

\* Mutants: a cancel is contained like any other error; nothing is contained.
contain_all(kind) == "report"
contain_none(kind) == "rethrow"

\* The handlers of collect_spans.
Handler(kind) == IF kind = "cancel" THEN "rethrow" ELSE "report"

----------------------------------------------------------------------------
Init ==
  /\ build \in [pg18 : BOOLEAN, parallel : BOOLEAN]
  /\ min_duration \in MinDurations
  /\ stmt = [s \in Statements |-> Fresh]
  /\ cp = "idle" /\ current = NoStatement /\ error = "none"
  /\ context = "caller" /\ messages = "as set"

\* SET, set_config() in a function, or a reload.
ChangeSetting ==
  /\ cp = "idle"
  /\ min_duration' \in MinDurations
  /\ UNCHANGED <<build, stmt, cp, current, error, context, messages>>

----------------------------------------------------------------------------
(* my_executor_start_hook *)

Quiet == UNCHANGED <<build, min_duration, error, context, messages>>

\* request_instrumentation, before the executor state exists.
StartHook(s, explain) ==
  /\ cp = "idle" /\ stmt[s].phase \in Closed
  /\ stmt' = [stmt EXCEPT ![s] = [Fresh EXCEPT !.phase = "starting", !.explain = explain,
                                               !.nodes = ~explain /\ Tracing]]
  /\ cp' = "start" /\ current' = s
  /\ Quiet

\* ExecutorStart of PostgreSQL and of hooks below ours, which may allocate a statement
\* timer: PostgreSQL 19 allocates the one asked for with the nodes' instrumentation.
ExecutorStart ==
  /\ cp = "start"
  /\ \E other \in OtherTimers :
       stmt' = [stmt EXCEPT ![current].timer =
                  IF ~build.pg18 /\ stmt[current].nodes THEN "ours" ELSE other]
  /\ cp' = "complete"
  /\ UNCHANGED current
  /\ Quiet

\* The timer after complete_instrumentation_request: PostgreSQL 18 gets one unless there
\* is one, and a hook above ours that runs later may bring its own.
CompletedTimer(timer, other) ==
  IF timer # "none" \/ ~build.pg18 THEN timer
  ELSE IF Wants(current) THEN "ours" ELSE other

CompleteStart ==
  /\ cp = "complete"
  /\ \E other \in OtherTimers :
       stmt' = [stmt EXCEPT ![current].phase = "open",
                            ![current].timer = CompletedTimer(stmt[current].timer, other)]
  /\ cp' = "idle" /\ current' = NoStatement
  /\ Quiet

\* The transaction or subtransaction of `failed` is rolled back.
Abort(failed) == [s \in Statements |->
  IF s \in failed THEN [stmt[s] EXCEPT !.phase = "aborted"] ELSE stmt[s]]

\* An ERROR while statements run: ExecutorEnd is not called for them.
StatementFails ==
  /\ cp = "idle"
  /\ \E failed \in SUBSET Open : failed # {} /\ stmt' = Abort(failed)
  /\ UNCHANGED <<cp, current>>
  /\ Quiet

\* An ERROR in ExecutorStart or ExecutorEnd, ours no longer or not yet at work.
ExecutorFails ==
  /\ cp \in {"start", "end"}
  /\ \E failed \in SUBSET Open : stmt' = Abort(failed \cup {current})
  /\ cp' = "idle" /\ current' = NoStatement
  /\ Quiet

----------------------------------------------------------------------------
(* my_executor_end_hook *)

\* The hook is called, and collect_spans remembers the memory context.
EndHook(s) ==
  /\ cp = "idle" /\ stmt[s].phase = "open"
  /\ stmt' = [stmt EXCEPT ![s].phase = "ending"]
  /\ cp' = "decide" /\ current' = s
  /\ Quiet

\* The early returns of collect_spans_unguarded, with meets_slow_query_threshold
\* and decide_parent.  An untimed timer of PostgreSQL 19 reads 0.
Decide ==
  /\ cp = "decide"
  /\ \E total \in Durations, skip \in BOOLEAN :
       /\ stmt[current].timer = "untimed" => total = 0
       /\ cp' = IF /\ Wants(current)
                   /\ HasTotal(current)
                   /\ total >= min_duration
                   /\ ~skip
                THEN "plan" ELSE "restore"
  /\ UNCHANGED <<stmt, current>>
  /\ Quiet

\* collect_plan_spans; PlanWalk has the walk.
PlanSpans ==
  /\ cp = "plan"
  /\ cp' = "query"
  /\ UNCHANGED <<stmt, current>>
  /\ Quiet

\* from_query.  Normalizing the text begins by suppressing messages and switching
\* to a memory context of its own.  It asks for the total once more, which is still
\* there: nothing has touched the timer since Decide.
QuerySpan ==
  /\ cp = "query"
  /\ \/ /\ cp' = "lex" /\ messages' = "suppressed" /\ context' = "sanitize"
     \/ /\ cp' = "publish" /\ UNCHANGED <<messages, context>>
  /\ UNCHANGED <<build, min_duration, stmt, current, error>>

\* MessageSuppression::drop, on return and while unwinding.
Restored == "as set"

\* lex: the scanner returns tokens, or its error is caught and there is no text.
Lex ==
  /\ cp = "lex"
  /\ messages' = Restored /\ context' = "caller"
  /\ cp' = "publish"
  /\ UNCHANGED <<build, min_duration, stmt, current, error>>

\* publish_spans; RingQueue and SpanExport have the rest.
Publish ==
  /\ cp = "publish"
  /\ stmt' = [stmt EXCEPT ![current].exported = TRUE]
  /\ cp' = "restore"
  /\ UNCHANGED current
  /\ Quiet

\* An ERROR or a panic in collect_spans_unguarded, which may leave any memory
\* context current.  Interrupts are looked at where catalogs are read.
Raise(kind) ==
  /\ cp \in {"decide", "plan", "query", "lex", "publish"}
  /\ kind = "cancel" => cp = "plan"
  /\ error' = kind
  /\ context' \in {context, "error"}
  /\ messages' = IF cp = "lex" THEN Restored ELSE messages
  /\ cp' = Handler(kind)
  /\ UNCHANGED <<build, min_duration, stmt, current>>

\* report_collection_failure: a line in the log, which no property is about.
Report ==
  /\ cp = "report"
  /\ error' = "none"
  /\ cp' = "restore"
  /\ UNCHANGED <<build, min_duration, stmt, current, context, messages>>

\* The error leaves the hook: neither the memory context is restored here nor is
\* ExecutorEnd called.
Rethrow ==
  /\ cp = "rethrow"
  /\ cp' = "rollback"
  /\ UNCHANGED <<stmt, current>>
  /\ Quiet

\* PostgreSQL's handler of the error switches to a memory context of its own, and
\* statements started in the same transaction or subtransaction go with this one.
Rollback ==
  /\ cp = "rollback"
  /\ \E failed \in SUBSET Open :
       stmt' = [Abort(failed) EXCEPT ![current].phase = "cancelled"]
  /\ error' = "none" /\ context' = "caller"
  /\ cp' = "idle" /\ current' = NoStatement
  /\ UNCHANGED <<build, min_duration, messages>>

\* Mutant: the memory context of the error stays current.
LeftBehind == context

SavedContext == "caller"

\* collect_spans restores the memory context.
RestoreContext ==
  /\ cp = "restore"
  /\ context' = SavedContext
  /\ cp' = "end"
  /\ UNCHANGED <<build, min_duration, stmt, current, error, messages>>

\* The previous or the standard ExecutorEnd.  Statements that it ends in turn end after
\* it here: the hook has nothing left to do.
ExecutorEnd ==
  /\ cp = "end"
  /\ stmt' = [stmt EXCEPT ![current].phase = "ended"]
  /\ cp' = "idle" /\ current' = NoStatement
  /\ Quiet

----------------------------------------------------------------------------
Hook ==
  \/ ExecutorStart \/ CompleteStart \/ ExecutorFails
  \/ Decide \/ PlanSpans \/ QuerySpan \/ Lex \/ Publish
  \/ Report \/ Rethrow \/ Rollback \/ RestoreContext \/ ExecutorEnd

Next ==
  \/ ChangeSetting \/ StatementFails
  \/ \E s \in Statements : (\E explain \in BOOLEAN : StartHook(s, explain)) \/ EndHook(s)
  \/ \E kind \in {"cancel", "other"} : Raise(kind)
  \/ Hook

Spec == Init /\ [][Next]_vars

\* A hook that has been called runs on.
FairSpec == Spec /\ WF_vars(Hook)

----------------------------------------------------------------------------
(* Properties *)

\* Every variable has its type, a statement is current while a hook is at work, and an
\* error is pending while one of its handlers is.
TypeOK ==
  /\ build \in [pg18 : BOOLEAN, parallel : BOOLEAN]
  /\ min_duration \in MinDurations
  /\ stmt \in [Statements -> QueryDescs]
  /\ cp \in {"idle", "start", "complete", "decide", "plan", "query", "lex", "publish", "report",
              "rethrow", "rollback", "restore", "end"}
  /\ current \in Statements \cup {NoStatement}
  /\ cp = "idle" <=> current = NoStatement
  /\ error \in {"none", "cancel", "other"}
  /\ error # "none" <=> cp \in {"report", "rethrow", "rollback"}
  /\ context \in {"caller", "sanitize", "error"}
  /\ messages \in {"as set", "suppressed"}

\* "it must always be reverted before control returns to Postgres"
\* (MessageSuppression), and so must the memory context: whatever failed in
\* collection, ExecutorEnd and the user's next statement find things as they were.
HandsBackClean ==
  cp \in {"idle", "end"} => context = "caller" /\ messages = "as set"

\* Spans are made of what was measured: a statement that started while tracing was off
\* is not exported although tracing is on when it ends, unless another extension had it
\* timed; one that has its timer from this extension has its nodes instrumented too.
ExportedWasMeasured ==
  \A s \in Statements :
    stmt[s].exported => stmt[s].nodes \/ stmt[s].timer \in {"timed", "untimed"}

\* "Telemetry must never fail the user's query": collection that fails ends in
\* ExecutorEnd all the same, and only a cancel does not.
ReachesExecutorEnd ==
  \A s \in Statements :
    stmt[s].phase = "ending" ~>
      (cp = "end" /\ current = s) \/ (error = "cancel" /\ current = s)

\* "re-raised so the user's cancel request is honoured instead of being swallowed".
CancelHonoured ==
  \A s \in Statements :
    error = "cancel" /\ current = s ~> stmt[s].phase = "cancelled"

----------------------------------------------------------------------------
(* Inductive invariant: what the two invariants above rest on. *)

\* Messages are suppressed by the scanner only, and another memory context is left
\* behind only where it is about to be restored.
CleanInv ==
  /\ messages = "suppressed" <=> cp = "lex"
  /\ cp \notin {"lex", "report", "rethrow", "rollback", "restore"} => context = "caller"

\* The two requests of a start agree, a statement that has its timer from this extension
\* has its nodes instrumented, and only a statement with a timer gets past the early
\* returns.
MeasuredInv ==
  /\ cp \in {"start", "complete"} =>
       stmt[current].nodes = Wants(current) /\ ~stmt[current].exported
  /\ \A s \in Statements : stmt[s].timer = "ours" => stmt[s].nodes
  /\ ExportedWasMeasured
  /\ cp \in {"plan", "query", "lex", "publish"} => stmt[current].timer # "none"

CollectorInv == CleanInv /\ MeasuredInv
=============================================================================
