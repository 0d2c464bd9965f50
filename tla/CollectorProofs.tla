--------------------------- MODULE CollectorProofs ---------------------------
(***************************************************************************)
(* Proofs about Collector, for any number of open statements, any settings *)
(* and any times: what a failed collection leaves behind, and that only    *)
(* what was measured is exported.                                          *)
(***************************************************************************)
EXTENDS Collector, TLAPS

\* A roll-back changes phases only.
LEMMA AbortKeeps ==
  ASSUME TypeOK, NEW failed \in SUBSET Statements
  PROVE  /\ Abort(failed) \in [Statements -> QueryDescs]
         /\ \A s \in Statements :
              /\ Abort(failed)[s].nodes = stmt[s].nodes
              /\ Abort(failed)[s].timer = stmt[s].timer
              /\ Abort(failed)[s].exported = stmt[s].exported
<1>1. "aborted" \in Phases BY DEF Phases, Closed
<1>2. ASSUME NEW s \in Statements
      PROVE  /\ Abort(failed)[s] \in QueryDescs
             /\ Abort(failed)[s].nodes = stmt[s].nodes
             /\ Abort(failed)[s].timer = stmt[s].timer
             /\ Abort(failed)[s].exported = stmt[s].exported
  <2>1. stmt[s] \in QueryDescs BY DEF TypeOK
  <2>2. CASE s \in failed
    <3>1. Abort(failed)[s] = [stmt[s] EXCEPT !.phase = "aborted"] BY <2>2 DEF Abort
    <3> QED BY <1>1, <2>1, <3>1 DEF QueryDescs
  <2>3. CASE s \notin failed
    <3>1. Abort(failed)[s] = stmt[s] BY <2>3 DEF Abort
    <3> QED BY <2>1, <3>1
  <2> QED BY <2>2, <2>3
<1>3. Abort(failed) = [s \in Statements |-> Abort(failed)[s]] BY DEF Abort
<1> QED BY <1>2, <1>3

\* A QueryDesc may change its phase, or get a timer.
LEMMA QueryDescType ==
  ASSUME TypeOK, NEW s \in Statements
  PROVE  /\ \A phase \in Phases : [stmt EXCEPT ![s].phase = phase] \in [Statements -> QueryDescs]
         /\ \A timer \in Timers : [stmt EXCEPT ![s].timer = timer] \in [Statements -> QueryDescs]
         /\ \A phase \in Phases, timer \in Timers :
              [stmt EXCEPT ![s].phase = phase, ![s].timer = timer] \in [Statements -> QueryDescs]
         /\ [stmt EXCEPT ![s].exported = TRUE] \in [Statements -> QueryDescs]
<1>1. stmt \in [Statements -> QueryDescs] /\ stmt[s] \in QueryDescs BY DEF TypeOK
<1>2. ASSUME NEW phase \in Phases
      PROVE  [stmt EXCEPT ![s].phase = phase] \in [Statements -> QueryDescs]
  BY <1>1 DEF QueryDescs
<1>3. ASSUME NEW timer \in Timers
      PROVE  [stmt EXCEPT ![s].timer = timer] \in [Statements -> QueryDescs]
  BY <1>1 DEF QueryDescs
<1>4. ASSUME NEW phase \in Phases, NEW timer \in Timers
      PROVE  [stmt EXCEPT ![s].phase = phase, ![s].timer = timer] \in [Statements -> QueryDescs]
  BY <1>1 DEF QueryDescs
<1>5. [stmt EXCEPT ![s].exported = TRUE] \in [Statements -> QueryDescs]
  BY <1>1 DEF QueryDescs
<1> QED BY <1>2, <1>3, <1>4, <1>5

\* There is a current statement while a hook is at work.
LEMMA CurrentType ==
  ASSUME TypeOK, cp # "idle"
  PROVE  /\ current \in Statements
         /\ stmt[current] \in QueryDescs
         /\ current # NoStatement
  BY DEF TypeOK

\* Every step preserves the types.
LEMMA NextType == TypeOK /\ [Next]_vars => TypeOK'
<1> SUFFICES ASSUME TypeOK, [Next]_vars PROVE TypeOK' OBVIOUS
<1> USE DEF Quiet
<1>1. CASE ChangeSetting BY <1>1 DEF ChangeSetting, TypeOK
<1>2. CASE StatementFails
  <2>1. PICK failed \in SUBSET Open : stmt' = Abort(failed) BY <1>2 DEF StatementFails
  <2>2. failed \in SUBSET Statements BY DEF Open
  <2>3. stmt' \in [Statements -> QueryDescs] BY <2>1, <2>2, AbortKeeps
  <2> QED BY <1>2, <2>3 DEF StatementFails, TypeOK
<1>3. ASSUME NEW s \in Statements, NEW explain \in BOOLEAN, StartHook(s, explain)
      PROVE  TypeOK'
  <2>1. (~explain /\ Tracing) \in BOOLEAN OBVIOUS
  <2>2. [Fresh EXCEPT !.phase = "starting", !.explain = explain, !.nodes = ~explain /\ Tracing]
          \in QueryDescs
    BY <2>1 DEF Fresh, QueryDescs, Phases, Timers, OtherTimers
  <2>3. stmt' \in [Statements -> QueryDescs] BY <1>3, <2>2 DEF StartHook, TypeOK
  <2>4. s # NoStatement BY CollectorAssumption DEF CollectorAssumption
  <2> QED BY <1>3, <2>3, <2>4 DEF StartHook, TypeOK
<1>4. ASSUME NEW s \in Statements, EndHook(s) PROVE TypeOK'
  <2>1. s # NoStatement BY CollectorAssumption DEF CollectorAssumption
  <2>2. stmt' \in [Statements -> QueryDescs] BY <1>4, QueryDescType DEF EndHook, Phases
  <2> QED BY <1>4, <2>1, <2>2 DEF EndHook, TypeOK
<1>5. ASSUME NEW kind \in {"cancel", "other"}, Raise(kind) PROVE TypeOK'
  BY <1>5 DEF Raise, Restored, Handler, TypeOK
<1>6. CASE ExecutorStart
  <2>1. PICK timer \in Timers : stmt' = [stmt EXCEPT ![current].timer = timer]
    BY <1>6 DEF ExecutorStart, Timers
  <2>2. current \in Statements BY <1>6, CurrentType DEF ExecutorStart
  <2>3. stmt' \in [Statements -> QueryDescs] BY <2>1, <2>2, QueryDescType
  <2> QED BY <1>6, <2>2, <2>3 DEF ExecutorStart, TypeOK
<1>7. CASE CompleteStart
  <2>1. stmt[current].timer \in Timers BY <1>7, CurrentType DEF CompleteStart, QueryDescs
  <2>2. PICK timer \in Timers : stmt' = [stmt EXCEPT ![current].phase = "open",
                                                    ![current].timer = timer]
    BY <1>7, <2>1 DEF CompleteStart, CompletedTimer, Timers
  <2>3. current \in Statements BY <1>7, CurrentType DEF CompleteStart
  <2>4. "open" \in Phases BY DEF Phases
  <2>5. stmt' \in [Statements -> QueryDescs] BY <2>2, <2>3, <2>4, QueryDescType
  <2> QED BY <1>7, <2>5 DEF CompleteStart, TypeOK
<1>8. CASE ExecutorFails
  <2>1. PICK failed \in SUBSET Open : stmt' = Abort(failed \cup {current})
    BY <1>8 DEF ExecutorFails
  <2>2. failed \cup {current} \in SUBSET Statements
    BY <1>8, CurrentType DEF Open, ExecutorFails
  <2>3. stmt' \in [Statements -> QueryDescs] BY <2>1, <2>2, AbortKeeps
  <2> QED BY <1>8, <2>3 DEF ExecutorFails, TypeOK
<1>9. CASE Decide BY <1>9 DEF Decide, TypeOK
<1>10. CASE PlanSpans BY <1>10 DEF PlanSpans, TypeOK
<1>11. CASE QuerySpan BY <1>11 DEF QuerySpan, TypeOK
<1>12. CASE Lex BY <1>12 DEF Lex, Restored, TypeOK
<1>13. CASE Publish
  <2>1. stmt' \in [Statements -> QueryDescs]
    BY <1>13, CurrentType, QueryDescType DEF Publish
  <2> QED BY <1>13, <2>1 DEF Publish, TypeOK
<1>14. CASE Report BY <1>14 DEF Report, TypeOK
<1>15. CASE Rollback
  <2>1. PICK failed \in SUBSET Open :
          stmt' = [Abort(failed) EXCEPT ![current].phase = "cancelled"]
    BY <1>15 DEF Rollback
  <2>2. failed \in SUBSET Statements BY DEF Open
  <2>3. Abort(failed) \in [Statements -> QueryDescs] BY <2>2, AbortKeeps
  <2>4. stmt' \in [Statements -> QueryDescs] BY <2>1, <2>3 DEF QueryDescs, Phases, Closed
  <2> QED BY <1>15, <2>4 DEF Rollback, TypeOK
<1>16. CASE RestoreContext BY <1>16 DEF RestoreContext, SavedContext, TypeOK
<1>17. CASE ExecutorEnd
  <2>1. stmt' \in [Statements -> QueryDescs]
    BY <1>17, CurrentType, QueryDescType DEF ExecutorEnd, Phases, Closed
  <2> QED BY <1>17, <2>1 DEF ExecutorEnd, TypeOK
<1>18. CASE Rethrow BY <1>18 DEF Rethrow, TypeOK
<1>19. CASE UNCHANGED vars BY <1>19 DEF vars, TypeOK
<1> QED
  BY <1>1, <1>2, <1>3, <1>4, <1>5, <1>6, <1>7, <1>8, <1>9, <1>10, <1>11, <1>12, <1>13, <1>14,
     <1>15, <1>16, <1>17, <1>18, <1>19 DEF Next, Hook

\* Every variable keeps its type.
THEOREM TypeCorrect == Spec => []TypeOK
<1>1. Init => TypeOK
  <2> SUFFICES ASSUME Init PROVE TypeOK OBVIOUS
  <2>1. Fresh \in QueryDescs BY DEF Fresh, QueryDescs, Phases, Closed, Timers, OtherTimers
  <2>2. stmt \in [Statements -> QueryDescs] BY <2>1 DEF Init
  <2>3. min_duration \in MinDurations /\ build \in [pg18 : BOOLEAN, parallel : BOOLEAN] BY DEF Init
  <2> QED BY <2>2, <2>3 DEF Init, TypeOK
<1> QED BY <1>1, NextType, PTL DEF Spec

\* No step leaves messages suppressed or a foreign memory context current for others.
LEMMA CleanStep ==
  ASSUME TypeOK, CleanInv, [Next]_vars
  PROVE  CleanInv'
<1> USE DEF CleanInv, Quiet
<1>1. CASE ChangeSetting BY <1>1 DEF ChangeSetting
<1>2. CASE StatementFails BY <1>2 DEF StatementFails
<1>3. ASSUME NEW s \in Statements, NEW explain \in BOOLEAN, StartHook(s, explain)
      PROVE  CleanInv'
  BY <1>3 DEF StartHook
<1>4. ASSUME NEW s \in Statements, EndHook(s) PROVE CleanInv'
  BY <1>4 DEF EndHook
<1>5. ASSUME NEW kind \in {"cancel", "other"}, Raise(kind) PROVE CleanInv'
  BY <1>5 DEF Raise, Restored, Handler, TypeOK
<1>6. CASE ExecutorStart BY <1>6 DEF ExecutorStart
<1>7. CASE CompleteStart BY <1>7 DEF CompleteStart
<1>8. CASE ExecutorFails BY <1>8 DEF ExecutorFails
<1>9. CASE Decide
  <2>1. cp' \in {"plan", "restore"} BY <1>9 DEF Decide
  <2> QED BY <1>9, <2>1 DEF Decide
<1>10. CASE PlanSpans BY <1>10 DEF PlanSpans
<1>11. CASE QuerySpan BY <1>11 DEF QuerySpan
<1>12. CASE Lex BY <1>12 DEF Lex, Restored
<1>13. CASE Publish BY <1>13 DEF Publish
<1>14. CASE Report BY <1>14 DEF Report
<1>15. CASE Rethrow \/ Rollback BY <1>15 DEF Rethrow, Rollback
<1>16. CASE RestoreContext BY <1>16 DEF RestoreContext, SavedContext
<1>17. CASE ExecutorEnd BY <1>17 DEF ExecutorEnd
<1>18. CASE UNCHANGED vars BY <1>18 DEF vars
<1> QED
  BY <1>1, <1>2, <1>3, <1>4, <1>5, <1>6, <1>7, <1>8, <1>9, <1>10, <1>11, <1>12, <1>13, <1>14,
     <1>15, <1>16, <1>17, <1>18 DEF Next, Hook

\* A foreign memory context or raised message levels are current only on a way that
\* puts them back (collect_spans, MessageSuppression).
LEMMA AlwaysClean == Spec => []CleanInv
<1>1. Init => CleanInv BY DEF Init, CleanInv
<1>2. TypeOK /\ CleanInv /\ [Next]_vars => CleanInv' BY CleanStep
<1> QED BY <1>1, <1>2, TypeCorrect, PTL DEF Spec

\* Whatever is raised while spans are collected, ExecutorEnd and the statements that
\* follow find the memory context and the message levels as they were (collect_spans,
\* MessageSuppression).
THEOREM CollectionLeavesNoTrace == Spec => []HandsBackClean
<1>1. TypeOK /\ CleanInv => HandsBackClean BY DEF TypeOK, CleanInv, HandsBackClean
<1> QED BY <1>1, AlwaysClean, TypeCorrect, PTL

----------------------------------------------------------------------------
\* What MeasuredInv says of one statement.
Measured(s) ==
  /\ stmt[s].timer = "ours" => stmt[s].nodes
  /\ stmt[s].exported => stmt[s].nodes \/ stmt[s].timer \in {"timed", "untimed"}

\* What it says of the statement at hand.
AtHand ==
  /\ cp \in {"start", "complete"} =>
       stmt[current].nodes = Wants(current) /\ ~stmt[current].exported
  /\ cp \in {"plan", "query", "lex", "publish"} => stmt[current].timer # "none"

LEMMA MeasuredParts == MeasuredInv <=> AtHand /\ \A s \in Statements : Measured(s)
BY DEF MeasuredInv, ExportedWasMeasured, AtHand, Measured

\* It survives what leaves a statement's instrumentation alone.
LEMMA MeasuredKept ==
  ASSUME \A s \in Statements : Measured(s),
         \A s \in Statements : /\ stmt'[s].nodes = stmt[s].nodes
                               /\ stmt'[s].timer = stmt[s].timer
                               /\ stmt'[s].exported = stmt[s].exported
  PROVE  \A s \in Statements : Measured(s)'
  BY DEF Measured

\* No step breaks it: a start decides for the nodes and the timer alike, because the
\* setting does not change under it.
LEMMA MeasuredStep ==
  ASSUME TypeOK, AtHand, \A s \in Statements : Measured(s), [Next]_vars
  PROVE  AtHand' /\ \A s \in Statements : Measured(s)'
<1> USE DEF Quiet
<1>1. CASE ChangeSetting
  <2>1. \A s \in Statements : Measured(s)' BY <1>1, MeasuredKept DEF ChangeSetting
  <2> QED BY <1>1, <2>1 DEF ChangeSetting, AtHand
<1>2. CASE StatementFails
  <2>1. PICK failed \in SUBSET Open : stmt' = Abort(failed) BY <1>2 DEF StatementFails
  <2>2. failed \in SUBSET Statements BY DEF Open
  <2>3. \A s \in Statements : Measured(s)' BY <2>1, <2>2, AbortKeeps, MeasuredKept
  <2> QED BY <1>2, <2>3 DEF StatementFails, AtHand
<1>3. ASSUME NEW s \in Statements, NEW explain \in BOOLEAN, StartHook(s, explain)
      PROVE  AtHand' /\ \A t \in Statements : Measured(t)'
  <2>1. stmt'[s] = [phase |-> "starting", explain |-> explain, nodes |-> ~explain /\ Tracing,
                    timer |-> "none", exported |-> FALSE]
    BY <1>3 DEF StartHook, Fresh, TypeOK
  <2>2. \A t \in Statements \ {s} : stmt'[t] = stmt[t] BY <1>3 DEF StartHook, TypeOK
  <2>3. \A t \in Statements : Measured(t)' BY <2>1, <2>2 DEF Measured
  <2>4. Wants(current)' = (~explain /\ Tracing) BY <1>3, <2>1 DEF StartHook, Wants, Tracing
  <2>5. cp' = "start" /\ current' = s BY <1>3 DEF StartHook
  <2>6. AtHand' BY <2>1, <2>4, <2>5 DEF AtHand
  <2> QED BY <2>3, <2>6
<1>4. ASSUME NEW s \in Statements, EndHook(s)
      PROVE  AtHand' /\ \A t \in Statements : Measured(t)'
  <2>1. \A t \in Statements : Measured(t)'
    BY <1>4, MeasuredKept DEF EndHook, TypeOK, QueryDescs
  <2> QED BY <1>4, <2>1 DEF EndHook, AtHand
<1>5. ASSUME NEW kind \in {"cancel", "other"}, Raise(kind)
      PROVE  AtHand' /\ \A t \in Statements : Measured(t)'
  <2>1. \A t \in Statements : Measured(t)' BY <1>5, MeasuredKept DEF Raise
  <2>2. cp' \in {"report", "rethrow"} BY <1>5 DEF Raise, Handler
  <2> QED BY <2>1, <2>2 DEF AtHand
<1>6. CASE ExecutorStart
  <2>1. current \in Statements /\ stmt[current] \in QueryDescs
    BY <1>6, CurrentType DEF ExecutorStart
  <2>2. stmt[current].nodes = Wants(current) /\ ~stmt[current].exported
    BY <1>6 DEF ExecutorStart, AtHand
  <2>3. PICK timer \in Timers : /\ stmt' = [stmt EXCEPT ![current].timer = timer]
                                /\ timer = "ours" => stmt[current].nodes
    BY <1>6 DEF ExecutorStart, OtherTimers, Timers
  <2>4. /\ stmt'[current].nodes = stmt[current].nodes
        /\ stmt'[current].explain = stmt[current].explain
        /\ stmt'[current].timer = timer
        /\ stmt'[current].exported = stmt[current].exported
        /\ \A s \in Statements \ {current} : stmt'[s] = stmt[s]
    BY <2>1, <2>3 DEF TypeOK, QueryDescs
  <2>5. \A s \in Statements : Measured(s)' BY <2>2, <2>3, <2>4 DEF Measured
  <2>6. Wants(current)' = Wants(current) BY <1>6, <2>4 DEF ExecutorStart, Wants, Tracing
  <2>7. cp' = "complete" /\ current' = current BY <1>6 DEF ExecutorStart
  <2>8. AtHand' BY <2>2, <2>4, <2>6, <2>7 DEF AtHand
  <2> QED BY <2>5, <2>8
<1>7. CASE CompleteStart
  <2>1. current \in Statements /\ stmt[current] \in QueryDescs
    BY <1>7, CurrentType DEF CompleteStart
  <2>2. stmt[current].nodes = Wants(current) /\ ~stmt[current].exported
    BY <1>7 DEF CompleteStart, AtHand
  <2>3. PICK other \in OtherTimers :
          stmt' = [stmt EXCEPT ![current].phase = "open",
                               ![current].timer = CompletedTimer(stmt[current].timer, other)]
    BY <1>7 DEF CompleteStart
  <2> DEFINE timer == CompletedTimer(stmt[current].timer, other)
  <2>4. timer = "ours" => stmt[current].timer = "ours" \/ Wants(current)
    BY DEF CompletedTimer, OtherTimers
  <2>5. stmt' = [stmt EXCEPT ![current].phase = "open", ![current].timer = timer] BY <2>3
  <2> HIDE DEF timer
  <2>6. /\ stmt'[current].nodes = stmt[current].nodes
        /\ stmt'[current].timer = timer
        /\ stmt'[current].exported = stmt[current].exported
        /\ \A s \in Statements \ {current} : stmt'[s] = stmt[s]
    BY <2>1, <2>5 DEF TypeOK, QueryDescs
  <2>7. \A s \in Statements : Measured(s)' BY <2>1, <2>2, <2>4, <2>6 DEF Measured
  <2> QED BY <1>7, <2>7 DEF CompleteStart, AtHand
<1>8. CASE ExecutorFails
  <2>1. PICK failed \in SUBSET Open : stmt' = Abort(failed \cup {current})
    BY <1>8 DEF ExecutorFails
  <2>2. failed \cup {current} \in SUBSET Statements
    BY <1>8, CurrentType DEF Open, ExecutorFails
  <2>3. \A s \in Statements : Measured(s)' BY <2>1, <2>2, AbortKeeps, MeasuredKept
  <2> QED BY <1>8, <2>3 DEF ExecutorFails, AtHand
<1>9. CASE Decide
  <2>1. \A s \in Statements : Measured(s)' BY <1>9, MeasuredKept DEF Decide
  <2>2. CASE HasTotal(current)
    <3>1. stmt[current].timer # "none" BY <2>2 DEF HasTotal
    <3> QED BY <1>9, <2>1, <3>1 DEF Decide, AtHand
  <2>3. CASE ~HasTotal(current)
    <3>1. cp' = "restore" BY <1>9, <2>3 DEF Decide
    <3> QED BY <2>1, <3>1 DEF AtHand
  <2> QED BY <2>2, <2>3
<1>10. CASE PlanSpans \/ QuerySpan \/ Lex
  <2>1. UNCHANGED <<stmt, current>> /\ cp' \in {"query", "lex", "publish"}
                                  /\ cp \in {"plan", "query", "lex"}
    BY <1>10 DEF PlanSpans, QuerySpan, Lex
  <2>2. \A s \in Statements : Measured(s)' BY <2>1, MeasuredKept
  <2> QED BY <2>1, <2>2 DEF AtHand
<1>11. CASE Publish
  <2>1. current \in Statements /\ stmt[current] \in QueryDescs
    BY <1>11, CurrentType DEF Publish
  <2>2. /\ stmt'[current].nodes = stmt[current].nodes
        /\ stmt'[current].timer = stmt[current].timer
        /\ \A s \in Statements \ {current} : stmt'[s] = stmt[s]
    BY <1>11, <2>1 DEF Publish, TypeOK, QueryDescs
  <2>3. stmt[current].timer \in Timers \ {"none"}
    BY <1>11, <2>1 DEF Publish, AtHand, QueryDescs
  <2>4. stmt[current].nodes \/ stmt[current].timer \in {"timed", "untimed"}
    BY <2>1, <2>3 DEF Measured, Timers, OtherTimers
  <2>5. \A s \in Statements : Measured(s)' BY <2>1, <2>2, <2>4 DEF Measured
  <2> QED BY <1>11, <2>5 DEF Publish, AtHand
<1>12. CASE Report \/ RestoreContext \/ Rethrow
  <2>1. UNCHANGED stmt /\ cp' \in {"restore", "end", "rollback"}
    BY <1>12 DEF Report, RestoreContext, Rethrow
  <2>2. \A s \in Statements : Measured(s)' BY <2>1, MeasuredKept
  <2> QED BY <2>1, <2>2 DEF AtHand
<1>13. CASE Rollback
  <2>1. PICK failed \in SUBSET Open :
          stmt' = [Abort(failed) EXCEPT ![current].phase = "cancelled"]
    BY <1>13 DEF Rollback
  <2>2. failed \in SUBSET Statements BY DEF Open
  <2>3. \A s \in Statements : /\ stmt'[s].nodes = Abort(failed)[s].nodes
                              /\ stmt'[s].timer = Abort(failed)[s].timer
                              /\ stmt'[s].exported = Abort(failed)[s].exported
    BY <2>1, <2>2, AbortKeeps DEF QueryDescs
  <2>4. \A s \in Statements : Measured(s)' BY <2>2, <2>3, AbortKeeps, MeasuredKept
  <2> QED BY <1>13, <2>4 DEF Rollback, AtHand
<1>14. CASE ExecutorEnd
  <2>1. \A s \in Statements : Measured(s)'
    BY <1>14, CurrentType, MeasuredKept DEF ExecutorEnd, TypeOK, QueryDescs
  <2> QED BY <1>14, <2>1 DEF ExecutorEnd, AtHand
<1>15. CASE UNCHANGED vars
  <2>1. \A s \in Statements : Measured(s)' BY <1>15, MeasuredKept DEF vars
  <2> QED BY <1>15, <2>1 DEF vars, AtHand, Wants, Tracing
<1> QED
  BY <1>1, <1>2, <1>3, <1>4, <1>5, <1>6, <1>7, <1>8, <1>9, <1>10, <1>11, <1>12, <1>13, <1>14,
     <1>15 DEF Next, Hook

\* A statement that has its timer from this extension has its nodes instrumented
\* (request_instrumentation, complete_instrumentation_request).
LEMMA AlwaysMeasured == Spec => []MeasuredInv
<1>1. Init => MeasuredInv
  <2> SUFFICES ASSUME Init PROVE MeasuredInv OBVIOUS
  <2>1. cp = "idle" BY DEF Init
  <2>2. \A s \in Statements : stmt[s].timer = "none" /\ stmt[s].exported = FALSE
    BY Zenon DEF Init, Fresh
  <2>3. AtHand BY <2>1 DEF AtHand
  <2>4. \A s \in Statements : Measured(s) BY <2>2 DEF Measured
  <2> QED BY <2>3, <2>4, MeasuredParts
<1>2. TypeOK /\ MeasuredInv /\ [Next]_vars => MeasuredInv'
  <2> SUFFICES ASSUME TypeOK, MeasuredInv, [Next]_vars PROVE MeasuredInv' OBVIOUS
  <2>1. AtHand /\ \A s \in Statements : Measured(s) BY MeasuredParts
  <2>2. AtHand' /\ \A s \in Statements : Measured(s)' BY <2>1, MeasuredStep
  <2> QED BY <2>2 DEF MeasuredInv, ExportedWasMeasured, AtHand, Measured
<1> QED BY <1>1, <1>2, TypeCorrect, PTL DEF Spec

\* A statement whose nodes were not instrumented is exported only if another extension
\* had it timed, however the setting and errors come in between (request_instrumentation,
\* query_total_ns).
THEOREM OnlyMeasuredExported == Spec => []ExportedWasMeasured
<1>1. MeasuredInv => ExportedWasMeasured BY DEF MeasuredInv
<1> QED BY <1>1, AlwaysMeasured, PTL

\* Both parts of the inductive invariant of the hooks, for any number of statements that
\* overlap, whatever is raised where and whoever asks for timers.
THEOREM CollectorInvariant == Spec => []CollectorInv
<1>1. CleanInv /\ MeasuredInv => CollectorInv BY DEF CollectorInv
<1> QED BY <1>1, AlwaysClean, AlwaysMeasured, PTL
=============================================================================
