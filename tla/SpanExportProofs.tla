--------------------------- MODULE SpanExportProofs ---------------------------
(***************************************************************************)
(* Proofs about SpanExport, for any number of backends, any queue, any     *)
(* number of signals, reloads and crashes: the types, the bound on how     *)
(* long a slow collector delays a signal, that no wake-up is lost, the     *)
(* order of delivery, and that SpanExport implements SpanQueue under the   *)
(* mapping of ExportRefinement.                                            *)
(***************************************************************************)
EXTENDS ExportRefinement, SequenceTheorems, TLAPS

\* The bounds are numbers.
LEMMA Bounds ==
  /\ Cap \in Nat /\ Cap > 0 /\ CHUNK \in Nat /\ CHUNK > 0
  /\ MaxSpans \in Nat /\ MaxStatements \in Nat /\ MaxHups \in Nat /\ MaxTerms \in Nat
  /\ MaxCrashes \in Nat /\ MaxUndecodable \in Nat /\ MaxDropped \in Nat
  /\ NoWorker \notin Slots /\ KeepHistory \in BOOLEAN
  BY ExportAssumption DEF ExportAssumption

\* The records of a sequence are records.
LEMMA RangeType == ASSUME NEW S, NEW s \in Seq(S) PROVE Range(s) \subseteq S
  BY DEF Range

\* What a chunk takes off the queue and what it leaves are records, and an empty
\* chunk is taken from an empty queue only.
LEMMA OldestType ==
  ASSUME SharedType
  PROVE  /\ Oldest \in Seq(Records)
         /\ Remaining \in Seq(Records)
         /\ Range(Oldest) \subseteq Records
         /\ Oldest = << >> => Remaining = << >>
<1> DEFINE n == IF Len(queue) <= CHUNK THEN Len(queue) ELSE CHUNK
<1>1. queue \in Seq(Records) BY DEF SharedType
<1>2. n \in 0 .. Len(queue) BY <1>1, Bounds
<1>3. Oldest \in Seq(Records) /\ Len(Oldest) = n
  BY <1>1, <1>2, SubSeqProperties DEF Oldest
<1>4. Remaining \in Seq(Records) /\ Len(Remaining) = Len(queue) - n
  BY <1>1, <1>2, <1>3, SubSeqProperties DEF Remaining
<1>5. Oldest = << >> => Len(queue) = 0
  BY <1>1, <1>2, <1>3, Bounds
<1>6. Oldest = << >> => Remaining = << >>
  BY <1>1, <1>3, <1>4, <1>5, EmptySeq
<1> QED BY <1>3, <1>4, <1>6, RangeType

\* The signal flags have their type however they are combined.
LEMMA SignalTypes ==
  ASSUME got \in [Signal -> BOOLEAN], pending \in [Signal -> BOOLEAN]
  PROVE  /\ NoSignal \in [Signal -> BOOLEAN]
         /\ Polled \in [Signal -> BOOLEAN]
         /\ Remembered \in [Signal -> BOOLEAN]
         /\ [Polled EXCEPT !["hup"] = FALSE] \in [Signal -> BOOLEAN]
         /\ \A s \in Signal, v \in BOOLEAN : [got EXCEPT ![s] = v] \in [Signal -> BOOLEAN]
  BY DEF NoSignal, Polled, Remembered, Signal

----------------------------------------------------------------------------
(* Types *)

\* The initial state has the types.
LEMMA InitType == Init => TypeOK
<1> SUFFICES ASSUME Init PROVE TypeOK OBVIOUS
<1>1. SharedType
  <2>1. queue \in Seq(Records) BY EmptySeq DEF Init
  <2>2. dropped \in 0 .. MaxDropped BY Bounds DEF Init
  <2>3. workerProc \in Slots \cup {NoWorker} BY DEF Init
  <2>4. latch \in BOOLEAN BY DEF Init
  <2> QED BY <2>1, <2>2, <2>3, <2>4 DEF SharedType
<1>2. BackendsType BY DEF Init, BackendsType
<1>3. ControlType BY DEF Init, ControlType, NoSignal
<1>4. ExportingType
  <2>1. config \in Seq(Settings) /\ Len(config) = 1 BY DEF Init
  <2>2. chunk \in Seq(Records) BY EmptySeq DEF Init
  <2>3. lastTotal \in 0 .. MaxDropped BY Bounds DEF Init
  <2>4. loaded \in 1 .. Len(config) /\ exporter \in 0 .. Len(config)
    BY <2>1 DEF Init, NoExporter
  <2>5. late \in BOOLEAN /\ reported \in Nat BY DEF Init
  <2> QED BY <2>1, <2>2, <2>3, <2>4, <2>5 DEF ExportingType
<1>5. BudgetType BY Bounds DEF Init, BudgetType
<1>6. AccountsType BY Bounds DEF Init, AccountsType
<1> QED BY <1>1, <1>2, <1>3, <1>4, <1>5, <1>6 DEF TypeOK

\* The steps of a backend preserve the types.
LEMMA PublishType ==
  ASSUME TypeOK, NEW b \in Backends, NEW n \in 0 .. MaxSpans, NEW skipped \in 0 .. 1,
         Publish(b, n, skipped)
  PROVE  TypeOK'
<1> USE DEF TypeOK
<1>1. statements' \in 0 .. MaxStatements
  BY Bounds DEF Publish, AccountsType
<1>2. \A i \in Nat : Span(statements', i) \in Records
  BY <1>1, Bounds DEF Span, Records
<1>3. [i \in 1 .. n |-> Span(statements', i)] \in Seq(Records)
  BY <1>2, Bounds
<1>4. BackendsType'
  BY <1>3 DEF Publish, BackendsType
<1>5. n + 1 \in Nat
  BY Bounds
<1>6. {Span(statements', n + i) : i \in 1 .. skipped} \subseteq Records
  BY <1>2, Bounds
<1>7. AccountsType'
  BY <1>1, <1>6 DEF Publish, AccountsType
<1>8. SharedType'
  BY Bounds DEF Publish, SharedType, Capped
<1> QED
  BY <1>4, <1>7, <1>8
  DEF Publish, signals, exporting, environment, ControlType, ExportingType, BudgetType

\* So does the critical section of publish.
LEMMA PushType == ASSUME TypeOK, NEW b \in Backends, Push(b) PROVE TypeOK'
<1> USE DEF TypeOK
<1>1. batch[b] \in Seq(Records) /\ Range(batch[b]) \subseteq Records
  BY RangeType DEF BackendsType
<1>2. SharedType'
  <2>1. queue' \in Seq(Records)
    <3>1. queue \in Seq(Records) BY DEF SharedType
    <3>2. queue \o batch[b] \in Seq(Records) BY <1>1, <3>1
    <3> QED BY <3>1, <3>2 DEF Push
  <2> QED BY <2>1 DEF Push, SharedType
<1>3. BackendsType'
  <2>1. batch' \in [Backends -> Seq(Records)]
    <3>1. batch \in [Backends -> Seq(Records)] BY DEF BackendsType
    <3>2. << >> \in Seq(Records) BY EmptySeq
    <3>3. batch' = [batch EXCEPT ![b] = << >>] \/ batch' = batch BY DEF Push
    <3> QED BY <3>1, <3>2, <3>3
  <2>2. \E c \in {"idle", "load", "drop"} : pc' = [pc EXCEPT ![b] = c]
    BY DEF Push
  <2> QED BY <2>1, <2>2 DEF Push, BackendsType
<1>4. AccountsType'
  <2>1. log \in Seq(Records) BY DEF AccountsType
  <2>2. log \o batch[b] \in Seq(Records) BY <1>1, <2>1
  <2>3. log' \in Seq(Records) BY <2>1, <2>2 DEF Push
  <2>4. refused' \subseteq Records BY <1>1 DEF Push, AccountsType
  <2> QED BY <2>3, <2>4 DEF Push, AccountsType
<1> QED
  BY <1>2, <1>3, <1>4
  DEF Push, signals, exporting, environment, ControlType, ExportingType, BudgetType

\* So do the steps after it.
LEMMA BackendType ==
  ASSUME TypeOK, NEW b \in Backends, Backend(b)
  PROVE  TypeOK'
<1> USE DEF TypeOK
<1>1. CASE Push(b) BY <1>1, PushType
<1>2. CASE CountDropped(b)
  <2>1. Len(batch[b]) \in Nat BY DEF BackendsType
  <2>2. SharedType' BY <1>2, <2>1, Bounds DEF CountDropped, SharedType, Capped
  <2>3. BackendsType' BY <1>2 DEF CountDropped, BackendsType
  <2> QED
    BY <1>2, <2>2, <2>3
    DEF CountDropped, signals, exporting, environment, accounts, ControlType, ExportingType,
        BudgetType, AccountsType
<1>3. CASE LoadWorker(b)
  <2>1. BackendsType'
    BY <1>3 DEF LoadWorker, BackendsType, SharedType, Registered
  <2> QED
    BY <1>3, <2>1
    DEF LoadWorker, shared, signals, exporting, environment, accounts, SharedType, ControlType,
        ExportingType, BudgetType, AccountsType
<1>4. CASE SetLatch(b)
  <2>1. BackendsType' BY <1>4 DEF SetLatch, BackendsType
  <2>2. SharedType' BY <1>4 DEF SetLatch, SharedType
  <2> QED
    BY <1>4, <2>1, <2>2
    DEF SetLatch, signals, exporting, environment, accounts, ControlType, ExportingType,
        BudgetType, AccountsType
<1> QED BY <1>1, <1>2, <1>3, <1>4 DEF Backend

\* The steps of the worker outside the handling of chunks preserve the types.
LEMMA ControlStepType ==
  ASSUME TypeOK,
         \/ Start \/ Register \/ Build \/ SkipWait \/ WakeUp \/ IdleTimeout \/ Poll \/ Reload
         \/ Interrupted \/ FlushCheck \/ Deadline \/ Report
  PROVE  TypeOK'
<1> USE DEF TypeOK, Others, backends, environment
<1>1. /\ NoSignal \in [Signal -> BOOLEAN]
      /\ Polled \in [Signal -> BOOLEAN]
      /\ Remembered \in [Signal -> BOOLEAN]
      /\ [Polled EXCEPT !["hup"] = FALSE] \in [Signal -> BOOLEAN]
      /\ \A s \in Signal, v \in BOOLEAN : [got EXCEPT ![s] = v] \in [Signal -> BOOLEAN]
  BY SignalTypes DEF ControlType
<1>2. CASE Start
  <2>1. Len(config) \in Nat /\ Len(config) \in 1 .. Len(config) BY DEF ExportingType
  <2>2. ExportingType' BY <1>2, <2>1 DEF Start, ExportingType
  <2> QED
    BY <1>2, <2>2 DEF Start, signals, SharedType, BackendsType, ControlType, BudgetType,
                      AccountsType
<1>3. CASE Register
  BY <1>3 DEF Register, signals, exporting, SharedType, BackendsType, ControlType,
              ExportingType, BudgetType, AccountsType
<1>4. CASE Build
  <2>1. ExportingType' BY <1>4 DEF Build, ExportingType, NoExporter
  <2> QED
    BY <1>4, <2>1 DEF Build, shared, signals, SharedType, BackendsType, ControlType,
                      BudgetType, AccountsType
<1>5. CASE SkipWait
  BY <1>5 DEF SkipWait, shared, signals, exporting, SharedType, BackendsType, ControlType,
              ExportingType, BudgetType, AccountsType
<1>6. CASE WakeUp \/ IdleTimeout
  <2>1. WaitReturns BY <1>6 DEF WakeUp, IdleTimeout
  <2>2. ControlType'
    BY <1>1, <2>1 DEF WaitReturns, ControlType, Signal
  <2> QED
    BY <2>1, <2>2 DEF WaitReturns, exporting, SharedType, BackendsType, ExportingType,
                      BudgetType, AccountsType
<1>7. CASE Poll
  <2>1. ControlType' BY <1>1, <1>7 DEF Poll, ControlType
  <2> QED
    BY <1>7, <2>1 DEF Poll, shared, exporting, SharedType, BackendsType, ExportingType,
                      BudgetType, AccountsType
<1>8. CASE Reload
  <2>1. Len(config) \in Nat /\ Len(config) \in 1 .. Len(config) BY DEF ExportingType
  <2>2. ExportingType' BY <1>8, <2>1 DEF Reload, ExportingType
  <2> QED
    BY <1>8, <2>2 DEF Reload, shared, signals, SharedType, BackendsType, ControlType,
                      BudgetType, AccountsType
<1>9. CASE Interrupted
  <2>1. ControlType' BY <1>1, <1>9 DEF Interrupted, ControlType
  <2> QED
    BY <1>9, <2>1 DEF Interrupted, shared, exporting, SharedType, BackendsType, ExportingType,
                      BudgetType, AccountsType
<1>10. CASE FlushCheck
  BY <1>10 DEF FlushCheck, shared, signals, exporting, SharedType, BackendsType, ControlType,
               ExportingType, BudgetType, AccountsType
<1>11. CASE Deadline
  BY <1>11 DEF Deadline, shared, signals, SharedType, BackendsType, ControlType,
               ExportingType, BudgetType, AccountsType
<1>12. CASE Report
  <2>1. dropped \in Nat /\ lastTotal \in Nat /\ reported \in Nat
    BY Bounds DEF SharedType, ExportingType
  <2>2. ExportingType'
    BY <1>12, <2>1 DEF Report, ExportingType, SharedType
  <2> QED
    BY <1>12, <2>2 DEF Report, shared, signals, SharedType, BackendsType, ControlType,
                       BudgetType, AccountsType
<1> QED
  BY <1>2, <1>3, <1>4, <1>5, <1>6, <1>7, <1>8, <1>9, <1>10, <1>11, <1>12

\* Taking a chunk preserves the types.
LEMMA TakeType ==
  ASSUME TypeOK, NEW whenEmpty \in {"report", "exit"}, NEW whenTaken \in {"export", "flushExport"},
         Take(whenEmpty, whenTaken), overdue' \in Nat
  PROVE  TypeOK'
<1> USE DEF TypeOK
<1>1. /\ Oldest \in Seq(Records) /\ Remaining \in Seq(Records)
      /\ Range(Oldest) \subseteq Records
  BY OldestType
<1>2. SharedType' BY <1>1 DEF Take, SharedType
<1>3. ControlType' BY DEF Take, ControlType, signals
<1>4. ExportingType' BY <1>1 DEF Take, ExportingType
<1>5. BudgetType'
  <2>1. CASE budget' = budget BY <2>1 DEF BudgetType
  <2>2. CASE budget.undecodable > 0 /\ budget' = [budget EXCEPT !.undecodable = @ - 1]
    BY <2>2, Bounds DEF BudgetType
  <2> QED BY <2>1, <2>2 DEF Take
<1>6. AccountsType'
  <2>1. lost' = lost \/ lost' = lost \cup Range(Oldest) BY DEF Take
  <2> QED BY <1>1, <2>1 DEF Take, AccountsType
<1> QED
  BY <1>2, <1>3, <1>4, <1>5, <1>6 DEF Take, backends, BackendsType

\* The records of a chunk that decode, and the others.
LEMMA PickedType ==
  ASSUME NEW S, NEW c \in Seq(S), NEW k \in Nat, NEW at \in [1 .. k -> 1 .. Len(c)]
  PROVE  /\ [i \in 1 .. k |-> c[at[i]]] \in Seq(S)
         /\ Len([i \in 1 .. k |-> c[at[i]]]) = k
         /\ {c[i] : i \in DOMAIN c \ Range(at)} \subseteq S
<1>1. DOMAIN c = 1 .. Len(c) /\ \A i \in 1 .. Len(c) : c[i] \in S
  BY LenProperties, ElementOfSeq
<1>2. \A i \in 1 .. k : c[at[i]] \in S BY <1>1
<1> QED BY <1>1, <1>2

\* Delivering what decodes of a chunk preserves the types of the accounts.
LEMMA DeliveredType ==
  ASSUME TypeOK, NEW k \in 1 .. Len(chunk), NEW at \in Ascending(k, Len(chunk)), Delivered(k, at)
  PROVE  exported' \in Seq(Records) /\ lost' \subseteq Records
<1>1. chunk \in Seq(Records) /\ exported \in Seq(Records) /\ lost \subseteq Records
  BY DEF TypeOK, ExportingType, AccountsType
<1>2. k \in Nat /\ at \in [1 .. k -> 1 .. Len(chunk)] BY <1>1 DEF Ascending
<1> DEFINE picked == [i \in 1 .. k |-> chunk[at[i]]]
           left == {chunk[i] : i \in DOMAIN chunk \ Range(at)}
<1>3. picked \in Seq(Records) /\ left \subseteq Records BY <1>1, <1>2, PickedType
<1>4. exported' = exported \/ exported' = exported \o picked BY DEF Delivered
<1>5. lost' = lost \/ lost' = lost \cup left BY DEF Delivered
<1> HIDE DEF picked, left
<1>6. exported \o picked \in Seq(Records) BY ONLY <1>1, <1>3, ConcatProperties
<1>7. lost \cup left \subseteq Records BY ONLY <1>1, <1>3
<1> QED BY ONLY <1>1, <1>4, <1>5, <1>6, <1>7

\* Handing a chunk to the exporter or giving it up preserves the types.
LEMMA HandledType ==
  ASSUME TypeOK, NEW next \in {"drain", "flush", "exit"}, Handled(next), overdue' \in Nat
  PROVE  TypeOK'
<1> USE DEF TypeOK
<1>1. chunk \in Seq(Records) /\ exported \in Seq(Records)
  BY DEF ExportingType, AccountsType
<1>2. Range(chunk) \subseteq Records BY <1>1, RangeType
<1>3. exported' \in Seq(Records) /\ lost' \subseteq Records
  <2>1. CASE \E k \in 1 .. Len(chunk) : \E at \in Ascending(k, Len(chunk)) : Delivered(k, at)
    BY <2>1, DeliveredType
  <2>2. CASE GiveUp BY <1>1, <1>2, <2>2 DEF GiveUp, AccountsType
  <2> QED BY <2>1, <2>2 DEF Handled
<1>5. AccountsType'
  BY <1>3 DEF Handled, Others, AccountsType
<1>6. ExportingType'
  BY EmptySeq DEF Handled, Others, environment, ExportingType
<1>7. ControlType'
  BY DEF Handled, ControlType, signals
<1>8. SharedType'
  BY DEF Handled, Delivered, GiveUp, SharedType
<1> QED
  BY <1>5, <1>6, <1>7, <1>8
  DEF Handled, Others, backends, environment, BackendsType, BudgetType

\* The exit of the worker preserves the types.
LEMMA ExitType == ASSUME TypeOK, Exit PROVE TypeOK'
<1> USE DEF TypeOK
<1>1. Range(chunk) \subseteq Records
  BY RangeType DEF ExportingType
<1>2. AccountsType'
  BY <1>1 DEF Exit, Others, AccountsType
<1>3. ControlType'
  BY SignalTypes DEF Exit, ControlType
<1>4. lastTotal' \in 0 .. MaxDropped /\ chunk' \in Seq(Records)
  BY Bounds, EmptySeq DEF Exit
<1>5. ExportingType'
  <2>1. Len(config) \in Nat BY DEF ExportingType
  <2>2. exporter' \in 0 .. Len(config) BY <2>1 DEF Exit, NoExporter
  <2> QED BY <1>4, <2>2 DEF Exit, Others, environment, ExportingType
<1>6. SharedType'
  BY DEF Exit, SharedType
<1> QED
  BY <1>2, <1>3, <1>5, <1>6 DEF Exit, Others, backends, environment, BackendsType, BudgetType

\* A crash, a reload and a SIGTERM preserve the types.
LEMMA EnvironmentType ==
  ASSUME TypeOK, Crash \/ ReloadConfig \/ Terminate
  PROVE  TypeOK'
<1> USE DEF TypeOK
<1>1. BudgetType'
  <2>1. \/ budget.crashes > 0 /\ budget' = [budget EXCEPT !.crashes = @ - 1]
        \/ budget.hups > 0 /\ budget' = [budget EXCEPT !.hups = @ - 1]
        \/ budget.terms > 0 /\ budget' = [budget EXCEPT !.terms = @ - 1]
    BY DEF Crash, ReloadConfig, Terminate
  <2> QED BY <2>1, Bounds DEF BudgetType
<1>2. CASE Crash
  BY <1>1, <1>2 DEF Crash, shared, backends, signals, exporting, accounts, SharedType,
                    BackendsType, ControlType, ExportingType, AccountsType
<1>3. ASSUME NEW s \in Signal, Deliver(s), UNCHANGED <<wpc, slot, pending, caughtUp, overdue>>
      PROVE  ControlType' /\ latch' \in BOOLEAN
  BY <1>3, SignalTypes DEF Deliver, ControlType, SharedType
<1>4. CASE ReloadConfig
  <2>1. PICK settings \in Settings : config' = Append(config, settings)
    BY <1>4 DEF ReloadConfig
  <2>2. config' \in Seq(Settings) /\ Len(config') = Len(config) + 1
    BY <2>1 DEF ExportingType
  <2>3. ExportingType'
    BY <1>4, <2>2 DEF ReloadConfig, exporting, ExportingType
  <2>4. ControlType' /\ latch' \in BOOLEAN
    BY <1>3, <1>4 DEF ReloadConfig, Signal
  <2> QED
    BY <1>1, <1>4, <2>3, <2>4
    DEF ReloadConfig, backends, accounts, SharedType, BackendsType, AccountsType
<1>5. CASE Terminate
  <2>1. ControlType' /\ latch' \in BOOLEAN
    BY <1>3, <1>5 DEF Terminate, Signal
  <2> QED
    BY <1>1, <1>5, <2>1
    DEF Terminate, backends, exporting, accounts, SharedType, BackendsType, ExportingType,
        AccountsType
<1> QED BY <1>2, <1>4, <1>5

\* Every step preserves the types.
LEMMA NextType == TypeOK /\ [Next]_vars => TypeOK'
<1> SUFFICES ASSUME TypeOK, [Next]_vars PROVE TypeOK' OBVIOUS
<1>1. overdue \in Nat BY DEF TypeOK, ControlType
<1>2. CASE \E b \in Backends : \E n \in 0 .. MaxSpans, skipped \in 0 .. 1 : Publish(b, n, skipped)
  BY <1>2, PublishType
<1>3. CASE \E b \in Backends : Backend(b)
  BY <1>3, BackendType
<1>4. CASE \/ Start \/ Register \/ Build \/ SkipWait \/ WakeUp \/ IdleTimeout \/ Poll \/ Reload
           \/ Interrupted \/ FlushCheck \/ Deadline \/ Report
  BY <1>4, ControlStepType
<1>5. CASE TakeChunk \/ FlushTake
  <2>1. overdue' \in Nat BY <1>1, <1>5 DEF TakeChunk, FlushTake
  <2>2. Take("report", "export") \/ Take("exit", "flushExport") BY <1>5 DEF TakeChunk, FlushTake
  <2> QED BY <2>1, <2>2, TakeType
<1>6. CASE ExportChunk \/ FlushExport \/ FlushCancelled
  <2>1. overdue' \in Nat BY <1>1, <1>6 DEF ExportChunk, FlushExport, FlushCancelled
  <2>2. Handled("drain") \/ Handled("flush") \/ Handled("exit")
    BY <1>6 DEF ExportChunk, FlushExport, FlushCancelled
  <2> QED BY <2>1, <2>2, HandledType
<1>7. CASE Exit BY <1>7, ExitType
<1>8. CASE Crash \/ ReloadConfig \/ Terminate BY <1>8, EnvironmentType
<1>9. CASE UNCHANGED vars
  BY <1>9 DEF vars, shared, backends, signals, exporting, environment, accounts, TypeOK,
              SharedType, BackendsType, ControlType, ExportingType, BudgetType, AccountsType
<1> QED BY <1>2, <1>3, <1>4, <1>5, <1>6, <1>7, <1>8, <1>9 DEF Next, Worker

\* Every variable has its type in every state of the specification.
THEOREM TypeCorrect == Spec => []TypeOK
  BY InitType, NextType, PTL DEF Spec

----------------------------------------------------------------------------
(* Signals are not delayed by more than one export *)

\* The two handlers leave what the worker has seen of a signal in place.
LEMMA DeliverKeeps ==
  ASSUME TypeOK, NEW s \in Signal, Deliver(s), pending' = pending, Any(Polled)
  PROVE  Any(Polled)'
  BY DEF Deliver, Any, Polled, TypeOK, ControlType

\* A wait hands the flags from `got` to `pending` and loses none.
LEMMA WaitKeeps ==
  ASSUME TypeOK, WaitReturns, Any(Polled)
  PROVE  Any(Polled)'
  BY DEF WaitReturns, Remembered, Any, Polled, TypeOK, ControlType, Signal

\* So does looking at them before a chunk, which makes all of them pending.
LEMMA InterruptedKeeps ==
  ASSUME TypeOK, Interrupted, Any(Polled)
  PROVE  Any(Polled)' /\ Any(pending)'
  BY DEF Interrupted, NoSignal, Any, Polled, TypeOK, ControlType, Signal

\* SignalInv is inductive.
LEMMA SignalStep == TypeOK /\ SignalInv /\ [Next]_vars => SignalInv'
<1> SUFFICES ASSUME TypeOK, SignalInv, [Next]_vars PROVE SignalInv' OBVIOUS
<1>1. CASE overdue' = overdue /\ got' = got /\ pending' = pending /\ wpc' # "take"
  BY <1>1 DEF SignalInv, Any, Polled
<1>2. CASE UNCHANGED <<overdue, got, pending, wpc>>
  BY <1>2 DEF SignalInv, Any, Polled
<1>3. CASE \E b \in Backends :
             \/ \E n \in 0 .. MaxSpans, skipped \in 0 .. 1 : Publish(b, n, skipped)
             \/ Backend(b)
  BY <1>2, <1>3 DEF Publish, Backend, Push, CountDropped, LoadWorker, SetLatch, signals
<1>4. CASE Start \/ Register \/ Build \/ SkipWait \/ Reload \/ Report \/ FlushCheck \/ Deadline
  BY <1>1, <1>2, <1>4
  DEF Start, Register, Build, SkipWait, Reload, Report, FlushCheck, Deadline, signals
<1>5. CASE WakeUp \/ IdleTimeout
  <2>1. WaitReturns BY <1>5 DEF WakeUp, IdleTimeout
  <2>2. Any(Polled) => Any(Polled)' BY <2>1, WaitKeeps
  <2> QED BY <2>1, <2>2 DEF WaitReturns, SignalInv
<1>6. CASE Poll \/ Exit
  BY <1>6 DEF Poll, Exit, SignalInv
<1>7. CASE Interrupted
  <2>1. Any(Polled) => Any(Polled)' BY <1>7, InterruptedKeeps
  <2>2. Any(Polled) => wpc' = "report" BY <1>7 DEF Interrupted, interrupted
  <2> QED BY <1>7, <2>1, <2>2 DEF Interrupted, SignalInv
<1>8. CASE TakeChunk
  <2>1. overdue = 0 BY <1>8 DEF TakeChunk, SignalInv
  <2>2. got' = got /\ pending' = pending /\ wpc' # "take"
    BY <1>8 DEF TakeChunk, Take, signals
  <2>3. overdue' = 0 \/ (overdue' = 1 /\ Any(Polled)) BY <1>8, <2>1 DEF TakeChunk
  <2> QED BY <2>2, <2>3 DEF SignalInv, Any, Polled
<1>9. CASE FlushTake \/ ExportChunk \/ FlushExport \/ FlushCancelled
  BY <1>1, <1>9 DEF FlushTake, ExportChunk, FlushExport, FlushCancelled, Take, Handled, signals
<1>10. CASE Crash
  BY <1>1, <1>10 DEF Crash, signals
<1>11. CASE ReloadConfig \/ Terminate
  <2>1. PICK s \in Signal : Deliver(s)
    BY <1>11 DEF ReloadConfig, Terminate, Signal
  <2>2. UNCHANGED <<overdue, pending, wpc>> BY <1>11 DEF ReloadConfig, Terminate
  <2>3. Any(Polled) => Any(Polled)' BY <2>1, <2>2, DeliverKeeps
  <2> QED BY <2>2, <2>3 DEF SignalInv
<1>12. CASE UNCHANGED vars
  BY <1>2, <1>12 DEF vars, signals
<1> QED
  BY <1>3, <1>4, <1>5, <1>6, <1>7, <1>8, <1>9, <1>10, <1>11, <1>12 DEF Next, Worker

\* A collector that is slow, hangs or is missing delays a reload or a shutdown by at
\* most the export that is under way when the signal arrives (worker.rs,
\* export_pending).
THEOREM SlowCollectorDelay == Spec => []AtMostOneExport
<1>1. Init => SignalInv BY DEF Init, SignalInv
<1>2. SignalInv => AtMostOneExport BY DEF SignalInv, AtMostOneExport
<1> QED BY <1>1, <1>2, SignalStep, TypeCorrect, PTL DEF Spec

----------------------------------------------------------------------------
(* No wake-up is lost *)

\* Backends see the worker from its registration to its exit, and a worker that has
\* just been started has not found the queue empty.
LEMMA RegisteredStep ==
  RegisteredInv /\ StartsBehind /\ [Next]_vars => RegisteredInv' /\ StartsBehind'
<1> SUFFICES ASSUME RegisteredInv, StartsBehind, [Next]_vars
             PROVE  RegisteredInv' /\ StartsBehind'
  OBVIOUS
<1> USE DEF RegisteredInv, StartsBehind
<1>1. CASE UNCHANGED <<workerProc, slot, wpc, caughtUp>>
  BY <1>1
<1>2. CASE \E b \in Backends :
             \/ \E n \in 0 .. MaxSpans, skipped \in 0 .. 1 : Publish(b, n, skipped)
             \/ Backend(b)
  BY <1>1, <1>2 DEF Publish, Backend, Push, CountDropped, LoadWorker, SetLatch, shared
<1>3. CASE Start \/ Register \/ Exit
  BY <1>3 DEF Start, Register, Exit
<1>4. CASE /\ UNCHANGED <<workerProc, slot>> /\ wpc \notin {"down", "register"}
           /\ wpc' \notin {"down", "register", "build"} /\ (wpc = "exit" => wpc' = "exit")
  BY <1>4
<1>5. CASE \/ Build \/ SkipWait \/ WakeUp \/ IdleTimeout \/ Poll \/ Reload \/ Interrupted
           \/ Report \/ FlushCheck \/ Deadline
  BY <1>4, <1>5
  DEF Build, SkipWait, WakeUp, IdleTimeout, WaitReturns, Asleep, Poll, Reload, Interrupted, Report,
      FlushCheck, Deadline, shared
<1>6. CASE TakeChunk \/ FlushTake \/ ExportChunk \/ FlushExport \/ FlushCancelled
  BY <1>4, <1>6 DEF TakeChunk, FlushTake, ExportChunk, FlushExport, FlushCancelled, Take, Handled
<1>7. CASE Crash
  BY <1>7 DEF Crash, shared
<1>8. CASE ReloadConfig \/ Terminate
  BY <1>1, <1>8 DEF ReloadConfig, Terminate
<1>9. CASE UNCHANGED vars
  BY <1>1, <1>9 DEF vars, shared
<1> QED BY <1>2, <1>3, <1>5, <1>6, <1>7, <1>8, <1>9 DEF Next, Worker

\* A backend keeps a wake-up under way until the latch is set.
LEMMA BackendWakes ==
  ASSUME TypeOK, RegisteredInv, WakeInv, NEW b \in Backends, Backend(b)
  PROVE  WakeInv'
<1> SUFFICES ASSUME wpc \in {"report", "loop"}, caughtUp, queue' # << >>, ~Any(pending)
             PROVE  latch' \/ WakeUnderWay'
  BY DEF WakeInv, Backend, Push, CountDropped, LoadWorker, SetLatch, shared, signals, Any
<1>1. pc \in [Backends -> {"idle", "push", "drop", "load", "set"}]
      /\ target \in [Backends -> Slots \cup {NoWorker}] /\ slot \in Slots
  BY DEF TypeOK, BackendsType, ControlType
<1>2. workerProc = slot /\ Registered
  BY <1>1, Bounds DEF RegisteredInv, Registered
<1>3. queue # << >> => latch \/ WakeUnderWay
  BY DEF WakeInv
<1>4. CASE Push(b)
  <2>1. CASE queue = << >>
    <3>1. Fits(batch[b]) BY <1>4, <2>1 DEF Push
    <3>2. should_wake(Len(queue), Len(queue')) BY <2>1 DEF should_wake
    <3>3. pc'[b] = "load" BY <1>1, <1>4, <3>1, <3>2 DEF Push
    <3> QED BY <3>3 DEF WakeUnderWay
  <2>2. CASE queue # << >>
    <3>1. \A d \in Backends \ {b} : pc'[d] = pc[d] BY <1>1, <1>4 DEF Push
    <3>2. WakeUnderWay => WakeUnderWay' BY <1>4, <3>1 DEF WakeUnderWay, Push
    <3> QED BY <1>3, <1>4, <2>2, <3>2 DEF Push
  <2> QED BY <2>1, <2>2
<1>5. CASE CountDropped(b)
  <2>1. \A d \in Backends \ {b} : pc'[d] = pc[d] BY <1>1, <1>5 DEF CountDropped
  <2>2. WakeUnderWay => WakeUnderWay' BY <1>5, <2>1 DEF WakeUnderWay, CountDropped
  <2> QED BY <1>3, <1>5, <2>2 DEF CountDropped
<1>6. CASE LoadWorker(b)
  <2>1. pc'[b] = "set" /\ target'[b] = slot BY <1>1, <1>2, <1>6 DEF LoadWorker
  <2>2. slot' = slot BY <1>6 DEF LoadWorker
  <2> QED BY <2>1, <2>2 DEF WakeUnderWay
<1>7. CASE SetLatch(b)
  <2>1. CASE target[b] = slot BY <1>7, <2>1 DEF SetLatch
  <2>2. CASE target[b] # slot
    <3>1. \A d \in Backends \ {b} : pc'[d] = pc[d] /\ target'[d] = target[d]
      BY <1>1, <1>7 DEF SetLatch
    <3>2. WakeUnderWay => WakeUnderWay' BY <1>7, <2>2, <3>1 DEF WakeUnderWay, SetLatch
    <3> QED BY <1>3, <1>7, <3>2 DEF SetLatch
  <2> QED BY <2>1, <2>2
<1> QED BY <1>4, <1>5, <1>6, <1>7 DEF Backend

\* An empty chunk leaves an empty queue behind; with MaxUndecodable = 0 no other
\* chunk ends a drain.
LEMMA EmptyEnds ==
  ASSUME TypeOK, MaxUndecodable = 0, NEW whenEmpty, NEW whenTaken,
         Take(whenEmpty, whenTaken), wpc' # whenTaken
  PROVE  queue' = << >>
<1>1. ~(budget.undecodable > 0) BY DEF TypeOK, BudgetType
<1>2. Oldest = << >> BY <1>1 DEF Take
<1> QED BY <1>2, OldestType DEF Take, TypeOK

\* WakeInv is inductive.
LEMMA WakeStep ==
  ASSUME MaxUndecodable = 0
  PROVE  TypeOK /\ RegisteredInv /\ StartsBehind /\ WakeInv /\ [Next]_vars => WakeInv'
<1> SUFFICES ASSUME TypeOK, RegisteredInv, StartsBehind, WakeInv, [Next]_vars PROVE WakeInv'
  OBVIOUS
<1>1. CASE wpc' \notin {"report", "loop"}
  BY <1>1 DEF WakeInv
<1>2. CASE /\ wpc \in {"report", "loop"}
           /\ UNCHANGED <<queue, latch, pc, target, slot, pending, caughtUp>>
  BY <1>2 DEF WakeInv, WakeUnderWay, Any
<1>3. CASE \E b \in Backends : Backend(b)
  BY <1>3, BackendWakes
<1>4. CASE \E b \in Backends : \E n \in 0 .. MaxSpans, skipped \in 0 .. 1 : Publish(b, n, skipped)
  <2>1. PICK b \in Backends, n \in 0 .. MaxSpans, skipped \in 0 .. 1 : Publish(b, n, skipped)
    BY <1>4
  <2>2. UNCHANGED <<queue, latch, wpc, slot, pending, caughtUp, target>> /\ pc[b] = "idle"
    BY <2>1 DEF Publish, signals
  <2>3. \A d \in Backends \ {b} : pc'[d] = pc[d]
    BY <2>1 DEF Publish, TypeOK, BackendsType
  <2>4. WakeUnderWay => WakeUnderWay'
    BY <2>2, <2>3 DEF WakeUnderWay
  <2> QED BY <2>2, <2>4 DEF WakeInv, Any
<1>5. CASE Build
  <2>1. ~caughtUp BY <1>5 DEF Build, StartsBehind
  <2> QED BY <1>5, <2>1 DEF Build, WakeInv
<1>6. CASE Interrupted
  <2>1. Any(Polled) => Any(pending)' BY <1>6, InterruptedKeeps
  <2>2. wpc' = "report" => Any(Polled) BY <1>6 DEF Interrupted, interrupted
  <2> QED BY <1>1, <1>6, <2>1, <2>2 DEF Interrupted, WakeInv
<1>7. CASE TakeChunk
  <2>1. Take("report", "export") BY <1>7 DEF TakeChunk
  <2>2. wpc' # "export" => queue' = << >> BY <2>1, EmptyEnds
  <2> QED BY <2>2 DEF WakeInv
<1>8. CASE FlushTake \/ ExportChunk \/ FlushExport \/ FlushCancelled
  BY <1>1, <1>8 DEF FlushTake, ExportChunk, FlushExport, FlushCancelled, Take, Handled
<1>9. CASE Start \/ Register \/ SkipWait \/ Poll \/ Reload \/ FlushCheck \/ Exit \/ Crash
  BY <1>1, <1>9 DEF Start, Register, SkipWait, Poll, Reload, FlushCheck, Exit, Crash
<1>10. CASE WakeUp \/ IdleTimeout \/ Deadline
  BY <1>1, <1>10 DEF WakeUp, IdleTimeout, WaitReturns, Deadline
<1>11. CASE Report
  BY <1>2, <1>11 DEF Report, Others, shared, backends, signals
<1>12. CASE ReloadConfig \/ Terminate
  <2>1. PICK s \in Signal : Deliver(s)
    BY <1>12 DEF ReloadConfig, Terminate, Signal
  <2>2. UNCHANGED <<wpc, queue>> BY <1>12 DEF ReloadConfig, Terminate
  <2>3. wpc \in {"report", "loop"} => latch' BY <2>1 DEF Deliver
  <2> QED BY <2>2, <2>3 DEF WakeInv
<1>13. CASE UNCHANGED vars
  BY <1>1, <1>2, <1>13 DEF vars, shared, backends, signals
<1> QED
  BY <1>3, <1>4, <1>5, <1>6, <1>7, <1>8, <1>9, <1>10, <1>11, <1>12, <1>13 DEF Next, Worker

\* All of ExportInv holds in every state.
THEOREM ExportInvariant == ASSUME MaxUndecodable = 0 PROVE Spec => []ExportInv
<1>1. Init => RegisteredInv /\ StartsBehind /\ WakeInv /\ SignalInv
  BY DEF Init, RegisteredInv, StartsBehind, WakeInv, SignalInv
<1>2. TypeOK /\ RegisteredInv /\ StartsBehind /\ WakeInv /\ [Next]_vars => WakeInv'
  BY WakeStep
<1> QED BY <1>1, <1>2, RegisteredStep, SignalStep, TypeCorrect, PTL DEF Spec, ExportInv

\* A worker that found the queue empty does not sleep beside spans queued since
\* unless its latch is set or about to be set (publish and should_wake in shared.rs,
\* the loop of exporter_main in worker.rs).  That every chunk has a record that
\* decodes is needed: without it a chunk of which nothing decodes ends a drain early.
THEOREM NoWakeUpLost == ASSUME MaxUndecodable = 0 PROVE Spec => []NoStrandedSpans
<1>1. ExportInv => NoStrandedSpans
  BY DEF ExportInv, WakeInv, NoStrandedSpans, Asleep
<1>2. Spec => []ExportInv BY ExportInvariant
<1> QED BY <1>1, <1>2, PTL

----------------------------------------------------------------------------
(* Spans are delivered in the order in which they were queued *)

\* The sequences the order is about.
LEMMA SequenceTypes ==
  ASSUME TypeOK
  PROVE  /\ queue \in Seq(Records) /\ chunk \in Seq(Records)
         /\ log \in Seq(Records) /\ exported \in Seq(Records)
         /\ Len(queue) \in Nat /\ Len(chunk) \in Nat
         /\ Len(log) \in Nat /\ Len(exported) \in Nat
  BY DEF TypeOK, SharedType, ExportingType, AccountsType

\* The oldest records are a prefix of the queue, the remaining ones the rest.
LEMMA OldestSplit ==
  ASSUME TypeOK
  PROVE  /\ Len(Oldest) \in 0 .. Len(queue)
         /\ Len(Remaining) = Len(queue) - Len(Oldest)
         /\ \A i \in 1 .. Len(Oldest) : Oldest[i] = queue[i]
         /\ \A i \in 1 .. Len(Remaining) : Remaining[i] = queue[Len(Oldest) + i]
<1> DEFINE n == IF Len(queue) <= CHUNK THEN Len(queue) ELSE CHUNK
<1>1. queue \in Seq(Records) /\ Len(queue) \in Nat BY SequenceTypes
<1>2. n \in 0 .. Len(queue) BY <1>1, Bounds
<1>3. Len(Oldest) = n /\ \A i \in 1 .. n : Oldest[i] = queue[i]
  BY <1>1, <1>2, SubSeqProperties DEF Oldest
<1>4. /\ Len(Remaining) = Len(queue) - n
      /\ \A i \in 1 .. Len(queue) - n : Remaining[i] = queue[n + i]
  BY <1>1, <1>2, <1>3, SubSeqProperties DEF Remaining
<1> QED BY <1>2, <1>3, <1>4

\* The worker holds a chunk only between taking it and handing it on.
LEMMA ChunkStep == ChunkInv /\ [Next]_vars => ChunkInv'
<1> SUFFICES ASSUME ChunkInv, [Next]_vars PROVE ChunkInv' OBVIOUS
<1> USE DEF ChunkInv
<1>1. CASE UNCHANGED <<chunk, wpc>>
  BY <1>1
<1>2. CASE \E b \in Backends :
             \/ \E n \in 0 .. MaxSpans, skipped \in 0 .. 1 : Publish(b, n, skipped)
             \/ Backend(b)
  BY <1>1, <1>2
  DEF Publish, Backend, Push, CountDropped, LoadWorker, SetLatch, exporting
<1>3. CASE chunk' = chunk /\ wpc \notin {"export", "flushExport", "exit"}
  BY <1>3
<1>4. CASE \/ Start \/ Register \/ Build \/ SkipWait \/ WakeUp \/ IdleTimeout \/ Poll \/ Reload
           \/ Interrupted \/ Report \/ FlushCheck
  BY <1>3, <1>4
  DEF Start, Register, Build, SkipWait, WakeUp, IdleTimeout, WaitReturns, Asleep, Poll, Reload,
      Interrupted, Report, FlushCheck, exporting
<1>5. CASE TakeChunk \/ FlushTake
  BY <1>5 DEF TakeChunk, FlushTake, Take
<1>6. CASE ExportChunk \/ FlushExport \/ FlushCancelled \/ Exit
  BY <1>6 DEF ExportChunk, FlushExport, FlushCancelled, Handled, Exit
<1>7. CASE Crash
  BY <1>7 DEF Crash
<1>8. CASE Deadline \/ ReloadConfig \/ Terminate \/ UNCHANGED vars
  BY <1>1, <1>8 DEF Deadline, ReloadConfig, Terminate, exporting, vars
<1> QED BY <1>2, <1>4, <1>5, <1>6, <1>7, <1>8 DEF Next, Worker

\* Steps that leave the records where they are.
LEMMA LogKept ==
  ASSUME LogEnds, LogOrder, UNCHANGED <<queue, chunk, log, exported>>
  PROVE  LogEnds' /\ LogOrder'
  BY DEF LogEnds, LogOrder, Handed

\* More handled records do not disturb the order of those delivered.
LEMMA LogOrderKept ==
  ASSUME TypeOK, TypeOK', LogOrder, exported' = exported, Handed' \in Nat, Handed \in Nat,
         Handed <= Handed', \A i \in 1 .. Handed : log'[i] = log[i]
  PROVE  LogOrder'
<1>1. PICK at \in [1 .. Len(exported) -> 1 .. Handed] :
        /\ \A i \in 1 .. Len(exported) : log[at[i]] = exported[i]
        /\ \A i, j \in 1 .. Len(exported) : i < j => at[i] < at[j]
  BY DEF LogOrder
<1>2. at \in [1 .. Len(exported') -> 1 .. Handed'] BY <1>1
<1>3. \A i \in 1 .. Len(exported') : log'[at[i]] = exported'[i] BY <1>1
<1>4. \A i, j \in 1 .. Len(exported') : i < j => at[i] < at[j] BY <1>1
<1> QED BY <1>2, <1>3, <1>4 DEF LogOrder

\* A statement is queued behind everything else, in the log as in the queue.
LEMMA PushOrder ==
  ASSUME KeepHistory, TypeOK, TypeOK', LogEnds, LogOrder, NEW b \in Backends, Push(b)
  PROVE  LogEnds' /\ LogOrder'
<1>1. CASE Fits(batch[b])
  <2>1. batch[b] \in Seq(Records) /\ Len(batch[b]) \in Nat BY DEF TypeOK, BackendsType
  <2>2. queue' = queue \o batch[b] /\ log' = log \o batch[b]
    BY <1>1 DEF Push
  <2>3. chunk' = chunk /\ exported' = exported BY DEF Push, exporting
  <2>4. Len(queue') = Len(queue) + Len(batch[b]) /\ Len(log') = Len(log) + Len(batch[b])
    BY <2>1, <2>2, SequenceTypes
  <2>5. /\ Handed' = Handed /\ Handed \in Nat
        /\ Handed + Len(chunk) + Len(queue) = Len(log)
    BY <2>1, <2>3, <2>4, SequenceTypes DEF Handed, LogEnds
  <2>6. \A i \in 1 .. Len(log) : log'[i] = log[i]
    BY <2>1, <2>2, SequenceTypes
  <2>7. \A i \in 1 .. Len(chunk') : chunk'[i] = log'[Handed' + i]
    <3> TAKE i \in 1 .. Len(chunk')
    <3>1. i \in 1 .. Len(chunk) /\ Handed + i \in 1 .. Len(log)
      BY <2>3, <2>5, SequenceTypes
    <3> QED BY <2>3, <2>5, <2>6, <3>1 DEF LogEnds
  <2>8. \A i \in 1 .. Len(queue') : queue'[i] = log'[Handed' + Len(chunk') + i]
    <3> TAKE i \in 1 .. Len(queue')
    <3>1. CASE i <= Len(queue)
      <4>1. queue'[i] = queue[i] /\ i \in 1 .. Len(queue) BY <2>1, <2>2, <3>1, SequenceTypes
      <4>2. Handed + Len(chunk) + i \in 1 .. Len(log)
        BY <2>5, <3>1, SequenceTypes
      <4>3. queue[i] = log[Handed + Len(chunk) + i] BY <4>1 DEF LogEnds
      <4>4. log'[Handed + Len(chunk) + i] = log[Handed + Len(chunk) + i] BY <2>6, <4>2
      <4> QED BY <2>3, <2>5, <4>1, <4>3, <4>4
    <3>2. CASE i > Len(queue)
      <4>1. i - Len(queue) \in 1 .. Len(batch[b]) BY <2>1, <2>4, <3>2, SequenceTypes
      <4>2. queue'[i] = batch[b][i - Len(queue)]
        BY <2>1, <2>2, <2>4, <3>2, SequenceTypes
      <4>3. Handed' + Len(chunk') + i = Len(log) + (i - Len(queue))
        <5> DEFINE h == Handed
                   c == Len(chunk)
                   q == Len(queue)
                   l == Len(log)
        <5>1. h \in Nat /\ c \in Nat /\ q \in Nat /\ l \in Nat /\ h + c + q = l
          BY <2>5, SequenceTypes
        <5>2. i \in Nat BY <2>1, <2>4, SequenceTypes
        <5> HIDE DEF h, c, q, l
        <5>3. h + c + i = l + (i - q) BY <5>1, <5>2
        <5>4. Handed' = h /\ Len(chunk') = c BY <2>3, <2>5 DEF h, c
        <5> QED BY <5>3, <5>4 DEF l, q
      <4>4. log'[Len(log) + (i - Len(queue))] = batch[b][i - Len(queue)]
        <5> DEFINE j == i - Len(queue)
        <5>1. j \in 1 .. Len(batch[b]) BY <4>1
        <5> HIDE DEF j
        <5>2. Len(log) + j \in 1 .. Len(log) + Len(batch[b]) /\ ~(Len(log) + j <= Len(log))
              /\ (Len(log) + j) - Len(log) = j
          BY <2>1, <5>1, SequenceTypes
        <5>3. (log \o batch[b])[Len(log) + j] = batch[b][(Len(log) + j) - Len(log)]
          BY <2>1, <5>2, SequenceTypes, ConcatProperties
        <5> QED BY <2>2, <5>2, <5>3 DEF j
      <4> QED BY <4>2, <4>3, <4>4
    <3> QED BY <3>1, <3>2, <2>4, SequenceTypes
  <2>9. LogEnds' BY <2>5, <2>7, <2>8 DEF LogEnds
  <2>10. \A i \in 1 .. Handed : log'[i] = log[i]
    <3>1. Handed <= Len(log) BY <2>5, SequenceTypes
    <3> QED BY <2>5, <2>6, <3>1, SequenceTypes
  <2> QED BY <2>3, <2>5, <2>9, <2>10, LogOrderKept
<1>2. CASE ~Fits(batch[b])
  BY <1>2, LogKept DEF Push, exporting
<1> QED BY <1>1, <1>2

\* The worker takes the oldest queued records, which are the next ones of the log.
LEMMA TakeOrder ==
  ASSUME KeepHistory, TypeOK, TypeOK', chunk = << >>, LogEnds, LogOrder,
         NEW whenEmpty, NEW whenTaken, Take(whenEmpty, whenTaken)
  PROVE  LogEnds' /\ LogOrder'
<1>1. log' = log /\ exported' = exported /\ queue' = Remaining
  BY DEF Take
<1>2. Len(chunk) = 0 BY SequenceTypes
<1>3. chunk' = Oldest \/ chunk' = chunk BY DEF Take
<1>4. /\ Len(Oldest) \in 0 .. Len(queue)
      /\ Len(Remaining) = Len(queue) - Len(Oldest)
      /\ \A i \in 1 .. Len(Oldest) : Oldest[i] = queue[i]
      /\ \A i \in 1 .. Len(Remaining) : Remaining[i] = queue[Len(Oldest) + i]
  BY OldestSplit
<1>5. Handed \in Nat /\ Handed + Len(queue) = Len(log)
  BY <1>2, SequenceTypes DEF Handed, LogEnds
<1>6. \A i \in 1 .. Len(queue) : queue[i] = log[Handed + i]
  BY <1>2, <1>5, SequenceTypes DEF LogEnds
<1>7. \A i \in 1 .. Len(Remaining) : Remaining[i] = log[Handed + Len(Oldest) + i]
  <2> TAKE i \in 1 .. Len(Remaining)
  <2>1. Len(Oldest) + i \in 1 .. Len(queue) BY <1>4, SequenceTypes
  <2> QED BY <1>4, <1>5, <1>6, <2>1, SequenceTypes
<1>8. CASE chunk' = Oldest
  <2>1. Handed' = Handed BY <1>1, <1>4, <1>5, <1>8, SequenceTypes DEF Handed
  <2>2. LogEnds' BY <1>1, <1>4, <1>5, <1>6, <1>7, <1>8, <2>1, SequenceTypes DEF LogEnds
  <2> QED BY <1>1, <1>5, <2>1, <2>2, LogOrderKept
<1>9. CASE chunk' = chunk
  <2>1. Handed' = Handed + Len(Oldest)
    BY <1>1, <1>2, <1>4, <1>5, <1>9, SequenceTypes DEF Handed
  <2>2. LogEnds'
    BY <1>1, <1>2, <1>4, <1>5, <1>7, <1>9, <2>1, SequenceTypes DEF LogEnds
  <2>3. Handed' \in Nat /\ Handed <= Handed' BY <1>4, <1>5, <2>1, SequenceTypes
  <2> QED BY <1>1, <1>5, <2>2, <2>3, LogOrderKept
<1> QED BY <1>3, <1>8, <1>9

\* A chunk that is out of the worker's hands joins what is handled.
LEMMA HandedEnds ==
  ASSUME TypeOK, TypeOK', LogEnds, queue' = queue, log' = log, chunk' = << >>
  PROVE  LogEnds' /\ Handed \in Nat /\ Handed' = Handed + Len(chunk)
<1>1. Len(chunk') = 0 BY SequenceTypes
<1>2. Handed \in Nat /\ Handed + Len(chunk) + Len(queue) = Len(log)
  BY SequenceTypes DEF Handed, LogEnds
<1>3. Handed' = Handed + Len(chunk)
  BY <1>1, <1>2, SequenceTypes DEF Handed
<1> QED BY <1>1, <1>2, <1>3, SequenceTypes DEF LogEnds

\* A chunk is given up or lost.
LEMMA LostOrder ==
  ASSUME KeepHistory, TypeOK, TypeOK', LogEnds, LogOrder,
         queue' = queue, log' = log, chunk' = << >>, exported' = exported
  PROVE  LogEnds' /\ LogOrder'
<1>1. LogEnds' /\ Handed \in Nat /\ Handed' = Handed + Len(chunk) BY HandedEnds
<1> QED BY <1>1, LogOrderKept, SequenceTypes

\* What is delivered of a chunk is delivered behind everything delivered before.
LEMMA DeliveredOrder ==
  ASSUME KeepHistory, TypeOK, TypeOK', LogEnds, LogOrder,
         queue' = queue, log' = log, chunk' = << >>,
         NEW k \in 1 .. Len(chunk), NEW places \in Ascending(k, Len(chunk)),
         Delivered(k, places)
  PROVE  LogEnds' /\ LogOrder'
<1> DEFINE m == Len(exported)
           h == Handed
           n == Len(chunk)
           picked == [i \in 1 .. k |-> chunk[places[i]]]
<1>1. LogEnds' /\ h \in Nat /\ Handed' = h + n BY HandedEnds
<1>2. m \in Nat /\ n \in Nat /\ k \in Nat BY SequenceTypes
<1>3. /\ places \in [1 .. k -> 1 .. n]
      /\ \A i, j \in 1 .. k : i < j => places[i] < places[j]
  BY DEF Ascending
<1>4. picked \in Seq(Records) /\ Len(picked) = k
  BY <1>2, <1>3, PickedType, SequenceTypes
<1>5. \A i \in 1 .. k : picked[i] = chunk[places[i]] OBVIOUS
<1>6. \A i \in 1 .. k : picked[i] = log[h + places[i]]
  <2> TAKE i \in 1 .. k
  <2>1. places[i] \in 1 .. n BY <1>3
  <2> QED BY <1>5, <2>1 DEF LogEnds
<1>7. exported' = exported \o picked BY DEF Delivered
<1> HIDE DEF picked, m, h, n
<1>8. PICK at \in [1 .. m -> 1 .. h] :
        /\ \A i \in 1 .. m : log[at[i]] = exported[i]
        /\ \A i, j \in 1 .. m : i < j => at[i] < at[j]
  BY DEF LogOrder, m, h
<1>9. /\ Len(exported') = m + k
      /\ \A i \in 1 .. m : exported'[i] = exported[i]
      /\ \A i \in 1 .. k : exported'[m + i] = picked[i]
  <2>1. exported \in Seq(Records) /\ Len(exported) = m BY SequenceTypes DEF m
  <2>2. /\ Len(exported \o picked) = m + k
        /\ \A i \in 1 .. m + k :
             (exported \o picked)[i] = IF i <= m THEN exported[i] ELSE picked[i - m]
    BY ONLY <1>4, <2>1, ConcatProperties
  <2>3. \A i \in 1 .. m : i \in 1 .. m + k /\ i <= m BY ONLY <1>2
  <2>4. \A i \in 1 .. k : m + i \in 1 .. m + k /\ ~(m + i <= m) /\ (m + i) - m = i
    BY ONLY <1>2
  <2> QED BY ONLY <1>7, <2>2, <2>3, <2>4
<1> DEFINE both == [i \in 1 .. m + k |-> IF i <= m THEN at[i] ELSE h + places[i - m]]
<1>10. \A i \in 1 .. m + k : i \in Nat /\ (i <= m => i \in 1 .. m)
                            /\ (i > m => i - m \in 1 .. k /\ m + (i - m) = i)
  BY <1>2
<1>11. \A i \in 1 .. m + k : i <= m => both[i] = at[i] OBVIOUS
<1>12. \A i \in 1 .. m + k : i > m => both[i] = h + places[i - m] BY <1>2, <1>10
<1> HIDE DEF both
<1>13. both = [i \in 1 .. m + k |-> both[i]] BY DEF both
<1>14. \A i \in 1 .. m + k : both[i] \in 1 .. h + n /\ log[both[i]] = exported'[i]
  <2> TAKE i \in 1 .. m + k
  <2>1. CASE i <= m
    <3>1. i \in 1 .. m /\ both[i] = at[i] BY <1>10, <1>11, <2>1
    <3>2. at[i] \in 1 .. h /\ log[at[i]] = exported[i] BY <1>8, <3>1
    <3>3. exported'[i] = exported[i] BY <1>9, <3>1
    <3> QED BY <1>1, <1>2, <3>1, <3>2, <3>3
  <2>2. CASE i > m
    <3> DEFINE j == i - m
    <3>1. j \in 1 .. k /\ m + j = i /\ both[i] = h + places[j] BY <1>10, <1>12, <2>2
    <3> HIDE DEF j
    <3>2. places[j] \in 1 .. n /\ picked[j] = log[h + places[j]] BY <1>3, <1>6, <3>1
    <3>3. exported'[m + j] = picked[j] BY <1>9, <3>1
    <3>4. h + places[j] \in 1 .. h + n BY <1>1, <1>2, <3>2
    <3> QED BY <3>1, <3>2, <3>3, <3>4
  <2> QED BY <1>2, <1>10, <2>1, <2>2
<1>15. ASSUME NEW i \in 1 .. m + k, NEW j \in 1 .. m + k, i < j
       PROVE  both[i] < both[j]
  <2>1. CASE j <= m
    <3>1. i \in 1 .. m /\ j \in 1 .. m BY <1>2, <1>10, <1>15, <2>1
    <3>2. both[i] = at[i] /\ both[j] = at[j] BY <1>2, <1>10, <1>11, <1>15, <2>1
    <3> QED BY <1>8, <1>15, <3>1, <3>2
  <2>2. CASE i <= m /\ j > m
    <3>1. both[i] = at[i] /\ i \in 1 .. m BY <1>10, <1>11, <2>2
    <3>2. both[j] = h + places[j - m] /\ j - m \in 1 .. k BY <1>10, <1>12, <2>2
    <3>3. at[i] \in 1 .. h /\ places[j - m] \in 1 .. n BY <1>3, <1>8, <3>1, <3>2
    <3> QED BY <1>1, <1>2, <3>1, <3>2, <3>3
  <2>3. CASE i > m
    <3>1. j > m BY <1>2, <1>10, <1>15, <2>3
    <3>2. /\ both[i] = h + places[i - m] /\ both[j] = h + places[j - m]
          /\ i - m \in 1 .. k /\ j - m \in 1 .. k
      BY <1>10, <1>12, <2>3, <3>1
    <3>3. i - m < j - m BY <1>2, <1>10, <1>15
    <3>4. places[i - m] < places[j - m] BY <1>3, <3>2, <3>3
    <3>5. places[i - m] \in 1 .. n /\ places[j - m] \in 1 .. n BY <1>3, <3>2
    <3> QED BY <1>1, <1>2, <3>2, <3>4, <3>5
  <2> QED BY <1>2, <1>10, <2>1, <2>2, <2>3
<1>16. both \in [1 .. Len(exported') -> 1 .. Handed'] BY <1>1, <1>9, <1>13, <1>14
<1>17. \A i \in 1 .. Len(exported') : log'[both[i]] = exported'[i] BY <1>9, <1>14
<1>18. \A i, j \in 1 .. Len(exported') : i < j => both[i] < both[j] BY <1>9, <1>15
<1> QED BY <1>1, <1>16, <1>17, <1>18 DEF LogOrder

\* LogInv is inductive.
LEMMA LogStep ==
  ASSUME KeepHistory
  PROVE  TypeOK /\ TypeOK' /\ LogInv /\ [Next]_vars => LogInv'
<1> SUFFICES ASSUME TypeOK, TypeOK', LogInv, [Next]_vars PROVE LogInv' OBVIOUS
<1>1. ChunkInv /\ LogEnds /\ LogOrder BY DEF LogInv
<1>2. ChunkInv' BY <1>1, ChunkStep
<1>3. CASE UNCHANGED <<queue, chunk, log, exported>>
  BY <1>1, <1>2, <1>3, LogKept DEF LogInv
<1>4. CASE \E b \in Backends :
             \/ \E n \in 0 .. MaxSpans, skipped \in 0 .. 1 : Publish(b, n, skipped)
             \/ CountDropped(b) \/ LoadWorker(b) \/ SetLatch(b)
  BY <1>3, <1>4 DEF Publish, CountDropped, LoadWorker, SetLatch, shared, exporting, accounts
<1>5. CASE \E b \in Backends : Push(b)
  BY <1>1, <1>2, <1>5, PushOrder DEF LogInv
<1>6. CASE \/ Start \/ Register \/ Build \/ SkipWait \/ WakeUp \/ IdleTimeout \/ Poll \/ Reload
           \/ Interrupted \/ Report \/ FlushCheck \/ Deadline
  BY <1>3, <1>6
  DEF Start, Register, Build, SkipWait, WakeUp, IdleTimeout, WaitReturns, Poll, Reload,
      Interrupted, Report, FlushCheck, Deadline, Others, shared, exporting
<1>7. CASE TakeChunk
  <2>1. chunk = << >> BY <1>1, <1>7 DEF TakeChunk, ChunkInv
  <2>2. Take("report", "export") BY <1>7 DEF TakeChunk
  <2> QED BY <1>1, <1>2, <2>1, <2>2, TakeOrder DEF LogInv
<1>8. CASE FlushTake
  <2>1. chunk = << >> BY <1>1, <1>8 DEF FlushTake, ChunkInv
  <2>2. Take("exit", "flushExport") BY <1>8 DEF FlushTake
  <2> QED BY <1>1, <1>2, <2>1, <2>2, TakeOrder DEF LogInv
<1>9. CASE ExportChunk \/ FlushExport \/ FlushCancelled
  <2>1. PICK next \in {"drain", "flush", "exit"} : Handled(next)
    BY <1>9 DEF ExportChunk, FlushExport, FlushCancelled
  <2>2. queue' = queue /\ log' = log /\ chunk' = << >>
    BY <2>1 DEF Handled, Delivered, GiveUp, Others
  <2>3. CASE \E k \in 1 .. Len(chunk) : \E at \in Ascending(k, Len(chunk)) : Delivered(k, at)
    BY <1>1, <1>2, <2>2, <2>3, DeliveredOrder DEF LogInv
  <2>4. CASE GiveUp
    <3>1. exported' = exported BY <2>4 DEF GiveUp
    <3> QED BY <1>1, <1>2, <2>2, <3>1, LostOrder DEF LogInv
  <2> QED BY <2>1, <2>3, <2>4 DEF Handled
<1>10. CASE Exit
  <2>1. queue' = queue /\ log' = log /\ chunk' = << >> /\ exported' = exported
    BY <1>10 DEF Exit, Others
  <2> QED BY <1>1, <1>2, <2>1, LostOrder DEF LogInv
<1>11. CASE Crash \/ ReloadConfig \/ Terminate \/ UNCHANGED vars
  BY <1>3, <1>11 DEF Crash, ReloadConfig, Terminate, shared, exporting, accounts, vars
<1> QED
  BY <1>4, <1>5, <1>6, <1>7, <1>8, <1>9, <1>10, <1>11 DEF Next, Worker, Backend

\* Nothing has been queued, taken or delivered at first.
LEMMA InitLog == Init => LogInv
<1> SUFFICES ASSUME Init PROVE LogInv OBVIOUS
<1>1. Len(queue) = 0 /\ Len(chunk) = 0 /\ Len(log) = 0 /\ Len(exported) = 0
  BY DEF Init
<1>2. Handed = 0 BY <1>1 DEF Handed
<1>3. LogEnds BY <1>1, <1>2 DEF LogEnds
<1> DEFINE at == [i \in 1 .. Len(exported) |-> 1]
<1>4. at \in [1 .. Len(exported) -> 1 .. Handed] BY <1>1
<1>5. \A i \in 1 .. Len(exported) : FALSE BY <1>1
<1> HIDE DEF at
<1>6. LogOrder BY <1>4, <1>5 DEF LogOrder
<1> QED BY <1>3, <1>6 DEF LogInv, ChunkInv, Init

\* The log of accepted records is those handled, among which the delivered ones are
\* found in their order, then the chunk in the worker's hands, then the queue (publish,
\* take_chunk, export), for the models that keep the history.
THEOREM LogInvariant == ASSUME KeepHistory PROVE Spec => []LogInv
<1>1. TypeOK /\ TypeOK' /\ LogInv /\ [Next]_vars => LogInv'
  BY LogStep
<1> QED BY <1>1, InitLog, TypeCorrect, PTL DEF Spec

\* Spans reach the collector at most once and in the order in which they were queued,
\* whatever fails, is reloaded, shut down or restarted in between (publish in
\* shared.rs, export_pending and flush_and_shutdown in worker.rs).
THEOREM DeliveryOrder == ASSUME KeepHistory PROVE Spec => []DeliveredInOrder
<1>1. LogInv /\ TypeOK => DeliveredInOrder
  <2> SUFFICES ASSUME LogInv, TypeOK,
                      NEW i \in 1 .. Len(exported), NEW j \in 1 .. Len(exported), i < j
               PROVE  \E k, l \in 1 .. Len(log) :
                        k < l /\ log[k] = exported[i] /\ log[l] = exported[j]
    BY DEF DeliveredInOrder
  <2>1. PICK at \in [1 .. Len(exported) -> 1 .. Handed] :
          /\ \A n \in 1 .. Len(exported) : log[at[n]] = exported[n]
          /\ \A n, m \in 1 .. Len(exported) : n < m => at[n] < at[m]
    BY DEF LogInv, LogOrder
  <2>2. Handed \in Nat /\ Handed <= Len(log)
    BY SequenceTypes DEF LogInv, LogEnds, Handed
  <2>3. at[i] \in 1 .. Handed /\ at[j] \in 1 .. Handed BY <2>1
  <2>4. 1 .. Handed \subseteq 1 .. Len(log) BY <2>2, SequenceTypes
  <2> QED BY <2>1, <2>3, <2>4
<1> QED BY <1>1, LogInvariant, TypeCorrect, PTL

----------------------------------------------------------------------------
(* The refinement of SpanQueue (ExportRefinement): a step of a backend or  *)
(* of the worker queues a statement whole, refuses it for lack of room,    *)
(* takes the oldest records, hands them on, or is invisible to the queue.  *)

\* The records that backends have collected and not yet offered to the queue.
Collected == [b \in Backends |-> IF pc[b] = "push" THEN batch[b] ELSE << >>]

\* A step that leaves records, chunk and batches alone is invisible.
LEMMA Invisible ==
  ASSUME UNCHANGED <<queue, chunk, pc, batch>>
  PROVE  UNCHANGED Queue!vars
BY DEF Queue!vars

\* The queue starts empty, and nobody holds records.
LEMMA InitMapped == Init => Queue!Init
<1> SUFFICES ASSUME Init PROVE Queue!Init OBVIOUS
<1>1. \A b \in Backends : pc[b] # "push" BY DEF Init
<1> QED BY <1>1 DEF Init, Queue!Init

\* publish collects the records of the statement.
LEMMA PublishMapped ==
  ASSUME TypeOK, NEW b \in Backends, NEW n \in 0 .. MaxSpans, NEW skipped \in 0 .. 1,
         Publish(b, n, skipped), TypeOK'
  PROVE  Queue!Collect(b)
<1>1. batch' \in [Backends -> Seq(Records)] BY DEF TypeOK, BackendsType
<1>2. Collected' = [Collected EXCEPT ![b] = Collected'[b]]
  BY DEF Publish, TypeOK, BackendsType, Collected
<1>3. Collected[b] = << >> /\ Collected'[b] \in Seq(Records)
  <2>1. Collected[b] = << >> BY DEF Publish, Collected
  <2>2. Collected'[b] \in Seq(Records)
    BY <1>1, EmptySeq DEF Collected
  <2> QED BY <2>1, <2>2
<1>4. /\ Len(Collected[b]) <= Len(Collected'[b])
      /\ Collected[b] = SubSeq(Collected'[b], 1, Len(Collected[b]))
  BY <1>3
<1>5. UNCHANGED <<queue, chunk>> BY DEF Publish, exporting
<1> QED BY <1>2, <1>3, <1>4, <1>5 DEF Queue!Collect, Collected

\* push_batch queues the whole statement, or refuses it because it does not fit.
LEMMA PushMapped ==
  ASSUME TypeOK, NEW b \in Backends, Push(b)
  PROVE  Queue!Enqueue(b) \/ Queue!Refuse(b) \/ UNCHANGED Queue!vars
<1>1. Collected[b] = batch[b] BY DEF Push, Collected
<1>2. Collected' = [Collected EXCEPT ![b] = << >>]
  BY DEF Push, TypeOK, BackendsType, Collected
<1>3. chunk' = chunk BY DEF Push, exporting
<1>4. CASE Fits(batch[b]) /\ batch[b] # << >>
  <2>1. queue' = queue \o Collected[b] BY <1>1, <1>4 DEF Push
  <2>2. Len(queue) + Len(Collected[b]) <= Cap BY <1>1, <1>4 DEF Fits
  <2> QED BY <1>1, <1>2, <1>3, <1>4, <2>1, <2>2 DEF Queue!Enqueue, Collected
<1>5. CASE Fits(batch[b]) /\ batch[b] = << >>
  <2>1. queue' = queue
    <3>1. queue \in Seq(Records) BY SequenceTypes
    <3>2. queue' = queue \o << >> BY <1>5 DEF Push
    <3> QED BY <3>1, <3>2
  <2>2. Collected' = Collected BY <1>1, <1>2, <1>5 DEF Collected
  <2> QED BY <1>3, <2>1, <2>2 DEF Queue!vars, Collected
<1>6. CASE ~Fits(batch[b])
  <2>1. queue' = queue BY <1>6 DEF Push
  <2>2. Len(queue) + Len(Collected[b]) > Cap
    BY <1>1, <1>6, SequenceTypes, Bounds DEF Fits, TypeOK, BackendsType
  <2> QED BY <1>2, <1>3, <2>1, <2>2 DEF Queue!Refuse, Collected
<1> QED BY <1>4, <1>5, <1>6

\* What follows the push of a statement does not touch the queue.
LEMMA AfterPushMapped ==
  ASSUME TypeOK, NEW b \in Backends, CountDropped(b) \/ LoadWorker(b) \/ SetLatch(b)
  PROVE  UNCHANGED Queue!vars
<1>1. Collected' = Collected
  BY DEF CountDropped, LoadWorker, SetLatch, TypeOK, BackendsType, Collected
<1>2. UNCHANGED <<queue, chunk>>
  BY DEF CountDropped, LoadWorker, SetLatch, shared, exporting
<1> QED BY <1>1, <1>2 DEF Queue!vars, Collected

\* take_chunk removes as many of the oldest records as the limit allows, for the
\* worker or, when none of them decodes, for nobody; of an empty queue nothing.
LEMMA TakeMapped ==
  ASSUME TypeOK, ChunkInv, NEW whenEmpty, NEW whenTaken, Take(whenEmpty, whenTaken),
         wpc \notin {"export", "flushExport", "exit"}
  PROVE  Queue!Take \/ Queue!Discard \/ UNCHANGED Queue!vars
<1> DEFINE n == Len(Oldest)
<1>1. chunk = << >> BY DEF ChunkInv
<1>2. UNCHANGED <<pc, batch>> BY DEF Take, backends
<1>3. Collected' = Collected BY <1>2 DEF Collected
<1>4. queue \in Seq(Records) /\ Len(queue) \in Nat BY SequenceTypes
<1>5. n = IF Len(queue) <= CHUNK THEN Len(queue) ELSE CHUNK
  <2> DEFINE m == IF Len(queue) <= CHUNK THEN Len(queue) ELSE CHUNK
  <2>1. m \in 0 .. Len(queue) BY <1>4, Bounds
  <2> QED BY <1>4, <2>1, SubSeqProperties DEF Oldest
<1>6. Oldest = SubSeq(queue, 1, n) BY <1>5 DEF Oldest
<1>7. queue' = SubSeq(queue, n + 1, Len(queue)) BY DEF Take, Remaining
<1>8. CASE Oldest = << >>
  <2>1. chunk' = chunk BY <1>8 DEF Take
  <2>2. queue = << >> BY <1>4, <1>5, <1>8, Bounds
  <2>3. queue' = queue BY <1>7, <1>8, <2>2
  <2> QED BY <1>3, <2>1, <2>3 DEF Queue!vars, Collected
<1>9. CASE Oldest # << >>
  <2>1. n \in 1 .. Len(queue)
    BY <1>4, <1>5, <1>6, <1>9, Bounds
  <2>2. Len(SubSeq(queue, 1, n)) <= CHUNK
    BY <1>4, <1>5, <1>6, Bounds
  <2>3. n = Len(queue) \/ Len(SubSeq(queue, 1, n + 1)) > CHUNK
    <3> SUFFICES ASSUME n # Len(queue) PROVE Len(SubSeq(queue, 1, n + 1)) > CHUNK OBVIOUS
    <3>1. n = CHUNK /\ n + 1 \in 1 .. Len(queue) BY <1>4, <1>5, <2>1, Bounds
    <3>2. Len(SubSeq(queue, 1, n + 1)) = n + 1
      BY <1>4, <3>1, SubSeqProperties
    <3> QED BY <3>1, <3>2, Bounds
  <2>4. Queue!Removed(n)
    BY <1>1, <1>3, <1>7, <2>2, <2>3 DEF Queue!Removed, Collected
  <2>5. chunk' = Oldest \/ chunk' = chunk BY <1>9 DEF Take
  <2> QED BY <1>6, <2>1, <2>4, <2>5 DEF Queue!Take, Queue!Discard
<1> QED BY <1>8, <1>9

\* Delivering or giving up a chunk, or dying with it, hands it on.
LEMMA HandedMapped ==
  ASSUME UNCHANGED <<queue, pc, batch>>, chunk' = << >>
  PROVE  Queue!HandOn \/ UNCHANGED Queue!vars
BY DEF Queue!HandOn, Queue!vars

\* Every step is a step of the record queue or invisible there.
LEMMA NextMapped ==
  ASSUME TypeOK, TypeOK', ChunkInv, [Next]_vars
  PROVE  [Queue!Next]_Queue!vars
<1>1. CASE \E b \in Backends, n \in 0 .. MaxSpans, skipped \in 0 .. 1 : Publish(b, n, skipped)
  BY <1>1, PublishMapped DEF Queue!Next
<1>2. CASE \E b \in Backends : Backend(b)
  BY <1>2, PushMapped, AfterPushMapped DEF Backend, Queue!Next
<1>3. CASE TakeChunk \/ FlushTake
  BY <1>3, TakeMapped DEF TakeChunk, FlushTake, Queue!Next
<1>4. CASE ExportChunk \/ FlushExport \/ FlushCancelled
  <2>1. UNCHANGED <<queue, pc, batch>> /\ chunk' = << >>
    BY <1>4
    DEF ExportChunk, FlushExport, FlushCancelled, Handled, Delivered, GiveUp, Others, backends
  <2> QED BY <2>1, HandedMapped DEF Queue!Next
<1>5. CASE Exit
  <2>1. UNCHANGED <<queue, pc, batch>> /\ chunk' = << >> BY <1>5 DEF Exit, Others, backends
  <2> QED BY <2>1, HandedMapped DEF Queue!Next
<1>6. CASE \/ Start \/ Register \/ Build \/ SkipWait \/ WakeUp \/ IdleTimeout \/ Poll \/ Reload
           \/ Interrupted \/ Report \/ FlushCheck \/ Deadline
  <2>1. UNCHANGED <<queue, chunk, pc, batch>>
    BY <1>6
    DEF Start, Register, Build, SkipWait, WakeUp, IdleTimeout, WaitReturns, Poll, Reload,
        Interrupted, Report, FlushCheck, Deadline, Others, shared, exporting, backends
  <2> QED BY <2>1, Invisible
<1>7. CASE Crash \/ ReloadConfig \/ Terminate \/ UNCHANGED vars
  <2>1. UNCHANGED <<queue, chunk, pc, batch>>
    BY <1>7 DEF Crash, ReloadConfig, Terminate, shared, exporting, backends, vars
  <2> QED BY <2>1, Invisible
<1> QED BY <1>1, <1>2, <1>3, <1>4, <1>5, <1>6, <1>7 DEF Next, Worker

\* Publishing, draining, exporting, shutting down, crashing and starting again do
\* to the queue only what the record queue allows: no statement is queued in part,
\* and nothing that happens to the worker loses a record that is still queued.
THEOREM ExportImplementsSpanQueue == Spec => ImplementsSpanQueue
<1>1. Init => ChunkInv BY DEF Init, ChunkInv
<1>2. Spec => []ChunkInv BY <1>1, ChunkStep, PTL DEF Spec
<1>3. Spec => []TypeOK BY TypeCorrect
<1>4. TypeOK /\ TypeOK' /\ ChunkInv /\ [Next]_vars => [Queue!Next]_Queue!vars BY NextMapped
<1>5. QED BY <1>2, <1>3, <1>4, InitMapped, PTL DEF Spec, ImplementsSpanQueue, Queue!Spec
=============================================================================
