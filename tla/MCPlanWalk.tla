----------------------------- MODULE MCPlanWalk -----------------------------
(* All plans of a few nodes.                                               *)
EXTENDS PlanExplain, FiniteSetsExt

CONSTANTS
  Size,         \* number of nodes
  MaxShared,    \* second references to sub-plans
  MaxBare       \* nodes for which no span can be made

MCNode == 1 .. Size

\* Every node but the first hangs off a lower one, as initPlan, subPlan or other
\* child; every list of other children holds a null pointer.
Shapes ==
  {s \in [above  : {a \in [2 .. Size -> MCNode] : \A m \in 2 .. Size : a[m] < m},
          kind   : [2 .. Size -> {"init", "kid", "sub"}],
          shared : UNION {kSubset(k, {r \in MCNode \X MCNode : r[1] < r[2]}) :
                            k \in 0 .. MaxShared}] :
     \A r \in s.shared : s.kind[r[2]] = "sub" /\ s.above[r[2]] # r[1]}

Listed(s, kind, n) == {m \in 2 .. Size : s.above[m] = n /\ s.kind[m] = kind}

Sorted(S) == SetToSortSeq(S, <)

\* Measurements: of a node that was running when it was looked at and one that was not,
\* not instrumented, interrupted, with little and with much time.
Instrument(present, running, started, counter, total, loops) ==
  [present |-> present, running |-> running, started |-> started, counter |-> counter,
   total |-> total, loops |-> loops]

Idle(total) == Instrument(TRUE, FALSE, FALSE, 0, total, 1)

Measurements ==
  {Instrument(FALSE, FALSE, FALSE, 0, 0, 0), Instrument(TRUE, FALSE, FALSE, 0, 0, 0),
   Instrument(TRUE, TRUE, TRUE, 2, 3, 1), Instrument(TRUE, TRUE, FALSE, 6, 9, 1), Idle(29)}

\* No scaling, faster and slower clocks; version 18.
Clocks == [server : {19}, scale : {0, 3, 7}] \cup [server : {18}, scale : {0}]

Plan(s, bare) ==
  [init |-> [n \in MCNode |-> Sorted(Listed(s, "init", n))],
   kids |-> [n \in MCNode |-> <<Null>> \o Sorted(Listed(s, "kid", n))],
   subs |-> [n \in MCNode |-> Sorted(Listed(s, "sub", n) \cup
                                      {m \in MCNode : <<n, m>> \in s.shared})],
   bare |-> bare, clock |-> [server |-> 19, scale |-> 0], total |-> 9,
   instrument |-> [n \in MCNode |-> Idle(9)]]

Bare == UNION {kSubset(k, MCNode) : k \in 0 .. MaxBare}

\* The last node as a second child of the first.
TimedShapes ==
  {s \in Shapes : /\ s.shared = {} /\ \A m \in 2 .. Size : s.kind[m] = "kid"
                  /\ s.above[Size] = 1 /\ \A m \in 2 .. Size - 1 : s.above[m] = m - 1}

TimedPlans ==
  {[Plan(s, bare) EXCEPT !.clock = clock, !.total = total,
                         !.instrument = [n \in MCNode |-> IF n < Size THEN i[n] ELSE Idle(5)]] :
     s \in TimedShapes, bare \in Bare \cap {{}, {2}}, clock \in Clocks, total \in {8, 31},
     i \in [1 .. Size - 1 -> Measurements]}

MCPlans == {Plan(s, bare) : s \in Shapes, bare \in Bare} \cup TimedPlans
=============================================================================
