----------------------------- MODULE PlanExplain -----------------------------
(***************************************************************************)
(* The order in which EXPLAIN prints the nodes of a plan (ExplainNode and  *)
(* ExplainSubPlans of PostgreSQL, which is not part of this repository),   *)
(* to compare the walk of src/postgres.rs with.                            *)
(***************************************************************************)
EXTENDS PlanWalk

RECURSIVE ExplainNode(_, _), ExplainSubPlans(_, _), ExplainChildren(_, _)

Shown(list) == SelectSeq(list, LAMBDA n : n # Null)

\* What was printed so far is [order, printed].
ExplainNode(n, so_far) ==
  LET here  == [so_far EXCEPT !.order = Append(@, n)]
      inits == ExplainSubPlans(plan.init[n], here)
      kids  == ExplainChildren(Shown(plan.kids[n]), inits)
  IN ExplainSubPlans(plan.subs[n], kids)

\* A sub-plan is printed where the first reference to it is reached.
ExplainSubPlans(list, so_far) ==
  IF list = << >> THEN so_far
  ELSE ExplainSubPlans(Tail(list),
         IF Head(list) \in so_far.printed THEN so_far
         ELSE ExplainNode(Head(list), [so_far EXCEPT !.printed = @ \cup {Head(list)}]))

ExplainChildren(list, so_far) ==
  IF list = << >> THEN so_far
  ELSE ExplainChildren(Tail(list), ExplainNode(Head(list), so_far))

Explained == ExplainNode(Root, [order |-> << >>, printed |-> {}]).order

\* "Like EXPLAIN walks it", "in the order and with the relationships EXPLAIN
\* shows them": the nodes are reported in the order in which EXPLAIN prints them.
ExplainOrder == Finished => visited = Explained

\* The nodes below n.
Under(n) ==
  LET closed(S) == successors(n) \subseteq S /\ \A m \in S : successors(m) \subseteq S
  IN {d \in Node : \A S \in SUBSET Node : closed(S) => d \in S}

\* Some node refers to a sub-plan that a node below it refers to as well.
NestedReference ==
  \E n \in Node : \E below \in Under(n) :
    ToSet(plan.init[n] \o plan.subs[n]) \cap ToSet(plan.init[below] \o plan.subs[below]) # {}

\* The walk reports the nodes in EXPLAIN's order, and so each sub-plan below the
\* node EXPLAIN shows it below, unless references to one sub-plan are nested.
ExplainOrderUnlessNested == NestedReference \/ ExplainOrder
=============================================================================
