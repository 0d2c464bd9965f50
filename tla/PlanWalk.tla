------------------------------ MODULE PlanWalk ------------------------------
(***************************************************************************)
(* The spans of one statement's plan: walk_plan of src/span.rs as          *)
(* collect_plan_spans of src/postgres.rs calls it, with the children that  *)
(* plan_state_children reports and the spans that from_plan makes.         *)
(*                                                                         *)
(* A sub-plan is identified by its top node (one plan_id, one plan state). *)
(* initPlan and subPlan lists refer to sub-plans and several lists may     *)
(* refer to one; `kids` are the children between them, in order (outer,    *)
(* inner, members, subquery, custom), some of which may be null pointers.  *)
(* Times count from the start of the statement, where every span starts.   *)
(***************************************************************************)
EXTENDS Instrument, FiniteSets, SequencesExt

CONSTANTS
  Node,          \* nodes plans are made of
  Root,          \* the top node
  Null,          \* a null pointer
  Query,         \* the span of the statement itself
  Plans,         \* plans considered
  Limits         \* values of pg_otel.max_plan_spans considered

ASSUME PlanAssumption ==
  /\ Root \in Node /\ Query \notin Node /\ Null \notin Node
  /\ Limits \subseteq Nat
  /\ \A p \in Plans : /\ p.init \in [Node -> Seq(Node)]
                      /\ p.kids \in [Node -> Seq(Node \cup {Null})]
                      /\ p.subs \in [Node -> Seq(Node)]
                      /\ p.bare \subseteq Node /\ IsFiniteSet(p.bare)
                      /\ p.clock \in Clock
                      /\ p.total \in Int
                      /\ p.instrument \in [Node -> Instrumentation]

\* The sub-plans of a plan: what the initPlan and subPlan lists of its nodes refer to.
SubPlans(p) == UNION {ToSet(p.init[n]) \cup ToSet(p.subs[n]) : n \in Node}

\* Plans are trees, as PostgreSQL builds them: a node is the child of one node at most and in
\* one place, a sub-plan is nobody's child but may be referred to any number of times, and
\* nothing refers to the top node.
ASSUME TreeAssumption ==
  \A p \in Plans :
    /\ Root \notin SubPlans(p)
    /\ \A m \in Node : ToSet(p.kids[m]) \cap (SubPlans(p) \cup {Root}) = {}
    /\ \A m, n \in Node : \A i \in DOMAIN p.kids[m], j \in DOMAIN p.kids[n] :
         p.kids[m][i] = p.kids[n][j] /\ p.kids[m][i] # Null => m = n /\ i = j

VARIABLES
  plan,        \* the plan; from_plan makes no span for its bare nodes
  max_spans,
  instrument,  \* the nodes' instrumentation
  stack,       \* nodes to visit, each with the link its span's parent will be
  node,        \* the node whose children are looked for, or Null
  link,        \* ... and the link they will have
  children,    \* ... those found so far
  at,          \* ... and the next reference to look at
  printed,     \* printed_subplans
  spans,       \* spans made so far
  omitted,     \* WalkSummary::omitted
  visited,     \* history: the nodes taken from the stack, in order
  hangs        \* history: hangs[n]: the node whose child n was pushed as

finding == <<node, link, children, at>>
vars == <<plan, max_spans, instrument, stack, finding, printed, spans, omitted, visited, hangs>>

\* WalkSummary::emitted
emitted == Len(spans)

----------------------------------------------------------------------------
(* plan_state_children *)

Refs(list, is_subplan) == [j \in 1 .. Len(list) |-> [node |-> list[j], subplan |-> is_subplan]]

\* Mutant: sub-plans before the other children.
subs_first(n) ==
  Refs(plan.init[n], TRUE) \o Refs(plan.subs[n], TRUE) \o Refs(plan.kids[n], FALSE)

\* The pointers to children of a node, in the order in which they are followed.
plan_state_children(n) ==
  Refs(plan.init[n], TRUE) \o Refs(plan.kids[n], FALSE) \o Refs(plan.subs[n], TRUE)

\* Mutant: sub-plans that were reported already are not skipped.
every(n) == TRUE

\* push_subplans: a sub-plan is reported once.
unprinted(n) == n \notin printed

\* push_child
push_child(n) == n # Null

----------------------------------------------------------------------------
(* from_plan *)

\* Mutant: the end is that of the statement at the latest.
query_capped(end, parent) ==
  IF end > to_ns(plan.clock, plan.total) THEN to_ns(plan.clock, plan.total) ELSE end

\* `min(parent.end_time)`
capped(end, parent) == IF end > parent.end THEN parent.end ELSE end

from_plan(n, parent) ==
  LET timings == node_instrument(plan.clock, instrument[n])
  IN  [node |-> n, parent |-> parent, end |-> capped(timings.total_ns, parent),
       total_ns |-> timings.total_ns,
       never_executed |-> timings.complete /\ timings.loops = 0,
       incomplete |-> ~timings.complete]

----------------------------------------------------------------------------
Init ==
  /\ plan \in Plans
  /\ max_spans \in Limits
  /\ instrument = plan.instrument
  /\ \E query \in {[node |-> Query, end |-> to_ns(plan.clock, plan.total)]} :
       stack = <<[node |-> Root, parent |-> query]>> /\ link = query
  /\ node = Null /\ children = << >> /\ at = 1
  /\ printed = {}
  /\ spans = << >>
  /\ omitted = 0
  /\ visited = << >>
  /\ hangs = [n \in {Root} |-> Null]

\* Mutant: one span too many.
BelowOrAt == emitted <= max_spans

Below == emitted < max_spans

\* Mutant: the children of a node without a span hang off the statement.
or_query(parent) == [node |-> Query, end |-> to_ns(plan.clock, plan.total)]

\* `link.or(parent)` of a node without a span.
or(parent) == parent

\* The loop of walk_plan: the node on top of the stack is taken and visited.
Visit ==
  /\ node = Null /\ stack # << >>
  /\ LET n      == Last(stack).node
         parent == Last(stack).parent
         span   == from_plan(n, parent)
     IN  /\ node' = n
         /\ IF Below /\ n \notin plan.bare
            THEN /\ spans' = Append(spans, span)
                 /\ link' = [node |-> n, end |-> span.end]
                 /\ instrument' = [instrument EXCEPT ![n] = folded(@)]
            ELSE /\ link' = or(parent)
                 /\ UNCHANGED <<spans, instrument>>
         /\ visited' = Append(visited, n)
  /\ omitted' = IF Below THEN omitted ELSE omitted + 1
  /\ stack' = Front(stack)
  /\ children' = << >> /\ at' = 1
  /\ UNCHANGED <<plan, max_spans, printed, hangs>>

\* Its next reference is a child, or it is passed over.
Refer ==
  /\ node # Null /\ at <= Len(plan_state_children(node))
  /\ LET ref   == plan_state_children(node)[at]
         child == IF ref.subplan THEN unprinted(ref.node) ELSE push_child(ref.node)
     IN  /\ children' = IF child THEN Append(children, ref.node) ELSE children
         /\ printed' = IF ref.subplan THEN printed \cup {ref.node} ELSE printed
         /\ hangs' = IF child
                     THEN [n \in DOMAIN hangs \cup {ref.node} |->
                             IF n = ref.node THEN node ELSE hangs[n]]
                     ELSE hangs
  /\ at' = at + 1
  /\ UNCHANGED <<plan, max_spans, instrument, stack, node, link, spans, omitted, visited>>

\* The children replace it on the stack, the first on top.
Descend ==
  /\ node # Null /\ at > Len(plan_state_children(node))
  /\ stack' = stack \o Reverse([j \in 1 .. Len(children) |->
                                  [node |-> children[j], parent |-> link]])
  /\ node' = Null
  /\ UNCHANGED <<plan, max_spans, instrument, link, children, at, printed, spans, omitted,
                 visited, hangs>>

Done == node = Null /\ stack = << >> /\ UNCHANGED vars

Next == Visit \/ Refer \/ Descend \/ Done

Spec == Init /\ [][Next]_vars

----------------------------------------------------------------------------
(* Properties *)

Link == [node : Node \cup {Query}, end : Int]

\* Nodes, links and pointers are what they are meant to be.
TypeOK ==
  /\ stack \in Seq([node : Node, parent : Link])
  /\ node \in Node \cup {Null} /\ link \in Link /\ children \in Seq(Node) /\ at \in Nat \ {0}
  /\ spans \in Seq([node : Node, parent : Link, end : Int, total_ns : Int,
                    never_executed : BOOLEAN, incomplete : BOOLEAN])
  /\ printed \subseteq Node
  /\ omitted \in Nat
  /\ visited \in Seq(Node)
  /\ DOMAIN hangs \subseteq Node

Finished == node = Null /\ stack = << >>

HasSpan == {spans[j].node : j \in 1 .. Len(spans)}

\* The nearest ancestor that has a span.
Ancestor ==
  [n \in DOMAIN hangs |->
     LET up[m \in DOMAIN hangs] == IF hangs[m] = Null THEN Query
                                   ELSE IF hangs[m] \in HasSpan THEN hangs[m]
                                   ELSE up[hangs[m]]
     IN up[n]]

\* "A truncated tree always keeps a connected top part": the parent of a span is
\* the nearest ancestor of its node that has a span.
Connected == \A j \in 1 .. Len(spans) : spans[j].parent.node = Ancestor[spans[j].node]

\* What a span offers its children as their parent.
Offered(span) == [node |-> span.node, end |-> span.end]

QueryLink == [node |-> Query, end |-> to_ns(plan.clock, plan.total)]

\* Every span was offered its parent's link by the statement or by a span made before
\* it, and ends within it: no span reaches beyond its parent, whatever its node measured.
SpansNest ==
  \A j \in 1 .. Len(spans) :
    /\ spans[j].parent = QueryLink \/ \E k \in 1 .. j - 1 : spans[j].parent = Offered(spans[k])
    /\ spans[j].end <= spans[j].parent.end /\ spans[j].end <= spans[j].total_ns
    /\ spans[j].end \in {spans[j].parent.end, spans[j].total_ns}

successors(n) == ToSet(plan.init[n] \o plan.kids[n] \o plan.subs[n]) \ {Null}

\* The nodes that belong to the plan.
InPlan ==
  LET closed(S) == Root \in S /\ \A n \in S : successors(n) \subseteq S
  IN {n \in Node : \A S \in SUBSET Node : closed(S) => n \in S}

\* However often a sub-plan is referred to, no node is reported twice and none is
\* forgotten.
EachNodeOnce ==
  /\ IsInjective(visited \o [j \in 1 .. Len(stack) |-> stack[j].node] \o
                 (IF node = Null THEN << >> ELSE children))
  /\ Finished => ToSet(visited) = InPlan

\* The counts add up: what the query span reports as omitted is the number of
\* nodes left out because of the limit, and there are none before it is reached.
Summary ==
  /\ emitted <= max_spans
  /\ omitted > 0 => emitted = max_spans
  /\ emitted + omitted <= Len(visited)
  /\ emitted + omitted >= Len(visited) - Cardinality(plan.bare)
  /\ plan.bare = {} => emitted + omitted = Len(visited)

\* All the time a node's instrumentation holds, whether another hook has folded the
\* last cycle already or not.
Accumulated(i) == i.total + (IF i.running THEN i.counter ELSE 0)

\* "Large tick counts are scaled in two parts so the multiplication cannot overflow";
\* "a node that never ran, or whose instrumentation is unusable, still gets a span with
\* zero timings and a flag saying why": every other span has all of its node's time, to
\* the nanosecond.
TimesExact ==
  \A j \in 1 .. Len(spans) :
    LET span == spans[j]
        i    == plan.instrument[span.node]
    IN  /\ span.incomplete <=> ~i.present \/ (i.running /\ i.started)
        /\ IF span.incomplete THEN span.total_ns = 0 /\ ~span.never_executed
           ELSE /\ Exactly(plan.clock, Accumulated(i), span.total_ns)
                /\ span.never_executed <=> ~i.running /\ i.loops = 0
=============================================================================
