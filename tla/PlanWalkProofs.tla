---------------------------- MODULE PlanWalkProofs ----------------------------
(***************************************************************************)
(* Proofs about PlanWalk, for every set of plans of any size: spans lie    *)
(* within their parents and have the times their nodes measured; no node   *)
(* is reported twice and none is forgotten; the counts of spans and of     *)
(* omitted nodes add up; a truncated tree keeps a connected top part.      *)
(***************************************************************************)
EXTENDS PlanWalk, SequenceTheorems, FiniteSetTheorems, TLAPS

----------------------------------------------------------------------------
(* The conversion of times and the folding of a node's last cycle, for      *)
(* integers of any width and clocks of any scale.                           *)

\* A clock whose scale is an i64 and small enough for what is left of a large count
\* after division: "ticks_per_ns_scaled" is below 2^31 and that rest below 2^14.
Fits64(clock) ==
  clock.scale <= MAX_I64 /\ (TICKS_PER_SCALE - 1) * clock.scale <= MAX_I64

----------------------------------------------------------------------------
(* Arithmetic *)

\* Division rounds down.
LEMMA Quotient ==
  ASSUME NEW a \in Int, NEW n \in Nat, n > 0
  PROVE  a \div n \in Int /\ (a \div n) * n <= a /\ a < (a \div n) * n + n
<1>1. a \div n \in Int /\ a % n \in 0 .. n - 1 /\ a = n * (a \div n) + (a % n) OBVIOUS
<1>2. (a \div n) * n = n * (a \div n) BY <1>1
<1> QED BY <1>1, <1>2

\* The order of numbers is kept when they are multiplied.
LEMMA Product ==
  ASSUME NEW a \in Int, NEW b \in Int, NEW n \in Nat, a <= b
  PROVE  a * n <= b * n /\ a * n \in Int /\ b * n \in Int
<1>1. (b - a) * n = b * n - a * n OBVIOUS
<1>2. (b - a) * n >= 0 OBVIOUS
<1> QED BY <1>1, <1>2

\* A number that is as close to a quotient as a whole number can be is the quotient.
LEMMA QuotientUnique ==
  ASSUME NEW a \in Int, NEW n \in Nat, n > 0, NEW q \in Int, q * n <= a, a < q * n + n
  PROVE  a \div n = q
<1> DEFINE p == a \div n
<1>1. p \in Int /\ p * n <= a /\ a < p * n + n BY Quotient
<1> HIDE DEF p
<1>2. CASE p < q
  <2>1. (p + 1) * n <= q * n BY <1>1, <1>2, Product
  <2>2. (p + 1) * n = p * n + n BY <1>1
  <2>3. p * n \in Int /\ q * n \in Int BY <1>1
  <2> QED BY <1>1, <2>1, <2>2, <2>3
<1>3. CASE q < p
  <2>1. (q + 1) * n <= p * n BY <1>1, <1>3, Product
  <2>2. (q + 1) * n = q * n + n BY <1>1
  <2>3. p * n \in Int /\ q * n \in Int BY <1>1
  <2> QED BY <1>1, <2>1, <2>2, <2>3
<1>4. p = q BY <1>1, <1>2, <1>3
<1> QED BY <1>4 DEF p

\* Saturation keeps the sign, lowers what is not negative and changes what fits not at all.
LEMMA Saturation ==
  ASSUME NEW n \in Int
  PROVE  /\ saturated(n) \in Int /\ saturated(n) <= MAX_I64
         /\ n <= 0 => saturated(n) <= 0
         /\ n >= 0 => saturated(n) >= 0 /\ saturated(n) <= n
         /\ n >= 0 /\ n <= MAX_I64 => saturated(n) = n
         /\ n >= MAX_I64 => saturated(n) = MAX_I64
  BY InstrumentAssumption DEF InstrumentAssumption, saturated

\* What counts of ticks up to the limit become: the limit is MAX_I64 divided by the scale.
LEMMA Limit ==
  ASSUME NEW scale \in Nat, scale > 0, NEW time \in Nat
  PROVE  /\ max_ticks_no_overflow(scale) \in Int /\ max_ticks_no_overflow(scale) >= 0
         /\ time <= max_ticks_no_overflow(scale) => time * scale <= MAX_I64
<1> DEFINE max == MAX_I64 \div scale
<1>1. MAX_I64 \in Nat BY InstrumentAssumption DEF InstrumentAssumption
<1>2. max \in Int /\ max * scale <= MAX_I64 /\ MAX_I64 < max * scale + scale
  BY <1>1, Quotient
<1>3. max_ticks_no_overflow(scale) = max BY DEF max_ticks_no_overflow
<1> HIDE DEF max
<1>4. max >= 0
  <2> SUFFICES ASSUME max <= -1 PROVE FALSE BY <1>2
  <2>1. max * scale <= (-1) * scale BY <1>2, Product
  <2> QED BY <1>1, <1>2, <2>1
<1>5. time <= max => time * scale <= max * scale BY <1>2, Product
<1>6. time * scale \in Int /\ max * scale \in Int BY <1>2
<1> QED BY <1>1, <1>2, <1>3, <1>4, <1>5, <1>6

----------------------------------------------------------------------------
(* Times *)

\* ticks_to_ns of a count that is not negative.  Where the count is large, the part of
\* it that is divided first and the rest add up to the whole.
LEMMA TicksExact ==
  ASSUME NEW clock \in Clock, Fits64(clock), clock.scale > 0, NEW time \in Nat,
         NEW ns, ns = ticks_to_ns(time, clock.scale, max_ticks_no_overflow(clock.scale))
  PROVE  /\ ns \in Nat
         /\ ns * TICKS_PER_SCALE <= time * clock.scale
         /\ time * clock.scale < (ns + 1) * TICKS_PER_SCALE \/ ns = MAX_I64
<1> DEFINE T     == TICKS_PER_SCALE
           scale == clock.scale
           count == divided_first(time, max_ticks_no_overflow(scale))
           rest  == time - count * T
           q     == (rest * scale) \div T
           whole == count * scale
<1>1. T \in Nat /\ T > 0 /\ MAX_I64 \in Nat BY InstrumentAssumption DEF InstrumentAssumption
<1>2. scale \in Nat /\ scale > 0 /\ scale <= MAX_I64 /\ (T - 1) * scale <= MAX_I64
  BY DEF Clock, Fits64
<1> DEFINE quotient == time \div T
<1>3. quotient \in Int /\ quotient * T <= time /\ time < quotient * T + T BY <1>1, Quotient
<1>4. quotient >= 0
  <2> HIDE DEF quotient, T
  <2> SUFFICES ASSUME quotient <= -1 PROVE FALSE BY <1>3
  <2>1. quotient * T <= (-1) * T BY <1>1, <1>3, Product
  <2> QED BY <1>1, <1>3, <2>1
<1>5. count \in Nat /\ rest \in Nat /\ rest * scale \in Nat /\ rest * scale <= MAX_I64
  <2>1. CASE time <= max_ticks_no_overflow(scale)
    <3>1. max_ticks_no_overflow(scale) \in Int BY <1>2, Limit
    <3>2. count = 0 BY <2>1, <3>1 DEF divided_first
    <3> HIDE DEF count, T, scale
    <3>3. rest = time BY <1>1, <3>2
    <3>4. rest * scale <= MAX_I64 BY <1>2, <2>1, <3>3, Limit
    <3>5. rest * scale \in Nat BY <1>2, <3>3
    <3> QED BY <3>2, <3>3, <3>4, <3>5
  <2>2. CASE time > max_ticks_no_overflow(scale)
    <3>1. count = quotient BY <2>2 DEF divided_first
    <3> HIDE DEF count, T, scale, quotient
    <3>2. rest \in 0 .. T - 1 BY <1>1, <1>3, <1>4, <3>1
    <3>3. rest * scale <= (T - 1) * scale BY <1>1, <1>2, <3>2, Product
    <3>4. rest * scale \in Nat /\ (T - 1) * scale \in Int BY <1>1, <1>2, <3>2
    <3> QED BY <1>1, <1>2, <1>3, <1>4, <3>1, <3>2, <3>3, <3>4
  <2> QED BY <1>2, <2>1, <2>2, Limit
<1>6. ns = saturated(saturated(whole) + saturated(rest * scale) \div T)
  BY <1>2 , Saturation DEF ticks_to_ns, Clock
<1>7. saturated(rest * scale) = rest * scale
  <2> HIDE DEF rest, scale
  <2> QED BY <1>5, Saturation
<1>8. ns = saturated(saturated(whole) + q) BY <1>6, <1>7
<1>9. time * scale = whole * T + rest * scale
  <2>1. time = count * T + rest BY <1>1, <1>5
  <2> HIDE DEF count, rest, T, scale
  <2>2. (count * T + rest) * scale = (count * scale) * T + rest * scale BY <1>1, <1>2, <1>5
  <2> QED BY <2>1, <2>2
<1>10. q \in Int /\ q * T <= rest * scale /\ rest * scale < q * T + T
  <2> HIDE DEF rest, scale, T
  <2> QED BY <1>1, <1>5, Quotient
<1>11. q >= 0
  <2> HIDE DEF rest, scale, T, q
  <2> SUFFICES ASSUME q <= -1 PROVE FALSE BY <1>10
  <2>1. q * T <= (-1) * T BY <1>1, <1>10, Product
  <2> QED BY <1>1, <1>5, <1>10, <2>1
<1>12. whole \in Nat BY <1>2, <1>5
<1> HIDE DEF T, scale, count, rest, q, whole
<1>13. CASE whole + q <= MAX_I64
  <2>1. saturated(whole) = whole BY <1>1, <1>10, <1>11, <1>12, <1>13, Saturation
  <2>2. ns = whole + q BY <1>8, <1>10, <1>11, <1>12, <1>13, <2>1, Saturation
  <2>3. ns * T = whole * T + q * T BY <1>1, <1>10, <1>12, <2>2
  <2>4. (ns + 1) * T = whole * T + q * T + T BY <1>1, <1>10, <1>12, <2>2
  <2>5. whole * T \in Int /\ q * T \in Int BY <1>1, <1>10, <1>12
  <2>6. ns * T <= time * scale /\ time * scale < (ns + 1) * T
    BY <1>1, <1>5, <1>9, <1>10, <2>3, <2>4, <2>5
  <2> QED BY <1>10, <1>11, <1>12, <2>2, <2>6 DEF T, scale
<1>14. CASE whole + q > MAX_I64
  <2>1. saturated(whole) + q >= MAX_I64 /\ saturated(whole) + q \in Int
    <3>1. CASE whole <= MAX_I64 BY <1>1, <1>10, <1>12, <1>14, <3>1, Saturation
    <3>2. CASE whole > MAX_I64
      <4>1. saturated(whole) = MAX_I64 BY <1>1, <1>12, <3>2, Saturation
      <4> QED BY <1>1, <1>10, <1>11, <4>1
    <3> QED BY <1>1, <1>12, <3>1, <3>2
  <2>2. ns = MAX_I64 BY <1>8, <2>1, Saturation
  <2>3. ns * T <= (whole + q) * T BY <1>1, <1>10, <1>12, <1>14, <2>2, Product
  <2>4. (whole + q) * T = whole * T + q * T BY <1>1, <1>10, <1>12
  <2>5. whole * T \in Int /\ q * T \in Int /\ ns * T \in Int BY <1>1, <1>10, <1>12, <2>2
  <2>6. ns * T <= time * scale BY <1>5, <1>9, <1>10, <2>3, <2>4, <2>5
  <2> QED BY <1>1, <2>2, <2>6 DEF T, scale
<1> QED BY <1>1, <1>10, <1>12, <1>13, <1>14

\* A count that is negative or zero becomes no time at all.
LEMMA NoTicks ==
  ASSUME NEW clock \in Clock, NEW time \in Int, time <= 0,
         NEW ns, ns = ticks_to_ns(time, clock.scale, max_ticks_no_overflow(clock.scale))
  PROVE  ns \in Int /\ ns <= 0
<1> DEFINE T     == TICKS_PER_SCALE
           scale == clock.scale
<1>1. T \in Nat /\ T > 0 /\ MAX_I64 \in Nat BY InstrumentAssumption DEF InstrumentAssumption
<1>2. scale \in Nat BY DEF Clock
<1>3. CASE scale = 0 BY <1>3 DEF ticks_to_ns
<1>4. CASE scale > 0
  <2> DEFINE factor  == saturated(scale)
             product == saturated(time * factor)
             q       == product \div T
  <2>1. divided_first(time, max_ticks_no_overflow(scale)) = 0
    BY <1>2, <1>4, Limit DEF divided_first
  <2>2. ns = saturated(saturated(0 * factor) + saturated((time - 0 * T) * factor) \div T)
    BY <1>4, <2>1 DEF ticks_to_ns
  <2>3. factor \in Int /\ factor >= 0 BY <1>2, Saturation
  <2> HIDE DEF factor, T
  <2>4. 0 * factor = 0 /\ (time - 0 * T) * factor = time * factor BY <1>1, <2>3
  <2>5. saturated(0) = 0 BY <1>1, Saturation
  <2>6. time * factor \in Int /\ time * factor <= 0
    <3>1. time * factor <= 0 * factor BY <2>3, Product
    <3> QED BY <2>3, <2>4, <3>1
  <2>7. product \in Int /\ product <= 0 BY <2>6, Saturation
  <2> HIDE DEF product
  <2>8. q \in Int /\ q * T <= product BY <1>1, <2>7, Quotient
  <2> HIDE DEF q
  <2>9. q <= 0
    <3> SUFFICES ASSUME q >= 1 PROVE FALSE BY <2>8
    <3>1. 1 * T <= q * T BY <1>1, <2>8, Product
    <3> QED BY <1>1, <2>7, <2>8, <3>1
  <2>10. ns = saturated(0 + q) BY <2>2, <2>4, <2>5 DEF q, product
  <2>11. ns = saturated(q) BY <2>8, <2>10
  <2> QED BY <2>8, <2>9, <2>11, Saturation
<1> QED BY <1>2, <1>3, <1>4

\* Seconds are rounded to the nearest nanosecond.
LEMMA SecondsExact ==
  ASSUME NEW time \in Int, NEW ns, ns = seconds_to_ns(time)
  PROVE  /\ ns \in Nat
         /\ time <= 0 => ns = 0
         /\ time > 0 => 10 * ns - 5 <= time /\ (time < 10 * ns + 5 \/ ns = MAX_I64)
<1>1. MAX_I64 \in Nat BY InstrumentAssumption DEF InstrumentAssumption
<1>2. CASE time <= 0 BY <1>2 DEF seconds_to_ns
<1>3. CASE time > 0
  <2> DEFINE q == (time + 5) \div 10
  <2>1. q \in Int /\ q * 10 <= time + 5 /\ time + 5 < q * 10 + 10 BY Quotient
  <2>2. ns = saturated(q) BY <1>3 DEF seconds_to_ns
  <2> HIDE DEF q
  <2>3. q >= 0 BY <1>3, <2>1
  <2>4. ns \in Int /\ ns >= 0 /\ ns <= q /\ (ns = q \/ ns = MAX_I64)
    BY <1>1, <2>1, <2>2, <2>3, Saturation
  <2> QED BY <1>3, <2>1, <2>4
<1> QED BY <1>2, <1>3

\* A time of either clock becomes the nanoseconds that are in it.
LEMMA ToNsExact ==
  ASSUME NEW clock \in Clock, Fits64(clock), NEW time \in Int
  PROVE  to_ns(clock, time) \in Nat /\ Exactly(clock, time, to_ns(clock, time))
<1> DEFINE ns == ticks_to_ns(time, clock.scale, max_ticks_no_overflow(clock.scale))
<1>1. clock.scale \in Nat /\ clock.server \in {18, 19} BY DEF Clock
<1>2. CASE clock.server = 18 BY <1>2, SecondsExact DEF to_ns, Exactly
<1>3. CASE clock.server # 18
  <2>1. to_ns(clock, time) = IF ns < 0 THEN 0 ELSE ns BY <1>3 DEF to_ns
  <2>2. CASE time <= 0 BY <2>1, <2>2, NoTicks DEF Exactly
  <2>3. CASE time > 0 /\ clock.scale = 0 BY <1>3, <2>1, <2>3 DEF ticks_to_ns, Exactly
  <2>4. CASE time > 0 /\ clock.scale > 0
    <3>1. time \in Nat BY <2>4
    <3>2. /\ ns \in Nat
          /\ ns * TICKS_PER_SCALE <= time * clock.scale
          /\ time * clock.scale < (ns + 1) * TICKS_PER_SCALE \/ ns = MAX_I64
      BY <2>4, <3>1, TicksExact
    <3> HIDE DEF ns
    <3> QED BY <1>3, <2>1, <2>4, <3>2 DEF Exactly
  <2> QED BY <1>1, <2>2, <2>3, <2>4
<1> QED BY <1>2, <1>3

----------------------------------------------------------------------------
(* Measurements *)

\* All the time and all the loops a node's instrumentation holds, whether another hook
\* has folded the last cycle already or not.
LEMMA FoldedOnce ==
  ASSUME NEW i \in Instrumentation
  PROVE  /\ folded(i) \in Instrumentation
         /\ usable(folded(i)) <=> usable(i)
         /\ folded(folded(i)) = folded(i)
         /\ \A clock \in Clock : node_instrument(clock, folded(i)) = node_instrument(clock, i)
<1>1. CASE ~usable(i) BY <1>1 DEF folded
<1>2. CASE usable(i)
  <2>1. InstrEndLoop(i) \in Instrumentation /\ ~InstrEndLoop(i).running
    <3>1. CASE ~i.running BY <3>1 DEF InstrEndLoop
    <3>2. CASE i.running
      <4>1. InstrEndLoop(i) = [i EXCEPT !.running = FALSE, !.counter = 0,
                                        !.total = @ + i.counter, !.loops = @ + 1]
        BY <3>2 DEF InstrEndLoop
      <4>2. i.total + i.counter \in Int /\ i.loops + 1 \in Nat BY DEF Instrumentation
      <4>3. InstrEndLoop(i) = [present |-> i.present, running |-> FALSE, started |-> i.started,
                               counter |-> 0, total |-> i.total + i.counter,
                               loops |-> i.loops + 1]
        BY <4>1 DEF Instrumentation
      <4>4. i.present \in BOOLEAN /\ i.started \in BOOLEAN BY DEF Instrumentation
      <4> QED BY <4>2, <4>3, <4>4 DEF Instrumentation
    <3> QED BY <3>1, <3>2
  <2>2. InstrEndLoop(i).present = i.present
    BY DEF InstrEndLoop, Instrumentation
  <2>3. folded(i) = InstrEndLoop(i) BY <1>2 DEF folded
  <2>4. usable(InstrEndLoop(i)) BY <1>2, <2>1, <2>2 DEF usable, is_mid_timer
  <2>5. InstrEndLoop(InstrEndLoop(i)) = InstrEndLoop(i) BY <2>1 DEF InstrEndLoop
  <2> QED BY <1>2, <2>1, <2>3, <2>4, <2>5 DEF folded, node_instrument
<1> QED BY <1>1, <1>2

----------------------------------------------------------------------------
(* What the walk knows of the plan. *)

\* What the walk has read, with its types.
TypeInv ==
  /\ TypeOK
  /\ plan \in Plans /\ max_spans \in Nat
  /\ instrument \in [Node -> Instrumentation]

\* Clocks as PostgreSQL calibrates them.
ClocksFit == \A p \in Plans : Fits64(p.clock)

\* What a plan is made of.
LEMMA PlanType ==
  ASSUME plan \in Plans
  PROVE  /\ plan.init \in [Node -> Seq(Node)] /\ plan.subs \in [Node -> Seq(Node)]
         /\ plan.kids \in [Node -> Seq(Node \cup {Null})]
         /\ plan.clock \in Clock /\ plan.total \in Int
         /\ plan.instrument \in [Node -> Instrumentation]
  BY PlanAssumption DEF PlanAssumption

\* Times in nanoseconds are natural numbers.
LEMMA ToNsType == ASSUME NEW clock \in Clock, NEW time \in Int PROVE to_ns(clock, time) \in Int
<1>1. clock.scale \in Nat BY DEF Clock
<1>2. seconds_to_ns(time) \in Int BY SecondsExact
<1>3. ASSUME clock.server # 18
      PROVE  to_ns(clock, time) \in Int
  <2> DEFINE ns == ticks_to_ns(time, clock.scale, max_ticks_no_overflow(clock.scale))
  <2>1. ns \in Int
    <3>1. CASE clock.scale = 0 BY <3>1 DEF ticks_to_ns
    <3>2. CASE clock.scale # 0
      <4> DEFINE max   == max_ticks_no_overflow(clock.scale)
                 count == divided_first(time, max)
                 scale == saturated(clock.scale)
                 rest  == time - count * TICKS_PER_SCALE
      <4>1. TICKS_PER_SCALE \in Nat /\ TICKS_PER_SCALE > 0
        BY InstrumentAssumption DEF InstrumentAssumption
      <4>2. count \in Int BY <4>1, Quotient DEF divided_first
      <4>3. scale \in Int BY <1>1, Saturation
      <4>4. count * scale \in Int /\ rest * scale \in Int BY <4>1, <4>2, <4>3
      <4>5. ns = saturated(saturated(count * scale) +
                           saturated(rest * scale) \div TICKS_PER_SCALE)
        BY <3>2 DEF ticks_to_ns
      <4> HIDE DEF count, scale, rest, ns
      <4>6. saturated(count * scale) \in Int /\ saturated(rest * scale) \in Int
        BY <4>4, Saturation
      <4>7. saturated(rest * scale) \div TICKS_PER_SCALE \in Int BY <4>1, <4>6, Quotient
      <4>8. saturated(count * scale) + saturated(rest * scale) \div TICKS_PER_SCALE \in Int
        BY <4>6, <4>7
      <4> QED BY <4>5, <4>8, Saturation
    <3> QED BY <3>1, <3>2
  <2> HIDE DEF ns
  <2>2. to_ns(clock, time) = IF ns < 0 THEN 0 ELSE ns BY <1>3 DEF to_ns, ns
  <2> QED BY <2>1, <2>2
<1> QED BY <1>2, <1>3 DEF to_ns

\* A span of a node: its end is its parent's or its own, whichever comes first.
LEMMA SpanType ==
  ASSUME TypeInv, NEW n \in Node, NEW parent \in Link
  PROVE  /\ from_plan(n, parent) \in
              [node : Node, parent : Link, end : Int, total_ns : Int,
               never_executed : BOOLEAN, incomplete : BOOLEAN]
         /\ from_plan(n, parent).node = n /\ from_plan(n, parent).parent = parent
         /\ from_plan(n, parent).end <= parent.end
         /\ from_plan(n, parent).end <= from_plan(n, parent).total_ns
         /\ from_plan(n, parent).end \in {parent.end, from_plan(n, parent).total_ns}
<1> DEFINE i       == instrument[n]
           timings == node_instrument(plan.clock, i)
<1>1. i \in Instrumentation /\ plan.clock \in Clock BY PlanType DEF TypeInv
<1> HIDE DEF i
<1>2. timings.total_ns \in Int /\ timings.complete \in BOOLEAN
  <2>1. CASE ~usable(i) BY <2>1 DEF node_instrument
  <2>2. CASE usable(i)
    <3>1. InstrEndLoop(i).total \in Int
      <4>1. folded(i) \in Instrumentation BY <1>1, FoldedOnce
      <4>2. folded(i) = InstrEndLoop(i) BY <2>2 DEF folded
      <4> QED BY <4>1, <4>2 DEF Instrumentation
    <3>2. timings = [complete |-> TRUE,
                     total_ns |-> to_ns(plan.clock, InstrEndLoop(i).total),
                     loops |-> InstrEndLoop(i).loops]
      BY <2>2 DEF node_instrument
    <3> QED BY <1>1, <3>1, <3>2, ToNsType
  <2> QED BY <2>1, <2>2
<1>3. parent.end \in Int BY DEF Link
<1>4. from_plan(n, parent) =
        [node |-> n, parent |-> parent, end |-> capped(timings.total_ns, parent),
         total_ns |-> timings.total_ns,
         never_executed |-> timings.complete /\ timings.loops = 0,
         incomplete |-> ~timings.complete]
  BY DEF from_plan, i
<1> HIDE DEF timings
<1>5. /\ capped(timings.total_ns, parent) \in Int
      /\ capped(timings.total_ns, parent) <= parent.end
      /\ capped(timings.total_ns, parent) <= timings.total_ns
      /\ capped(timings.total_ns, parent) \in {parent.end, timings.total_ns}
  BY <1>2, <1>3 DEF capped
<1> QED BY <1>2, <1>4, <1>5

----------------------------------------------------------------------------
(* Types *)

\* A pointer of a node: that of a sub-plan is not null.
Ref == {r \in [node : Node \cup {Null}, subplan : BOOLEAN] : r.subplan => r.node \in Node}

\* The pointers of a node.
LEMMA RefsType ==
  ASSUME plan \in Plans, NEW n \in Node
  PROVE  plan_state_children(n) \in Seq(Ref)
<1>1. Refs(plan.init[n], TRUE) \in Seq(Ref)
  <2>1. plan.init[n] \in Seq(Node) BY PlanType
  <2> QED BY <2>1 DEF Refs, Ref
<1>2. Refs(plan.kids[n], FALSE) \in Seq(Ref)
  <2>1. plan.kids[n] \in Seq(Node \cup {Null}) BY PlanType
  <2> QED BY <2>1 DEF Refs, Ref
<1>3. Refs(plan.subs[n], TRUE) \in Seq(Ref)
  <2>1. plan.subs[n] \in Seq(Node) BY PlanType
  <2> QED BY <2>1 DEF Refs, Ref
<1>4. Refs(plan.init[n], TRUE) \o Refs(plan.kids[n], FALSE) \in Seq(Ref)
  BY <1>1, <1>2, ConcatProperties
<1> QED BY <1>3, <1>4, ConcatProperties DEF plan_state_children

\* The end of the statement is a time.
LEMMA QueryLinkType == ASSUME plan \in Plans PROVE QueryLink \in Link
  BY PlanType, ToNsType DEF QueryLink, Link

\* The walk begins with these types.
LEMMA InitType == ASSUME Init PROVE TypeInv
<1>1. plan \in Plans /\ max_spans \in Nat BY PlanAssumption DEF Init, PlanAssumption
<1>2. instrument \in [Node -> Instrumentation] BY <1>1, PlanType DEF Init
<1>3. link = QueryLink /\ stack = <<[node |-> Root, parent |-> QueryLink]>>
  BY DEF Init, QueryLink
<1>4. link \in Link BY <1>1, <1>3, QueryLinkType
<1>5. stack \in Seq([node : Node, parent : Link])
  <2>1. Root \in Node BY PlanAssumption DEF PlanAssumption
  <2> QED BY <1>3, <1>4, <2>1
<1>6. /\ node \in Node \cup {Null} /\ children \in Seq(Node) /\ at \in Nat \ {0}
      /\ spans \in Seq([node : Node, parent : Link, end : Int, total_ns : Int,
                        never_executed : BOOLEAN, incomplete : BOOLEAN])
      /\ printed \subseteq Node /\ omitted \in Nat /\ visited \in Seq(Node)
      /\ DOMAIN hangs \subseteq Node
  BY PlanAssumption DEF Init, PlanAssumption
<1> QED BY <1>1, <1>2, <1>4, <1>5, <1>6 DEF TypeInv, TypeOK

\* The visit of a node: what is on top of the stack, and what becomes of it.
LEMMA VisitFacts ==
  ASSUME TypeInv, Visit
  PROVE  LET top == stack[Len(stack)]
         IN  /\ Len(stack) > 0 /\ top.node \in Node /\ top.parent \in Link
             /\ stack' = SubSeq(stack, 1, Len(stack) - 1)
             /\ node' = top.node
             /\ \/ /\ spans' = Append(spans, from_plan(top.node, top.parent))
                   /\ link' = [node |-> top.node, end |-> from_plan(top.node, top.parent).end]
                   /\ instrument' = [instrument EXCEPT ![top.node] = folded(@)]
                \/ /\ link' = top.parent
                   /\ spans' = spans /\ instrument' = instrument
<1> DEFINE top == stack[Len(stack)]
<1>1. stack \in Seq([node : Node, parent : Link]) /\ stack # << >>
  BY DEF TypeInv, TypeOK, Visit
<1>2. Len(stack) > 0 /\ top.node \in Node /\ top.parent \in Link
  <2>1. Len(stack) \in Nat /\ Len(stack) # 0 BY <1>1, EmptySeq
  <2>2. Len(stack) \in 1 .. Len(stack) BY <2>1
  <2>3. top \in [node : Node, parent : Link] BY <1>1, <2>2, ElementOfSeq
  <2> QED BY <2>1, <2>3
<1>3. Last(stack) = top BY DEF Last
<1>4. stack' = SubSeq(stack, 1, Len(stack) - 1) BY DEF Visit, Front
<1> QED BY <1>2, <1>3, <1>4 DEF Visit, or

\* A visit keeps the types.
LEMMA VisitType == ASSUME TypeInv, Visit PROVE TypeInv'
<1> DEFINE top == stack[Len(stack)]
<1>1. /\ Len(stack) > 0 /\ top.node \in Node /\ top.parent \in Link
      /\ stack' = SubSeq(stack, 1, Len(stack) - 1)
      /\ node' = top.node
      /\ \/ /\ spans' = Append(spans, from_plan(top.node, top.parent))
            /\ link' = [node |-> top.node, end |-> from_plan(top.node, top.parent).end]
            /\ instrument' = [instrument EXCEPT ![top.node] = folded(@)]
         \/ /\ link' = top.parent
            /\ spans' = spans /\ instrument' = instrument
  BY VisitFacts
<1> HIDE DEF top
<1>2. stack' \in Seq([node : Node, parent : Link])
  <2> DEFINE Entry == [node : Node, parent : Link]
  <2>1. stack \in Seq(Entry) BY DEF TypeInv, TypeOK
  <2> HIDE DEF Entry
  <2>2. Len(stack) - 1 \in Int /\ \A k \in 1 .. Len(stack) - 1 : stack[k] \in Entry
    BY <2>1
  <2>3. stack' \in Seq(Entry) BY <1>1, <2>2, SubSeqProperties
  <2> QED BY <2>3 DEF Entry
<1>3. /\ spans' \in Seq([node : Node, parent : Link, end : Int, total_ns : Int,
                         never_executed : BOOLEAN, incomplete : BOOLEAN])
      /\ link' \in Link /\ instrument' \in [Node -> Instrumentation]
  <2> DEFINE Span == [node : Node, parent : Link, end : Int, total_ns : Int,
                      never_executed : BOOLEAN, incomplete : BOOLEAN]
             span == from_plan(top.node, top.parent)
  <2>1. spans \in Seq(Span) /\ link \in Link /\ instrument \in [Node -> Instrumentation]
    BY DEF TypeInv, TypeOK
  <2>2. span \in Span BY <1>1, SpanType
  <2>3. span.end \in Int BY <2>2
  <2>4. folded(instrument[top.node]) \in Instrumentation BY <1>1, <2>1, FoldedOnce
  <2>5. Append(spans, span) \in Seq(Span) BY <2>1, <2>2, AppendProperties
  <2>6. [node |-> top.node, end |-> span.end] \in Link BY <1>1, <2>3 DEF Link
  <2>7. [instrument EXCEPT ![top.node] = folded(@)] \in [Node -> Instrumentation]
    BY <2>1, <2>4
  <2> QED BY <1>1, <2>1, <2>5, <2>6, <2>7
<1>4. /\ node' \in Node \cup {Null} /\ children' \in Seq(Node) /\ at' \in Nat \ {0}
      /\ visited' \in Seq(Node) /\ omitted' \in Nat
  <2>1. children' = << >> /\ at' = 1 BY DEF Visit
  <2>2. visited' = Append(visited, top.node) BY DEF Visit, Last, top
  <2>3. omitted' = omitted \/ omitted' = omitted + 1 BY DEF Visit
  <2>4. visited \in Seq(Node) /\ omitted \in Nat BY DEF TypeInv, TypeOK
  <2> QED BY <1>1, <2>1, <2>2, <2>3, <2>4, AppendProperties
<1>5. /\ printed' \subseteq Node /\ DOMAIN hangs' \subseteq Node
      /\ plan' \in Plans /\ max_spans' \in Nat
  BY DEF TypeInv, TypeOK, Visit
<1> QED BY <1>2, <1>3, <1>4, <1>5 DEF TypeInv, TypeOK, Link

\* Following a reference keeps the types.
LEMMA ReferType == ASSUME TypeInv, Refer PROVE TypeInv'
<1> DEFINE ref   == plan_state_children(node)[at]
           child == IF ref.subplan THEN unprinted(ref.node) ELSE push_child(ref.node)
<1>1. /\ node \in Node /\ plan \in Plans
      /\ at \in Nat \ {0} /\ at <= Len(plan_state_children(node))
  BY DEF TypeInv, TypeOK, Refer
<1>2. ref \in Ref
  <2>1. plan_state_children(node) \in Seq(Ref) BY <1>1, RefsType
  <2>2. at \in 1 .. Len(plan_state_children(node)) BY <1>1, <2>1
  <2> QED BY <2>1, <2>2, ElementOfSeq
<1>3. /\ children' = IF child THEN Append(children, ref.node) ELSE children
      /\ printed' = IF ref.subplan THEN printed \cup {ref.node} ELSE printed
      /\ DOMAIN hangs' = IF child THEN DOMAIN hangs \cup {ref.node} ELSE DOMAIN hangs
      /\ at' = at + 1
  BY DEF Refer
<1>4. ref.subplan \/ child => ref.node \in Node
  BY <1>2 DEF Ref, push_child
<1> HIDE DEF child
<1>5. children' \in Seq(Node)
  BY <1>3, <1>4, AppendProperties DEF TypeInv, TypeOK
<1>6. printed' \subseteq Node BY <1>3, <1>4 DEF TypeInv, TypeOK
<1>7. DOMAIN hangs' \subseteq Node
  BY <1>3, <1>4 DEF TypeInv, TypeOK
<1>8. at' \in Nat \ {0} BY <1>1, <1>3
<1> QED BY <1>5, <1>6, <1>7, <1>8 DEF TypeInv, TypeOK, Refer, Link

\* Pushing the children keeps the types.
LEMMA DescendType == ASSUME TypeInv, Descend PROVE TypeInv'
<1> DEFINE Entry == [node : Node, parent : Link]
           below == [j \in 1 .. Len(children) |-> [node |-> children[j], parent |-> link]]
<1>1. stack \in Seq(Entry) /\ children \in Seq(Node) /\ link \in Link
  BY DEF TypeInv, TypeOK
<1>2. below \in Seq(Entry) /\ Len(below) = Len(children)
  BY <1>1
<1>3. Reverse(below) \in Seq(Entry)
  <2> HIDE DEF Entry, below
  <2>1. \A k \in 1 .. Len(below) : (Len(below) - k) + 1 \in 1 .. Len(below)
    BY <1>1, <1>2
  <2> QED BY <1>2, <2>1 DEF Reverse
<1>4. stack' = stack \o Reverse(below) BY DEF Descend
<1>5. stack' \in Seq(Entry) BY <1>1, <1>3, <1>4, ConcatProperties
<1> QED BY <1>5 DEF TypeInv, TypeOK, Descend, Link

\* Nodes, links and pointers of the walk keep their types.
THEOREM TypeCorrect == Spec => []TypeOK
<1>1. Init => TypeInv BY InitType
<1>2. TypeInv /\ [Next]_vars => TypeInv'
  <2> SUFFICES ASSUME TypeInv, [Next]_vars PROVE TypeInv' OBVIOUS
  <2>1. CASE Visit BY <2>1, VisitType
  <2>2. CASE Refer BY <2>2, ReferType
  <2>3. CASE Descend BY <2>3, DescendType
  <2>4. CASE UNCHANGED vars
    BY <2>4 DEF vars, finding, TypeInv, TypeOK, Link
  <2> QED BY <2>1, <2>2, <2>3, <2>4 DEF Next, Done
<1>3. TypeInv => TypeOK BY DEF TypeInv
<1> QED BY <1>1, <1>2, <1>3, PTL DEF Spec

----------------------------------------------------------------------------
(* Spans within spans *)

Span == [node : Node, parent : Link, end : Int, total_ns : Int,
         never_executed : BOOLEAN, incomplete : BOOLEAN]

\* A link is the statement's, or that of a span made already.
Given(l, made) == l = QueryLink \/ \E k \in 1 .. Len(made) : l = Offered(made[k])

\* Every link in use is.
NestInv ==
  /\ SpansNest
  /\ Given(link, spans)
  /\ \A k \in 1 .. Len(stack) : Given(stack[k].parent, spans)

\* Links stay given while spans are added, and a new span adds its own.
LEMMA GivenGrows ==
  ASSUME NEW made \in Seq(Span), NEW span \in Span
  PROVE  /\ \A l : Given(l, made) => Given(l, Append(made, span))
         /\ Given(Offered(span), Append(made, span))
<1>1. /\ Len(made) \in Nat /\ Len(Append(made, span)) = Len(made) + 1
      /\ \A k \in 1 .. Len(made) : Append(made, span)[k] = made[k]
      /\ Append(made, span)[Len(made) + 1] = span
  BY AppendProperties
<1>2. ASSUME NEW l, Given(l, made) PROVE Given(l, Append(made, span))
  BY <1>1, <1>2 DEF Given
<1>3. Len(made) + 1 \in 1 .. Len(Append(made, span)) BY <1>1
<1> QED BY <1>1, <1>2, <1>3 DEF Given

\* At first there is no span, and the top node has the link of the statement.
LEMMA InitNest == ASSUME Init PROVE NestInv
<1>1. spans = << >> /\ link = QueryLink /\ stack = <<[node |-> Root, parent |-> QueryLink]>>
  BY DEF Init, QueryLink
<1>2. SpansNest BY <1>1 DEF SpansNest
<1>3. \A k \in 1 .. Len(stack) : stack[k].parent = QueryLink BY <1>1
<1> QED BY <1>1, <1>2, <1>3 DEF NestInv, Given

\* A node is visited with a link that was given, and so its span is within another.
LEMMA VisitNest == ASSUME TypeInv, NestInv, Visit PROVE NestInv'
<1> DEFINE top  == stack[Len(stack)]
           span == from_plan(top.node, top.parent)
<1>1. /\ Len(stack) > 0 /\ top.node \in Node /\ top.parent \in Link
      /\ stack' = SubSeq(stack, 1, Len(stack) - 1)
      /\ \/ /\ spans' = Append(spans, span)
            /\ link' = [node |-> top.node, end |-> span.end]
         \/ link' = top.parent /\ spans' = spans
  BY VisitFacts
<1>2. spans \in Seq(Span) /\ stack \in Seq([node : Node, parent : Link])
  BY DEF TypeInv, TypeOK, Span
<1>3. Len(stack) \in Nat /\ Given(top.parent, spans) BY <1>1, <1>2 DEF NestInv
<1>4. \A k \in 1 .. Len(stack') :
        k \in 1 .. Len(stack) /\ stack'[k] = stack[k]
  <2> DEFINE Entry == [node : Node, parent : Link]
  <2>1. stack \in Seq(Entry) BY <1>2
  <2> HIDE DEF Entry
  <2>2. Len(stack) - 1 \in Int /\ \A k \in 1 .. Len(stack) - 1 : stack[k] \in Entry
    BY <1>3, <2>1
  <2>3. /\ Len(stack') = IF 1 <= Len(stack) - 1 THEN Len(stack) - 1 - 1 + 1 ELSE 0
        /\ \A k \in 1 .. Len(stack) - 1 - 1 + 1 : stack'[k] = stack[1 + k - 1]
    BY <1>1, <2>2, SubSeqProperties
  <2> QED BY <1>1, <1>3, <2>3
<1>5. QueryLink' = QueryLink BY DEF Visit, QueryLink
<1>6. ASSUME NEW l, Given(l, spans) PROVE Given(l, spans) /\ Given(l, spans')
  <2>1. span \in Span BY <1>1, SpanType DEF Span
  <2> QED BY <1>1, <1>2, <1>6, <2>1, GivenGrows
<1>7. \A k \in 1 .. Len(stack') : Given(stack'[k].parent, spans')
  BY <1>4, <1>6 DEF NestInv
<1>8. SpansNest' /\ Given(link', spans')
  <2>1. CASE spans' = Append(spans, span) /\ link' = [node |-> top.node, end |-> span.end]
    <3>1. span \in Span /\ span.node = top.node /\ span.parent = top.parent
          /\ span.end <= top.parent.end /\ span.end <= span.total_ns
          /\ span.end \in {top.parent.end, span.total_ns}
      BY <1>1, SpanType DEF Span
    <3>2. link' = Offered(span) BY <2>1, <3>1 DEF Offered
    <3>3. Given(link', spans') BY <1>2, <2>1, <3>1, <3>2, GivenGrows
    <3>4. /\ Len(spans) \in Nat /\ Len(spans') = Len(spans) + 1
          /\ \A k \in 1 .. Len(spans) : spans'[k] = spans[k]
          /\ spans'[Len(spans) + 1] = span
      BY <1>2, <2>1, <3>1, AppendProperties
    <3> HIDE DEF span
    <3>5. ASSUME NEW j \in 1 .. Len(spans')
          PROVE  /\ \/ spans'[j].parent = QueryLink
                    \/ \E k \in 1 .. j - 1 : spans'[j].parent = Offered(spans'[k])
                 /\ spans'[j].end <= spans'[j].parent.end
                 /\ spans'[j].end <= spans'[j].total_ns
                 /\ spans'[j].end \in {spans'[j].parent.end, spans'[j].total_ns}
      <4>1. CASE j \in 1 .. Len(spans)
        <5>1. spans'[j] = spans[j] /\ \A k \in 1 .. j - 1 : spans'[k] = spans[k]
          BY <3>4, <4>1
        <5> QED BY <4>1, <5>1 DEF NestInv, SpansNest
      <4>2. CASE j = Len(spans) + 1
        <5>1. spans'[j] = span /\ j - 1 = Len(spans) BY <3>4, <4>2
        <5>2. Given(span.parent, spans) BY <1>3, <3>1
        <5> QED BY <3>1, <3>4, <5>1, <5>2 DEF Given
      <4> QED BY <3>4, <4>1, <4>2
    <3>6. SpansNest' BY <1>5, <3>5 DEF SpansNest, Offered
    <3> QED BY <3>3, <3>6
  <2>2. CASE link' = top.parent /\ spans' = spans
    BY <1>3, <1>5, <2>2 DEF NestInv, SpansNest
  <2> QED BY <1>1, <2>1, <2>2
<1> QED BY <1>5, <1>7, <1>8 DEF NestInv, Given, Offered

\* Children are visited with the link their parent has left.
LEMMA DescendNest == ASSUME TypeInv, NestInv, Descend PROVE NestInv'
<1> DEFINE Entry == [node : Node, parent : Link]
           below == [j \in 1 .. Len(children) |-> [node |-> children[j], parent |-> link]]
<1>1. stack \in Seq(Entry) /\ children \in Seq(Node) /\ link \in Link
  BY DEF TypeInv, TypeOK
<1>2. below \in Seq(Entry) /\ Len(below) = Len(children)
  BY <1>1
<1>3. /\ Reverse(below) \in Seq(Entry)
      /\ \A k \in 1 .. Len(Reverse(below)) : Reverse(below)[k].parent = link
  <2>1. \A k \in 1 .. Len(below) : (Len(below) - k) + 1 \in 1 .. Len(below)
    BY <1>1, <1>2
  <2>2. \A k \in 1 .. Len(below) : below[k].parent = link BY <1>2
  <2> HIDE DEF Entry, below
  <2>3. Reverse(below) \in Seq(Entry) BY <1>2, <2>1 DEF Reverse
  <2>4. Len(Reverse(below)) = Len(below) BY <1>2 DEF Reverse
  <2> QED BY <2>1, <2>2, <2>3, <2>4 DEF Reverse
<1>4. stack' = stack \o Reverse(below) BY DEF Descend
<1> HIDE DEF below
<1>5. \A k \in 1 .. Len(stack') : Given(stack'[k].parent, spans)
  <2> HIDE DEF Entry
  <2> SUFFICES ASSUME NEW k \in 1 .. Len(stack') PROVE Given(stack'[k].parent, spans) OBVIOUS
  <2>1. /\ Len(stack) \in Nat /\ Len(Reverse(below)) \in Nat
        /\ Len(stack') = Len(stack) + Len(Reverse(below))
        /\ stack'[k] = IF k <= Len(stack) THEN stack[k] ELSE Reverse(below)[k - Len(stack)]
    BY <1>1, <1>3, <1>4, ConcatProperties
  <2>2. CASE k <= Len(stack) BY <2>1, <2>2 DEF NestInv
  <2>3. CASE k > Len(stack)
    <3>1. k - Len(stack) \in 1 .. Len(Reverse(below)) BY <2>1, <2>3
    <3>2. stack'[k].parent = link BY <1>3, <2>1, <2>3, <3>1
    <3> QED BY <3>2 DEF NestInv
  <2> QED BY <2>1, <2>2, <2>3
<1>6. spans' = spans /\ link' = link /\ QueryLink' = QueryLink
  BY DEF Descend, QueryLink
<1> QED BY <1>5, <1>6 DEF NestInv, SpansNest, Given, Offered

\* No span ends behind its parent's end, and every parent is the statement or a span that
\* was made before: whatever the plan, whatever its nodes measured, whatever the limit.
THEOREM SpansWithinParents == Spec => []SpansNest
<1>1. Init => TypeInv /\ NestInv BY InitType, InitNest
<1>2. TypeInv /\ NestInv /\ [Next]_vars => (TypeInv /\ NestInv)'
  <2> SUFFICES ASSUME TypeInv, NestInv, [Next]_vars PROVE (TypeInv /\ NestInv)' OBVIOUS
  <2>1. CASE Visit BY <2>1, VisitType, VisitNest
  <2>2. CASE Refer
    <3>1. /\ stack' = stack /\ link' = link /\ spans' = spans /\ QueryLink' = QueryLink
      BY <2>2 DEF Refer, QueryLink
    <3> QED BY <2>2, <3>1, ReferType DEF NestInv, SpansNest, Given, Offered
  <2>3. CASE Descend BY <2>3, DescendType, DescendNest
  <2>4. CASE UNCHANGED vars
    BY <2>4 DEF vars, finding, TypeInv, TypeOK, Link, NestInv, SpansNest, Given, Offered,
                QueryLink
  <2> QED BY <2>1, <2>2, <2>3, <2>4 DEF Next, Done
<1>3. NestInv => SpansNest BY DEF NestInv
<1> QED BY <1>1, <1>2, <1>3, PTL DEF Spec

----------------------------------------------------------------------------
(* Times *)

\* What a span of a node with the measurements i must have.
Exact(span, i) ==
  /\ span.incomplete <=> ~i.present \/ (i.running /\ i.started)
  /\ IF span.incomplete THEN span.total_ns = 0 /\ ~span.never_executed
     ELSE /\ Exactly(plan.clock, Accumulated(i), span.total_ns)
          /\ span.never_executed <=> ~i.running /\ i.loops = 0

\* Measurements are the plan's, with the last cycle folded or not.
TimesInv ==
  /\ TimesExact
  /\ \A n \in Node : instrument[n] \in {plan.instrument[n], folded(plan.instrument[n])}

\* A measurement that can be used has its node's time in it.
LEMMA MeasuredExactly ==
  ASSUME NEW clock \in Clock, Fits64(clock), NEW i \in Instrumentation
  PROVE  LET timings == node_instrument(clock, i)
         IN  /\ timings.complete \in BOOLEAN
             /\ timings.complete <=> ~(~i.present \/ (i.running /\ i.started))
             /\ ~timings.complete => timings.total_ns = 0
             /\ timings.complete =>
                  /\ Exactly(clock, Accumulated(i), timings.total_ns)
                  /\ timings.loops = 0 <=> ~i.running /\ i.loops = 0
<1> DEFINE timings == node_instrument(clock, i)
<1>1. i.present \in BOOLEAN /\ i.running \in BOOLEAN /\ i.started \in BOOLEAN
      /\ i.total \in Int /\ i.counter \in Int /\ i.loops \in Nat
  BY DEF Instrumentation
<1>2. usable(i) <=> ~(~i.present \/ (i.running /\ i.started)) BY DEF usable, is_mid_timer
<1>3. CASE ~usable(i)
  <2>1. timings = [complete |-> FALSE, total_ns |-> 0, loops |-> 0]
    BY <1>3 DEF node_instrument
  <2> HIDE DEF timings
  <2>2. timings.complete = FALSE /\ timings.total_ns = 0 BY <2>1
  <2> QED BY <1>2, <1>3, <2>2 DEF timings
<1>4. CASE usable(i)
  <2> DEFINE done == InstrEndLoop(i)
  <2>1. timings = [complete |-> TRUE, total_ns |-> to_ns(clock, done.total), loops |-> done.loops]
    BY <1>4 DEF node_instrument
  <2>2. done.total = Accumulated(i) /\ (done.loops = 0 <=> ~i.running /\ i.loops = 0)
    <3>1. CASE ~i.running
      <4>1. done = i /\ Accumulated(i) = i.total + 0 BY <3>1 DEF InstrEndLoop, Accumulated
      <4> QED BY <1>1, <3>1, <4>1
    <3>2. CASE i.running
      <4>1. done = [i EXCEPT !.running = FALSE, !.counter = 0,
                             !.total = @ + i.counter, !.loops = @ + 1]
        BY <3>2 DEF InstrEndLoop
      <4>2. done.total = i.total + i.counter /\ done.loops = i.loops + 1
        BY <4>1 DEF Instrumentation
      <4>3. Accumulated(i) = i.total + i.counter BY <3>2 DEF Accumulated
      <4>4. done.loops # 0 BY <1>1, <4>2
      <4> QED BY <3>2, <4>2, <4>3, <4>4
    <3> QED BY <3>1, <3>2
  <2> HIDE DEF done
  <2>3. Accumulated(i) \in Int BY <1>1 DEF Accumulated
  <2>4. Exactly(clock, Accumulated(i), to_ns(clock, done.total)) BY <2>2, <2>3, ToNsExact
  <2> HIDE DEF timings
  <2>5. /\ timings.complete = TRUE /\ timings.total_ns = to_ns(clock, done.total)
        /\ timings.loops = done.loops
    BY <2>1
  <2> QED BY <1>2, <1>4, <2>2, <2>4, <2>5 DEF timings
<1> QED BY <1>3, <1>4

\* The span of a node has its node's time.
LEMMA SpanExact ==
  ASSUME ClocksFit, TypeInv, TimesInv, NEW n \in Node, NEW parent \in Link
  PROVE  Exact(from_plan(n, parent), plan.instrument[n])
<1> DEFINE i       == plan.instrument[n]
           timings == node_instrument(plan.clock, i)
           span    == from_plan(n, parent)
<1>1. i \in Instrumentation /\ plan.clock \in Clock /\ Fits64(plan.clock)
  BY PlanType DEF TypeInv, ClocksFit
<1>2. node_instrument(plan.clock, instrument[n]) = timings
  <2>1. instrument[n] = i \/ instrument[n] = folded(i) BY DEF TimesInv
  <2> QED BY <1>1, <2>1, FoldedOnce
<1>3. /\ span.total_ns = timings.total_ns
      /\ span.never_executed = (timings.complete /\ timings.loops = 0)
      /\ span.incomplete = ~timings.complete
  BY <1>2 DEF from_plan
<1>4. /\ timings.complete \in BOOLEAN
      /\ timings.complete <=> ~(~i.present \/ (i.running /\ i.started))
      /\ ~timings.complete => timings.total_ns = 0
      /\ timings.complete =>
           /\ Exactly(plan.clock, Accumulated(i), timings.total_ns)
           /\ timings.loops = 0 <=> ~i.running /\ i.loops = 0
  BY <1>1, MeasuredExactly
<1> HIDE DEF timings, span
<1> QED BY <1>3, <1>4 DEF Exact, span, i

\* A visit folds one node at most, and its span has the time of that node.
LEMMA VisitTimes == ASSUME ClocksFit, TypeInv, TimesInv, Visit PROVE TimesInv'
<1> DEFINE top  == stack[Len(stack)]
           span == from_plan(top.node, top.parent)
<1>1. /\ top.node \in Node /\ top.parent \in Link
      /\ \/ spans' = Append(spans, span)
            /\ instrument' = [instrument EXCEPT ![top.node] = folded(@)]
         \/ spans' = spans /\ instrument' = instrument
  BY VisitFacts
<1>2. plan' = plan BY DEF Visit
<1> HIDE DEF top
<1>3. CASE spans' = spans /\ instrument' = instrument
  BY <1>2, <1>3 DEF TimesInv, TimesExact
<1>4. CASE spans' = Append(spans, span)
           /\ instrument' = [instrument EXCEPT ![top.node] = folded(@)]
  <2>1. spans \in Seq(Span) /\ span \in Span /\ span.node = top.node
    BY <1>1, SpanType DEF TypeInv, TypeOK, Span
  <2>2. Exact(span, plan.instrument[top.node]) BY <1>1, SpanExact
  <2> HIDE DEF span
  <2>3. /\ Len(spans) \in Nat /\ Len(spans') = Len(spans) + 1
        /\ \A k \in 1 .. Len(spans) : spans'[k] = spans[k]
        /\ spans'[Len(spans) + 1] = span
    BY <1>4, <2>1, AppendProperties
  <2>4. \A j \in 1 .. Len(spans) : Exact(spans[j], plan.instrument[spans[j].node])
    BY DEF TimesInv, TimesExact, Exact
  <2>5. \A j \in 1 .. Len(spans') : Exact(spans'[j], plan.instrument[spans'[j].node])
    <3> SUFFICES ASSUME NEW j \in 1 .. Len(spans')
                 PROVE  Exact(spans'[j], plan.instrument[spans'[j].node])
      OBVIOUS
    <3>1. CASE j \in 1 .. Len(spans) BY <2>3, <2>4, <3>1
    <3>2. CASE j = Len(spans) + 1 BY <2>1, <2>2, <2>3, <3>2
    <3> QED BY <2>3, <3>1, <3>2
  <2>6. TimesExact' BY <1>2, <2>5 DEF TimesExact, Exact, Accumulated
  <2>7. ASSUME NEW n \in Node
        PROVE  instrument'[n] \in {plan.instrument[n], folded(plan.instrument[n])}
    <3>1. instrument \in [Node -> Instrumentation] /\ plan.instrument[n] \in Instrumentation
      BY PlanType DEF TypeInv
    <3>2. instrument[n] \in {plan.instrument[n], folded(plan.instrument[n])}
      BY DEF TimesInv
    <3>3. instrument'[n] = instrument[n] \/ instrument'[n] = folded(instrument[n])
      BY <1>4, <3>1
    <3>4. folded(folded(plan.instrument[n])) = folded(plan.instrument[n])
      BY <3>1, FoldedOnce
    <3> QED BY <3>2, <3>3, <3>4
  <2> QED BY <1>2, <2>6, <2>7 DEF TimesInv
<1> QED BY <1>1, <1>3, <1>4

\* The time of a span is its node's to the nanosecond, or zero and flagged: for integers
\* of any width, counts of any size, and whoever looked at the node before.
THEOREM TimesToTheNanosecond == ClocksFit => (Spec => []TimesExact)
<1> SUFFICES ASSUME ClocksFit PROVE Spec => []TimesExact OBVIOUS
<1>1. Init => TypeInv /\ TimesInv
  <2> SUFFICES ASSUME Init PROVE TimesInv BY InitType
  <2>1. spans = << >> /\ instrument = plan.instrument BY DEF Init
  <2> QED BY <2>1 DEF TimesInv, TimesExact
<1>2. TypeInv /\ TimesInv /\ [Next]_vars => (TypeInv /\ TimesInv)'
  <2> SUFFICES ASSUME TypeInv, TimesInv, [Next]_vars PROVE (TypeInv /\ TimesInv)' OBVIOUS
  <2>1. CASE Visit BY <2>1, VisitType, VisitTimes
  <2>2. CASE Refer BY <2>2, ReferType DEF Refer, TimesInv, TimesExact, Accumulated
  <2>3. CASE Descend BY <2>3, DescendType DEF Descend, TimesInv, TimesExact, Accumulated
  <2>4. CASE UNCHANGED vars
    BY <2>4 DEF vars, finding, TypeInv, TypeOK, Link, TimesInv, TimesExact
  <2> QED BY <2>1, <2>2, <2>3, <2>4 DEF Next, Done
<1>3. TimesInv => TimesExact BY DEF TimesInv
<1> QED BY <1>1, <1>2, <1>3, PTL DEF Spec

----------------------------------------------------------------------------
(* Every node once *)

\* The nodes that wait on the stack, and the children found of the node at hand.
Waiting == {stack[k].node : k \in 1 .. Len(stack)}
Found == IF node = Null THEN {} ELSE ToSet(children)

\* The nodes the walk has come across.
Reached == ToSet(visited) \cup Waiting \cup Found

\* No node is in two places, or twice in one.
OnceInv ==
  /\ IsInjective(visited)
  /\ \A j, k \in 1 .. Len(stack) : stack[j].node = stack[k].node => j = k
  /\ node # Null => IsInjective(children)
  /\ ToSet(visited) \cap Waiting = {}
  /\ ToSet(visited) \cap Found = {}
  /\ Waiting \cap Found = {}

\* The references of m that have been followed.
Passed(m) == {i \in 1 .. Len(plan_state_children(m)) : m = node => i < at}

\* How the walk came across a node: it is the top node, a sub-plan that was reported, or the
\* child of a visited node of which the reference has been followed.
ReachInv ==
  /\ Root \in Reached
  /\ printed \subseteq Reached \cap SubPlans(plan)
  /\ node # Null => node \in ToSet(visited)
  /\ \A n \in Reached :
       n = Root \/ n \in printed \/
       \E m \in ToSet(visited) : \E i \in Passed(m) :
         plan_state_children(m)[i] = [node |-> n, subplan |-> FALSE]

\* Every reference that was followed led to a node of the plan that has been reached.
FollowInv ==
  /\ Reached \subseteq InPlan
  /\ \A m \in ToSet(visited) : \A i \in Passed(m) :
       plan_state_children(m)[i].node # Null => plan_state_children(m)[i].node \in Reached

\* Nodes hang off visited ones.
HangsInv ==
  /\ DOMAIN hangs = Reached
  /\ hangs[Root] = Null
  /\ \A n \in Reached \ {Root} : hangs[n] \in ToSet(visited)

\* The elements of a sequence.
LEMMA InToSet ==
  ASSUME NEW S, NEW s \in Seq(S)
  PROVE  /\ \A i \in 1 .. Len(s) : s[i] \in ToSet(s)
         /\ \A x \in ToSet(s) : \E i \in 1 .. Len(s) : x = s[i]
         /\ ToSet(s) \subseteq S
         /\ DOMAIN s = 1 .. Len(s) /\ Len(s) \in Nat
  BY DEF ToSet

\* A sequence that gets one more element: what it holds, and that it stays injective.
LEMMA AppendOnce ==
  ASSUME NEW S, NEW s \in Seq(S), NEW x \in S
  PROVE  /\ ToSet(Append(s, x)) = ToSet(s) \cup {x}
         /\ IsInjective(s) /\ x \notin ToSet(s) => IsInjective(Append(s, x))
<1> DEFINE t == Append(s, x)
<1>1. /\ t \in Seq(S) /\ Len(t) = Len(s) + 1 /\ Len(s) \in Nat /\ t[Len(s) + 1] = x
      /\ \A i \in 1 .. Len(s) : t[i] = s[i]
  BY AppendProperties
<1> HIDE DEF t
<1>2. DOMAIN s = 1 .. Len(s) /\ DOMAIN t = 1 .. Len(s) + 1 BY <1>1
<1>3. ToSet(t) = ToSet(s) \cup {x}
  <2>1. \A i \in DOMAIN t : t[i] \in ToSet(s) \cup {x}
    BY <1>1, <1>2 DEF ToSet
  <2>2. \A i \in DOMAIN s : s[i] \in ToSet(t)
    BY <1>1, <1>2 DEF ToSet
  <2>3. x \in ToSet(t)
    <3>1. Len(s) + 1 \in DOMAIN t BY <1>1, <1>2
    <3> QED BY <1>1, <3>1 DEF ToSet
  <2> QED BY <2>1, <2>2, <2>3 DEF ToSet
<1>4. ASSUME IsInjective(s), x \notin ToSet(s) PROVE IsInjective(t)
  <2>1. \A i \in 1 .. Len(s) : s[i] # x BY <1>2, <1>4 DEF ToSet
  <2>2. \A i, j \in 1 .. Len(s) : s[i] = s[j] => i = j BY <1>2, <1>4 DEF IsInjective
  <2>3. \A i, j \in 1 .. Len(s) + 1 : t[i] = t[j] => i = j
    <3> SUFFICES ASSUME NEW i \in 1 .. Len(s) + 1, NEW j \in 1 .. Len(s) + 1, t[i] = t[j]
                 PROVE  i = j
      OBVIOUS
    <3>1. i \in 1 .. Len(s) \/ i = Len(s) + 1 BY <1>1
    <3>2. j \in 1 .. Len(s) \/ j = Len(s) + 1 BY <1>1
    <3> QED BY <1>1, <2>1, <2>2, <3>1, <3>2
  <2> QED BY <1>2, <2>3 DEF IsInjective
<1> QED BY <1>3, <1>4 DEF t

\* A sequence without its last element.
LEMMA Popped ==
  ASSUME NEW S, NEW s \in Seq(S), Len(s) > 0
  PROVE  LET t == SubSeq(s, 1, Len(s) - 1)
         IN  /\ Len(s) \in Nat /\ t \in Seq(S) /\ Len(t) = Len(s) - 1
             /\ \A k \in 1 .. Len(s) - 1 : t[k] = s[k]
<1> DEFINE t == SubSeq(s, 1, Len(s) - 1)
<1>1. Len(s) \in Nat /\ Len(s) # 0 BY LenProperties
<1>2. Len(s) - 1 \in 0 .. Len(s) BY <1>1
<1>3. /\ \A k \in 1 .. Len(s) - 1 : s[k] \in S
      /\ Len(s) - 1 \in Int
  BY <1>1, <1>2
<1>4. t \in Seq(S) BY <1>3, SubSeqProperties
<1>5. Len(t) = Len(s) - 1
  <2>1. Len(t) = IF 1 <= Len(s) - 1 THEN Len(s) - 1 - 1 + 1 ELSE 0 BY <1>3, SubSeqProperties
  <2>2. \A l \in Nat : l # 0 => l - 1 = IF 1 <= l - 1 THEN l - 1 - 1 + 1 ELSE 0 OBVIOUS
  <2> HIDE DEF t
  <2> QED BY <1>1, <2>1, <2>2
<1>6. \A k \in 1 .. Len(s) - 1 : t[k] = s[k] BY <1>1, <1>3, SubSeqProperties
<1> QED BY <1>1, <1>4, <1>5, <1>6

\* What a concatenation holds.
LEMMA ToSetConcat ==
  ASSUME NEW S, NEW s \in Seq(S), NEW t \in Seq(S)
  PROVE  ToSet(s \o t) = ToSet(s) \cup ToSet(t)
<1> DEFINE u == s \o t
<1>1. /\ u \in Seq(S) /\ Len(u) = Len(s) + Len(t) /\ Len(s) \in Nat /\ Len(t) \in Nat
      /\ \A i \in 1 .. Len(s) + Len(t) : u[i] = IF i <= Len(s) THEN s[i] ELSE t[i - Len(s)]
  BY ConcatProperties
<1> HIDE DEF u
<1>2. /\ DOMAIN s = 1 .. Len(s) /\ DOMAIN t = 1 .. Len(t)
      /\ DOMAIN u = 1 .. Len(s) + Len(t)
  BY <1>1
<1>3. \A i \in 1 .. Len(s) + Len(t) :
        \/ i \in 1 .. Len(s) /\ u[i] = s[i]
        \/ i - Len(s) \in 1 .. Len(t) /\ u[i] = t[i - Len(s)]
  BY <1>1
<1>4. \A i \in DOMAIN u : u[i] \in ToSet(s) \cup ToSet(t)
  BY <1>2, <1>3 DEF ToSet
<1>5. \A i \in DOMAIN s : s[i] \in ToSet(u)
  <2>1. \A i \in 1 .. Len(s) : i \in 1 .. Len(s) + Len(t) /\ u[i] = s[i] BY <1>1
  <2> QED BY <1>2, <2>1 DEF ToSet
<1>6. \A i \in DOMAIN t : t[i] \in ToSet(u)
  <2>1. \A i \in 1 .. Len(t) : /\ Len(s) + i \in 1 .. Len(s) + Len(t)
                               /\ u[Len(s) + i] = t[i]
    <4> SUFFICES ASSUME NEW i \in 1 .. Len(t)
                 PROVE  Len(s) + i \in 1 .. Len(s) + Len(t) /\ u[Len(s) + i] = t[i]
      OBVIOUS
    <4>1. /\ Len(s) + i \in 1 .. Len(s) + Len(t) /\ ~(Len(s) + i <= Len(s))
          /\ (Len(s) + i) - Len(s) = i
      BY <1>1
    <4> QED BY <1>1, <4>1
  <2> QED BY <1>2, <2>1 DEF ToSet
<1> QED BY <1>4, <1>5, <1>6 DEF ToSet, u

\* Injective sequences without a common element make an injective sequence.
LEMMA ConcatOnce ==
  ASSUME NEW S, NEW s \in Seq(S), NEW t \in Seq(S), IsInjective(s), IsInjective(t),
         ToSet(s) \cap ToSet(t) = {}
  PROVE  IsInjective(s \o t)
<1> DEFINE u == s \o t
<1>1. /\ u \in Seq(S) /\ Len(u) = Len(s) + Len(t) /\ Len(s) \in Nat /\ Len(t) \in Nat
      /\ \A i \in 1 .. Len(s) + Len(t) : u[i] = IF i <= Len(s) THEN s[i] ELSE t[i - Len(s)]
  BY ConcatProperties
<1> HIDE DEF u
<1>2. /\ DOMAIN s = 1 .. Len(s) /\ DOMAIN t = 1 .. Len(t)
      /\ DOMAIN u = 1 .. Len(s) + Len(t)
  BY <1>1
<1>3. \A i \in 1 .. Len(s), j \in 1 .. Len(t) : s[i] # t[j]
  BY <1>2 DEF ToSet
<1>4. \A i, j \in 1 .. Len(s) : s[i] = s[j] => i = j BY <1>2 DEF IsInjective
<1>5. \A i, j \in 1 .. Len(t) : t[i] = t[j] => i = j BY <1>2 DEF IsInjective
<1>6. \A i \in 1 .. Len(s) + Len(t) :
        \/ i \in 1 .. Len(s) /\ u[i] = s[i]
        \/ i - Len(s) \in 1 .. Len(t) /\ u[i] = t[i - Len(s)]
  BY <1>1
<1>7. \A i, j \in 1 .. Len(s) + Len(t) : u[i] = u[j] => i = j
  <2> SUFFICES ASSUME NEW i \in 1 .. Len(s) + Len(t), NEW j \in 1 .. Len(s) + Len(t),
                      u[i] = u[j]
               PROVE  i = j
    OBVIOUS
  <2>1. CASE i \in 1 .. Len(s) /\ u[i] = s[i] BY <1>3, <1>4, <1>6, <2>1
  <2>2. CASE i - Len(s) \in 1 .. Len(t) /\ u[i] = t[i - Len(s)]
    <3>1. CASE j \in 1 .. Len(s) /\ u[j] = s[j] BY <1>3, <2>2, <3>1
    <3>2. CASE j - Len(s) \in 1 .. Len(t) /\ u[j] = t[j - Len(s)]
      <4>1. i - Len(s) = j - Len(s) BY <1>5, <2>2, <3>2
      <4> QED BY <1>1, <4>1
    <3> QED BY <1>6, <3>1, <3>2
  <2> QED BY <1>6, <2>1, <2>2
<1> QED BY <1>2, <1>7 DEF IsInjective, u

\* The pointers of a node, one by one.
LEMMA RefsAt ==
  ASSUME plan \in Plans, NEW n \in Node
  PROVE  LET refs == plan_state_children(n)
         IN  /\ DOMAIN refs = 1 .. Len(refs) /\ Len(refs) \in Nat
             /\ \A i \in 1 .. Len(refs) :
                  \/ refs[i].subplan /\ refs[i].node \in ToSet(plan.init[n]) \cup ToSet(plan.subs[n])
                  \/ \E k \in DOMAIN plan.kids[n] :
                       /\ refs[i] = [node |-> plan.kids[n][k], subplan |-> FALSE]
                       /\ i = Len(plan.init[n]) + k
             /\ \A m \in ToSet(plan.init[n]) \cup ToSet(plan.kids[n]) \cup ToSet(plan.subs[n]) :
                  \E i \in 1 .. Len(refs) : refs[i].node = m
<1> DEFINE refs == plan_state_children(n)
           init == plan.init[n]
           kids == plan.kids[n]
           subs == plan.subs[n]
<1>1. init \in Seq(Node) /\ kids \in Seq(Node \cup {Null}) /\ subs \in Seq(Node) BY PlanType
<1> HIDE DEF init, kids, subs
<1>2. /\ Len(init) \in Nat /\ Len(kids) \in Nat /\ Len(subs) \in Nat
      /\ DOMAIN init = 1 .. Len(init) /\ DOMAIN kids = 1 .. Len(kids)
      /\ DOMAIN subs = 1 .. Len(subs)
  BY <1>1
<1>3. refs = Refs(init, TRUE) \o Refs(kids, FALSE) \o Refs(subs, TRUE)
  BY DEF plan_state_children, init, kids, subs
<1>4. /\ Refs(init, TRUE) \in Seq(Ref) /\ Len(Refs(init, TRUE)) = Len(init)
      /\ Refs(kids, FALSE) \in Seq(Ref) /\ Len(Refs(kids, FALSE)) = Len(kids)
      /\ Refs(subs, TRUE) \in Seq(Ref) /\ Len(Refs(subs, TRUE)) = Len(subs)
  BY <1>1 DEF Refs, Ref
<1>5. /\ \A i \in 1 .. Len(init) : Refs(init, TRUE)[i] = [node |-> init[i], subplan |-> TRUE]
      /\ \A i \in 1 .. Len(kids) : Refs(kids, FALSE)[i] = [node |-> kids[i], subplan |-> FALSE]
      /\ \A i \in 1 .. Len(subs) : Refs(subs, TRUE)[i] = [node |-> subs[i], subplan |-> TRUE]
  BY DEF Refs
<1> DEFINE first  == Refs(init, TRUE)
           second == Refs(kids, FALSE)
           third  == Refs(subs, TRUE)
           front  == first \o second
<1> HIDE DEF first, second, third
<1>6. /\ front \in Seq(Ref) /\ Len(front) = Len(init) + Len(kids)
      /\ \A i \in 1 .. Len(init) + Len(kids) :
           front[i] = IF i <= Len(init) THEN first[i] ELSE second[i - Len(init)]
  <2>1. /\ first \in Seq(Ref) /\ Len(first) = Len(init)
        /\ second \in Seq(Ref) /\ Len(second) = Len(kids)
    BY <1>4 DEF first, second
  <2>2. /\ front \in Seq(Ref) /\ Len(front) = Len(first) + Len(second)
        /\ \A i \in 1 .. Len(first) + Len(second) :
             front[i] = IF i <= Len(first) THEN first[i] ELSE second[i - Len(first)]
    BY <2>1, ConcatProperties
  <2> HIDE DEF front
  <2> QED BY <2>1, <2>2
<1> HIDE DEF front
<1>7. /\ refs \in Seq(Ref) /\ Len(refs) = Len(init) + Len(kids) + Len(subs)
      /\ \A i \in 1 .. Len(init) + Len(kids) + Len(subs) :
           refs[i] = IF i <= Len(init) + Len(kids) THEN front[i]
                     ELSE third[i - (Len(init) + Len(kids))]
  <2>1. third \in Seq(Ref) /\ Len(third) = Len(subs) BY <1>4 DEF third
  <2>2. refs = front \o third BY <1>3 DEF front, first, second, third
  <2>3. /\ front \o third \in Seq(Ref) /\ Len(front \o third) = Len(front) + Len(third)
        /\ \A i \in 1 .. Len(front) + Len(third) :
             (front \o third)[i] = IF i <= Len(front) THEN front[i] ELSE third[i - Len(front)]
    <3>1. front \in Seq(Ref) /\ third \in Seq(Ref) BY <1>6, <2>1
    <3> QED BY <3>1, ConcatProperties
  <2> HIDE DEF refs
  <2> QED BY <1>6, <2>1, <2>2, <2>3
<1> HIDE DEF refs
<1>8. /\ \A i \in 1 .. Len(init) : /\ i \in 1 .. Len(refs)
                                   /\ refs[i] = [node |-> init[i], subplan |-> TRUE]
      /\ \A i \in 1 .. Len(kids) : /\ Len(init) + i \in 1 .. Len(refs)
                                   /\ refs[Len(init) + i] = [node |-> kids[i], subplan |-> FALSE]
      /\ \A i \in 1 .. Len(subs) :
           /\ Len(init) + Len(kids) + i \in 1 .. Len(refs)
           /\ refs[Len(init) + Len(kids) + i] = [node |-> subs[i], subplan |-> TRUE]
  <2>1. ASSUME NEW i \in 1 .. Len(init)
        PROVE  i \in 1 .. Len(refs) /\ refs[i] = [node |-> init[i], subplan |-> TRUE]
    <3>1. /\ i \in 1 .. Len(init) + Len(kids) + Len(subs) /\ i \in 1 .. Len(init) + Len(kids)
          /\ i <= Len(init) + Len(kids) /\ i <= Len(init)
      BY <1>2
    <3> QED BY <1>5, <1>6, <1>7, <3>1 DEF first, second
  <2>2. ASSUME NEW i \in 1 .. Len(kids)
        PROVE  /\ Len(init) + i \in 1 .. Len(refs)
               /\ refs[Len(init) + i] = [node |-> kids[i], subplan |-> FALSE]
    <3>1. /\ Len(init) + i \in 1 .. Len(init) + Len(kids) + Len(subs)
          /\ Len(init) + i \in 1 .. Len(init) + Len(kids)
          /\ Len(init) + i <= Len(init) + Len(kids) /\ ~(Len(init) + i <= Len(init))
          /\ (Len(init) + i) - Len(init) = i
      BY <1>2
    <3> QED BY <1>5, <1>6, <1>7, <3>1 DEF first, second
  <2>3. ASSUME NEW i \in 1 .. Len(subs)
        PROVE  /\ Len(init) + Len(kids) + i \in 1 .. Len(refs)
               /\ refs[Len(init) + Len(kids) + i] = [node |-> subs[i], subplan |-> TRUE]
    <3>1. /\ Len(init) + Len(kids) + i \in 1 .. Len(init) + Len(kids) + Len(subs)
          /\ ~(Len(init) + Len(kids) + i <= Len(init) + Len(kids))
          /\ (Len(init) + Len(kids) + i) - (Len(init) + Len(kids)) = i
      BY <1>2
    <3> QED BY <1>5, <1>7, <3>1 DEF third
  <2> QED BY <2>1, <2>2, <2>3
<1>9. \A i \in 1 .. Len(refs) :
        \/ i \in 1 .. Len(init)
        \/ i - Len(init) \in 1 .. Len(kids) /\ i = Len(init) + (i - Len(init))
        \/ /\ i - Len(init) - Len(kids) \in 1 .. Len(subs)
           /\ i = Len(init) + Len(kids) + (i - Len(init) - Len(kids))
  BY <1>2, <1>7
<1>10. \A i \in 1 .. Len(refs) :
         \/ refs[i].subplan /\ refs[i].node \in ToSet(init) \cup ToSet(subs)
         \/ \E k \in DOMAIN kids : /\ refs[i] = [node |-> kids[k], subplan |-> FALSE]
                                   /\ i = Len(init) + k
  <2> SUFFICES ASSUME NEW i \in 1 .. Len(refs)
               PROVE  \/ refs[i].subplan /\ refs[i].node \in ToSet(init) \cup ToSet(subs)
                      \/ \E k \in DOMAIN kids :
                           /\ refs[i] = [node |-> kids[k], subplan |-> FALSE]
                           /\ i = Len(init) + k
    OBVIOUS
  <2>1. CASE i \in 1 .. Len(init)
    <3>1. refs[i] = [node |-> init[i], subplan |-> TRUE] BY <1>8, <2>1
    <3>2. init[i] \in ToSet(init) BY <1>2, <2>1 DEF ToSet
    <3> QED BY <3>1, <3>2
  <2>2. CASE i - Len(init) \in 1 .. Len(kids) /\ i = Len(init) + (i - Len(init))
    <3>1. refs[i] = [node |-> kids[i - Len(init)], subplan |-> FALSE] BY <1>8, <2>2
    <3>2. i - Len(init) \in DOMAIN kids BY <1>2, <2>2
    <3> QED BY <2>2, <3>1, <3>2
  <2>3. CASE /\ i - Len(init) - Len(kids) \in 1 .. Len(subs)
             /\ i = Len(init) + Len(kids) + (i - Len(init) - Len(kids))
    <3> DEFINE j == i - Len(init) - Len(kids)
    <3>1. j \in 1 .. Len(subs) /\ i = Len(init) + Len(kids) + j BY <2>3
    <3> HIDE DEF j
    <3>2. refs[i] = [node |-> subs[j], subplan |-> TRUE] BY <1>8, <3>1
    <3>3. subs[j] \in ToSet(subs) BY <1>2, <3>1 DEF ToSet
    <3> QED BY <3>2, <3>3
  <2> QED BY <1>9, <2>1, <2>2, <2>3
<1>11. \A m \in ToSet(init) \cup ToSet(kids) \cup ToSet(subs) :
         \E i \in 1 .. Len(refs) : refs[i].node = m
  <2>1. \A m \in ToSet(init) : \E i \in 1 .. Len(refs) : refs[i].node = m
    <3>1. ASSUME NEW k \in 1 .. Len(init) PROVE \E i \in 1 .. Len(refs) : refs[i].node = init[k]
      <4>1. k \in 1 .. Len(refs) BY <1>8
      <4>2. refs[k] = [node |-> init[k], subplan |-> TRUE] BY <1>8
      <4> QED BY <4>1, <4>2
    <3> QED BY <1>2, <3>1 DEF ToSet
  <2>2. \A m \in ToSet(kids) : \E i \in 1 .. Len(refs) : refs[i].node = m
    <3>1. ASSUME NEW k \in 1 .. Len(kids) PROVE \E i \in 1 .. Len(refs) : refs[i].node = kids[k]
      <4>1. Len(init) + k \in 1 .. Len(refs) BY <1>8
      <4>2. refs[Len(init) + k] = [node |-> kids[k], subplan |-> FALSE] BY <1>8
      <4> QED BY <4>1, <4>2
    <3> QED BY <1>2, <3>1 DEF ToSet
  <2>3. \A m \in ToSet(subs) : \E i \in 1 .. Len(refs) : refs[i].node = m
    <3>1. ASSUME NEW k \in 1 .. Len(subs) PROVE \E i \in 1 .. Len(refs) : refs[i].node = subs[k]
      <4>1. Len(init) + Len(kids) + k \in 1 .. Len(refs) BY <1>8
      <4>2. refs[Len(init) + Len(kids) + k] = [node |-> subs[k], subplan |-> TRUE] BY <1>8
      <4> QED BY <4>1, <4>2
    <3> QED BY <1>2, <3>1 DEF ToSet
  <2> QED BY <2>1, <2>2, <2>3
<1>12. DOMAIN refs = 1 .. Len(refs) /\ Len(refs) \in Nat BY <1>2, <1>7
<1> QED BY <1>10, <1>11, <1>12 DEF refs, init, kids, subs

\* What it means for the pointers that plans are trees.
LEMMA TreeRefs ==
  ASSUME plan \in Plans
  PROVE  /\ Root \notin SubPlans(plan)
         /\ \A m \in Node : \A i \in 1 .. Len(plan_state_children(m)) :
              LET ref == plan_state_children(m)[i]
              IN  /\ ref.subplan => ref.node \in SubPlans(plan)
                  /\ ~ref.subplan => ref.node \notin SubPlans(plan) \cup {Root}
                  /\ ref = [node |-> ref.node, subplan |-> ref.subplan]
                  /\ ref.node # Null => ref.node \in Node
                  /\ ref.subplan => ref.node # Null
         /\ \A m, n \in Node : \A i \in 1 .. Len(plan_state_children(m)) :
              \A j \in 1 .. Len(plan_state_children(n)) :
                LET r == plan_state_children(m)[i]
                    s == plan_state_children(n)[j]
                IN  r.node = s.node /\ r.node # Null /\ ~r.subplan /\ ~s.subplan => m = n /\ i = j
<1>1. /\ Root \notin SubPlans(plan)
      /\ \A m \in Node : ToSet(plan.kids[m]) \cap (SubPlans(plan) \cup {Root}) = {}
      /\ \A m, n \in Node : \A i \in DOMAIN plan.kids[m], j \in DOMAIN plan.kids[n] :
           plan.kids[m][i] = plan.kids[n][j] /\ plan.kids[m][i] # Null => m = n /\ i = j
  BY TreeAssumption DEF TreeAssumption
<1>2. ASSUME NEW m \in Node, NEW i \in 1 .. Len(plan_state_children(m))
      PROVE  LET ref == plan_state_children(m)[i]
             IN  /\ ref.subplan => ref.node \in SubPlans(plan)
                 /\ ~ref.subplan => ref.node \notin SubPlans(plan) \cup {Root}
                 /\ ref = [node |-> ref.node, subplan |-> ref.subplan]
                 /\ ref.node # Null => ref.node \in Node
                 /\ ref.subplan => ref.node # Null
  <2> DEFINE ref == plan_state_children(m)[i]
  <2>1. \/ ref.subplan /\ ref.node \in ToSet(plan.init[m]) \cup ToSet(plan.subs[m])
        \/ \E k \in DOMAIN plan.kids[m] : ref = [node |-> plan.kids[m][k], subplan |-> FALSE]
    BY RefsAt
  <2>2. ref \in Ref
    <3>1. plan_state_children(m) \in Seq(Ref) BY RefsType
    <3> QED BY <3>1, ElementOfSeq
  <2> HIDE DEF ref
  <2>3. ref.subplan => ref.node \in SubPlans(plan)
    <3>1. \A k \in DOMAIN plan.kids[m] : [node |-> plan.kids[m][k], subplan |-> FALSE].subplan = FALSE
      OBVIOUS
    <3> QED BY <2>1, <3>1 DEF SubPlans
  <2>4. ~ref.subplan => ref.node \in ToSet(plan.kids[m]) BY <2>1 DEF ToSet
  <2>5. Null \notin Node BY PlanAssumption DEF PlanAssumption
  <2> QED BY <1>1, <2>2, <2>3, <2>4, <2>5 DEF Ref, ref
<1>3. ASSUME NEW m \in Node, NEW n \in Node, NEW i \in 1 .. Len(plan_state_children(m)),
             NEW j \in 1 .. Len(plan_state_children(n)),
             plan_state_children(m)[i].node = plan_state_children(n)[j].node,
             plan_state_children(m)[i].node # Null,
             ~plan_state_children(m)[i].subplan, ~plan_state_children(n)[j].subplan
      PROVE  m = n /\ i = j
  <2>1. PICK k \in DOMAIN plan.kids[m] :
          /\ plan_state_children(m)[i] = [node |-> plan.kids[m][k], subplan |-> FALSE]
          /\ i = Len(plan.init[m]) + k
    BY <1>3, RefsAt
  <2>2. PICK l \in DOMAIN plan.kids[n] :
          /\ plan_state_children(n)[j] = [node |-> plan.kids[n][l], subplan |-> FALSE]
          /\ j = Len(plan.init[n]) + l
    BY <1>3, RefsAt
  <2>3. plan.kids[m][k] = plan.kids[n][l] /\ plan.kids[m][k] # Null BY <1>3, <2>1, <2>2
  <2> QED BY <1>1, <2>1, <2>2, <2>3
<1> QED BY <1>1, <1>2, <1>3
\* The visit takes a node from the stack that was not visited before.
LEMMA VisitOnce ==
  ASSUME TypeInv, OnceInv, Visit
  PROVE  LET n == stack[Len(stack)].node
         IN  /\ n \in Node /\ n # Null /\ node' = n /\ node = Null
             /\ visited' = Append(visited, n) /\ ToSet(visited') = ToSet(visited) \cup {n}
             /\ n \in Waiting /\ n \notin ToSet(visited)
             /\ Waiting' = Waiting \ {n} /\ Found = {} /\ Found' = {}
             /\ Reached' = Reached
             /\ OnceInv'
<1> DEFINE n == stack[Len(stack)].node
<1>1. /\ Len(stack) > 0 /\ n \in Node
      /\ stack' = SubSeq(stack, 1, Len(stack) - 1) /\ node' = n
  BY VisitFacts
<1>2. /\ visited' = Append(visited, n) /\ children' = << >> /\ node = Null
  BY DEF Visit, Last
<1>3. n # Null BY <1>1, PlanAssumption DEF PlanAssumption
<1>4. /\ Len(stack) \in Nat /\ Len(stack') = Len(stack) - 1
      /\ \A k \in 1 .. Len(stack) - 1 : stack'[k] = stack[k]
  <2>1. stack \in Seq([node : Node, parent : Link]) BY DEF TypeInv, TypeOK
  <2> QED BY <1>1, <2>1, Popped
<1>5. \A j, k \in 1 .. Len(stack) : stack[j].node = stack[k].node => j = k BY DEF OnceInv
<1> HIDE DEF n
<1>6. Len(stack) \in 1 .. Len(stack) /\ stack[Len(stack)].node = n BY <1>1, <1>4 DEF n
<1>7. n \in Waiting BY <1>6 DEF Waiting
<1>8. Waiting' = Waiting \ {n}
  <2>1. ASSUME NEW k \in 1 .. Len(stack') PROVE stack'[k].node \in Waiting \ {n}
    <3>1. k \in 1 .. Len(stack) /\ k # Len(stack) /\ stack'[k] = stack[k] BY <1>4
    <3> QED BY <1>5, <1>6, <3>1 DEF Waiting
  <2>2. ASSUME NEW k \in 1 .. Len(stack), stack[k].node # n PROVE stack[k].node \in Waiting'
    <3>1. k \in 1 .. Len(stack') /\ stack'[k] = stack[k] BY <1>4, <1>6, <2>2
    <3> QED BY <3>1 DEF Waiting
  <2> QED BY <2>1, <2>2 DEF Waiting
<1>9. Found = {} /\ Found' = {}
  <2>1. ToSet(<< >>) = {} BY DEF ToSet
  <2> QED BY <1>2, <2>1 DEF Found
<1>10. n \notin ToSet(visited) BY <1>7 DEF OnceInv
<1>11. visited \in Seq(Node) BY DEF TypeInv, TypeOK
<1>12. ToSet(visited') = ToSet(visited) \cup {n} /\ IsInjective(visited')
  BY <1>1, <1>2, <1>10, <1>11, AppendOnce DEF OnceInv
<1>13. Reached' = Reached BY <1>7, <1>8, <1>9, <1>12 DEF Reached
<1>14. OnceInv'
  <2>1. \A j, k \in 1 .. Len(stack') : stack'[j].node = stack'[k].node => j = k
    BY <1>4, <1>5
  <2>2. IsInjective(children') BY <1>2 DEF IsInjective
  <2>3. ToSet(visited') \cap Waiting' = {} BY <1>8, <1>12 DEF OnceInv
  <2> QED BY <1>9, <1>12, <2>1, <2>2, <2>3 DEF OnceInv
<1> QED BY <1>1, <1>2, <1>3, <1>7, <1>8, <1>9, <1>10, <1>12, <1>13, <1>14 DEF n

\* What the stack is when the children have been put on top of it.
LEMMA DescendStack ==
  ASSUME TypeInv, Descend
  PROVE  /\ Len(stack) \in Nat /\ Len(children) \in Nat
         /\ Len(stack') = Len(stack) + Len(children)
         /\ \A k \in 1 .. Len(stack) : stack'[k] = stack[k]
         /\ \A k \in 1 .. Len(children) :
              stack'[Len(stack) + k] =
                [node |-> children[Len(children) - k + 1], parent |-> link]
<1> DEFINE Entry == [node : Node, parent : Link]
           below == [j \in 1 .. Len(children) |-> [node |-> children[j], parent |-> link]]
<1>1. stack \in Seq(Entry) /\ children \in Seq(Node) /\ link \in Link
  BY DEF TypeInv, TypeOK
<1>2. /\ below \in Seq(Entry) /\ Len(below) = Len(children)
      /\ Len(stack) \in Nat /\ Len(children) \in Nat
  BY <1>1
<1>3. /\ Reverse(below) \in Seq(Entry) /\ Len(Reverse(below)) = Len(children)
      /\ \A k \in 1 .. Len(children) :
           Reverse(below)[k] = [node |-> children[Len(children) - k + 1], parent |-> link]
  <2>1. \A k \in 1 .. Len(below) : (Len(below) - k) + 1 \in 1 .. Len(below) BY <1>2
  <2>2. \A k \in 1 .. Len(children) : below[k] = [node |-> children[k], parent |-> link]
    OBVIOUS
  <2> HIDE DEF Entry, below
  <2>3. Reverse(below) \in Seq(Entry) BY <1>2, <2>1 DEF Reverse
  <2>4. Len(Reverse(below)) = Len(below) BY <1>2 DEF Reverse
  <2>5. \A k \in 1 .. Len(below) : Reverse(below)[k] = below[(Len(below) - k) + 1]
    BY DEF Reverse
  <2> QED BY <1>2, <2>1, <2>2, <2>3, <2>4, <2>5
<1>4. stack' = stack \o Reverse(below) BY DEF Descend
<1> DEFINE top == Reverse(below)
<1> HIDE DEF top, Entry
<1>5. top \in Seq(Entry) BY <1>3 DEF top
<1>6. /\ Len(stack \o top) = Len(stack) + Len(top)
      /\ \A k \in 1 .. Len(stack) + Len(top) :
           (stack \o top)[k] = IF k <= Len(stack) THEN stack[k] ELSE top[k - Len(stack)]
  BY <1>1, <1>5, ConcatProperties
<1>7. /\ Len(stack') = Len(stack) + Len(children)
      /\ \A k \in 1 .. Len(stack) + Len(children) :
           stack'[k] = IF k <= Len(stack) THEN stack[k] ELSE top[k - Len(stack)]
  BY <1>3, <1>4, <1>6 DEF top
<1>8. \A k \in 1 .. Len(stack) : stack'[k] = stack[k] BY <1>2, <1>7
<1>9. ASSUME NEW k \in 1 .. Len(children)
      PROVE  stack'[Len(stack) + k] = [node |-> children[Len(children) - k + 1], parent |-> link]
  <2>1. /\ Len(stack) + k \in 1 .. Len(stack) + Len(children) /\ ~(Len(stack) + k <= Len(stack))
        /\ (Len(stack) + k) - Len(stack) = k
    BY <1>2
  <2>2. stack'[Len(stack) + k] = top[k] BY <1>7, <2>1
  <2> QED BY <1>3, <2>2 DEF top
<1> QED BY <1>2, <1>7, <1>8, <1>9

\* The children move from the list to the stack.
LEMMA DescendOnce ==
  ASSUME TypeInv, OnceInv, Descend
  PROVE  /\ node # Null /\ node' = Null /\ visited' = visited
         /\ Waiting' = Waiting \cup Found /\ Found' = {} /\ Reached' = Reached
         /\ OnceInv'
<1>1. node # Null /\ node' = Null /\ visited' = visited BY DEF Descend
<1>2. /\ Len(stack) \in Nat /\ Len(children) \in Nat
      /\ Len(stack') = Len(stack) + Len(children)
      /\ \A k \in 1 .. Len(stack) : stack'[k] = stack[k]
      /\ \A k \in 1 .. Len(children) :
           stack'[Len(stack) + k].node = children[Len(children) - k + 1]
  <2>1. /\ Len(stack) \in Nat /\ Len(children) \in Nat
        /\ Len(stack') = Len(stack) + Len(children)
        /\ \A k \in 1 .. Len(stack) : stack'[k] = stack[k]
    BY DescendStack
  <2>2. ASSUME NEW k \in 1 .. Len(children)
        PROVE  stack'[Len(stack) + k].node = children[Len(children) - k + 1]
    <3>1. stack'[Len(stack) + k] = [node |-> children[Len(children) - k + 1], parent |-> link]
      BY DescendStack
    <3> QED BY <3>1
  <2> QED BY <2>1, <2>2
<1>3. children \in Seq(Node) /\ DOMAIN children = 1 .. Len(children)
  BY DEF TypeInv, TypeOK
<1>4. Found = ToSet(children) BY <1>1 DEF Found
<1>5. \A k \in 1 .. Len(stack') :
        \/ k \in 1 .. Len(stack) /\ stack'[k] = stack[k]
        \/ /\ k - Len(stack) \in 1 .. Len(children)
           /\ Len(children) - (k - Len(stack)) + 1 \in 1 .. Len(children)
           /\ stack'[k].node = children[Len(children) - (k - Len(stack)) + 1]
  <2> SUFFICES ASSUME NEW k \in 1 .. Len(stack'), ~(k \in 1 .. Len(stack))
               PROVE  /\ k - Len(stack) \in 1 .. Len(children)
                      /\ Len(children) - (k - Len(stack)) + 1 \in 1 .. Len(children)
                      /\ stack'[k].node = children[Len(children) - (k - Len(stack)) + 1]
    BY <1>2
  <2>1. /\ k - Len(stack) \in 1 .. Len(children)
        /\ Len(children) - (k - Len(stack)) + 1 \in 1 .. Len(children)
        /\ Len(stack) + (k - Len(stack)) = k
    BY <1>2
  <2> QED BY <1>2, <2>1
<1>6. Waiting' = Waiting \cup Found
  <2>1. \A k \in 1 .. Len(stack') : stack'[k].node \in Waiting \cup Found
    BY <1>3, <1>4, <1>5 DEF Waiting, ToSet
  <2>2. \A k \in 1 .. Len(stack) : stack[k].node \in Waiting'
    <3>1. \A k \in 1 .. Len(stack) : k \in 1 .. Len(stack') /\ stack'[k] = stack[k] BY <1>2
    <3> QED BY <3>1 DEF Waiting
  <2>3. ASSUME NEW i \in 1 .. Len(children) PROVE children[i] \in Waiting'
    <3> DEFINE k == Len(children) - i + 1
    <3>1. /\ k \in 1 .. Len(children) /\ Len(children) - k + 1 = i
          /\ Len(stack) + k \in 1 .. Len(stack')
      BY <1>2
    <3> HIDE DEF k
    <3>2. stack'[Len(stack) + k].node = children[i] BY <1>2, <3>1
    <3> QED BY <3>1, <3>2 DEF Waiting
  <2> QED BY <1>3, <1>4, <2>1, <2>2, <2>3 DEF Waiting, ToSet
<1>7. Found' = {} BY <1>1 DEF Found
<1>8. \A j, k \in 1 .. Len(stack') : stack'[j].node = stack'[k].node => j = k
  <2> SUFFICES ASSUME NEW j \in 1 .. Len(stack'), NEW k \in 1 .. Len(stack'),
                      stack'[j].node = stack'[k].node
               PROVE  j = k
    OBVIOUS
  <2>1. \A i \in 1 .. Len(children) : children[i] \in Found BY <1>3, <1>4 DEF ToSet
  <2>2. \A i \in 1 .. Len(stack) : stack[i].node \in Waiting BY DEF Waiting
  <2>3. \A i, l \in 1 .. Len(stack) : stack[i].node = stack[l].node => i = l BY DEF OnceInv
  <2>4. \A i, l \in 1 .. Len(children) : children[i] = children[l] => i = l
    BY <1>1, <1>3 DEF OnceInv, IsInjective
  <2>5. Waiting \cap Found = {} BY DEF OnceInv
  <2>6. CASE j \in 1 .. Len(stack) /\ stack'[j] = stack[j]
    BY <1>5, <2>1, <2>2, <2>3, <2>5, <2>6
  <2>7. CASE /\ j - Len(stack) \in 1 .. Len(children)
             /\ Len(children) - (j - Len(stack)) + 1 \in 1 .. Len(children)
             /\ stack'[j].node = children[Len(children) - (j - Len(stack)) + 1]
    <3>1. CASE k \in 1 .. Len(stack) /\ stack'[k] = stack[k]
      BY <2>1, <2>2, <2>5, <2>7, <3>1
    <3>2. CASE /\ k - Len(stack) \in 1 .. Len(children)
               /\ Len(children) - (k - Len(stack)) + 1 \in 1 .. Len(children)
               /\ stack'[k].node = children[Len(children) - (k - Len(stack)) + 1]
      <4>1. Len(children) - (j - Len(stack)) + 1 = Len(children) - (k - Len(stack)) + 1
        BY <2>4, <2>7, <3>2
      <4> QED BY <1>2, <4>1
    <3> QED BY <1>5, <3>1, <3>2
  <2> QED BY <1>5, <2>6, <2>7
<1>9. Reached' = Reached BY <1>1, <1>6, <1>7 DEF Reached
<1>10. OnceInv' BY <1>1, <1>6, <1>7, <1>8 DEF OnceInv
<1> QED BY <1>1, <1>6, <1>7, <1>9, <1>10

\* A reference that counts as a child leads to a node that was not reached before.
LEMMA ReferOnce ==
  ASSUME TypeInv, OnceInv, ReachInv, Refer
  PROVE  LET ref   == plan_state_children(node)[at]
             child == IF ref.subplan THEN unprinted(ref.node) ELSE push_child(ref.node)
         IN  /\ node # Null /\ node' = node /\ node \in Node /\ visited' = visited
             /\ stack' = stack /\ Waiting' = Waiting
             /\ at \in 1 .. Len(plan_state_children(node)) /\ at' = at + 1
             /\ child => ref.node \in Node \ Reached
             /\ Found' = IF child THEN Found \cup {ref.node} ELSE Found
             /\ Reached' = IF child THEN Reached \cup {ref.node} ELSE Reached
             /\ OnceInv'
<1> DEFINE refs  == plan_state_children(node)
           ref   == refs[at]
           child == IF ref.subplan THEN unprinted(ref.node) ELSE push_child(ref.node)
<1>1. /\ node # Null /\ node' = node /\ visited' = visited /\ stack' = stack
      /\ at <= Len(refs) /\ at' = at + 1
      /\ children' = IF child THEN Append(children, ref.node) ELSE children
  BY DEF Refer
<1>2. node \in Node /\ plan \in Plans BY <1>1 DEF TypeInv, TypeOK
<1>3. at \in 1 .. Len(refs)
  <2>1. Len(refs) \in Nat BY <1>2, RefsAt
  <2> QED BY <1>1, <2>1 DEF TypeInv, TypeOK
<1>4. /\ Root \notin SubPlans(plan)
      /\ ref.subplan => ref.node \in SubPlans(plan)
      /\ ~ref.subplan => ref.node \notin SubPlans(plan) \cup {Root}
      /\ ref.node # Null => ref.node \in Node
      /\ ref.subplan => ref.node # Null
  BY <1>2, <1>3, TreeRefs
<1>5. ASSUME child PROVE ref.node \in Node \ Reached
  <2>1. ref.node \in Node /\ ref.node # Null BY <1>4, <1>5 DEF push_child
  <2>2. ref.node \notin printed
    BY <1>4, <1>5 DEF unprinted, ReachInv
  <2>3. ref.node # Root BY <1>4
  <2>4. ASSUME NEW m \in ToSet(visited), NEW i \in Passed(m),
               plan_state_children(m)[i] = [node |-> ref.node, subplan |-> FALSE]
        PROVE  FALSE
    <3>1. m \in Node
      <4>1. visited \in Seq(Node) BY DEF TypeInv, TypeOK
      <4> QED BY <4>1, InToSet
    <3>2. i \in 1 .. Len(plan_state_children(m)) /\ (m = node => i < at) BY DEF Passed
    <3>3. /\ plan_state_children(m)[i].node = ref.node
          /\ ~plan_state_children(m)[i].subplan
      BY <2>4
    <3>4. ref.node \notin SubPlans(plan) BY <1>2, <3>1, <3>2, <3>3, TreeRefs
    <3>5. ~ref.subplan BY <1>4, <3>4
    <3>6. m = node /\ i = at BY <1>2, <1>3, <2>1, <3>1, <3>2, <3>3, <3>5, TreeRefs
    <3> QED BY <1>3, <3>2, <3>6
  <2>5. ref.node \notin Reached BY <2>2, <2>3, <2>4 DEF ReachInv
  <2> QED BY <2>1, <2>5
<1> HIDE DEF child, ref
<1>6. children \in Seq(Node) BY DEF TypeInv, TypeOK
<1>7. Found' = IF child THEN Found \cup {ref.node} ELSE Found
  <2>1. node' = node /\ node # Null BY <1>1
  <2>2. CASE child
    <3> DEFINE more == Append(children, ref.node)
    <3>1. children' = more BY <1>1, <2>2
    <3>2. ToSet(more) = ToSet(children) \cup {ref.node} BY <1>5, <1>6, <2>2, AppendOnce
    <3> HIDE DEF more
    <3> QED BY <2>1, <2>2, <3>1, <3>2 DEF Found
  <2>3. CASE ~child
    <3>1. children' = children BY <1>1, <2>3
    <3> QED BY <2>1, <2>3, <3>1 DEF Found
  <2> QED BY <2>2, <2>3
<1>8. Waiting' = Waiting BY <1>1 DEF Waiting
<1>9. Reached' = IF child THEN Reached \cup {ref.node} ELSE Reached
  BY <1>1, <1>7, <1>8 DEF Reached
<1>10. IsInjective(children')
  <2>1. IsInjective(children) BY <1>1 DEF OnceInv
  <2>2. child => ref.node \notin ToSet(children) BY <1>1, <1>5 DEF Reached, Found
  <2> QED BY <1>1, <1>5, <1>6, <2>1, <2>2, AppendOnce
<1>11. OnceInv'
  <2>1. ToSet(visited) \cap Found' = {} /\ Waiting \cap Found' = {}
    BY <1>5, <1>7 DEF OnceInv, Reached
  <2> QED BY <1>1, <1>8, <1>10, <2>1 DEF OnceInv
<1> QED BY <1>1, <1>2, <1>3, <1>5, <1>7, <1>8, <1>9, <1>11 DEF child, ref
\* Before anything was visited.
LEMMA InitReach ==
  ASSUME Init
  PROVE  OnceInv /\ ReachInv /\ HangsInv /\ FollowInv
<1>1. /\ node = Null /\ visited = << >> /\ printed = {} /\ hangs = [n \in {Root} |-> Null]
      /\ Len(stack) = 1 /\ stack[1].node = Root
  BY DEF Init
<1>2. Waiting = {Root} /\ Found = {} /\ ToSet(visited) = {} /\ Reached = {Root}
  <2>1. Waiting = {Root} BY <1>1 DEF Waiting
  <2>2. Found = {} /\ ToSet(visited) = {} BY <1>1 DEF Found, ToSet
  <2> QED BY <2>1, <2>2 DEF Reached
<1>3. OnceInv
  <2>1. IsInjective(visited) BY <1>1 DEF IsInjective
  <2> QED BY <1>1, <1>2, <2>1 DEF OnceInv
<1>4. ReachInv BY <1>1, <1>2 DEF ReachInv
<1>5. HangsInv BY <1>1, <1>2 DEF HangsInv
<1>6. Root \in InPlan BY PlanAssumption DEF PlanAssumption, InPlan
<1> QED BY <1>2, <1>3, <1>4, <1>5, <1>6 DEF FollowInv

\* A node that is visited is nobody's child's parent yet.
LEMMA VisitReach ==
  ASSUME TypeInv, OnceInv, ReachInv, HangsInv, FollowInv, Visit
  PROVE  ReachInv' /\ HangsInv' /\ FollowInv'
<1> DEFINE n == stack[Len(stack)].node
<1>1. /\ n \in Node /\ n # Null /\ node' = n /\ node = Null
      /\ ToSet(visited') = ToSet(visited) \cup {n} /\ n \notin ToSet(visited)
      /\ Reached' = Reached
  BY VisitOnce
<1>2. UNCHANGED <<plan, printed, hangs>> /\ at' = 1 BY DEF Visit
<1> HIDE DEF n
<1>3. ToSet(visited) \subseteq Node
  <2>1. visited \in Seq(Node) BY DEF TypeInv, TypeOK
  <2> QED BY <2>1, InToSet
<1>4. \A m : plan_state_children(m)' = plan_state_children(m)
  BY <1>2 DEF plan_state_children, Refs
<1>5. \A m \in ToSet(visited) : Passed(m)' = Passed(m)
  BY <1>1, <1>2, <1>3, <1>4, PlanAssumption DEF Passed, PlanAssumption
<1>6. \A m : m = n => Passed(m)' = {}
  BY <1>1, <1>2, <1>4 DEF Passed
<1>7. ReachInv'
  <2>1. SubPlans(plan)' = SubPlans(plan) BY <1>2 DEF SubPlans
  <2>2. ASSUME NEW r \in Reached
        PROVE  \/ r = Root \/ r \in printed
               \/ \E m \in ToSet(visited)' : \E i \in Passed(m)' :
                    plan_state_children(m)'[i] = [node |-> r, subplan |-> FALSE]
    BY <1>1, <1>4, <1>5 DEF ReachInv
  <2> QED BY <1>1, <1>2, <2>1, <2>2 DEF ReachInv
<1>8. HangsInv' BY <1>1, <1>2 DEF HangsInv
<1>9. FollowInv'
  <2>1. InPlan' = InPlan BY <1>2 DEF InPlan, successors
  <2> QED BY <1>1, <1>4, <1>5, <1>6, <2>1 DEF FollowInv
<1> QED BY <1>7, <1>8, <1>9

\* The children were found by following all references of their parent.
LEMMA DescendReach ==
  ASSUME TypeInv, OnceInv, ReachInv, HangsInv, FollowInv, Descend
  PROVE  ReachInv' /\ HangsInv' /\ FollowInv'
<1>1. /\ node # Null /\ node' = Null /\ visited' = visited /\ Reached' = Reached
  BY DescendOnce
<1>2. UNCHANGED <<plan, printed, hangs, at>> /\ at > Len(plan_state_children(node))
  BY DEF Descend
<1>3. ToSet(visited) \subseteq Node /\ node \in Node /\ plan \in Plans /\ at \in Nat
  <2>1. visited \in Seq(Node) BY DEF TypeInv, TypeOK
  <2> QED BY <1>1, <2>1, InToSet DEF TypeInv, TypeOK
<1>4. \A m : plan_state_children(m)' = plan_state_children(m)
  BY <1>2 DEF plan_state_children, Refs
<1>5. \A m \in ToSet(visited) : Passed(m)' = Passed(m)
  <2> SUFFICES ASSUME NEW m \in ToSet(visited) PROVE Passed(m)' = Passed(m) OBVIOUS
  <2>1. CASE m = node
    <3>1. Len(plan_state_children(node)) \in Nat BY <1>3, RefsAt
    <3>2. \A i \in 1 .. Len(plan_state_children(node)) : i < at BY <1>2, <1>3, <3>1
    <3> QED BY <1>1, <1>2, <1>4, <2>1, <3>2 DEF Passed
  <2>2. CASE m # node
    <3>1. m # Null BY <1>3, PlanAssumption DEF PlanAssumption
    <3> QED BY <1>1, <1>4, <2>2, <3>1 DEF Passed
  <2> QED BY <2>1, <2>2
<1>6. ReachInv'
  <2>1. SubPlans(plan)' = SubPlans(plan) BY <1>2 DEF SubPlans
  <2> QED BY <1>1, <1>2, <1>4, <1>5, <2>1 DEF ReachInv
<1>7. HangsInv' BY <1>1, <1>2 DEF HangsInv
<1>8. FollowInv'
  <2>1. InPlan' = InPlan BY <1>2 DEF InPlan, successors
  <2> QED BY <1>1, <1>4, <1>5, <2>1 DEF FollowInv
<1> QED BY <1>6, <1>7, <1>8

\* The nodes that the pointers of a node lead to.
LEMMA SuccessorsAre ==
  ASSUME plan \in Plans, NEW m \in Node
  PROVE  successors(m) =
           (ToSet(plan.init[m]) \cup ToSet(plan.kids[m]) \cup ToSet(plan.subs[m])) \ {Null}
<1>1. /\ plan.init[m] \in Seq(Node) /\ plan.subs[m] \in Seq(Node)
      /\ plan.kids[m] \in Seq(Node \cup {Null})
  BY PlanType
<1>2. plan.init[m] \in Seq(Node \cup {Null}) /\ plan.subs[m] \in Seq(Node \cup {Null})
  BY <1>1, SeqMonotonic
<1>3. plan.init[m] \o plan.kids[m] \in Seq(Node \cup {Null}) BY <1>1, <1>2, ConcatProperties
<1>4. ToSet(plan.init[m] \o plan.kids[m]) = ToSet(plan.init[m]) \cup ToSet(plan.kids[m])
  BY <1>1, <1>2, ToSetConcat
<1>5. ToSet(plan.init[m] \o plan.kids[m] \o plan.subs[m]) =
        ToSet(plan.init[m] \o plan.kids[m]) \cup ToSet(plan.subs[m])
  <2> DEFINE front == plan.init[m] \o plan.kids[m]
  <2>1. front \in Seq(Node \cup {Null}) /\ plan.subs[m] \in Seq(Node \cup {Null})
    BY <1>2, <1>3
  <2> HIDE DEF front
  <2>2. ToSet(front \o plan.subs[m]) = ToSet(front) \cup ToSet(plan.subs[m])
    BY <2>1, ToSetConcat
  <2> QED BY <2>2 DEF front
<1> QED BY <1>4, <1>5 DEF successors

\* What a reference of a node of the plan leads to belongs to the plan.
LEMMA Follows ==
  ASSUME plan \in Plans, NEW m \in InPlan, NEW i \in 1 .. Len(plan_state_children(m)),
         plan_state_children(m)[i].node # Null
  PROVE  plan_state_children(m)[i].node \in InPlan
<1> DEFINE n == plan_state_children(m)[i].node
<1>1. m \in Node BY DEF InPlan
<1>3. n \in Node BY <1>1, TreeRefs
<1>4. n \in ToSet(plan.init[m]) \cup ToSet(plan.kids[m]) \cup ToSet(plan.subs[m])
  <2>1. \/ n \in ToSet(plan.init[m]) \cup ToSet(plan.subs[m])
        \/ \E k \in DOMAIN plan.kids[m] :
             plan_state_children(m)[i] = [node |-> plan.kids[m][k], subplan |-> FALSE]
    BY <1>1, RefsAt
  <2>2. ASSUME NEW k \in DOMAIN plan.kids[m],
               plan_state_children(m)[i] = [node |-> plan.kids[m][k], subplan |-> FALSE]
        PROVE  n \in ToSet(plan.kids[m])
    <3>1. n = plan.kids[m][k] BY <2>2
    <3> QED BY <3>1 DEF ToSet
  <2> QED BY <2>1, <2>2
<1> HIDE DEF n
<1>5. n \in successors(m) BY <1>1, <1>4, SuccessorsAre DEF n
<1> QED BY <1>3, <1>5 DEF InPlan, n

\* One more reference has been followed.
LEMMA ReferReach ==
  ASSUME TypeInv, OnceInv, ReachInv, HangsInv, FollowInv, Refer
  PROVE  ReachInv' /\ HangsInv' /\ FollowInv'
<1> DEFINE refs  == plan_state_children(node)
           ref   == refs[at]
           child == IF ref.subplan THEN unprinted(ref.node) ELSE push_child(ref.node)
<1>1. /\ node # Null /\ node' = node /\ node \in Node /\ visited' = visited
      /\ at \in 1 .. Len(refs) /\ at' = at + 1
      /\ child => ref.node \in Node \ Reached
      /\ Reached' = IF child THEN Reached \cup {ref.node} ELSE Reached
  BY ReferOnce
<1>2. /\ plan' = plan /\ plan \in Plans
      /\ printed' = IF ref.subplan THEN printed \cup {ref.node} ELSE printed
      /\ hangs' = IF child
                  THEN [n \in DOMAIN hangs \cup {ref.node} |->
                          IF n = ref.node THEN node ELSE hangs[n]]
                  ELSE hangs
  BY DEF Refer, TypeInv
<1>3. \A m : plan_state_children(m)' = plan_state_children(m)
  BY <1>2 DEF plan_state_children, Refs
<1>4. /\ \A m \in Node : m # node => Passed(m)' = Passed(m)
      /\ \A m : m = node => Passed(m)' = Passed(m) \cup {at}
  <2>1. \A i \in 1 .. Len(refs) : i < at + 1 <=> i < at \/ i = at BY <1>1
  <2> QED BY <1>1, <1>3, <2>1 DEF Passed
<1>5. /\ ref.subplan => ref.node \in SubPlans(plan)
      /\ ref = [node |-> ref.node, subplan |-> ref.subplan]
      /\ ref.subplan \in BOOLEAN
  <2>1. refs \in Seq(Ref) BY <1>1, <1>2, RefsType
  <2>2. ref \in Ref BY <1>1, <2>1, ElementOfSeq
  <2> QED BY <1>1, <1>2, <2>2, TreeRefs DEF Ref
<1>6. node \in ToSet(visited) BY <1>1 DEF ReachInv
<1>7. ToSet(visited) \subseteq Node
  <2>1. visited \in Seq(Node) BY DEF TypeInv, TypeOK
  <2> QED BY <2>1, InToSet
<1>8. ref.node # Null => ref.node \in Reached'
  <2>1. CASE child BY <1>1, <2>1
  <2>2. CASE ~child
    <3>1. ref.node # Null => ref.node \in printed
      BY <2>2 DEF unprinted, push_child
    <3> QED BY <1>1, <2>2, <3>1 DEF ReachInv
  <2> QED BY <2>1, <2>2
<1>9. ReachInv'
  <2>1. SubPlans(plan)' = SubPlans(plan) BY <1>2 DEF SubPlans
  <2>2. printed' \subseteq Reached' \cap SubPlans(plan)
    <3>1. ref.subplan => ref.node # Null BY <1>1, <1>2, TreeRefs
    <3>2. printed \subseteq Reached' BY <1>1 DEF ReachInv
    <3> QED BY <1>2, <1>5, <1>8, <3>1, <3>2 DEF ReachInv
  <2>3. ASSUME NEW r \in Reached'
        PROVE  \/ r = Root \/ r \in printed'
               \/ \E m \in ToSet(visited)' : \E i \in Passed(m)' :
                    plan_state_children(m)'[i] = [node |-> r, subplan |-> FALSE]
    <3>1. CASE r \in Reached
      <4>1. printed \subseteq printed' BY <1>2
      <4>2. \A m \in ToSet(visited) : Passed(m) \subseteq Passed(m)' BY <1>4, <1>7
      <4> QED BY <1>1, <1>3, <3>1, <4>1, <4>2 DEF ReachInv
    <3>2. CASE r = ref.node /\ child
      <4>1. CASE ref.subplan BY <1>2, <3>2, <4>1
      <4>2. CASE ~ref.subplan
        <5>1. refs[at] = [node |-> r, subplan |-> FALSE] BY <1>5, <3>2, <4>2
        <5>2. \A m : m = node => at \in Passed(m)' BY <1>4
        <5> QED BY <1>1, <1>3, <1>6, <5>1, <5>2
      <4> QED BY <4>1, <4>2
    <3> QED BY <1>1, <3>1, <3>2
  <2>4. Root \in Reached' BY <1>1 DEF ReachInv
  <2> QED BY <1>1, <1>6, <2>1, <2>2, <2>3, <2>4 DEF ReachInv
<1>10. HangsInv'
  <2>1. Root \in Reached BY DEF ReachInv
  <2>2. CASE child
    <3>1. DOMAIN hangs' = Reached' BY <1>1, <1>2, <2>2 DEF HangsInv
    <3>2. hangs'[Root] = Null BY <1>1, <1>2, <2>1, <2>2 DEF HangsInv
    <3>3. \A n \in Reached' \ {Root} : hangs'[n] \in ToSet(visited)
      BY <1>1, <1>2, <1>6, <2>2 DEF HangsInv
    <3> QED BY <1>1, <3>1, <3>2, <3>3 DEF HangsInv
  <2>3. CASE ~child BY <1>1, <1>2, <2>3 DEF HangsInv
  <2> QED BY <2>2, <2>3
<1>11. FollowInv'
  <2>1. InPlan' = InPlan BY <1>2 DEF InPlan, successors
  <2>2. node \in InPlan BY <1>6 DEF FollowInv, Reached
  <2>3. Reached' \subseteq InPlan
    <3>1. child => ref.node # Null BY <1>1, PlanAssumption DEF PlanAssumption
    <3>2. child => ref.node \in InPlan BY <1>1, <1>2, <2>2, <3>1, Follows
    <3> QED BY <1>1, <3>2 DEF FollowInv
  <2>4. ASSUME NEW m \in ToSet(visited), NEW i \in Passed(m)',
               plan_state_children(m)[i].node # Null
        PROVE  plan_state_children(m)[i].node \in Reached'
    <3>1. CASE i \in Passed(m) BY <1>1, <2>4, <3>1 DEF FollowInv
    <3>2. CASE m = node /\ i = at BY <1>8, <2>4, <3>2
    <3> QED BY <1>4, <1>7, <3>1, <3>2
  <2> QED BY <1>1, <1>3, <2>1, <2>3, <2>4 DEF FollowInv
<1> QED BY <1>9, <1>10, <1>11
\* What is known of the nodes the walk has come across.
NodesInv == TypeInv /\ OnceInv /\ ReachInv /\ HangsInv /\ FollowInv

\* Every step keeps what is known of the nodes.
LEMMA NodesStep == NodesInv /\ [Next]_vars => NodesInv'
<1> SUFFICES ASSUME NodesInv, [Next]_vars PROVE NodesInv' OBVIOUS
<1> USE DEF NodesInv
<1>1. CASE Visit BY <1>1, VisitType, VisitOnce, VisitReach
<1>2. CASE Refer BY <1>2, ReferType, ReferOnce, ReferReach
<1>3. CASE Descend BY <1>3, DescendType, DescendOnce, DescendReach
<1>4. CASE UNCHANGED vars
  <2>1. UNCHANGED <<plan, max_spans, instrument, stack, node, link, children, at, printed, spans,
                    omitted, visited, hangs>>
    BY <1>4 DEF vars, finding
  <2>2. TypeInv' BY <2>1 DEF TypeInv, TypeOK, Link
  <2>3. Waiting' = Waiting /\ Found' = Found /\ Reached' = Reached
    BY <2>1 DEF Waiting, Found, Reached
  <2>4. OnceInv' BY <2>1, <2>3 DEF OnceInv
  <2>5. \A m : plan_state_children(m)' = plan_state_children(m)
    BY <2>1 DEF plan_state_children, Refs
  <2>6. \A m : Passed(m)' = Passed(m) BY <2>1, <2>5 DEF Passed
  <2>7. SubPlans(plan)' = SubPlans(plan) /\ InPlan' = InPlan
    BY <2>1 DEF SubPlans, InPlan, successors
  <2> QED BY <2>1, <2>2, <2>3, <2>4, <2>5, <2>6, <2>7 DEF ReachInv, HangsInv, FollowInv
<1> QED BY <1>1, <1>2, <1>3, <1>4 DEF Next, Done

\* What is known of the nodes holds in every state.
LEMMA AlwaysNodes == Spec => []NodesInv
<1>1. Init => NodesInv BY InitType, InitReach DEF NodesInv
<1> QED BY <1>1, NodesStep, PTL DEF Spec

\* When nothing is left to visit, everything that belongs to the plan has been visited.
LEMMA NoneForgotten ==
  ASSUME NodesInv, Finished
  PROVE  ToSet(visited) = InPlan
<1>1. plan \in Plans /\ ToSet(visited) \subseteq Node
  <2>1. visited \in Seq(Node) BY DEF NodesInv, TypeInv, TypeOK
  <2> QED BY <2>1, InToSet DEF NodesInv, TypeInv
<1>2. Reached = ToSet(visited)
  <2>1. Waiting = {} BY DEF Finished, Waiting
  <2>2. Found = {} BY DEF Finished, Found
  <2> QED BY <2>1, <2>2 DEF Reached
<1>3. ToSet(visited) \subseteq InPlan BY <1>2 DEF NodesInv, FollowInv
<1>4. \A n \in ToSet(visited) : successors(n) \subseteq ToSet(visited)
  <2> SUFFICES ASSUME NEW n \in ToSet(visited), NEW m \in successors(n)
               PROVE  m \in ToSet(visited)
    OBVIOUS
  <2>1. n \in Node /\ node # n
    BY <1>1, PlanAssumption DEF Finished, PlanAssumption
  <2>2. m \in ToSet(plan.init[n]) \cup ToSet(plan.kids[n]) \cup ToSet(plan.subs[n]) /\ m # Null
    BY <1>1, <2>1, SuccessorsAre
  <2>3. PICK i \in 1 .. Len(plan_state_children(n)) : plan_state_children(n)[i].node = m
    BY <1>1, <2>1, <2>2, RefsAt
  <2>4. i \in Passed(n) BY <2>1 DEF Passed
  <2> QED BY <1>2, <2>2, <2>3, <2>4 DEF NodesInv, FollowInv
<1>5. Root \in ToSet(visited) BY <1>2 DEF NodesInv, ReachInv
<1>6. InPlan \subseteq ToSet(visited) BY <1>1, <1>4, <1>5 DEF InPlan
<1> QED BY <1>3, <1>6

\* A plan's node is reported once, however often it is referred to, and none is forgotten:
\* for plans of any shape in which sub-plans may be shared.
THEOREM NodesReportedOnce == Spec => []EachNodeOnce
<1>1. ASSUME NodesInv PROVE EachNodeOnce
  <2> DEFINE waiting == [j \in 1 .. Len(stack) |-> stack[j].node]
             found   == IF node = Null THEN << >> ELSE children
  <2>1. /\ visited \in Seq(Node) /\ children \in Seq(Node)
        /\ stack \in Seq([node : Node, parent : Link])
    BY <1>1 DEF NodesInv, TypeInv, TypeOK
  <2>2. waiting \in Seq(Node)
    <3>1. \A j \in 1 .. Len(stack) : stack[j].node \in Node
      <4> DEFINE Entry == [node : Node, parent : Link]
      <4>1. stack \in Seq(Entry) BY <2>1
      <4>2. \A e \in Entry : e.node \in Node OBVIOUS
      <4> HIDE DEF Entry
      <4> QED BY <4>1, <4>2
    <3>2. Len(stack) \in Nat BY <2>1
    <3> QED BY <3>1, <3>2
  <2>3. ToSet(waiting) = Waiting BY DEF ToSet, Waiting
  <2>4. found \in Seq(Node) /\ ToSet(found) = Found
    BY <2>1 DEF ToSet, Found
  <2>5. IsInjective(waiting) BY <1>1 DEF NodesInv, OnceInv, IsInjective
  <2>6. IsInjective(found) BY <1>1 DEF NodesInv, OnceInv, IsInjective
  <2> HIDE DEF waiting, found
  <2>7. IsInjective(visited \o waiting) /\ ToSet(visited \o waiting) = ToSet(visited) \cup Waiting
    BY <1>1, <2>1, <2>2, <2>3, <2>5, ConcatOnce, ToSetConcat DEF NodesInv, OnceInv
  <2>8. visited \o waiting \in Seq(Node) BY <2>1, <2>2, ConcatProperties
  <2>9. ToSet(visited \o waiting) \cap ToSet(found) = {}
    BY <1>1, <2>4, <2>7 DEF NodesInv, OnceInv
  <2>10. IsInjective(visited \o waiting \o found)
    BY <2>4, <2>6, <2>7, <2>8, <2>9, ConcatOnce
  <2> QED BY <1>1, <2>10, NoneForgotten DEF EachNodeOnce, waiting, found
<1> QED BY <1>1, AlwaysNodes, PTL

----------------------------------------------------------------------------
(* The counts *)

\* Nodes without a span that were passed over before the limit was reached are bare.
CountInv ==
  /\ emitted <= max_spans
  /\ omitted > 0 => emitted = max_spans
  /\ \E S \in SUBSET (plan.bare \cap ToSet(visited)) :
       Len(visited) = emitted + omitted + Cardinality(S)

\* The visit of one more node, which is counted as a span, as omitted, or is bare.
LEMMA CountStep ==
  ASSUME NodesInv, CountInv, Visit
  PROVE  CountInv'
<1> DEFINE n == stack[Len(stack)].node
<1>1. /\ n \in Node /\ n \notin ToSet(visited)
      /\ visited' = Append(visited, n) /\ ToSet(visited') = ToSet(visited) \cup {n}
  BY VisitOnce DEF NodesInv
<1>2. /\ IF Below /\ n \notin plan.bare
         THEN \E span : spans' = Append(spans, span)
         ELSE spans' = spans
      /\ omitted' = IF Below THEN omitted ELSE omitted + 1
      /\ UNCHANGED <<plan, max_spans>>
  BY DEF Visit, Last
<1> HIDE DEF n
<1>3. /\ visited \in Seq(Node) /\ omitted \in Nat /\ max_spans \in Nat
      /\ spans \in Seq([node : Node, parent : Link, end : Int, total_ns : Int,
                        never_executed : BOOLEAN, incomplete : BOOLEAN])
  BY DEF NodesInv, TypeInv, TypeOK
<1>4. emitted \in Nat /\ Len(visited) \in Nat /\ Len(visited') = Len(visited) + 1
  BY <1>1, <1>3, AppendProperties DEF emitted
<1>5. emitted' = IF Below /\ n \notin plan.bare THEN emitted + 1 ELSE emitted
  BY <1>2, <1>3 DEF emitted
<1>6. PICK S \in SUBSET (plan.bare \cap ToSet(visited)) :
        Len(visited) = emitted + omitted + Cardinality(S)
  BY DEF CountInv
<1>7. IsFiniteSet(S)
  <2>1. IsFiniteSet(plan.bare) BY PlanAssumption DEF PlanAssumption, NodesInv, TypeInv
  <2> QED BY <2>1, FS_Subset
<1>8. Cardinality(S) \in Nat BY <1>7, FS_CardinalityType
<1>9. emitted' <= max_spans' /\ (omitted' > 0 => emitted' = max_spans')
  BY <1>2, <1>3, <1>4, <1>5 DEF CountInv, Below
<1>10. \E T \in SUBSET (plan.bare \cap ToSet(visited)') :
         Len(visited') = emitted' + omitted' + Cardinality(T)
  <2>1. CASE Below /\ n \in plan.bare
    <3> DEFINE T == S \cup {n}
    <3>1. n \notin S BY <1>1
    <3>2. Cardinality(T) = Cardinality(S) + 1 BY <1>7, <3>1, FS_AddElement
    <3>3. T \in SUBSET (plan.bare \cap ToSet(visited)') BY <1>1, <2>1
    <3>4. emitted' = emitted /\ omitted' = omitted BY <1>2, <1>5, <2>1
    <3>5. Len(visited') = emitted' + omitted' + Cardinality(T)
      BY <1>3, <1>4, <1>6, <1>8, <3>2, <3>4
    <3> QED BY <3>3, <3>5
  <2>2. CASE ~(Below /\ n \in plan.bare)
    <3>1. emitted' + omitted' = emitted + omitted + 1 BY <1>2, <1>3, <1>4, <1>5, <2>2
    <3>2. emitted' \in Nat /\ omitted' \in Nat BY <1>2, <1>3, <1>4, <1>5
    <3>3. Len(visited') = emitted' + omitted' + Cardinality(S)
      BY <1>3, <1>4, <1>6, <1>8, <3>1, <3>2
    <3>4. S \in SUBSET (plan.bare \cap ToSet(visited)') BY <1>1
    <3> QED BY <3>3, <3>4
  <2> QED BY <2>1, <2>2
<1> QED BY <1>2, <1>9, <1>10 DEF CountInv

\* What the query span reports as omitted is the number of nodes left out because of the
\* limit: every visited node has a span, is counted as omitted or has no name to show.
THEOREM OmittedIsExact == Spec => []Summary
<1>1. Init => CountInv
  <2> SUFFICES ASSUME Init PROVE CountInv OBVIOUS
  <2>1. emitted = 0 /\ omitted = 0 /\ Len(visited) = 0 /\ max_spans \in Nat
    BY PlanAssumption DEF Init, PlanAssumption, emitted
  <2>2. Cardinality({}) = 0 BY FS_EmptySet
  <2> QED BY <2>1, <2>2 DEF CountInv
<1>2. NodesInv /\ CountInv /\ [Next]_vars => CountInv'
  <2> SUFFICES ASSUME NodesInv, CountInv, [Next]_vars PROVE CountInv' OBVIOUS
  <2>1. CASE Visit BY <2>1, CountStep
  <2>2. CASE UNCHANGED <<plan, max_spans, spans, omitted, visited>>
    BY <2>2 DEF CountInv, emitted
  <2> QED BY <2>1, <2>2 DEF Next, Refer, Descend, Done, vars
<1>3. NodesInv /\ CountInv => Summary
  <2> SUFFICES ASSUME NodesInv, CountInv PROVE Summary OBVIOUS
  <2>1. PICK S \in SUBSET (plan.bare \cap ToSet(visited)) :
          Len(visited) = emitted + omitted + Cardinality(S)
    BY DEF CountInv
  <2>2. IsFiniteSet(plan.bare) BY PlanAssumption DEF PlanAssumption, NodesInv, TypeInv
  <2>3. /\ Cardinality(S) \in Nat /\ Cardinality(plan.bare) \in Nat
        /\ Cardinality(S) <= Cardinality(plan.bare)
    BY <2>2, FS_Subset, FS_CardinalityType
  <2>4. plan.bare = {} => Cardinality(S) = 0 BY FS_EmptySet
  <2>5. emitted \in Nat /\ omitted \in Nat
    <3>1. /\ omitted \in Nat
          /\ spans \in Seq([node : Node, parent : Link, end : Int, total_ns : Int,
                            never_executed : BOOLEAN, incomplete : BOOLEAN])
      BY DEF NodesInv, TypeInv, TypeOK
    <3> QED BY <3>1 DEF emitted
  <2> QED BY <2>1, <2>3, <2>4, <2>5 DEF CountInv, Summary
<1> QED BY <1>1, <1>2, <1>3, AlwaysNodes, PTL DEF Spec
----------------------------------------------------------------------------
(* Connected *)

\* f says of every node that hangs below another, as h says, the nearest one above it that
\* is in S.
Climbs(f, h, S) ==
  f = [m \in DOMAIN h |-> IF h[m] = Null THEN Query
                          ELSE IF h[m] \in S THEN h[m]
                          ELSE f[h[m]]]

\* Ancestor, of any such h and S.
AncestorIn(h, S) ==
  [n \in DOMAIN h |->
     LET up[m \in DOMAIN h] == IF h[m] = Null THEN Query
                               ELSE IF h[m] \in S THEN h[m]
                               ELSE up[h[m]]
     IN up[n]]

\* There is no doubt about f.
Only(f, h, S) == Climbs(f, h, S) /\ \A g : Climbs(g, h, S) => g = f

\* If there is one function that climbs, it is the one that is meant.
LEMMA AncestorUnique ==
  ASSUME NEW h, NEW S, NEW f, Only(f, h, S)
  PROVE  AncestorIn(h, S) = f
<1> DEFINE up == CHOOSE g : Climbs(g, h, S)
<1>1. Climbs(up, h, S) BY DEF Only
<1>2. up = f BY <1>1 DEF Only
<1>3. AncestorIn(h, S) = [n \in DOMAIN h |-> up[n]] BY DEF AncestorIn, Climbs
<1> HIDE DEF up
<1>4. f = [n \in DOMAIN h |-> f[n]] BY DEF Only, Climbs
<1> QED BY <1>2, <1>3, <1>4

\* A new node that hangs off a known one.
LEMMA ClimbMore ==
  ASSUME NEW h, NEW S, NEW f, Only(f, h, S), NEW r, NEW p,
         r \notin DOMAIN h, p \in DOMAIN h, p # Null,
         \A m \in DOMAIN h : h[m] = Null \/ h[m] \in DOMAIN h
  PROVE  LET more == [n \in DOMAIN h \cup {r} |-> IF n = r THEN p ELSE h[n]]
             g    == [n \in DOMAIN h \cup {r} |->
                        IF n = r THEN (IF p \in S THEN p ELSE f[p]) ELSE f[n]]
         IN  Only(g, more, S)
<1> DEFINE more == [n \in DOMAIN h \cup {r} |-> IF n = r THEN p ELSE h[n]]
           g    == [n \in DOMAIN h \cup {r} |->
                      IF n = r THEN (IF p \in S THEN p ELSE f[p]) ELSE f[n]]
<1>1. /\ DOMAIN more = DOMAIN h \cup {r} /\ more[r] = p
      /\ \A n \in DOMAIN h : more[n] = h[n]
      /\ DOMAIN g = DOMAIN h \cup {r} /\ g[r] = IF p \in S THEN p ELSE f[p]
      /\ \A n \in DOMAIN h : g[n] = f[n]
  OBVIOUS
<1>2. \A m \in DOMAIN h : f[m] = IF h[m] = Null THEN Query
                                 ELSE IF h[m] \in S THEN h[m] ELSE f[h[m]]
  BY DEF Only, Climbs
<1>3. Climbs(g, more, S)
  <2> DEFINE e(m) == IF more[m] = Null THEN Query
                     ELSE IF more[m] \in S THEN more[m] ELSE g[more[m]]
  <2>1. \A m \in DOMAIN more : g[m] = e(m)
    <3>1. g[r] = e(r) BY <1>1
    <3>2. \A m \in DOMAIN h : g[m] = e(m) BY <1>1, <1>2
    <3> QED BY <1>1, <3>1, <3>2
  <2>2. g = [m \in DOMAIN g |-> g[m]] OBVIOUS
  <2> HIDE DEF more, g
  <2>3. [m \in DOMAIN g |-> g[m]] = [m \in DOMAIN more |-> e(m)] BY <1>1, <2>1
  <2> QED BY <2>2, <2>3 DEF Climbs
<1>4. ASSUME NEW k, Climbs(k, more, S) PROVE k = g
  <2>1. /\ k = [m \in DOMAIN k |-> k[m]] /\ DOMAIN k = DOMAIN more
        /\ \A m \in DOMAIN more : k[m] = IF more[m] = Null THEN Query
                                         ELSE IF more[m] \in S THEN more[m] ELSE k[more[m]]
    <3> HIDE DEF more
    <3> QED BY <1>4 DEF Climbs
  <2> DEFINE low == [m \in DOMAIN h |-> k[m]]
  <2> HIDE DEF more, g
  <2>2. Climbs(low, h, S)
    <3> DEFINE e(m) == IF h[m] = Null THEN Query
                       ELSE IF h[m] \in S THEN h[m] ELSE low[h[m]]
    <3>1. \A m \in DOMAIN h : low[m] = e(m) BY <1>1, <2>1
    <3>2. low = [m \in DOMAIN h |-> e(m)]
      <4>1. low = [m \in DOMAIN h |-> low[m]] OBVIOUS
      <4> QED BY <3>1, <4>1
    <3> QED BY <3>2 DEF Climbs
  <2>3. low = f BY <2>2 DEF Only
  <2>4. \A m \in DOMAIN h : k[m] = g[m]
    <3>1. \A m \in DOMAIN h : low[m] = k[m] OBVIOUS
    <3> QED BY <1>1, <2>3, <3>1
  <2>5. k[r] = g[r] BY <1>1, <2>1, <2>4
  <2>6. g = [m \in DOMAIN g |-> g[m]] BY DEF g
  <2> QED BY <1>1, <2>1, <2>4, <2>5, <2>6
<1> QED BY <1>3, <1>4 DEF Only

\* A node that gets a span although nothing hangs off it yet.
LEMMA ClimbSame ==
  ASSUME NEW h, NEW S, NEW f, Only(f, h, S), NEW n, \A m \in DOMAIN h : h[m] # n
  PROVE  Only(f, h, S \cup {n})
<1>1. \A g : Climbs(g, h, S \cup {n}) <=> Climbs(g, h, S)
  <2> SUFFICES ASSUME NEW g PROVE Climbs(g, h, S \cup {n}) <=> Climbs(g, h, S) OBVIOUS
  <2>1. [m \in DOMAIN h |-> IF h[m] = Null THEN Query
                            ELSE IF h[m] \in S \cup {n} THEN h[m] ELSE g[h[m]]] =
        [m \in DOMAIN h |-> IF h[m] = Null THEN Query
                            ELSE IF h[m] \in S THEN h[m] ELSE g[h[m]]]
    OBVIOUS
  <2> QED BY <2>1 DEF Climbs
<1> QED BY <1>1 DEF Only

\* Links are those of the nearest ancestor with a span, of which there is one.
LinkInv ==
  /\ Only(Ancestor, hangs, HasSpan)
  /\ HasSpan \subseteq ToSet(visited)
  /\ \A k \in 1 .. Len(stack) : stack[k].parent.node = Ancestor[stack[k].node]
  /\ node # Null => link.node = IF node \in HasSpan THEN node ELSE Ancestor[node]
  /\ \A n \in Found : hangs[n] = node
  /\ Connected

\* Ancestor is the function AncestorIn describes, before a step and after it.
LEMMA AncestorIsIn == Ancestor = AncestorIn(hangs, HasSpan)
  BY DEF Ancestor, AncestorIn

\* The same of the next state.
LEMMA AncestorIsInNext == Ancestor' = AncestorIn(hangs', HasSpan')
  BY DEF Ancestor, AncestorIn

\* The top node is below the statement.
LEMMA InitLink == ASSUME Init PROVE LinkInv
<1>1. /\ hangs = [n \in {Root} |-> Null] /\ spans = << >> /\ node = Null /\ visited = << >>
      /\ Len(stack) = 1 /\ stack[1].node = Root /\ stack[1].parent.node = Query
  BY DEF Init
<1>2. HasSpan = {} BY <1>1 DEF HasSpan
<1> DEFINE f == [n \in {Root} |-> Query]
<1>3. Only(f, hangs, HasSpan)
  <2>1. ASSUME NEW g PROVE Climbs(g, hangs, HasSpan) <=> g = f
    <3>1. [m \in DOMAIN hangs |-> IF hangs[m] = Null THEN Query
                                  ELSE IF hangs[m] \in HasSpan THEN hangs[m]
                                  ELSE g[hangs[m]]] = f
      BY <1>1
    <3> QED BY <3>1 DEF Climbs
  <2> QED BY <2>1 DEF Only
<1>4. Ancestor = f BY <1>3, AncestorUnique, AncestorIsIn
<1>5. Found = {} BY <1>1 DEF Found
<1> QED BY <1>1, <1>2, <1>3, <1>4, <1>5 DEF LinkInv, Connected

\* A visited node gets the link on the stack for its span's parent.
LEMMA VisitLink == ASSUME NodesInv, LinkInv, Visit PROVE LinkInv'
<1> DEFINE top == stack[Len(stack)]
           n   == top.node
           span == from_plan(n, top.parent)
<1>1. /\ n \in Node /\ n # Null /\ node' = n /\ n \notin ToSet(visited) /\ n \in Reached
      /\ ToSet(visited') = ToSet(visited) \cup {n} /\ Found' = {}
  BY VisitOnce DEF NodesInv, Reached
<1>2. /\ Len(stack) > 0 /\ n \in Node /\ top.parent \in Link
      /\ stack' = SubSeq(stack, 1, Len(stack) - 1)
      /\ \/ /\ spans' = Append(spans, span)
            /\ link' = [node |-> n, end |-> span.end]
         \/ /\ link' = top.parent
            /\ spans' = spans
  BY VisitFacts DEF NodesInv
<1>3. hangs' = hangs BY DEF Visit
<1>4. spans \in Seq(Span) /\ stack \in Seq([node : Node, parent : Link])
  BY DEF NodesInv, TypeInv, TypeOK, Span
<1>5. /\ Len(stack) \in Nat /\ Len(stack') = Len(stack) - 1
      /\ \A k \in 1 .. Len(stack) - 1 : stack'[k] = stack[k]
  BY <1>2, <1>4, Popped
<1>6. top.parent.node = Ancestor[n]
  <2>1. Len(stack) \in 1 .. Len(stack) BY <1>2, <1>5
  <2> QED BY <2>1 DEF LinkInv
<1>7. \A m \in DOMAIN hangs : hangs[m] # n
  BY <1>1 DEF NodesInv, HangsInv
<1>8. n \notin HasSpan BY <1>1 DEF LinkInv
<1>9. CASE spans' = Append(spans, span) /\ link' = [node |-> n, end |-> span.end]
  <2>1. span \in Span /\ span.node = n /\ span.parent = top.parent
    BY <1>2, SpanType DEF NodesInv, Span
  <2> HIDE DEF span, top
  <2>2. /\ Len(spans) \in Nat /\ Len(spans') = Len(spans) + 1
        /\ \A k \in 1 .. Len(spans) : spans'[k] = spans[k]
        /\ spans'[Len(spans) + 1] = span
    BY <1>4, <1>9, <2>1, AppendProperties
  <2>3. HasSpan' = HasSpan \cup {n}
    <3>1. ASSUME NEW k \in 1 .. Len(spans') PROVE spans'[k].node \in HasSpan \cup {n}
      <4>1. k \in 1 .. Len(spans) \/ k = Len(spans) + 1 BY <2>2
      <4> QED BY <2>1, <2>2, <4>1 DEF HasSpan
    <3>2. ASSUME NEW k \in 1 .. Len(spans) PROVE spans[k].node \in HasSpan'
      <4>1. k \in 1 .. Len(spans') /\ spans'[k] = spans[k] BY <2>2
      <4> QED BY <4>1 DEF HasSpan
    <3>3. n \in HasSpan'
      <4>1. Len(spans) + 1 \in 1 .. Len(spans') BY <2>2
      <4> QED BY <2>1, <2>2, <4>1 DEF HasSpan
    <3> QED BY <3>1, <3>2, <3>3 DEF HasSpan
  <2>4. Only(Ancestor, hangs', HasSpan') BY <1>3, <1>7, <2>3, ClimbSame DEF LinkInv
  <2>5. Ancestor' = Ancestor BY <2>4, AncestorUnique, AncestorIsInNext
  <2>6. Connected'
    <3>1. ASSUME NEW j \in 1 .. Len(spans')
          PROVE  spans'[j].parent.node = Ancestor[spans'[j].node]
      <4>1. j \in 1 .. Len(spans) \/ j = Len(spans) + 1 BY <2>2
      <4> QED BY <1>6, <2>1, <2>2, <4>1 DEF LinkInv, Connected
    <3> QED BY <2>5, <3>1 DEF Connected
  <2>7. \A k \in 1 .. Len(stack') : stack'[k].parent.node = Ancestor[stack'[k].node]
    BY <1>5 DEF LinkInv
  <2>8. link'.node = n BY <1>9
  <2> QED BY <1>1, <2>3, <2>4, <2>5, <2>6, <2>7, <2>8 DEF LinkInv
<1>10. CASE link' = top.parent /\ spans' = spans
  <2>1. HasSpan' = HasSpan BY <1>10 DEF HasSpan
  <2>2. Ancestor' = Ancestor BY <1>3, <2>1, AncestorIsIn, AncestorIsInNext
  <2> HIDE DEF top
  <2>3. \A k \in 1 .. Len(stack') : stack'[k].parent.node = Ancestor[stack'[k].node]
    BY <1>5 DEF LinkInv
  <2>4. Connected' BY <1>10, <2>2 DEF LinkInv, Connected
  <2> QED BY <1>1, <1>3, <1>6, <1>8, <1>10, <2>1, <2>2, <2>3, <2>4 DEF LinkInv
<1> QED BY <1>2, <1>9, <1>10

\* A child that is found hangs off the node at hand.
LEMMA ReferLink == ASSUME NodesInv, LinkInv, Refer PROVE LinkInv'
<1> DEFINE refs  == plan_state_children(node)
           ref   == refs[at]
           child == IF ref.subplan THEN unprinted(ref.node) ELSE push_child(ref.node)
<1>1. /\ node # Null /\ node' = node /\ visited' = visited /\ stack' = stack
      /\ child => ref.node \in Node \ Reached
      /\ Found' = IF child THEN Found \cup {ref.node} ELSE Found
  BY ReferOnce DEF NodesInv
<1>2. /\ UNCHANGED <<spans, link>>
      /\ hangs' = IF child
                  THEN [n \in DOMAIN hangs \cup {ref.node} |->
                          IF n = ref.node THEN node ELSE hangs[n]]
                  ELSE hangs
  BY DEF Refer
<1> HIDE DEF ref, child
<1>3. HasSpan' = HasSpan BY <1>2 DEF HasSpan
<1>4. /\ DOMAIN hangs = Reached /\ node \in Reached
      /\ \A m \in DOMAIN hangs : hangs[m] = Null \/ hangs[m] \in DOMAIN hangs
      /\ Waiting \subseteq Reached /\ HasSpan \subseteq Reached /\ Found \subseteq Reached
  BY <1>1 DEF NodesInv, ReachInv, HangsInv, Reached, LinkInv
<1>5. CASE child
  <2> DEFINE g == [n \in DOMAIN hangs \cup {ref.node} |->
                     IF n = ref.node THEN (IF node \in HasSpan THEN node ELSE Ancestor[node])
                                     ELSE Ancestor[n]]
  <2>1. Only(g, hangs', HasSpan')
    <3> DEFINE more == [n \in DOMAIN hangs \cup {ref.node} |->
                          IF n = ref.node THEN node ELSE hangs[n]]
    <3>1. Only(Ancestor, hangs, HasSpan) BY DEF LinkInv
    <3>2. ref.node \notin DOMAIN hangs /\ node \in DOMAIN hangs BY <1>1, <1>4, <1>5
    <3>3. Only(g, more, HasSpan) BY <1>1, <1>4, <3>1, <3>2, ClimbMore
    <3>4. hangs' = more BY <1>2, <1>5
    <3> HIDE DEF g, more
    <3> QED BY <1>3, <3>3, <3>4
  <2>2. Ancestor' = g BY <2>1, AncestorUnique, AncestorIsInNext
  <2>3. \A n \in Reached : Ancestor'[n] = Ancestor[n] BY <1>1, <1>4, <1>5, <2>2
  <2> HIDE DEF g
  <2>4. \A k \in 1 .. Len(stack') : stack'[k].parent.node = Ancestor'[stack'[k].node]
    BY <1>1, <1>4, <2>3 DEF LinkInv, Waiting
  <2>5. Connected' BY <1>2, <1>4, <2>3 DEF LinkInv, Connected, HasSpan
  <2>6. \A n \in Found' : hangs'[n] = node' BY <1>1, <1>2, <1>4, <1>5 DEF LinkInv
  <2> QED BY <1>1, <1>2, <1>3, <1>4, <2>1, <2>2, <2>3, <2>4, <2>5, <2>6 DEF LinkInv
<1>6. CASE ~child
  <2>1. hangs' = hangs /\ Found' = Found BY <1>1, <1>2, <1>6
  <2>2. Ancestor' = Ancestor BY <1>3, <2>1, AncestorIsIn, AncestorIsInNext
  <2>3. Connected' BY <1>2, <2>2 DEF LinkInv, Connected
  <2> QED BY <1>1, <1>2, <1>3, <2>1, <2>2, <2>3 DEF LinkInv
<1> QED BY <1>5, <1>6

\* The children are put on the stack with the link of their parent, or with the one it was
\* itself given.
LEMMA DescendLink == ASSUME NodesInv, LinkInv, Descend PROVE LinkInv'
<1>1. /\ node # Null /\ node' = Null /\ visited' = visited /\ Found' = {}
  BY DescendOnce DEF NodesInv
<1>2. UNCHANGED <<spans, hangs>> BY DEF Descend
<1>3. HasSpan' = HasSpan /\ Ancestor' = Ancestor
  <2>1. HasSpan' = HasSpan BY <1>2 DEF HasSpan
  <2> QED BY <1>2, <2>1, AncestorIsIn, AncestorIsInNext
<1>4. \A n \in Found : Ancestor[n] = link.node
  <2>1. Found \subseteq DOMAIN hangs BY DEF NodesInv, HangsInv, Reached
  <2>2. \A n \in DOMAIN hangs : Ancestor[n] = IF hangs[n] = Null THEN Query
                                ELSE IF hangs[n] \in HasSpan THEN hangs[n] ELSE Ancestor[hangs[n]]
    BY DEF LinkInv, Only, Climbs
  <2> QED BY <1>1, <2>1, <2>2 DEF LinkInv
<1>5. /\ Len(stack) \in Nat /\ Len(children) \in Nat
      /\ Len(stack') = Len(stack) + Len(children)
      /\ \A k \in 1 .. Len(stack) : stack'[k] = stack[k]
  BY DescendStack DEF NodesInv
<1>6. ASSUME NEW k \in 1 .. Len(stack')
      PROVE  stack'[k].parent.node = Ancestor[stack'[k].node]
  <2>1. CASE k \in 1 .. Len(stack) BY <1>5, <2>1 DEF LinkInv
  <2>2. CASE k \notin 1 .. Len(stack)
    <3> DEFINE i == Len(children) - (k - Len(stack)) + 1
    <3>1. /\ k - Len(stack) \in 1 .. Len(children) /\ i \in 1 .. Len(children)
          /\ Len(stack) + (k - Len(stack)) = k
      BY <1>5, <2>2
    <3>2. stack'[k] = [node |-> children[i], parent |-> link]
      BY <3>1, DescendStack DEF NodesInv
    <3> HIDE DEF i
    <3>3. children[i] \in Found
      <4>1. children \in Seq(Node) BY DEF NodesInv, TypeInv, TypeOK
      <4> QED BY <1>1, <3>1, <4>1, InToSet DEF Found
    <3> QED BY <1>4, <3>2, <3>3
  <2> QED BY <2>1, <2>2
<1>7. Connected' BY <1>2, <1>3 DEF LinkInv, Connected
<1> QED BY <1>1, <1>2, <1>3, <1>6, <1>7 DEF LinkInv

\* "A truncated tree always keeps a connected top part": whatever the limit and whatever
\* nodes have no span, the parent of a span is the nearest ancestor of its node that has one.
THEOREM TopPartConnected == Spec => []Connected
<1>1. NodesInv /\ LinkInv /\ [Next]_vars => LinkInv'
  <2> SUFFICES ASSUME NodesInv, LinkInv, [Next]_vars PROVE LinkInv' OBVIOUS
  <2>1. CASE Visit BY <2>1, VisitLink
  <2>2. CASE Refer BY <2>2, ReferLink
  <2>3. CASE Descend BY <2>3, DescendLink
  <2>4. CASE UNCHANGED vars
    <3>1. UNCHANGED <<stack, node, link, children, spans, visited, hangs>>
      BY <2>4 DEF vars, finding
    <3>2. HasSpan' = HasSpan /\ Ancestor' = Ancestor /\ Found' = Found
      <4>1. HasSpan' = HasSpan /\ Found' = Found BY <3>1 DEF HasSpan, Found
      <4> QED BY <3>1, <4>1, AncestorIsIn, AncestorIsInNext
    <3> QED BY <3>1, <3>2 DEF LinkInv, Connected
  <2> QED BY <2>1, <2>2, <2>3, <2>4 DEF Next, Done
<1>2. Init => LinkInv BY InitLink
<1>3. LinkInv => Connected BY DEF LinkInv
<1> QED BY <1>1, <1>2, <1>3, AlwaysNodes, PTL DEF Spec
=============================================================================
