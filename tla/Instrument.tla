----------------------------- MODULE Instrument -----------------------------
(***************************************************************************)
(* What src/compat reads of the executor's instrumentation: when a node's  *)
(* (or the statement's) measurements can be used, and how they become      *)
(* nanoseconds on either server version.                                   *)
(*                                                                         *)
(* An instrumentation is [present, running, started, counter, total,       *)
(* loops]: `counter` is the time of the cycle at work, `started` says that *)
(* its timer runs (starttime is not zero).  Times are clock ticks on       *)
(* version 19 and, as version 18 keeps seconds in floating point, tenths   *)
(* of a nanosecond there.                                                  *)
(***************************************************************************)
EXTENDS Integers

CONSTANTS
  TICKS_PER_SCALE,    \* 2^TICKS_TO_NS_SHIFT
  MAX_I64             \* i64::MAX

ASSUME InstrumentAssumption == TICKS_PER_SCALE \in Nat \ {0} /\ MAX_I64 \in Nat

\* i64's saturating arithmetic.
saturated(n) ==
  IF n > MAX_I64 THEN MAX_I64 ELSE IF n < -MAX_I64 - 1 THEN -MAX_I64 - 1 ELSE n

\* Mutant: large counts are multiplied like small ones.
whole_part(ticks, max_ticks_no_overflow) == 0

\* The part of a large count that is divided before it is multiplied.
divided_first(ticks, max_ticks_no_overflow) ==
  IF ticks > max_ticks_no_overflow THEN ticks \div TICKS_PER_SCALE ELSE 0

ticks_to_ns(ticks, ticks_per_ns_scaled, max_ticks_no_overflow) ==
  IF ticks_per_ns_scaled = 0 THEN ticks
  ELSE LET scale == saturated(ticks_per_ns_scaled)
           count == divided_first(ticks, max_ticks_no_overflow)
           rest  == ticks - count * TICKS_PER_SCALE
       IN  saturated(saturated(count * scale) + saturated(rest * scale) \div TICKS_PER_SCALE)

\* Version 18: rounded to the nearest, negative values become 0.
seconds_to_ns(tenths) == IF tenths <= 0 THEN 0 ELSE saturated((tenths + 5) \div 10)

\* What PostgreSQL sets max_ticks_no_overflow to.
max_ticks_no_overflow(scale) == IF scale = 0 THEN 0 ELSE MAX_I64 \div scale

\* A clock is its server's version and its scale.
to_ns(clock, time) ==
  IF clock.server = 18 THEN seconds_to_ns(time)
  ELSE LET ns == ticks_to_ns(time, clock.scale, max_ticks_no_overflow(clock.scale))
       IN  IF ns < 0 THEN 0 ELSE ns

is_mid_timer(instrument) == instrument.running /\ instrument.started

\* InstrEndLoop, which raises an ERROR for a node that is mid-timer.
InstrEndLoop(instrument) ==
  IF ~instrument.running THEN instrument
  ELSE [instrument EXCEPT !.running = FALSE, !.counter = 0, !.total = @ + instrument.counter,
                          !.loops = @ + 1]

\* node_instrument: the instrumentation can be used, the one it leaves behind, and
\* what it reports.
usable(instrument) == instrument.present /\ ~is_mid_timer(instrument)

folded(instrument) == IF usable(instrument) THEN InstrEndLoop(instrument) ELSE instrument

node_instrument(clock, instrument) ==
  IF usable(instrument)
  THEN LET done == InstrEndLoop(instrument)
       IN  [complete |-> TRUE, total_ns |-> to_ns(clock, done.total), loops |-> done.loops]
  ELSE [complete |-> FALSE, total_ns |-> 0, loops |-> 0]

----------------------------------------------------------------------------
(* For properties *)

Instrumentation ==
  [present : BOOLEAN, running : BOOLEAN, started : BOOLEAN, counter : Int, total : Int,
   loops : Nat]

Clock == [server : {18, 19}, scale : Nat]

\* A time of a clock in whole nanoseconds, computed without a limit to integers.
Exactly(clock, time, ns) ==
  IF time <= 0 THEN ns = 0
  ELSE IF clock.server = 18
  THEN 10 * ns - 5 <= time /\ (time < 10 * ns + 5 \/ ns = MAX_I64)
  ELSE IF clock.scale = 0 THEN ns = time
  ELSE /\ ns * TICKS_PER_SCALE <= time * clock.scale
       /\ time * clock.scale < (ns + 1) * TICKS_PER_SCALE \/ ns = MAX_I64
=============================================================================
