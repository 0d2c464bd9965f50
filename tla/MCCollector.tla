---------------------------- MODULE MCCollector ----------------------------
(* Values for model-checking Collector. *)
EXTENDS Collector

\* Tracing off, everything traced, and slow statements only.
Settings == {-1, 0, 1}
=============================================================================
