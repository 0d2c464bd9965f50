---------------------------- MODULE MCRingQueue ----------------------------
(* Small instances of RingQueue and RingRefinement. *)
EXTENDS RingRefinement

\* An empty payload, payloads that differ, and one that is too large.
MCPayloads == {<< >>, <<1>>, <<2, 1>>, <<1, 1, 1>>}

\* With a chunk of four bytes: two empty payloads, which fill it, one whose record alone
\* exceeds it, and one that is too large.
RingPayloads == {<< >>, <<1>>, <<2, 1, 1>>, <<1, 1, 1, 1>>}
=============================================================================
