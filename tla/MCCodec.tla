------------------------------ MODULE MCCodec ------------------------------
(* Spans for TLC. *)
EXTENDS Codec

Record(kind, fields) == [kind |-> kind, fields |-> fields]

\* With and without a query text, with times before the epoch and behind the last that
\* can be written, and with an empty name.
Traced == Record(KIND_QUERY, <<3, 1, 2, -1, 9, <<4>>, TRUE, <<5, 6>>, << <<1, 0>> >>, 6, 7, 0>>)
Untold == Record(KIND_QUERY, <<3, 1, 2, 4, 5, << >>, FALSE, <<5>>, << >>, 0, 1, 2>>)

\* All optional values, and none.
Scan == Record(KIND_PLAN_NODE,
  <<3, 5, 1, 0, 7, <<4, 2>>, <<1>>, << <<2>> >>, << << >> >>, << <<0>> >>, 2, <<3>>, TRUE, TRUE,
    0, 1, 2, 3, TRUE, FALSE, TRUE, 4, 5, 6, 7, 0, 1, 2>>)
Gather == Record(KIND_PLAN_NODE,
  <<3, 6, 1, 0, 7, <<4>>, <<1>>, << >>, << >>, << >>, 0, << >>, FALSE, FALSE,
    0, 1, 2, 3, FALSE, TRUE, FALSE, 4, 5, 6, 7, 0, 1, 2>>)

\* Too large for a record, by one byte; and exactly as large as one may be.
Named(span, len) == [span EXCEPT !.fields[6] = [k \in 1 .. len |-> 1]]
Longest(span) == Named(span, MAX_RECORD_BYTES - Len(encode_span(Named(span, 0))))
TooLong(span) == Named(span, MAX_RECORD_BYTES - Len(encode_span(Named(span, 0))) + 1)

MCStatements ==
  [1 .. 2 -> {Traced, Untold, Scan, Gather}] \cup [1 .. 3 -> {Untold, Scan}] \cup
  {<<Scan, TooLong(Gather), Traced>>, <<Longest(Untold), TooLong(Untold), Untold>>,
   <<TooLong(Scan)>>, << >>, <<Gather, Untold, Traced>>}
=============================================================================
