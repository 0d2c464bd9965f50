---------------------------- MODULE TraceContext ----------------------------
(***************************************************************************)
(* decide_parent (src/postgres.rs): the trace a statement belongs to is    *)
(* that of pg_otel.traceparent, or of the first valid traceparent in a     *)
(* comment of the query text, or a new one; nothing is collected for a     *)
(* trace that is not sampled.                                              *)
(*                                                                         *)
(* Words of comments: the keys "traceparent" and "%74raceparent" (the same *)
(* percent-encoded), "key" (any other), and values, which Fields           *)
(* describes.  The two scans of the text go loop iteration by loop         *)
(* iteration.                                                              *)
(***************************************************************************)
EXTENDS SqlText

VARIABLES
  guc,        \* pg_otel.traceparent, a sequence of words
  scan,       \* what decide_parent does next
  i,          \* block_comments: offset of the scan
  open,       \* block_comments: where the comments still open begin
  comments,   \* block_comments: the comments found, inner before outer
  next,       \* the comment to read next
  rest,       \* traceparent_values: what is left of the comment
  remote      \* the remote parent found: a set of at most one word

contextVars == <<guc, scan, i, open, comments, next, rest, remote>>

----------------------------------------------------------------------------
(* parse_traceparent *)

\* The fields of a value: version, trace id, span id, flags and what follows.
\* "id" and "zero" are lowercase hexadecimal of the field's length, "no" is not.
Fields(word) ==
  CASE word = "on"     -> <<"00", "id", "id", "01">>
    [] word = "off"    -> <<"00", "id", "id", "00">>
    [] word = "later"  -> <<"cc", "id", "id", "01", "more">>
    [] word = "longer" -> <<"00", "id", "id", "01", "more">>
    [] word = "ff"     -> <<"ff", "id", "id", "01">>
    [] word = "zero"   -> <<"00", "zero", "id", "01">>
    [] word = "upper"  -> <<"00", "no", "id", "01">>
    [] word = "cut"    -> <<"00", "id", "id">>
    [] OTHER           -> <<"no">>

has_traceparent_shape(parts) ==
  /\ Len(parts) >= 4
  /\ parts[1] \in {"00", "cc"}
  /\ parts[1] = "00" => Len(parts) = 4
  /\ {parts[2], parts[3]} \subseteq {"id", "zero"}
  /\ parts[4] \in {"00", "01"}

\* The propagator refuses ids of nothing but zeros.
is_valid(parts) == "zero" \notin {parts[2], parts[3]}

\* The context carried by a value, which may have blanks around it.
parse_traceparent(value) ==
  {w \in {value[j] : j \in 1 .. Len(value)} \ {" "} :
     /\ SelectSeq(value, LAMBDA v : v # " ") = <<w>>
     /\ has_traceparent_shape(Fields(w))
     /\ is_valid(Fields(w))}

is_sampled(word) == Fields(word)[4] = "01"

----------------------------------------------------------------------------
(* traceparent_values *)

Quotes == {"'", "\""}
Blank == {" "}
Separators == {" ", ","}

percent_decode(s) ==
  [j \in 1 .. Len(s) |->
     CASE s[j] = "%74raceparent" -> "traceparent" [] s[j] = "%6fn" -> "on" [] OTHER -> s[j]]

Keys == {"traceparent", "pg_otel.traceparent"}

is_traceparent_key(key) == \E k \in Keys : key = <<k>>

\* Mutant: a value in quotes ends where an unquoted one would.
split_plain(s) == [value |-> Slice(s, 0, SpanNotOf(s, Separators)),
                   after |-> From(s, SpanNotOf(s, Separators))]

\* The value s begins with, and what follows it.  There is nothing of either
\* behind a quote that is not closed.
split_value(s) ==
  IF At(s, 0) \in Quotes
  THEN LET body == From(s, 1)
           end  == SpanNotOf(body, {s[1]})
       IN  IF end = Len(body) THEN [value |-> << >>, after |-> << >>]
                              ELSE [value |-> Slice(body, 0, end), after |-> From(body, end + 1)]
  ELSE LET end == SpanNotOf(s, Separators)
       IN  [value |-> Slice(s, 0, end), after |-> From(s, end)]

----------------------------------------------------------------------------
ContextInit ==
  /\ scan = "setting"
  /\ i = 0 /\ open = << >> /\ comments = << >>
  /\ next = 1 /\ rest = << >>
  /\ remote = {}

\* The setting, if it holds a valid context.  A text without any traceparent is
\* not looked at further.
ReadSetting ==
  /\ scan = "setting"
  /\ remote' = parse_traceparent(guc)
  /\ scan' = IF remote' # {} \/ \A j \in 1 .. Len(text) : text[j] \notin Keys
             THEN "decided" ELSE "comments"
  /\ UNCHANGED <<guc, i, open, comments, next, rest>>

\* block_comments, one iteration.
Scanning == scan = "comments" /\ i + 1 < Len(text)

ScanOpen ==
  /\ Scanning /\ IsPair(text, i, "/", "*")
  /\ open' = Append(open, i + 2)
  /\ i' = i + 2
  /\ UNCHANGED <<guc, scan, comments, next, rest, remote>>

\* Mutant: the end of a comment closes the outermost.
Outermost == 1

Innermost == Len(open)

\* The end of a comment closes the innermost; a stray one is skipped.
ScanClose ==
  /\ Scanning /\ IsPair(text, i, "*", "/")
  /\ IF open = << >>
     THEN UNCHANGED <<open, comments>>
     ELSE /\ comments' = Append(comments, Slice(text, open[Innermost], i))
          /\ open' = SubSeq(open, 1, Len(open) - 1)
  /\ i' = i + 2
  /\ UNCHANGED <<guc, scan, next, rest, remote>>

ScanOther ==
  /\ Scanning /\ ~IsPair(text, i, "/", "*") /\ ~IsPair(text, i, "*", "/")
  /\ i' = i + 1
  /\ UNCHANGED <<guc, scan, open, comments, next, rest, remote>>

ScanEnd ==
  /\ scan = "comments" /\ i + 1 >= Len(text)
  /\ scan' = "pairs"
  /\ UNCHANGED <<guc, i, open, comments, next, rest, remote>>

\* traceparent_values, one iteration.  What is left, behind separators, is a
\* comment's next key and what follows it.
Trimmed == From(rest, SpanOf(rest, Separators))
BehindBlanks(s) == From(s, SpanOf(s, Blank))
Key(s) == Slice(s, 0, SpanNotOf(s, Separators \cup Quotes \cup {"="}))
AfterKey(s) == From(s, Len(Key(s)))

\* The comment is read: on to the next one.
NextComment(left) ==
  /\ left = << >>
  /\ IF next > Len(comments)
     THEN scan' = "decided" /\ UNCHANGED <<next, rest>>
     ELSE rest' = comments[next] /\ next' = next + 1 /\ UNCHANGED scan
  /\ UNCHANGED <<guc, i, open, comments, remote>>

\* Mutant: a stray `=` or quote is looked at again.
with_mark(left) == left

WithoutMark(left) == Tail(left)

StrayMark(left) ==
  /\ left # << >> /\ Key(left) = << >>
  /\ rest' = WithoutMark(left)
  /\ UNCHANGED <<guc, scan, i, open, comments, next, remote>>

\* A key is followed by a value, or it is skipped.
Keyed(left) ==
  /\ Key(left) # << >>
  /\ \E behind \in {BehindBlanks(AfterKey(left))} :
       \/ /\ At(behind, 0) # "="
          /\ rest' = AfterKey(left)
          /\ UNCHANGED <<scan, remote>>
       \/ /\ At(behind, 0) = "="
          /\ \E split \in {split_value(BehindBlanks(Tail(behind)))} :
               /\ rest' = split.after
               /\ remote' = IF is_traceparent_key(percent_decode(Key(left)))
                            THEN parse_traceparent(percent_decode(split.value)) ELSE {}
          /\ scan' = IF remote' # {} THEN "decided" ELSE "pairs"
  /\ UNCHANGED <<guc, i, open, comments, next>>

ContextNext ==
  \/ ReadSetting
  \/ ScanOpen \/ ScanClose \/ ScanOther \/ ScanEnd
  \/ /\ scan = "pairs"
     /\ \E left \in {Trimmed} : NextComment(left) \/ StrayMark(left) \/ Keyed(left)

\* decide_parent: nothing is collected for a trace that is not sampled.
Skipped == \E w \in remote : ~is_sampled(w)

----------------------------------------------------------------------------
(* Properties *)

\* The scans stay inside the text, and what is open begins inside it.
ContextTypeOK ==
  /\ scan \in {"setting", "comments", "pairs", "decided"}
  /\ i \in 0 .. Len(text) + 1
  /\ \A k \in 1 .. Len(open) : open[k] \in 2 .. Len(text)
  /\ next \in 1 .. Len(comments) + 1
  /\ Len(rest) <= Len(text)
  /\ Cardinality(remote) <= 1 /\ (remote # {} => scan = "decided")
=============================================================================
