----------------------------- MODULE QueryText -----------------------------
(***************************************************************************)
(* The two readings of a statement's text in the order of                  *)
(* collect_spans_unguarded (src/postgres.rs): first decide_parent, then,   *)
(* unless the trace is not sampled, from_query, which sanitizes the text.  *)
(***************************************************************************)
EXTENDS TraceContext, Sanitize

CONSTANT Inputs    \* texts with settings, and what a reader expects of them

\* "$" names a placeholder that is written, no byte of a text.
ASSUME InputAssumption ==
  \A x \in Inputs :
    /\ x.text \in Seq(STRING) /\ x.range \in Int \X Int
    /\ \A k \in 1 .. Len(x.text) : x.text[k] # "$"

VARIABLE input

vars == <<text, input, contextVars, sanitizeVars>>

Init ==
  /\ input \in Inputs
  /\ text = input.text /\ guc = input.guc
  /\ mode = input.mode /\ utf8 = input.utf8 /\ range = input.range
  /\ ContextInit
  /\ SanitizeInit

DecideParent == ContextNext /\ UNCHANGED <<text, input, sanitizeVars>>

FromQuery ==
  /\ scan = "decided" /\ ~Skipped
  /\ SanitizeNext
  /\ UNCHANGED <<text, input, contextVars>>

Finished ==
  /\ scan = "decided" /\ (Skipped \/ step = "done")
  /\ UNCHANGED vars

Next == DecideParent \/ FromQuery \/ Finished

Spec == Init /\ [][Next]_vars

\* Nothing is waited for: the hook runs on.
FairSpec == Spec /\ WF_vars(DecideParent) /\ WF_vars(FromQuery)

----------------------------------------------------------------------------
(* Properties *)

\* Both scans stay inside the text, a placeholder's number is an i32, and what is
\* decided or exported is at most one thing.
TypeOK ==
  /\ ContextTypeOK
  /\ step \in {"extract", "lex", "render", "truncate", "done"}
  /\ Scanned \in 0 .. Len(stmt)
  /\ token_index \in 1 .. Len(tokens) + 1
  /\ compaction_index \in 1 .. Len(compactions) + 1
  /\ next_placeholder \in 1 .. MAX_PLACEHOLDER
  /\ Cardinality(exported) <= 1

\* The scans end, whatever the text: no loop of the comment scan, of the pairs, of
\* the tokens or of the rendering looks at one place forever.
ScansEnd == <>(scan = "decided" /\ (Skipped \/ step = "done"))

Words(pieces) == {pieces[k].w : k \in 1 .. Len(pieces)}

\* "With normalize_text the result never contains literal values" (sanitize), in
\* every encoding, for every text and every location and length: not behind what the
\* scanner took for a comment, in a list that is left out, or in a cut.
NothingRaw == mode = "normalized" => \A pieces \in exported : "lit" \notin Words(pieces)

\* There is a number for every literal above the highest parameter.  PostgreSQL sees
\* to that: its parse analysis refuses a statement with a parameter above
\* MaxAllocSize / sizeof(Oid), an eighth of i32::MAX, and a literal takes a byte.
NumbersFit == HighestParam + Constants(1, Len(tokens) + 1) <= MAX_PLACEHOLDER

\* "Existing $n parameters are kept and new placeholders are numbered above the
\* highest existing one so they never collide", not with one of a list that is left
\* out either; neither do they with each other, up to the last number there is.
PlaceholdersApart ==
  mode = "normalized" /\ NumbersFit =>
    \A j \in 1 .. Len(out) :
      out[j].w = "$" =>
        /\ \A k \in 1 .. Len(out) : k # j /\ out[k].w = "$" => out[k].n # out[j].n
        /\ \A k \in 1 .. Len(tokens) :
             \A p \in DOMAIN Params : Text(tokens[k]) = <<p>> => out[j].n > Params[p]

\* Words that are apart in the statement are apart in the text that is rendered:
\* it could be scanned again.
NeverFused ==
  mode = "normalized" =>
    \A k \in 1 .. Len(out) - 1 :
      IsWord(out[k].w) /\ IsWord(out[k + 1].w) => out[k].w = "e1" /\ out[k + 1].w = "e2"

\* What is exported is the beginning of what was rendered, never ends inside a
\* character, and is no shorter than that takes.
CutAtCharacter ==
  \A pieces \in exported :
    /\ Len(pieces) <= MAX_LEN /\ IsPrefix(pieces, out)
    /\ pieces # << >> => Last(pieces).w # "e1"
    /\ Len(pieces) >= Min({Len(out), MAX_LEN - 1})

----------------------------------------------------------------------------
(* What a reader expects, by the kind of input *)

\* The bytes of s, by offset, that belong to the statement at the place given.
Own(s, place) ==
  {k \in 0 .. Len(s) - 1 :
     place[1] >= 0 => k >= place[1] /\ (place[2] > 0 => k < place[1] + place[2])}

\* A comment of s from offset a to the mark at b, with no other mark in it or against it.
IsComment(s, a, b) ==
  /\ a + 2 <= b /\ IsPair(s, a, "/", "*") /\ IsPair(s, b, "*", "/") /\ At(s, a - 1) # "*"
  /\ \A k \in a + 2 .. b - 1 : ~IsPair(s, k, "/", "*") /\ ~IsPair(s, k, "*", "/")

\* A "sibling" is a byte of another statement, a "secret" one of a comment.
ASSUME StatementInputAssumption ==
  \A x \in Inputs :
    x.kind = "statement" =>
      \A k \in Own(x.text, x.range) :
        /\ At(x.text, k) # "sibling"
        /\ At(x.text, k) = "secret" =>
             \E a, b \in Own(x.text, x.range) :
               /\ a + 2 <= k /\ k < b /\ b + 1 \in Own(x.text, x.range)
               /\ IsComment(x.text, a, b)

\* PostgreSQL's comments in a text: the inner texts, inner comments first, and
\* whether a `*` outside comments touches the opening of one, as in `SELECT */* c */`.
\* What is read depends on the offset, where the comments still open begin, and
\* whether such a `*` is just in front.
PgComments(s) ==
  LET read[c \in (0 .. Len(s)) \X Seq(0 .. Len(s)) \X BOOLEAN] ==
        LET k == c[1]
            stack == c[2]
        IN  IF k = Len(s) THEN [found |-> << >>, touched |-> FALSE]
            ELSE IF IsPair(s, k, "/", "*")
            THEN LET r == read[<<k + 2, Append(stack, k + 2), FALSE>>]
                 IN  [found |-> r.found, touched |-> r.touched \/ c[3]]
            ELSE IF stack # << >> /\ IsPair(s, k, "*", "/")
            THEN LET r == read[<<k + 2, Front(stack), FALSE>>]
                 IN  [found |-> <<Slice(s, Last(stack), k)>> \o r.found, touched |-> r.touched]
            ELSE read[<<k + 1, stack, stack = << >> /\ At(s, k) = "*">>]
  IN  read[<<0, << >>, FALSE>>]

\* "Inner text of every complete `/* ... */` comment in `text`, including comments
\* nested inside others": the plain scan finds what PostgreSQL's scanner does,
\* unless an operator that ends in `*` touches a comment.
CommentsFound ==
  scan = "pairs" => comments = PgComments(text).found \/ PgComments(text).touched

\* The keys of the text are percent-encoded, all of them.
OnlyEncodedKeys ==
  /\ \E k \in 1 .. Len(text) : text[k] = "%74raceparent"
  /\ \A k \in 1 .. Len(text) : text[k] \notin Keys

\* "a valid pg_otel.traceparent GUC value, then the first valid traceparent found
\* in a comment of the query text, otherwise a new trace": also behind other pairs
\* of a comment, in quotes, where a later pair closes a quote, and with the shapes
\* later versions may have; but not in a text whose keys are all percent-encoded.
ParentFound ==
  scan = "decided" /\ input.kind = "pairs" /\ ~OnlyEncodedKeys => remote = input.parent

\* The same with "Keys and values are percent-decoded" (traceparent_values,
\* src/postgres.rs:562) taken at its word: in every text.
EncodedKeysFound ==
  scan = "decided" /\ input.kind = "pairs" => remote = input.parent

\* SELECT lists "retain their first item and become `SELECT first, ...(N more
\* columns)`; subsequent clauses are retained", nothing else is lost, and literals are
\* numbered as they stand in the statement, those that are left out too.
SelectListsShortened ==
  step = "truncate" /\ input.kind = "statement" /\ mode = "normalized" /\ NumbersFit =>
    SelectSeq(out, LAMBDA p : p.w # " ") = input.rendered

\* "text of sibling statements is never exported", in raw mode neither, and comments
\* are not, when the text is normalized.
OnlyItsText ==
  input.kind = "statement" =>
    \A pieces \in exported :
      /\ "sibling" \notin Words(pieces)
      /\ mode = "normalized" => "secret" \notin Words(pieces)
=============================================================================
