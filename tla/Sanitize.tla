------------------------------ MODULE Sanitize ------------------------------
(***************************************************************************)
(* sanitize (src/sanitize.rs): what of a query's text may be exported.     *)
(* The current statement is cut out of the text, re-lexed with             *)
(* PostgreSQL's scanner, rendered with placeholders for its literals and   *)
(* with shortened SELECT lists, and truncated.  The loop over the          *)
(* scanner's tokens and the loop that renders them go iteration by         *)
(* iteration.                                                              *)
(***************************************************************************)
EXTENDS SqlText, SequencesExt

CONSTANTS
  MAX_NORMALIZE_INPUT_BYTES,
  MAX_LEN,                     \* QUERY_TEXT_MAX_LEN
  MAX_PLACEHOLDER,             \* i32::MAX
  Params                       \* the words that are parameters, with their numbers

\* The scanner gives a parameter's number as an i32.
ASSUME SanitizeAssumption ==
  /\ MAX_NORMALIZE_INPUT_BYTES \in Nat
  /\ MAX_LEN \in Nat
  /\ MAX_PLACEHOLDER \in Nat \ {0}
  /\ "lit" \notin DOMAIN Params
  /\ \A word \in DOMAIN Params : Params[word] \in 0 .. MAX_PLACEHOLDER

VARIABLES
  mode,              \* pg_otel.query_text: "off", "normalized" or "raw"
  utf8,              \* the server encoding is UTF-8
  range,             \* PlannedStmt: stmt_location and stmt_len
  step,              \* what sanitize does next
  stmt,              \* the current statement
  tokens,            \* lex: the tokens found
  compactions,       \* select_list_compactions
  token_index, compaction_index, next_placeholder, previous_end, out,    \* render
  exported           \* the text exported: a set of at most one

rendering == <<token_index, compaction_index, next_placeholder, previous_end, out>>
sanitizeVars == <<mode, utf8, range, step, stmt, tokens, compactions, rendering, exported>>

----------------------------------------------------------------------------
(* current_statement *)

\* Mutant: the statement goes on to the end of the text.
to_the_end(total, location, len) ==
  IF location < 0 THEN {<<-1, 0>>} ELSE IF location > total THEN {} ELSE {<<location, 0>>}

\* The location and length to give to CleanQuerytext: none for a location outside.
validated_range(total, location, len) ==
  IF location < 0 THEN {<<-1, 0>>}
  ELSE IF location > total THEN {}
  ELSE {<<location, IF len > total - location THEN 0 ELSE len>>}

\* CleanQuerytext of PostgreSQL: offsets of the statement without the blanks
\* around it.
CleanQuerytext(s, location, len) ==
  LET from  == IF location >= 0 THEN location ELSE 0
      to    == IF location >= 0 /\ len > 0 THEN location + len ELSE Len(s)
      solid == {j \in from .. to - 1 : At(s, j) # " "}
  IN  IF solid = {} THEN <<from, from>> ELSE <<Min(solid), Max(solid) + 1>>

\* String::from_utf8_lossy: half a character becomes U+FFFD.
Lossy(s) ==
  [j \in 1 .. Len(s) |->
     IF \/ s[j] = "e1" /\ (j = Len(s) \/ s[j + 1] # "e2")
        \/ s[j] = "e2" /\ (j = 1 \/ s[j - 1] # "e1")
     THEN "U+FFFD" ELSE s[j]]

current_statement ==
  {Lossy(Slice(text, c[1], c[2])) :
     c \in {CleanQuerytext(text, r[1], r[2]) :
              r \in validated_range(Len(text), range[1], range[2])}} \ {<< >>}

----------------------------------------------------------------------------
(* The scanner and its tokens *)

\* TokenKind::from_code.
Constant == [kind |-> "constant", number |-> 0]
Param(n) == [kind |-> "param", number |-> n]
Other == [kind |-> "other", number |-> 0]
from_code(word) ==
  CASE word = "lit" -> Constant [] word \in DOMAIN Params -> Param(Params[word]) [] OTHER -> Other

\* Mutant: the byte behind a token belongs to it.
TokenEndNul(start) == start + 2

\* A word is a token, and so is a character of two bytes.
TokenEnd(start) == IF IsPair(stmt, start, "e1", "e2") THEN start + 2 ELSE start + 1

Token(start) ==
  [code |-> from_code(At(stmt, start)), start |-> start, end |-> TokenEnd(start)]

\* Where the scanner stands.
Scanned == IF tokens = << >> THEN 0 ELSE tokens[Len(tokens)].end

Text(t) == Slice(stmt, t.start, t.end)
Is(k, word) == At(stmt, tokens[k].start) = word

----------------------------------------------------------------------------
(* select_list_compactions *)

\* Parentheses open around token k.
depth(k) == Cardinality({j \in 1 .. k - 1 : Is(j, "(")}) -
            Cardinality({j \in 1 .. k - 1 : Is(j, ")")})

\* select_list_terminator: "FROM" stands for the keywords of clauses, "UNION" for
\* those behind which another SELECT may follow.
Terminators == {"FROM", "UNION"}

\* Mutant: a list goes on behind the parenthesis that encloses its SELECT.
ListEndsOpen(k) == Is(k, ";") \/ \E w \in Terminators : Is(k, w)

\* The token ends a SELECT list.
ListEnds(k) == Is(k, ")") \/ Is(k, ";") \/ \E w \in Terminators : Is(k, w)

\* The clause behind the list of the SELECT at k, and the commas of the list.
ListEnd(k) ==
  Min({j \in k + 1 .. Len(tokens) : depth(j) = depth(k) /\ ListEnds(j)} \cup {Len(tokens) + 1})
Commas(k) == {j \in k + 1 .. ListEnd(k) - 1 : depth(j) = depth(k) /\ Is(j, ",")}

\* SelectListCompaction: from the first comma to that clause.
Compactions ==
  {[start |-> Min(Commas(k)), end |-> ListEnd(k), additional |-> Cardinality(Commas(k))] :
     k \in {j \in 1 .. Len(tokens) : Is(j, "SELECT") /\ Commas(j) # {}}}

\* Of lists that overlap the one that begins first is kept.
NonOverlapping(found) ==
  LET pick[left \in SUBSET found] ==
        IF left = {} THEN << >>
        ELSE LET first == CHOOSE c \in left : \A d \in left : c.start <= d.start
             IN  <<first>> \o pick[{c \in left : c.start >= first.end}]
  IN  pick[found]

----------------------------------------------------------------------------
(* render *)

\* What is written: bytes of the statement, placeholders "$" and the marks
\* "more" for `, ...(N more columns)`, each with its number.
Piece(w, n) == [w |-> w, n |-> n]
Pieces(s) == [j \in 1 .. Len(s) |-> Piece(s[j], 0)]

Punctuation == {"(", ")", ",", ";", "[", "]", "=", "/", "*", "'", "\"", " ", "more"}
IsWord(w) == w \notin Punctuation

\* Mutant: only what was apart before is kept apart.
never_fuses(next) == FALSE

would_fuse(next) == out # << >> /\ IsWord(Last(out).w) /\ IsWord(next[1].w)

\* Mutant: parameters are counted, whatever their numbers.
CountParams == Cardinality({k \in 1 .. Len(tokens) : tokens[k].code.kind = "param"}) + 1

\* saturating_add.
Saturated(n) == IF n > MAX_PLACEHOLDER THEN MAX_PLACEHOLDER ELSE n

\* The first placeholder is above all parameters.
HighestParam == Max({0} \cup {tokens[k].code.number : k \in 1 .. Len(tokens)})
FirstPlaceholder == Saturated(HighestParam + 1)

\* Mutant: literals are written as they are.
verbatim(t) == Pieces(Text(t))

Rendered(t) ==
  IF t.code.kind = "constant" THEN <<Piece("$", next_placeholder)>> ELSE Pieces(Text(t))

\* Literals among the tokens k..m-1.
Constants(k, m) == Cardinality({j \in k .. m - 1 : tokens[j].code.kind = "constant"})

AtCompaction ==
  compaction_index <= Len(compactions) /\ token_index = compactions[compaction_index].start

----------------------------------------------------------------------------
SanitizeInit ==
  /\ step = "extract"
  /\ stmt = << >> /\ tokens = << >> /\ compactions = << >>
  /\ token_index = 1 /\ compaction_index = 1 /\ next_placeholder = 1 /\ previous_end = -1
  /\ out = << >>
  /\ exported = {}

\* normalize_for, current_statement, and the early returns of normalize.
Extract ==
  /\ step = "extract"
  /\ IF mode = "off" \/ current_statement = {}
     THEN step' = "done" /\ UNCHANGED <<stmt, out>>
     ELSE \E s \in current_statement :
            /\ stmt' = s
            /\ out' = IF mode = "raw" THEN Pieces(s) ELSE << >>
            /\ step' = CASE mode = "raw" -> "truncate"
                         [] mode = "normalized" /\ utf8 /\ Len(s) <= MAX_NORMALIZE_INPUT_BYTES -> "lex"
                         [] OTHER -> "done"
  /\ UNCHANGED <<mode, utf8, range, tokens, compactions, token_index, compaction_index,
                 next_placeholder, previous_end, exported>>

\* scan_tokens, one iteration: a token, the end, or an error of the scanner, which
\* lex catches.
ScanToken ==
  /\ step = "lex"
  /\ LET start == NextToken(stmt, Scanned)
     IN  /\ start \in 0 .. Len(stmt) - 1 /\ At(stmt, start) # "open"
         /\ tokens' = Append(tokens, Token(start))
  /\ UNCHANGED <<mode, utf8, range, step, stmt, compactions, rendering, exported>>

ScanFails ==
  /\ step = "lex"
  /\ LET start == NextToken(stmt, Scanned) IN start = -1 \/ At(stmt, start) = "open"
  /\ step' = "done"
  /\ UNCHANGED <<mode, utf8, range, stmt, tokens, compactions, rendering, exported>>

EndOfInput ==
  /\ step = "lex" /\ NextToken(stmt, Scanned) = Len(stmt)
  /\ next_placeholder' = FirstPlaceholder
  /\ \E found \in {Compactions} : compactions' = NonOverlapping(found)
  /\ step' = "render"
  /\ UNCHANGED <<mode, utf8, range, stmt, tokens, token_index, compaction_index,
                 previous_end, out, exported>>

Compact ==
  /\ step = "render" /\ AtCompaction
  /\ LET c == compactions[compaction_index]
     IN  /\ out' = Append(out, Piece("more", c.additional))
         /\ next_placeholder' = Saturated(next_placeholder + Constants(c.start, c.end))
         /\ previous_end' = tokens[c.end - 1].end
         /\ token_index' = c.end
  /\ compaction_index' = compaction_index + 1
  /\ UNCHANGED <<mode, utf8, range, step, stmt, tokens, compactions, exported>>

Emit ==
  /\ step = "render" /\ ~AtCompaction /\ token_index <= Len(tokens)
  /\ LET t    == tokens[token_index]
         next == Rendered(t)
         gap  == previous_end >= 0 /\ t.start > previous_end
     IN  /\ out' = out \o (IF (gap \/ would_fuse(next)) /\ out # << >>
                           THEN <<Piece(" ", 0)>> ELSE << >>) \o next
         /\ next_placeholder' = IF t.code.kind = "constant" THEN Saturated(next_placeholder + 1)
                                                            ELSE next_placeholder
         /\ previous_end' = t.end
  /\ token_index' = token_index + 1
  /\ UNCHANGED <<mode, utf8, range, step, stmt, tokens, compactions, compaction_index, exported>>

RenderEnd ==
  /\ step = "render" /\ token_index > Len(tokens)
  /\ step' = "truncate"
  /\ UNCHANGED <<mode, utf8, range, stmt, tokens, compactions, rendering, exported>>

\* Mutant: the text is cut wherever its length says.
cut_anywhere == IF Len(out) <= MAX_LEN THEN Len(out) ELSE MAX_LEN

\* truncate_utf8: the last boundary of a character that MAX_LEN allows.
truncate_utf8 ==
  IF Len(out) <= MAX_LEN THEN Len(out)
  ELSE Max({end \in 0 .. MAX_LEN : end = 0 \/ out[end + 1].w # "e2"})

Truncate ==
  /\ step = "truncate"
  /\ exported' = {SubSeq(out, 1, truncate_utf8)}
  /\ step' = "done"
  /\ UNCHANGED <<mode, utf8, range, stmt, tokens, compactions, rendering>>

SanitizeNext ==
  \/ Extract
  \/ ScanToken \/ ScanFails \/ EndOfInput
  \/ Compact \/ Emit \/ RenderEnd
  \/ Truncate
=============================================================================
