---------------------------- MODULE MCQueryText ----------------------------
(* Query texts for TLC, with what a reader expects of them. *)
EXTENDS QueryText

Texts(S, n) == UNION {[1 .. k -> S] : k \in 0 .. n}
Joined(parts, sep) ==
  FlattenSeq([k \in 1 .. 2 * Len(parts) - 1 |-> IF k % 2 = 1 THEN parts[(k + 1) \div 2] ELSE sep])

Whole(kind, s) ==
  [kind |-> kind, text |-> s, guc |-> << >>, mode |-> "normalized", utf8 |-> TRUE,
   range |-> <<-1, 0>>]

----------------------------------------------------------------------------
(* Comments: every text of a few bytes. *)

RawInputs == {Whole("raw", s) : s \in Texts({"/", "*", "traceparent"}, 7)}

----------------------------------------------------------------------------
(* Pairs in comments. *)

\* An item of a comment, and the context a reader finds in it.
Item(words, parent) == [words |-> words, parent |-> parent]
Assign(key, value) == <<key, "=">> \o value

Values == {"on", "off", "later", "longer", "ff", "zero", "upper", "cut"}
Usable == {"on", "off", "later"}

Items ==
  {Item(Assign("traceparent", <<v>>), {v} \cap Usable) : v \in Values} \cup
  {Item(Assign("pg_otel.traceparent", <<q, " ", "off", " ", q>>), {"off"}) : q \in Quotes} \cup
  {Item(Assign("key", <<q, ",", "traceparent", "=", "on", ",", q>>), {}) : q \in Quotes} \cup
  {Item(<<"traceparent", " ", "=", " ", "on">>, {"on"}),
   Item(Assign("traceparent", <<"%6fn">>), {"on"}),
   Item(Assign("%74raceparent", <<"off">>), {"off"}),
   Item(Assign("traceparent", <<"'", "on">>), {}),
   Item(Assign("traceparent", <<"on", "on">>), {}),
   Item(Assign("key", <<"on">>), {}),
   Item(Assign("key", << >>), {}),
   Item(<<"key">>, {}), Item(<<"=">>, {}), Item(<<"'">>, {})}

\* A quote that nothing in its item closes: it goes on to the next quote of the
\* comment, and without one the rest of the comment is not read.
Unclosed(item) == item.words = Assign("traceparent", <<"'", "on">>)
\* A key whose value may follow behind blanks.
Awaits(item) == item.words = Assign("key", << >>)

\* What is found in b when its first quote closes one that was open.
Reopened(b) == IF b.words = Assign("key", <<"'", ",", "traceparent", "=", "on", ",", "'">>)
               THEN {"on"} ELSE {}

\* The context found in a comment, or in a comment and then in another.
Then(a, b) == IF a.parent # {} THEN a.parent ELSE b.parent
FirstOf(a, b) == IF Unclosed(a) THEN Reopened(b) ELSE Then(a, b)

Comment(words) == <<"/", "*">> \o words \o <<"*", "/">>

\* Comments of up to two items: side by side, one behind, inside or in front of
\* another that is not closed.
Commented ==
  {[text |-> Comment(a.words), parent |-> a.parent] : a \in Items} \cup
  UNION {{[text |-> Comment(Joined(<<a.words, b.words>>, <<",">>)), parent |-> FirstOf(a, b)],
          [text |-> Comment(a.words) \o <<" ">> \o Comment(b.words), parent |-> Then(a, b)],
          [text |-> <<"/", "*">> \o a.words \o <<" ">> \o Comment(b.words), parent |-> b.parent]} :
         a, b \in Items} \cup
  UNION {{[text |-> Comment(Joined(<<a.words, b.words>>, <<" ">>)),
           parent |-> IF Unclosed(a) /\ b.words = <<"'">> THEN {"on"} ELSE FirstOf(a, b)],
          [text |-> Comment(a.words \o <<" ">> \o Comment(b.words)),
           parent |-> IF b.parent # {} THEN b.parent ELSE FirstOf(a, b)]} :
         a \in {c \in Items : ~Awaits(c)}, b \in Items}

PairInputs ==
  {Whole("pairs", <<"SELECT", " ", "col">> \o c.text) @@ [parent |-> c.parent] : c \in Commented} \cup
  {[Whole("pairs", Comment(a.words)) EXCEPT !.guc = <<g>>] @@
     [parent |-> IF g \in Usable THEN {g} ELSE a.parent] : a \in Items, g \in Values}

----------------------------------------------------------------------------
(* Statements. *)

\* A part of a statement: its words, and what a reader expects to see of it when
\* it is kept ("skip" is a literal that is left out of a shortened list).
Part(words, shown) == [words |-> words, shown |-> Pieces(shown)]
Same(words) == Part(words, words)

Selected(more) ==
  [words |-> <<"(", "SELECT", "lit", ",", "lit", ",", "col">> \o more \o <<")">>,
   shown |-> Pieces(<<"(", "SELECT", "lit">>) \o <<Piece("more", 2), Piece("skip", 0)>> \o
             Pieces(more) \o Pieces(<<")">>)]

\* With the highest parameter a statement has numbers for two literals.
MCParams == ("$2" :> 2) @@ ("$7" :> 7)

Columns ==
  {Same(<<"col">>), Same(<<"lit">>), Same(<<"$2">>), Same(<<"e1", "e2">>),
   Same(<<"col", "(", "lit", ",", "$7", ")">>), Same(<<"col", "lit">>),
   Selected(<< >>), Selected(<<"FROM", "e1", "e2">>)}

Tails ==
  {Same(<< >>), Same(<<"FROM", "col", ",", "col">>), Same(<<"FROM", "col", "ON", "lit">>),
   Part(<<"FROM", "(", "SELECT", "col", ",", "lit", ")">>,
        <<"FROM", "(", "SELECT", "col", "MORE", "skip", ")">>),
   Part(<<"FROM", "SELECT", "col", ",", "col", ";">>, <<"FROM", "SELECT", "col", "MORE", ";">>),
   Part(<<"UNION", "SELECT", "lit", ",", "lit">>, <<"UNION", "SELECT", "lit", "MORE", "skip">>)}

\* One further column is left out where "MORE" stands.
Marked(pieces) ==
  [k \in 1 .. Len(pieces) |-> IF pieces[k].w = "MORE" THEN Piece("more", 1) ELSE pieces[k]]

Skips(part) == SelectSeq([k \in 1 .. Len(part.words) |->
                            IF part.words[k] = "lit" THEN Piece("skip", 0) ELSE Piece("", 0)],
                         LAMBDA p : p.w = "skip")

\* The statement of some columns, and what is to be rendered of it.
Shown(columns, tail) ==
  Pieces(<<"SELECT">>) \o columns[1].shown \o
  (IF Len(columns) = 1 THEN << >>
   ELSE <<Piece("more", Len(columns) - 1)>> \o
        FlattenSeq([k \in 1 .. Len(columns) - 1 |-> Skips(columns[k + 1])])) \o
  Marked(tail.shown)

\* Literals have the numbers behind the highest parameter, in the order in which
\* they stand in the statement.
Numbered(pieces, above) ==
  LET literals(k) == Cardinality({j \in 1 .. k : pieces[j].w \in {"lit", "skip"}})
  IN  SelectSeq([k \in 1 .. Len(pieces) |->
                   IF pieces[k].w = "lit" THEN Piece("$", above + literals(k)) ELSE pieces[k]],
                LAMBDA p : p.w # "skip")

Wording(columns, tail) ==
  <<"SELECT">> \o Joined([k \in 1 .. Len(columns) |-> columns[k].words], <<",">>) \o tail.words

\* Words need something between them; what it is, and whether other tokens have it
\* too, differs.
Spaced(words, gap, everywhere) ==
  FlattenSeq([k \in 1 .. Len(words) |->
    IF k > 1 /\ ~(words[k - 1] = "e1" /\ words[k] = "e2") /\
       (everywhere \/ (IsWord(words[k - 1]) /\ IsWord(words[k]) /\
                       words[k - 1] # "lit" /\ words[k] # "lit"))
    THEN gap \o <<words[k]>> ELSE <<words[k]>>])

Statement(columns, tail, gap, everywhere) ==
  LET words == Wording(columns, tail)
      above == Max({0} \cup {MCParams[w] : w \in DOMAIN MCParams \cap ToSet(words)})
  IN  [kind |-> "statement", text |-> Spaced(words, gap, everywhere), guc |-> << >>,
       mode |-> "normalized", utf8 |-> TRUE, range |-> <<-1, 0>>,
       rendered |-> Numbered(Shown(columns, tail), above)]

Lists(S) == [1 .. 1 -> S] \cup [1 .. 2 -> S] \cup [1 .. 3 -> S]

StatementInputs ==
  {Statement(columns, tail, <<" ">>, FALSE) : columns \in Lists(Columns), tail \in Tails} \cup
  {Statement(columns, tail, Comment(<<"secret">>), everywhere) :
     columns \in [1 .. 2 -> Columns], tail \in Tails, everywhere \in BOOLEAN}

\* The same between siblings, at the place PostgreSQL gives.
Between(s, before, after) ==
  [s EXCEPT !.text = before \o @ \o after,
            !.range = <<Len(before), IF after = << >> THEN 0 ELSE Len(s.text)>>]

Sibling == <<"sibling", " ", "lit">>

SiblingInputs ==
  {[Between(Statement(columns, tail, <<" ">>, FALSE), before, after)
      EXCEPT !.mode = m, !.utf8 = u] :
     columns \in [1 .. 2 -> Columns], tail \in {Same(<< >>), Same(<<"FROM", "col">>)},
     before \in {<< >>, Sibling \o <<";", " ">>}, after \in {<< >>, <<";">> \o Sibling},
     m \in {"off", "normalized", "raw"}, u \in BOOLEAN}

\* Places that do not fit the text, and a scanner that fails.
StrayInputs ==
  {[Whole("stray", <<"SELECT", " ", "e1", "e2", " ", "/", "*", "secret", "*", "/", "lit">> \o last)
      EXCEPT !.range = <<location, len>>, !.mode = m] :
     location \in -1 .. 13, len \in -1 .. 14, m \in {"normalized", "raw"},
     last \in {<< >>, <<"open">>}}

MCInputs == RawInputs \cup PairInputs \cup StatementInputs \cup SiblingInputs \cup StrayInputs
=============================================================================
