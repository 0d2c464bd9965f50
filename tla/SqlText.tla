------------------------------ MODULE SqlText ------------------------------
(***************************************************************************)
(* The text of a query as pg_otel reads it, twice and for two purposes:    *)
(* TraceContext looks for a caller's trace in its comments, Sanitize makes *)
(* of it what may be exported.                                             *)
(*                                                                         *)
(* A text is a sequence of bytes. To keep texts short a whole word is a    *)
(* byte too: "SELECT", "FROM" and "UNION" (keywords that end a select      *)
(* list), "ON" (any other), "col" (an identifier), "lit" (a quoted or      *)
(* numeric literal), the words that Sanitize takes for parameters, and the *)
(* words of comments in TraceContext. "e1", "e2" are the two bytes of one  *)
(* character that is an identifier; "open" is a quote that is never        *)
(* closed.                                                                 *)
(*                                                                         *)
(* Offsets count from 0 and ranges exclude their end, as in the code.      *)
(***************************************************************************)
EXTENDS Integers, Sequences, FiniteSets, FiniteSetsExt

VARIABLE text    \* QueryDesc.sourceText

\* The byte of s at an offset, which may lie outside; the bytes from..to.
At(s, offset) == IF offset \in 0 .. Len(s) - 1 THEN s[offset + 1] ELSE "end"
Slice(s, from, to) == SubSeq(s, from + 1, to)

\* Length of the longest prefix of s whose bytes are in, or are not in, S.
SpanOf(s, S) == Min({j \in 1 .. Len(s) : s[j] \notin S} \cup {Len(s) + 1}) - 1
SpanNotOf(s, S) == Min({j \in 1 .. Len(s) : s[j] \in S} \cup {Len(s) + 1}) - 1
From(s, offset) == Slice(s, offset, Len(s))

IsPair(s, offset, a, b) == At(s, offset) = a /\ At(s, offset + 1) = b

\* Where PostgreSQL's scanner finds the next token of s at or after an offset:
\* behind whitespace and comments, which nest.  -1: a comment is not closed.  What is
\* skipped depends on the offset and on how many comments are open.
NextToken(s, offset) ==
  LET skip[c \in (0 .. Len(s)) \X Nat] ==
        LET k == c[1]
            depth == c[2]
        IN  IF k = Len(s) THEN (IF depth = 0 THEN k ELSE -1)
            ELSE IF IsPair(s, k, "/", "*") THEN skip[<<k + 2, depth + 1>>]
            ELSE IF depth > 0
                 THEN IF IsPair(s, k, "*", "/") THEN skip[<<k + 2, depth - 1>>]
                                                ELSE skip[<<k + 1, depth>>]
                 ELSE IF At(s, k) = " " THEN skip[<<k + 1, depth>>] ELSE k
  IN  skip[<<offset, 0>>]
=============================================================================
