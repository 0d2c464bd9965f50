------------------------------- MODULE Codec -------------------------------
(***************************************************************************)
(* The spans of a statement as bytes and back: encode_batch of a backend   *)
(* and decode_records of the worker (src/codec.rs), with the stream of     *)
(* records between them (Batch and records of src/queue.rs).  RingQueue    *)
(* shows that the queue hands the stream on as it is; here it may also be  *)
(* damaged, which the decoder promises to survive.                         *)
(*                                                                         *)
(* Numbers have one byte, lengths two.  Bytes are 0 .. BASE - 1, the last  *)
(* of which is not UTF-8.  What a decoder returns is a set of one result,  *)
(* or, for an error, the empty set.                                        *)
(***************************************************************************)
EXTENDS Integers, SequencesExt

CONSTANTS
  BASE,
  MAX_RECORD_BYTES,
  Statements          \* sequences of spans

\* A length prefix can hold every length a record may have, and the tags are bytes.
ASSUME CodecAssumption ==
  /\ BASE \in Nat /\ BASE > 3
  /\ MAX_RECORD_BYTES \in 0 .. BASE * BASE - 1

Byte == 0 .. BASE - 1
IsUtf8(bytes) == BASE - 1 \notin ToSet(bytes)

FORMAT_VERSION == 2
KIND_QUERY == 1
KIND_PLAN_NODE == 2

VARIABLES
  spans,        \* the spans of a statement
  next,         \* the one to encode next
  batch,        \* the records made so far; then what the worker has not read of them
  records,      \* history: the spans behind those records
  skipped,
  damage,       \* history: the offset of a byte that was changed or is missing, or -1
  decoded, undecodable,
  payloads,     \* history: the payloads that could be decoded
  stream,       \* history: the stream as the worker received it
  phase

vars == <<spans, next, batch, records, skipped, damage, decoded, undecodable, payloads, stream,
          phase>>

----------------------------------------------------------------------------
(* encode_span *)

\* The types of the fields, in their order.
Header == <<"number", "number", "number", "time", "time", "string">>

QueryFormat == <<"bool", "string", "opt_string", "number", "number", "number">>

PlanNodeFormat ==
  <<"string", "opt_string", "opt_string", "opt_string", "number", "opt_number", "bool", "bool",
    "number", "number", "number", "number", "bool", "bool", "bool", "number", "number",
    "number", "number", "number", "number", "number">>

Format(kind) == Header \o IF kind = KIND_QUERY THEN QueryFormat ELSE PlanNodeFormat

\* A value that a span can have: what is decoded of a field, a time before it is encoded.
\* An optional value is a sequence of at most one.
IsA(type, v) ==
  CASE type \in {"number", "time"} -> v \in Byte
    [] type = "bool"       -> v \in BOOLEAN
    [] type = "string"     -> v \in Seq(Byte) /\ IsUtf8(v)
    [] type = "opt_number" -> v \in Seq(Byte) /\ Len(v) <= 1
    [] type = "opt_string" -> v \in Seq(Seq(Byte)) /\ Len(v) <= 1 /\ (v # << >> => IsUtf8(v[1]))

IsTaken(type, v) == IF type = "time" THEN v \in Int ELSE IsA(type, v)

\* The queries and plan nodes of a statement.
ASSUME StatementsAssumption ==
  \A statement \in Statements :
    /\ statement = [j \in 1 .. Len(statement) |-> statement[j]] /\ Len(statement) \in Nat
    /\ \A j \in 1 .. Len(statement) :
         LET span == statement[j]
             n    == Len(Format(span.kind))
         IN  /\ span = [kind |-> span.kind, fields |-> [k \in 1 .. n |-> span.fields[k]]]
             /\ span.kind \in {KIND_QUERY, KIND_PLAN_NODE}
             /\ \A k \in 1 .. n : IsTaken(Format(span.kind)[k], span.fields[k])

put_len(n) == <<n % BASE, n \div BASE>>

\* Mutant: times wrap.
put_time_wrapped(t) == t % BASE

\* Times before the epoch become the epoch, those that are too late the last.
put_time(t) == IF t < 0 THEN 0 ELSE IF t >= BASE THEN BASE - 1 ELSE t

put_str(s) ==
  LET len == IF Len(s) < BASE * BASE THEN Len(s) ELSE BASE * BASE - 1
  IN  put_len(len) \o SubSeq(s, 1, len)

\* Bytes of a value.
put(type, v) ==
  CASE type = "number"     -> <<v>>
    [] type = "time"       -> <<put_time(v)>>
    [] type = "bool"       -> <<IF v THEN 1 ELSE 0>>
    [] type = "string"     -> put_str(v)
    [] type = "opt_number" -> IF v = << >> THEN <<0>> ELSE <<1>> \o v
    [] type = "opt_string" -> IF v = << >> THEN <<0>> ELSE <<1>> \o put_str(v[1])

encode_span(span) ==
  <<FORMAT_VERSION, span.kind>> \o
  FlattenSeq([k \in 1 .. Len(span.fields) |-> put(Format(span.kind)[k], span.fields[k])])

----------------------------------------------------------------------------
(* decode_span *)

Read(value, rest) == [value |-> value, rest |-> rest]

\* Reader::take
take(bytes, len) ==
  IF len > Len(bytes) THEN {}
  ELSE {Read(SubSeq(bytes, 1, len), SubSeq(bytes, len + 1, Len(bytes)))}

byte(bytes) == {Read(t.value[1], t.rest) : t \in take(bytes, 1)}

bool(bytes) == {Read(b.value = 1, b.rest) : b \in {c \in byte(bytes) : c.value \in {0, 1}}}

\* Mutant: what is not UTF-8 is kept.
string_unchecked(bytes) ==
  UNION {take(len.rest, len.value[1] + len.value[2] * BASE) : len \in take(bytes, 2)}

string(bytes) ==
  {s \in UNION {take(len.rest, len.value[1] + len.value[2] * BASE) : len \in take(bytes, 2)} :
     IsUtf8(s.value)}

\* Behind its tag an optional value, which is one of `some` when it is there.
opt(tag, some) ==
  CASE tag.value = 0 -> {Read(<< >>, tag.rest)}
    [] tag.value = 1 -> {Read(<<r.value>>, r.rest) : r \in some}
    [] OTHER -> {}

opt_i64(bytes) == UNION {opt(tag, byte(tag.rest)) : tag \in byte(bytes)}
opt_string(bytes) == UNION {opt(tag, string(tag.rest)) : tag \in byte(bytes)}

read(type, bytes) ==
  CASE type \in {"number", "time"} -> byte(bytes)
    [] type = "bool"       -> bool(bytes)
    [] type = "string"     -> string(bytes)
    [] type = "opt_number" -> opt_i64(bytes)
    [] type = "opt_string" -> opt_string(bytes)

\* Mutant: bytes behind the last field are ignored.
ended_anywhere(fields) == TRUE

ended(fields) == fields.rest = << >>

\* The fields of a span one after the other.
read_fields(format, bytes) ==
  LET first[k \in 0 .. Len(format)] ==
        IF k = 0 THEN {Read(<< >>, bytes)}
        ELSE UNION {{Read(Append(fields.value, r.value), r.rest) : r \in read(format[k], fields.rest)} :
                      fields \in first[k - 1]}
  IN  first[Len(format)]

decode_span(bytes) ==
  UNION {{[kind |-> kind, fields |-> fields.value] :
            fields \in {f \in read_fields(Format(kind), SubSeq(bytes, 3, Len(bytes))) : ended(f)}} :
         kind \in {k \in {KIND_QUERY, KIND_PLAN_NODE} :
                     Len(bytes) >= 2 /\ bytes[1] = FORMAT_VERSION /\ bytes[2] = k}}

\* split_record
split_record(bytes) ==
  {r \in UNION {take(prefix.rest, prefix.value[1] + prefix.value[2] * BASE) :
                  prefix \in take(bytes, 2)} : Len(r.value) <= MAX_RECORD_BYTES}

----------------------------------------------------------------------------
Init ==
  /\ spans \in Statements
  /\ next = 1
  /\ batch = << >> /\ records = << >> /\ skipped = 0
  /\ damage = -1
  /\ decoded = << >> /\ undecodable = 0
  /\ payloads = << >> /\ stream = << >>
  /\ phase = "encode"

\* encode_batch, one span: push_record, or it is skipped.
EncodeSpan ==
  /\ phase = "encode" /\ next <= Len(spans)
  /\ \E payload \in {encode_span(spans[next])} :
       IF Len(payload) > MAX_RECORD_BYTES
       THEN skipped' = skipped + 1 /\ UNCHANGED <<batch, records>>
       ELSE /\ batch' = batch \o put_len(Len(payload)) \o payload
            /\ records' = Append(records, spans[next])
            /\ UNCHANGED skipped
  /\ next' = next + 1
  /\ UNCHANGED <<spans, damage, decoded, undecodable, payloads, stream, phase>>

Publish ==
  /\ phase = "encode" /\ next > Len(spans)
  /\ stream' = batch
  /\ phase' = "decode"
  /\ UNCHANGED <<spans, next, batch, records, skipped, damage, decoded, undecodable, payloads>>

\* A stray write, or a stream that is cut.
Damage ==
  /\ phase = "decode" /\ batch = stream /\ damage = -1 /\ stream # << >>
  /\ \E offset \in 1 .. Len(stream) :
       /\ \/ \E b \in Byte \ {stream[offset]} : stream' = [stream EXCEPT ![offset] = b]
          \/ stream' = SubSeq(stream, 1, offset - 1)
       /\ damage' = offset
  /\ batch' = stream'
  /\ UNCHANGED <<spans, next, records, skipped, decoded, undecodable, payloads, phase>>

\* Mutant: nothing is read behind a record that cannot be decoded.
give_up(spans_found, rest) == IF spans_found = {} THEN << >> ELSE rest

go_on(spans_found, rest) == rest

\* decode_records, one item of records(bytes): the iteration ends at a bad prefix.
DecodeRecord ==
  /\ phase = "decode" /\ batch # << >>
  /\ IF split_record(batch) = {}
     THEN batch' = << >> /\ undecodable' = undecodable + 1 /\ UNCHANGED <<decoded, payloads>>
     ELSE \E record \in split_record(batch) :
            \E found \in {decode_span(record.value)} :
              /\ IF found = {}
                 THEN undecodable' = undecodable + 1 /\ UNCHANGED <<decoded, payloads>>
                 ELSE /\ \E span \in found : decoded' = Append(decoded, span)
                      /\ payloads' = Append(payloads, record.value)
                      /\ UNCHANGED undecodable
              /\ batch' = go_on(found, record.rest)
  /\ UNCHANGED <<spans, next, records, skipped, damage, stream, phase>>

Done == phase = "decode" /\ batch = << >> /\ UNCHANGED vars

Next == EncodeSpan \/ Publish \/ Damage \/ DecodeRecord \/ Done

Spec == Init /\ [][Next]_vars

----------------------------------------------------------------------------
(* Properties *)

\* Whatever the bytes, what is decoded is a span: "corrupt input yields a DecodeError,
\* never a panic or an over-read".
TypeOK ==
  /\ next \in 1 .. Len(spans) + 1 /\ skipped \in 0 .. Len(spans) /\ undecodable \in Nat
  /\ ToSet(batch) \cup ToSet(stream) \subseteq Byte
  /\ \A span \in ToSet(decoded) :
       /\ span.kind \in {KIND_QUERY, KIND_PLAN_NODE}
       /\ Len(span.fields) = Len(Format(span.kind))
       /\ \A k \in 1 .. Len(span.fields) : IsA(Format(span.kind)[k], span.fields[k])

\* A span with its times as they can be written: the nearest there is.
Written(span) ==
  [span EXCEPT !.fields = [k \in 1 .. Len(@) |->
     IF Format(span.kind)[k] = "time"
     THEN CHOOSE t \in Byte : \A u \in Byte : (t - @[k]) * (t - @[k]) <= (u - @[k]) * (u - @[k])
     ELSE @[k]]]

Read_all == phase = "decode" /\ batch = << >>

\* Undamaged, the worker receives the spans that were not too large, in their order
\* and as they were but for times before the epoch; none is undecodable.
RoundTrip ==
  /\ skipped + Len(records) = next - 1
  /\ damage = -1 =>
       /\ undecodable = 0
       /\ Read_all => decoded = [k \in 1 .. Len(records) |-> Written(records[k])]

\* What is decoded is what was in the bytes, all of it and nothing else: written again
\* it gives the same bytes, also when they were damaged.
Canonical == \A k \in 1 .. Len(decoded) : encode_span(decoded[k]) = payloads[k]

\* The bytes of the first k records as they were made: where the k-th ends, and the
\* next begins.
First(k) ==
  FlattenSeq([j \in 1 .. k |-> put_len(Len(encode_span(records[j]))) \o encode_span(records[j])])
End(k) == Len(First(k))
Before(k) == End(k - 1)

\* "Those are skipped; a corrupt stream ends at the first bad length prefix": damage
\* inside a payload concerns its record only, which is skipped or is another span; the
\* records in front of the damage always arrive.
DamageConfined ==
  damage # -1 /\ Read_all =>
    \E k \in 1 .. Len(records) :
      /\ Before(k) < damage /\ damage <= End(k)
      /\ Len(decoded) >= k - 1 /\ \A j \in 1 .. k - 1 : decoded[j] = Written(records[j])
      /\ damage > Before(k) + 2 /\ Len(stream) = End(Len(records)) =>
           /\ Len(decoded) + undecodable = Len(records) /\ undecodable <= 1
           /\ \A j \in k + 1 .. Len(records) : decoded[j - undecodable] = Written(records[j])
=============================================================================
