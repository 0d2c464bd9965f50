--------------------------- MODULE ExporterConfig ---------------------------
(***************************************************************************)
(* Which settings of the worker make an exporter: ExporterConfig::load     *)
(* (src/config.rs) and build_exporter (src/worker.rs).                     *)
(*                                                                         *)
(* The value of a setting is "unset", "garbled" (not UTF-8) or a text.     *)
(* Among them "" is the empty text, "malformed" an endpoint and            *)
(* "unprintable" an Authorization header that cannot be parsed.  A protocol *)
(* stands for all its spellings in upper and lower case letters, which     *)
(* build_exporter does not tell apart.                                     *)
(***************************************************************************)

CONSTANT Readable    \* paths of files that can be read

\* get_otlp_endpoint and the getters like it: a set of at most one text.
text(value) == {value} \ {"unset", "garbled"}

load(settings) ==
  {[endpoint |-> endpoint, protocol |-> protocol,
    authorization |-> text(settings.authorization),
    ca_certificate |-> text(settings.ca_certificate)] :
      endpoint \in text(settings.endpoint), protocol \in text(settings.protocol)}

\* The libraries' builders refuse an endpoint that is no URL.
builds(config) == config.endpoint # "malformed"

\* The certificate is read, and the header parsed, for gRPC only.
grpc(config) ==
  /\ config.protocol \in {"grpc", "grpc-tonic"}
  /\ config.ca_certificate \subseteq Readable
  /\ "unprintable" \notin config.authorization

http(config) == config.protocol \in {"http", "http/protobuf", "http-binary"}

\* build_exporter returns an exporter.
build_exporter(settings) ==
  \E config \in load(settings) : (grpc(config) \/ http(config)) /\ builds(config)
=============================================================================
