---------------------------- MODULE MCSpanExport ----------------------------
(* Settings for TLC. *)
EXTENDS ExportRefinement

MCReadable == {"ca.pem"}

Grpc(authorization, ca_certificate) ==
  [endpoint |-> "url", protocol |-> "grpc", authorization |-> authorization,
   ca_certificate |-> ca_certificate]

\* Usable and not: for gRPC the certificate must be there, for HTTP it is ignored.
GrpcSettings == {Grpc("token", "ca.pem"), Grpc("unset", "gone.pem")}

OtherSettings == {[Grpc("unset", "gone.pem") EXCEPT !.protocol = "http/protobuf"],
                  [Grpc("token", "ca.pem") EXCEPT !.endpoint = "unset"]}
=============================================================================
