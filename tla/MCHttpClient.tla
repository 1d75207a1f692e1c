---------------------------- MODULE MCHttpClient ----------------------------
(* Instances of HttpClient for TLC. *)
EXTENDS HttpClient

CONSTANT MaxLen     \* length of the longest response

MCResponses == UNION {[1 .. n -> Byte] : n \in 0 .. MaxLen}
=============================================================================
