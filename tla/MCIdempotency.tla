---------------------------- MODULE MCIdempotency ----------------------------
(* One key in two spellings: "POST" and "post". *)
EXTENDS Idempotency

MCScopes == {"POST", "post"}
MCSpelling == [s \in MCScopes |-> "POST"]
=============================================================================
