---------------------------- MODULE MCConnection ----------------------------
(***************************************************************************)
(* Connection for TLC: a short package, one longer than max_write_size,    *)
(* which takes two pieces, a heartbeat and one the codec rejects.          *)
(***************************************************************************)
EXTENDS Connection

MCPackages ==
  { [kind |-> "data", len |-> 1], [kind |-> "data", len |-> 3],
    [kind |-> "beat", len |-> 1], [kind |-> "bad", len |-> 1] }

(* The client sends twice and the server, which answers heartbeats, once.  *)
MCMaxSends == [e \in Ends |-> IF e = "client" THEN 2 ELSE 1]

=============================================================================
