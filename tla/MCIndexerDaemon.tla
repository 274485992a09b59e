-------------------------- MODULE MCIndexerDaemon --------------------------
(* One client with two requests: one may shut the connection down while    *)
(* the other, or a reconnect timer, dials.                                 *)
EXTENDS IndexerDaemon

MCOwner == [r1 |-> "c1", r2 |-> "c1", t1 |-> "c1"]
=============================================================================
