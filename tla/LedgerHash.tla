------------------------------ MODULE LedgerHash ------------------------------
(***************************************************************************)
(* Events, hashes and lines of the ledger files of src/core/ledger.ts.     *)
(*                                                                         *)
(* The bytes of an event do not matter, only which event it is: an event is*)
(* a number, fresh for each call (randomUUID), and a hash is the sequence  *)
(* of events it commits to, so SHA-256 is taken to be free of collisions.  *)
(* canonicalize() makes the hash independent of the order of the keys,     *)
(* which has no counterpart here.                                          *)
(***************************************************************************)
EXTENDS Sequences

GENESIS_PREV_HASH == << >>
hashEvent(prev, event) == Append(prev, event)

Sealed(prev, event) == [kind |-> "event", prev_hash |-> prev,
                        hash |-> hashEvent(prev, event), event |-> event]
Legacy == [kind |-> "legacy"]  \* neither prev_hash nor hash
Half   == [kind |-> "half"]    \* only one of the two
Junk   == [kind |-> "junk"]    \* not JSON
=============================================================================
