---------------------------- MODULE DurableState ----------------------------
(***************************************************************************)
(* What StateMachine of src/core/state.ts promises a caller that awaits    *)
(* each update: a state in memory, a state on disk that is replaced as a   *)
(* whole by the one in memory, and a load() that brings it back.  A state  *)
(* is the set of the updates that made it.                                 *)
(***************************************************************************)
CONSTANT Updates

VARIABLES mem, disk

Init == mem = {} /\ disk = {}

Apply   == \E u \in Updates \ mem : mem' = mem \cup {u} /\ UNCHANGED disk
Persist == disk' = mem /\ UNCHANGED mem
Lose    == mem' = {} /\ UNCHANGED disk
Load    == mem' = disk /\ UNCHANGED disk

Next == Apply \/ Persist \/ Lose \/ Load

Spec == Init /\ [][Next]_<<mem, disk>>
=============================================================================
