------------------------- MODULE MCVerificationMesh -------------------------
(***************************************************************************)
(* A small instance of VerificationMesh: tasks that qualify, by complexity *)
(* or only under the looser policy, and tasks that do not.                 *)
(***************************************************************************)
EXTENDS VerificationMesh

Ask(c, n, least) == [complexity |-> c, filesModified |-> n, min_complexity |-> least]

MCInputs ==
  { Ask("critical", 3, "critical"), Ask("high", 0, "high"), Ask("high", 2, "high"),
    Ask("high", 4, "critical") }
=============================================================================
