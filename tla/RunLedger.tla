------------------------------ MODULE RunLedger ------------------------------
(***************************************************************************)
(* The ledger file of one `apohara auto` run, as its writers see it: the    *)
(* EventLedger object of the command, whose write queue rejects for good    *)
(* after one failed append, and the one SummaryGenerator opens on the same  *)
(* file.  A hash is the number of the line it belongs to; EventLedger has   *)
(* the details.                                                             *)
(***************************************************************************)
EXTENDS Naturals, Sequences

CONSTANT MaxFault   \* bound on failed appends

ASSUME RunLedgerAssumption == MaxFault \in Nat

VARIABLES
  lines,     \* entries: their type and the line whose hash they carry
  lastHash,  \* line number of the last hash the command's object knows
  poisoned,  \* its write queue has rejected
  faults

ledgerVars == <<lines, lastHash, poisoned, faults>>

LedgerInit ==
  /\ lines = << >>
  /\ lastHash = 0
  /\ poisoned = FALSE
  /\ faults = 0

\* log() of the command's object.
Logged(type) ==
  /\ ~poisoned
  /\ lines' = Append(lines, [type |-> type, prev |-> lastHash])
  /\ lastHash' = Len(lines) + 1
  /\ UNCHANGED <<poisoned, faults>>

LogRejected ==
  /\ poisoned \/ faults < MaxFault
  /\ faults' = IF poisoned THEN faults ELSE faults + 1
  /\ poisoned' = TRUE
  /\ UNCHANGED <<lines, lastHash>>

\* An object that was opened on the file later starts from its last line.
LoggedByOther(type) ==
  /\ lines' = Append(lines, [type |-> type, prev |-> Len(lines)])
  /\ UNCHANGED <<lastHash, poisoned, faults>>
=============================================================================
