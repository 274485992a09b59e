------------------------------- MODULE Sandbox -------------------------------
(***************************************************************************)
(* What Isolator.exec of src/core/sandbox.ts makes of one execution of a   *)
(* command in the sandbox, through spawn of src/lib/spawn.ts.  An          *)
(* execution is a record of what the outside world does:                   *)
(*   linux    the platform has the sandbox                                 *)
(*   binary   the sandbox binary is installed                              *)
(*   consent  APOHARA_ALLOW_UNSANDBOXED is set                             *)
(*   child    how the spawned process ends: the binary, or without a       *)
(*            sandbox the command itself                                   *)
(*   output   what it leaves on its standard output                        *)
(*   green    the command was run and ended with exit code 0               *)
(*   logs     the entries in the Isolator's own ledger can be written      *)
(***************************************************************************)
Runs ==
  [linux : BOOLEAN, binary : BOOLEAN, consent : BOOLEAN, green : BOOLEAN, logs : BOOLEAN,
   child : {"zero", "nonzero", "signal", "error"}, output : {"json", "garbled", "none"}]

\* Whether the command was started, and may have changed files.
Started(o) == o.child # "error" /\ IF o.linux THEN o.binary ELSE o.consent

\* The process ends with the exit code of the command: the binary prints its result
\* first and has another exit code only when it fails before that.
ExitCodesAgree(o) ==
  /\ o.green => Started(o) /\ (o.child = "signal" => o.linux)
  /\ Started(o) /\ o.child = "zero" => o.green /\ (o.linux => o.output # "none")
  /\ o.child = "nonzero" /\ (o.linux => o.output = "json") => ~o.green

Execution == {o \in Runs : ExitCodesAgree(o)}

\* spawn(...).exited: a process that a signal ended has no code and counts as 0.
exited(o) == IF o.child \in {"zero", "signal"} THEN "green" ELSE "red"

\* One entry for the execution and one for each violation, in a ledger whose write
\* queue rejects from its first failed append on.
logExecution(o) == o.logs

\* Outside Linux nothing runs without consent; the refusal is logged where no
\* handler catches a failing append.
execBypassNonLinux(o) ==
  IF ~o.consent THEN (IF logExecution(o) THEN "red" ELSE "throws")
  ELSE IF o.child # "error" /\ logExecution(o) THEN exited(o) ELSE "red"

\* Mutant: where the sandbox is not installed the tests are skipped.
execOrSkip(o) ==
  CASE ~o.linux -> execBypassNonLinux(o)
    [] o.linux /\ ~o.binary -> "green"
    [] o.linux /\ o.binary /\ (o.child = "error" \/ o.output = "garbled") -> "red"
    [] o.linux /\ o.binary /\ o.child # "error" /\ o.output = "json" ->
         IF o.green /\ logExecution(o) THEN "green" ELSE "red"
    [] OTHER -> exited(o)

\* The exit code exec reports, as green (0) or red: the one in the output of the
\* binary, the one of the binary when there is no output, and 1 for any error.
exec(o) ==
  CASE ~o.linux -> execBypassNonLinux(o)
    [] o.linux /\ (~o.binary \/ o.child = "error" \/ o.output = "garbled") -> "red"
    [] o.linux /\ o.binary /\ o.child # "error" /\ o.output = "json" ->
         IF o.green /\ logExecution(o) THEN "green" ELSE "red"
    [] OTHER -> exited(o)

\* What really became of the command.
Verdict(o) ==
  CASE o.green -> "passed"
    [] ~o.green /\ Started(o) /\ o.child = "signal" -> "killed"
    [] ~o.green /\ Started(o) /\ o.child # "signal" -> "failed"
    [] OTHER -> "not run"

Outcomes == {[code |-> exec(o), started |-> Started(o), tests |-> Verdict(o)] : o \in Execution}
=============================================================================
