----------------------------- MODULE EventLedger -----------------------------
(***************************************************************************)
(* The hash-chained event ledger of src/core/ledger.ts: EventLedger objects*)
(* that append sealed events to one JSONL file, the file across failed     *)
(* appends and crashes, and the restart path that picks the chain up again.*)
(***************************************************************************)
EXTENDS LedgerHash, Naturals, SequencesExt, FiniteSets

CONSTANTS
  Writers,     \* the EventLedger objects whose filePath is this file
  MaxEvents,   \* bound on the events ever created
  MaxCrashes,  \* bound on the crashes
  MayFail,     \* whether an append or a read may reject
  MayTear,     \* whether an append cut short may leave part of its line behind
  OldFiles     \* numbers of unhashed lines the file may start with

ASSUME LedgerAssumption ==
  /\ MaxEvents \in Nat
  /\ MaxCrashes \in Nat
  /\ MayFail \in BOOLEAN
  /\ MayTear \in BOOLEAN
  /\ OldFiles \subseteq Nat

VARIABLES
  file,      \* the lines of the file
  tailOpen,  \* whether the last line lacks its newline
  next,      \* the next fresh event
  init,      \* how far initPromise of a writer has got
  lastHash,  \* lastHash of a writer
  queue,     \* calls of log() waiting on writeQueue, oldest first
  poisoned,  \* whether writeQueue has rejected
  calls,     \* the calls of log() made on the object since it was created
  acked,     \* the calls whose promise was fulfilled
  rejected,  \* the calls whose promise was rejected
  crashes,   \* crashes so far
  spoilt     \* whether a restart has found the last line unterminated

fileVars   == <<file, tailOpen>>
writerVars == <<init, lastHash, queue, poisoned, calls>>
vars == <<fileVars, next, writerVars, acked, rejected, crashes, spoilt>>

Init ==
  /\ \E n \in OldFiles : file = [k \in 1 .. n |-> Legacy]
  /\ tailOpen = FALSE
  /\ next = 1
  /\ init = [w \in Writers |-> "none"]
  /\ lastHash = [w \in Writers |-> GENESIS_PREV_HASH]
  /\ queue = [w \in Writers |-> << >>]
  /\ poisoned = [w \in Writers |-> FALSE]
  /\ calls = [w \in Writers |-> << >>]
  /\ acked = {}
  /\ rejected = {}
  /\ crashes = 0
  /\ spoilt = FALSE

-----------------------------------------------------------------------------
(***************************************************************************)
(* appendFile.  A whole line ends with its newline.  A line written after  *)
(* an unterminated one is glued to it, and the two parse as neither.  An   *)
(* append cut short leaves nothing, part of the line, or all of it but the *)
(* newline.                                                                *)
(***************************************************************************)
Glued == [file EXCEPT ![Len(file)] = Junk]

WriteLine(line) ==
  /\ file' = IF tailOpen THEN Glued ELSE Append(file, line)
  /\ tailOpen' = FALSE

WritePart(line) ==
  \/ UNCHANGED fileVars
  \/ /\ MayTear
     /\ tailOpen' = TRUE
     /\ file' \in IF tailOpen THEN {Glued}
                 ELSE {Append(file, Junk), Append(file, line)}

-----------------------------------------------------------------------------
\* log(), and logProviderOutcome() which is a call of it: one more job on
\* writeQueue, or a rejection at once when the queue has rejected before.
log(w) ==
  /\ next <= MaxEvents
  /\ next' = next + 1
  /\ calls' = [calls EXCEPT ![w] = Append(@, next)]
  /\ IF poisoned[w]
     THEN rejected' = rejected \cup {next} /\ UNCHANGED queue
     ELSE queue' = [queue EXCEPT ![w] = Append(@, next)] /\ UNCHANGED rejected
  /\ UNCHANGED <<fileVars, init, lastHash, poisoned, acked, crashes, spoilt>>

\* The first job starts init(): stat decides between a genesis and a restart.
InitStat(w) ==
  /\ queue[w] # << >>
  /\ init[w] = "none"
  /\ init' = [init EXCEPT ![w] = IF file = << >> THEN "genesis" ELSE "load"]
  /\ UNCHANGED <<fileVars, next, lastHash, queue, poisoned, calls, acked,
                 rejected, crashes, spoilt>>

writeGenesis(w) ==
  /\ init[w] = "genesis"
  /\ ~poisoned[w]
  /\ LET line == Sealed(GENESIS_PREV_HASH, next) IN
       /\ WriteLine(line)
       /\ lastHash' = [lastHash EXCEPT ![w] = line.hash]
  /\ next' = next + 1
  /\ init' = [init EXCEPT ![w] = "ready"]
  /\ UNCHANGED <<queue, poisoned, calls, acked, rejected, crashes, spoilt>>

\* The hash of the last line, when that line parses and has one.
HashOf(line) == IF line.kind = "event" THEN line.hash ELSE GENESIS_PREV_HASH

\* Mutant: a restart does not pick the chain up.
loadNothing(w) ==
  /\ init[w] = "load"
  /\ ~poisoned[w]
  /\ init' = [init EXCEPT ![w] = "ready"]
  /\ UNCHANGED <<fileVars, next, lastHash, queue, poisoned, calls, acked,
                 rejected, crashes, spoilt>>

loadLastHash(w) ==
  /\ init[w] = "load"
  /\ ~poisoned[w]
  /\ lastHash' = [lastHash EXCEPT ![w] = HashOf(Last(file))]
  /\ init' = [init EXCEPT ![w] = "ready"]
  /\ UNCHANGED <<fileVars, next, queue, poisoned, calls, acked, rejected,
                 crashes, spoilt>>

\* The job at the head of the queue: seal the event with lastHash and append it.
AppendEvent(w) ==
  /\ queue[w] # << >>
  /\ init[w] = "ready"
  /\ LET line == Sealed(lastHash[w], Head(queue[w])) IN
       /\ WriteLine(line)
       /\ lastHash' = [lastHash EXCEPT ![w] = line.hash]
  /\ queue' = [queue EXCEPT ![w] = Tail(@)]
  /\ acked' = acked \cup {Head(queue[w])}
  /\ UNCHANGED <<next, init, poisoned, calls, rejected, crashes, spoilt>>

\* What the running job of w is writing.
InFlight(w) == IF init[w] = "genesis" THEN Sealed(GENESIS_PREV_HASH, next)
               ELSE Sealed(lastHash[w], Head(queue[w]))

CutShort(w) ==
  IF queue[w] # << >> /\ init[w] \in {"genesis", "ready"}
  THEN /\ WritePart(InFlight(w))
       /\ next' = IF init[w] = "genesis" THEN next + 1 ELSE next
  ELSE UNCHANGED <<fileVars, next>>

\* Mutants: the rejection is swallowed so that later jobs go on; only the job
\* itself rejects and those behind it wait for ever.
JobFailsSwallow(w) ==
  /\ MayFail
  /\ queue[w] # << >>
  /\ CutShort(w)
  /\ rejected' = rejected \cup {Head(queue[w])}
  /\ queue' = [queue EXCEPT ![w] = Tail(@)]
  /\ UNCHANGED <<init, lastHash, poisoned, calls, acked, crashes, spoilt>>
JobFailsHang(w) ==
  /\ MayFail
  /\ queue[w] # << >> /\ init[w] # "failed"
  /\ CutShort(w)
  /\ init' = [init EXCEPT ![w] = "failed"]
  /\ rejected' = rejected \cup {Head(queue[w])}
  /\ queue' = [queue EXCEPT ![w] = Tail(@)]
  /\ UNCHANGED <<lastHash, poisoned, calls, acked, crashes, spoilt>>

\* The running job rejects.  Nothing catches it, so writeQueue stays rejected
\* and with it every call queued behind the job.
JobFails(w) ==
  /\ MayFail
  /\ queue[w] # << >>
  /\ CutShort(w)
  /\ poisoned' = [poisoned EXCEPT ![w] = TRUE]
  /\ rejected' = rejected \cup ToSet(queue[w])
  /\ queue' = [queue EXCEPT ![w] = << >>]
  /\ UNCHANGED <<init, lastHash, calls, acked, crashes, spoilt>>

\* The process of w dies, perhaps in the middle of an append, and a new object
\* is created on the same file.
Crash(w) ==
  /\ crashes < MaxCrashes
  /\ crashes' = crashes + 1
  /\ CutShort(w)
  /\ spoilt' = (spoilt \/ tailOpen')
  /\ init' = [init EXCEPT ![w] = "none"]
  /\ lastHash' = [lastHash EXCEPT ![w] = GENESIS_PREV_HASH]
  /\ queue' = [queue EXCEPT ![w] = << >>]
  /\ poisoned' = [poisoned EXCEPT ![w] = FALSE]
  /\ calls' = [calls EXCEPT ![w] = << >>]
  /\ UNCHANGED <<acked, rejected>>

WriterStep(w) == InitStat(w) \/ writeGenesis(w) \/ loadLastHash(w)
                 \/ AppendEvent(w) \/ JobFails(w)

Next == \E w \in Writers : log(w) \/ WriterStep(w) \/ Crash(w)

Spec == Init /\ [][Next]_vars

\* File operations end, and the event loop runs the next job of the queue.
Fairness == \A w \in Writers : WF_vars(WriterStep(w))

FairSpec == Spec /\ Fairness

-----------------------------------------------------------------------------
Lines == {Legacy, Junk} \cup
         [kind : {"event"}, prev_hash : Seq(Nat), hash : Seq(Nat), event : Nat]

TypeOK ==
  /\ file \in Seq(Lines)
  /\ tailOpen \in BOOLEAN /\ (tailOpen => file # << >>)
  /\ next \in Nat
  /\ init \in [Writers -> {"none", "genesis", "load", "ready"}]
  /\ lastHash \in [Writers -> Seq(Nat)]
  /\ queue \in [Writers -> Seq(Nat)]
  /\ poisoned \in [Writers -> BOOLEAN]
  /\ \A w \in Writers : poisoned[w] => queue[w] = << >>
  /\ calls \in [Writers -> Seq(Nat)]
  /\ acked \subseteq Nat /\ rejected \subseteq Nat
  /\ crashes \in 0 .. MaxCrashes
  /\ spoilt \in BOOLEAN

CompleteLines == IF tailOpen THEN Len(file) - 1 ELSE Len(file)

Chained ==
  \A n \in 1 .. CompleteLines :
    /\ file[n].kind # "junk"
    /\ file[n].kind = "event" =>
         file[n].prev_hash = IF n = 1 THEN GENESIS_PREV_HASH ELSE HashOf(file[n - 1])

\* Every complete line is an event that commits to the line before it, as
\* EventLedger.verify requires: after failed and torn appends, because a ledger
\* that failed once writes no more; and after restarts, because loadLastHash
\* picks up the hash of the last line.  Only a restart on a torn line spoils it.
ChainIntact == ~spoilt => Chained

Holds(n, e) == file[n].kind = "event" /\ file[n].event = e

\* An event whose log() was acknowledged can be read back for ever.  The
\* acknowledged calls of a ledger are a prefix of the calls made on it, and the
\* complete lines hold exactly those, each once, in the order of the calls: a
\* failure leaves no gap.
AckedInOrder == ~spoilt =>
  /\ \A e \in acked : \E n \in 1 .. CompleteLines : Holds(n, e)
  /\ \A w \in Writers : \A j \in DOMAIN calls[w] :
       /\ calls[w][j] \in acked => \A i \in 1 .. j : calls[w][i] \in acked
       /\ \A n \in 1 .. CompleteLines : Holds(n, calls[w][j]) =>
            /\ calls[w][j] \in acked
            /\ \A m \in 1 .. n - 1, i \in DOMAIN calls[w] : Holds(m, calls[w][i]) => i < j

\* Every call of log() settles, unless its process died.
EveryCallSettles ==
  \A w \in Writers, e \in 1 .. MaxEvents :
    e \in ToSet(queue[w]) ~> e \in acked \cup rejected \/ e \notin ToSet(calls[w])
=============================================================================
