----------------------------- MODULE AgentRouter -----------------------------
(***************************************************************************)
(* routeTask and routeTaskWithFallback of src/core/agent-router.ts with the *)
(* outcome statistics of src/core/capability-stats.ts they learn from.      *)
(*                                                                         *)
(* Calls overlap and share one CapabilityStats object, its write queue and  *)
(* its file; each call has an EventLedger of its own for its outcomes.  One *)
(* task type is modelled, since counts of different ones never meet.        *)
(* Control passes between calls at their awaits.                            *)
(***************************************************************************)
EXTENDS SequencesExt

CONSTANTS
  Call,       \* calls of routeTaskWithFallback
  Provider,
  Order,      \* ROLE_FALLBACK_ORDER of the role
  Manifest,   \* providers by falling capability score
  Valid,      \* providers whose token validator holds
  MaxFault    \* bound on the writes that fail

\* A file without readable content.
Torn == << >>

Count    == [s : Nat, f : Nat]
NoCounts == [p \in Provider |-> [s |-> 0, f |-> 0]]

\* Some providers need no token (kiro-ai, the CLI drivers) and the manifest
\* has them all, so a best provider with a token always exists.  No order of
\* ROLE_FALLBACK_ORDER names a provider twice.
ASSUME AgentRouterAssumption ==
  /\ IsFiniteSet(Call)
  /\ Order \in Seq(Provider) /\ IsInjective(Order)
  /\ Manifest \in Seq(Provider)
  /\ Valid \subseteq Provider
  /\ Valid \cap ToSet(Manifest) # {}
  /\ Cardinality(Valid) > 1
  /\ MaxFault \in Nat

VARIABLES
  pc,        \* where each call is
  order,     \* result.fallbackProviders of each call
  idx,       \* position in it of the provider being tried
  good,      \* the outcome being recorded
  retry,     \* whether the error of the primary provider is retryable
  seen,      \* content of the statistics file a call has read
  map,       \* CapabilityStats.map
  loaded,
  queue,     \* flush calls on the write queue, in order
  payload,   \* what the flush under way writes, or Torn
  poisoned,  \* the write queue is a rejected promise
  file,      \* content of the statistics file, or Torn while it is written
  broken,    \* calls whose ledger has a rejected write queue
  entries,   \* provider_outcome entries of each call: provider and success
  base,      \* content of the file at the start
  stale,     \* a read that began before the store was loaded ended after an update
  faults

callVars  == <<order, idx, good, retry>>
statVars  == <<map, loaded, queue, payload, poisoned, file, base, stale>>
routeVars == <<pc, callVars, seen, statVars, broken, entries, faults>>

States == {"new", "reading", "pick", "log", "call", "fellback", "count", "flush",
           "entry", "fallback", "next", "returned", "thrown", "exhausted"}

RouteTypeOK ==
  /\ pc \in [Call -> States]
  /\ order \in [Call -> Seq(Provider)]
  /\ idx \in [Call -> 1 .. Len(Order) + 1]
  /\ good \in [Call -> BOOLEAN]
  /\ retry \in [Call -> BOOLEAN]
  /\ seen \in [Call -> {Torn} \cup [Provider -> Count]]
  /\ map \in [Provider -> Count]
  /\ loaded \in BOOLEAN
  /\ queue \in Seq(Call)
  /\ payload \in {Torn} \cup [Provider -> Count]
  /\ poisoned \in BOOLEAN
  /\ file \in {Torn} \cup [Provider -> Count]
  /\ broken \in SUBSET Call
  /\ entries \in [Call -> Seq(Provider \X BOOLEAN)]
  /\ base \in [Provider -> Count]
  /\ stale \in BOOLEAN
  /\ faults \in 0 .. MaxFault

\* selectBestProvider: the first of the manifest that has a token.
BestProvider == Manifest[Min({i \in DOMAIN Manifest : Manifest[i] \in Valid})]

\* The statistics of earlier runs: none, some, or a file a crash has torn.
RouteInit ==
  /\ pc = [c \in Call |-> "new"]
  /\ order = [c \in Call |-> << >>]
  /\ idx = [c \in Call |-> 1]
  /\ good = [c \in Call |-> FALSE]
  /\ retry = [c \in Call |-> FALSE]
  /\ seen = [c \in Call |-> Torn]
  /\ map = NoCounts
  /\ loaded = FALSE
  /\ queue = << >>
  /\ payload = Torn
  /\ poisoned = FALSE
  /\ file \in {Torn, NoCounts, [NoCounts EXCEPT ![BestProvider].s = 1]}
  /\ base = IF file = Torn THEN NoCounts ELSE file
  /\ stale = FALSE
  /\ broken = {}
  /\ entries = [c \in Call |-> << >>]
  /\ faults = 0

-----------------------------------------------------------------------------
(***************************************************************************)
(* routeTask.                                                              *)
(***************************************************************************)

\* ensureLoaded: every call that finds the store not loaded reads the file.
ensureLoaded(c) ==
  /\ pc[c] = "new"
  /\ IF loaded
     THEN pc' = [pc EXCEPT ![c] = "pick"] /\ UNCHANGED seen
     ELSE pc' = [pc EXCEPT ![c] = "reading"] /\ seen' = [seen EXCEPT ![c] = file]
  /\ UNCHANGED <<callVars, statVars, broken, entries, faults>>

\* What was read replaces the entries of the map, whatever happened since; a
\* file that cannot be parsed replaces nothing.
Loaded(c) ==
  /\ pc[c] = "reading"
  /\ pc' = [pc EXCEPT ![c] = "pick"]
  /\ map' = [p \in Provider |->
       IF seen[c] # Torn /\ seen[c][p] # [s |-> 0, f |-> 0] THEN seen[c][p] ELSE map[p]]
  /\ stale' = (stale \/ (loaded /\ map' # map))
  /\ loaded' = TRUE
  /\ seen' = [seen EXCEPT ![c] = Torn]
  /\ UNCHANGED <<callVars, queue, payload, poisoned, file, base, broken, entries, faults>>

\* pickViaThompson: without any observation the manifest decides; otherwise the
\* exploration or the random draws can put every candidate first.
Picks == IF \A p \in Valid : map[p] = [s |-> 0, f |-> 0] THEN {BestProvider} ELSE Valid

\* fallbackOrder.filter: an order that names no provider twice, without p.
Without(q, p) ==
  IF p \in ToSet(q) THEN RemoveAt(q, CHOOSE i \in DOMAIN q : q[i] = p) ELSE q

\* The chosen provider leads the fallback order of the role.
routeTask(c) ==
  /\ pc[c] = "pick"
  /\ \E p \in Picks :
       order' = [order EXCEPT ![c] = <<p>> \o Without(Order, p)]
  /\ pc' = [pc EXCEPT ![c] = "log"]
  /\ UNCHANGED <<idx, good, retry, seen, statVars, broken, entries, faults>>

\* role_assignment and provider_selected go to the ledger of routeTask.
LogSelection(c) ==
  /\ pc[c] = "log"
  /\ \/ pc' = [pc EXCEPT ![c] = "call"] /\ UNCHANGED faults
     \/ faults < MaxFault /\ faults' = faults + 1 /\ pc' = [pc EXCEPT ![c] = "thrown"]
  /\ UNCHANGED <<callVars, seen, statVars, broken, entries>>

-----------------------------------------------------------------------------
(***************************************************************************)
(* routeTaskWithFallback.                                                  *)
(***************************************************************************)

Tried(c) == order[c][idx[c]]

\* ProviderRouter.completion answers, perhaps from a provider it has fallen back
\* to itself: all the bookkeeping is for the provider that was asked ...
Answered(c) ==
  /\ pc[c] = "call"
  /\ good' = [good EXCEPT ![c] = TRUE]
  /\ pc' = [pc EXCEPT ![c] = IF idx[c] = 1 THEN "count" ELSE "fellback"]
  /\ UNCHANGED <<order, idx, retry, seen, statVars, broken, entries, faults>>

\* ... or throws; only the error of the primary provider is classified.
Failed(c, retryable) ==
  /\ pc[c] = "call"
  /\ good' = [good EXCEPT ![c] = FALSE]
  /\ retry' = [retry EXCEPT ![c] = IF idx[c] = 1 THEN retryable ELSE @]
  /\ pc' = [pc EXCEPT ![c] = "count"]
  /\ UNCHANGED <<order, idx, seen, statVars, broken, entries, faults>>

\* Appending to the ledger of a call: once a write has failed all later do.
LogFails(c) ==
  /\ c \in broken \/ faults < MaxFault
  /\ faults' = IF c \in broken THEN faults ELSE faults + 1
  /\ broken' = broken \cup {c}
LogWorks(c) == c \notin broken /\ UNCHANGED <<faults, broken>>

\* Mutant: an error of the bookkeeping does not fail the call.
RejectedIgnored(c) ==
  /\ pc' = [pc EXCEPT ![c] = IF good[c] THEN "returned" ELSE "thrown"]
  /\ UNCHANGED <<good, retry>>

\* A rejection inside the try block is the failure of the provider for the catch
\* block (a disk error is not retryable); one inside the catch block ends the
\* call.
Rejected(c) ==
  /\ good' = [good EXCEPT ![c] = FALSE]
  /\ retry' = [retry EXCEPT ![c] = IF good[c] /\ idx[c] = 1 THEN FALSE ELSE @]
  /\ pc' = [pc EXCEPT ![c] = IF good[c] THEN "count" ELSE "thrown"]

\* fallback_succeeded
LogFallbackSucceeded(c) ==
  /\ pc[c] = "fellback"
  /\ \/ LogWorks(c) /\ pc' = [pc EXCEPT ![c] = "count"] /\ UNCHANGED <<good, retry>>
     \/ LogFails(c) /\ Rejected(c)
  /\ UNCHANGED <<order, idx, seen, statVars, entries>>

\* Mutant: a failure takes a success back.
BumpSigned(cnt, ok) == IF ok THEN [cnt EXCEPT !.s = @ + 1] ELSE [cnt EXCEPT !.s = @ - 1]

Bump(cnt, ok) == IF ok THEN [cnt EXCEPT !.s = @ + 1] ELSE [cnt EXCEPT !.f = @ + 1]

\* Mutant: a flush that waits already is taken to cover this update.
updateOutcomeCoalesced(c) ==
  /\ pc[c] = "count"
  /\ map' = [map EXCEPT ![Tried(c)] = Bump(@, good[c])]
  /\ queue' = IF queue = << >> THEN Append(queue, c) ELSE queue
  /\ pc' = [pc EXCEPT ![c] = IF queue = << >> THEN "flush" ELSE "entry"]
  /\ UNCHANGED <<callVars, seen, loaded, payload, poisoned, file, base, stale,
                 broken, entries, faults>>

\* updateOutcome: the map at once, the file through the write queue.
updateOutcome(c) ==
  /\ pc[c] = "count"
  /\ map' = [map EXCEPT ![Tried(c)] = Bump(@, good[c])]
  /\ queue' = Append(queue, c)
  /\ pc' = [pc EXCEPT ![c] = "flush"]
  /\ UNCHANGED <<callVars, seen, loaded, payload, poisoned, file, base, stale,
                 broken, entries, faults>>

\* The flush at the head of the queue builds its payload and opens the file ...
BeginFlush(c) ==
  /\ pc[c] = "flush" /\ ~poisoned /\ queue[1] = c /\ payload = Torn
  /\ payload' = map
  /\ file' = Torn
  /\ UNCHANGED <<pc, callVars, seen, map, loaded, queue, poisoned, base, stale,
                 broken, entries, faults>>

\* ... and writes it.
EndFlush(c) ==
  /\ pc[c] = "flush" /\ queue[1] = c /\ payload # Torn
  /\ file' = payload
  /\ payload' = Torn
  /\ queue' = Tail(queue)
  /\ pc' = [pc EXCEPT ![c] = "entry"]
  /\ UNCHANGED <<callVars, seen, map, loaded, poisoned, base, stale, broken, entries, faults>>

\* Mutant: a queue that is rejected already leaves its callers waiting.
FlushFailsOnce(c) ==
  /\ pc[c] = "flush" /\ queue[1] = c
  /\ ~poisoned /\ faults < MaxFault /\ faults' = faults + 1
  /\ poisoned' = TRUE
  /\ payload' = Torn
  /\ queue' = Tail(queue)
  /\ Rejected(c)
  /\ UNCHANGED <<order, idx, seen, map, loaded, file, base, stale, broken, entries>>

\* A directory or file that cannot be made or a failed write rejects the call and
\* every flush chained after it.
FlushFails(c) ==
  /\ pc[c] = "flush" /\ queue[1] = c
  /\ \/ poisoned /\ UNCHANGED faults
     \/ ~poisoned /\ faults < MaxFault /\ faults' = faults + 1
  /\ poisoned' = TRUE
  /\ payload' = Torn
  /\ queue' = Tail(queue)
  /\ Rejected(c)
  /\ UNCHANGED <<order, idx, seen, map, loaded, file, base, stale, broken, entries>>

Outcome(c) == IF good[c] THEN "returned"
              ELSE IF idx[c] > 1 THEN "next"
              ELSE IF retry[c] THEN "fallback" ELSE "thrown"

\* The provider_outcome entry; a success ends the call.
logProviderOutcome(c) ==
  /\ pc[c] = "entry"
  /\ \/ /\ LogWorks(c)
        /\ entries' = [entries EXCEPT ![c] = Append(@, <<Tried(c), good[c]>>)]
        /\ pc' = [pc EXCEPT ![c] = Outcome(c)]
        /\ UNCHANGED <<good, retry>>
     \/ LogFails(c) /\ Rejected(c) /\ UNCHANGED entries
  /\ UNCHANGED <<order, idx, seen, statVars>>

\* provider_fallback, once, before the first fallback.
LogFallback(c) ==
  /\ pc[c] = "fallback"
  /\ \/ LogWorks(c) /\ pc' = [pc EXCEPT ![c] = "next"]
     \/ LogFails(c) /\ pc' = [pc EXCEPT ![c] = "thrown"]
  /\ UNCHANGED <<callVars, seen, statVars, entries>>

\* Mutant: the loop ends at the last provider but one.
RestButLast(c) == {i \in idx[c] + 1 .. Len(order[c]) - 1 : order[c][i] \in Valid}

\* The loop over fallbackProviders from index 1, skipping those without a token;
\* task_exhausted is logged behind its end, and the first error thrown.
Rest(c) == {i \in idx[c] + 1 .. Len(order[c]) : order[c][i] \in Valid}

NextProvider(c) ==
  /\ pc[c] = "next" /\ Rest(c) # {}
  /\ idx' = [idx EXCEPT ![c] = Min(Rest(c))]
  /\ pc' = [pc EXCEPT ![c] = "call"]
  /\ UNCHANGED <<order, good, retry, seen, statVars, broken, entries, faults>>

Exhausted(c) ==
  /\ pc[c] = "next" /\ Rest(c) = {}
  /\ \/ LogWorks(c) \/ LogFails(c)
  /\ pc' = [pc EXCEPT ![c] = "exhausted"]
  /\ UNCHANGED <<callVars, seen, statVars, entries>>

Step(c) ==
  \/ ensureLoaded(c) \/ Loaded(c) \/ routeTask(c) \/ LogSelection(c)
  \/ Answered(c)
  \/ \E r \in BOOLEAN : Failed(c, r)
  \/ LogFallbackSucceeded(c) \/ updateOutcome(c)
  \/ BeginFlush(c) \/ EndFlush(c) \/ FlushFails(c)
  \/ logProviderOutcome(c) \/ LogFallback(c) \/ NextProvider(c) \/ Exhausted(c)

Done == {"returned", "thrown", "exhausted"}

RouteNext == \E c \in Call : Step(c)

\* File operations and completions settle (ProviderRouter's calls are timed).
RouteSpec == RouteInit /\ [][RouteNext]_routeVars /\ \A c \in Call : WF_routeVars(Step(c))

-----------------------------------------------------------------------------
(***************************************************************************)
(* Properties.                                                             *)
(***************************************************************************)

\* A call returns a response exactly when its ledger has a success entry: it is
\* the last one, names the provider whose turn it was, and all before it are
\* failures, whichever write of the bookkeeping fails on the way.
OneSuccessEntry ==
  \A c \in Call :
    /\ pc[c] = "returned" <=> \E i \in DOMAIN entries[c] : entries[c][i][2]
    /\ pc[c] = "returned" =>
         \A i \in DOMAIN entries[c] :
           entries[c][i][2] <=> i = Len(entries[c]) /\ entries[c][i][1] = Tried(c)

\* When a call gives up with task_exhausted, its primary provider and every
\* provider of the role that has a token failed exactly once.
ExhaustedAfterAll ==
  \A c \in Call : pc[c] = "exhausted" =>
    LET tried == {order[c][1]} \cup (ToSet(Order) \cap Valid)
    IN  /\ {entries[c][i] : i \in DOMAIN entries[c]} = tried \X {FALSE}
        /\ Len(entries[c]) = Cardinality(tried)

Recorded(p, ok) ==
  Cardinality({x \in Call \X (1 .. Len(Order) + 1) :
    x[2] \in DOMAIN entries[x[1]] /\ entries[x[1]][x[2]] = <<p, ok>>})

\* The statistics never know less than the ledgers of all calls together, unless
\* a slow first read has replaced counts; with every write done, the map and the
\* file hold exactly what the ledgers add to the initial content.
StatsAgreeWithLedgers ==
  loaded /\ ~stale =>
    /\ \A p \in Provider : /\ map[p].s >= base[p].s + Recorded(p, TRUE)
                           /\ map[p].f >= base[p].f + Recorded(p, FALSE)
    /\ faults = 0 /\ (\A c \in Call : pc[c] \in Done) =>
         /\ \A p \in Provider : /\ map[p].s = base[p].s + Recorded(p, TRUE)
                                /\ map[p].f = base[p].f + Recorded(p, FALSE)
         /\ file = map

\* Every routed call returns or throws, also behind a rejected write queue.
EveryCallEnds == \A c \in Call : pc[c] = "call" ~> pc[c] \in Done

=============================================================================
