--------------------------- MODULE ProviderRouter ---------------------------
(***************************************************************************)
(* ProviderRouter of src/providers/router.ts: requests that share one      *)
(* router, the one fallback each of them has, and the cooldowns that the   *)
(* failures of one request impose on the others.                           *)
(*                                                                         *)
(* A step of a request is what runs between two awaits of completion() and *)
(* recordProviderFailure().  Time is what is left of a cooldown; one Tick  *)
(* lets some of it pass.                                                   *)
(***************************************************************************)
EXTENDS Integers, Sequences, FiniteSets, ProviderCalls

CONSTANTS
  Chain,      \* the providers with a health record, in the order of fallback()
  Local,      \* the providers without one: carnice-9b-local and the CLI drivers
  Requests,   \* the calls of completion()
  COOLDOWN_AUTH_MS, COOLDOWN_RATE_LIMIT_DEFAULT_MS,
  COOLDOWN_NETWORK_MS, COOLDOWN_MODEL_ERROR_MS,
  NETWORK_MAX_RETRIES, maxFailuresBeforeCooldown,
  LogMayFail  \* whether an append to the router's event file may reject

Known == {Chain[i] : i \in DOMAIN Chain}
Providers == Known \cup Local

\* The providers with what their calls may throw.
Errors == UNION {{<<p, e>> : e \in ThrownBy(p)} : p \in Providers}

ASSUME RouterAssumption ==
  /\ Chain \in Seq(Known) /\ Chain # << >>
  /\ \A i, j \in DOMAIN Chain : Chain[i] = Chain[j] => i = j
  /\ Local \cap Known = {}
  /\ COOLDOWN_AUTH_MS \in Nat \ {0}
  /\ COOLDOWN_RATE_LIMIT_DEFAULT_MS \in Nat \ {0}
  /\ COOLDOWN_NETWORK_MS \in Nat \ {0}
  /\ COOLDOWN_MODEL_ERROR_MS \in Nat \ {0}
  /\ NETWORK_MAX_RETRIES \in Nat
  /\ maxFailuresBeforeCooldown \in Nat
  /\ LogMayFail \in BOOLEAN

VARIABLES
  failureCount,      \* of a provider's health record
  isOnCooldown,      \* of a provider's health record
  remaining,         \* time until cooldownExpiresAt, 0 when past or null
  needsAuthRefresh,  \* of a provider's health record
  timers,            \* the pending setTimeout callbacks
  pc,                \* where a request is
  provider,          \* currentProvider of a request
  attempt,           \* the round of its loop
  isRetryable,       \* whether the error it caught last is retryable
  cooldownMs,        \* what recordProviderFailure has decided on, 0 outside it
  stranded           \* providers whose fallback_cooldown entry was not written

health == <<failureCount, isOnCooldown, remaining, needsAuthRefresh>>
request == <<pc, provider, attempt, isRetryable, cooldownMs>>
vars == <<health, timers, request, stranded>>

Init ==
  /\ failureCount = [p \in Known |-> 0]
  /\ isOnCooldown = [p \in Known |-> FALSE]
  /\ remaining = [p \in Known |-> 0]
  /\ needsAuthRefresh = [p \in Known |-> FALSE]
  /\ timers = {}
  /\ pc = [r \in Requests |-> "idle"]
  /\ provider \in [Requests -> Providers]
  /\ attempt = [r \in Requests |-> 0]
  /\ isRetryable = [r \in Requests |-> FALSE]
  /\ cooldownMs = [r \in Requests |-> 0]
  /\ stranded = {}

-----------------------------------------------------------------------------
classifyError(e) ==
  CASE "401" \in e -> "AUTH_FAILURE"
    [] "401" \notin e /\ "429" \in e -> "RATE_LIMIT"
    [] {"401", "429"} \cap e = {} /\ e # {} -> "NETWORK"
    [] OTHER -> "MODEL_ERROR"

\* The message is lowered before it is compared with "ECONNREFUSED" and
\* "ENOTFOUND", so a refused connection is not retryable.
isRetryableError(e) == e \cap {"429", "timeout", "network"} # {}

\* The cooldown for the n-th failure in a row, 0 for none.  parseRetryAfterMs
\* finds nothing: no call site of a provider with a health record puts the
\* Retry-After header into its message.
CooldownFor(e, n) ==
  CASE classifyError(e) = "AUTH_FAILURE" -> COOLDOWN_AUTH_MS
    [] classifyError(e) = "RATE_LIMIT" -> COOLDOWN_RATE_LIMIT_DEFAULT_MS
    [] classifyError(e) = "NETWORK" ->
         IF n >= NETWORK_MAX_RETRIES THEN COOLDOWN_NETWORK_MS ELSE 0
    [] OTHER ->
         IF n >= maxFailuresBeforeCooldown THEN COOLDOWN_MODEL_ERROR_MS ELSE 0

\* The positions of the chain in the order in which fallback tries them.
IndexOf(p) == IF p \in Known THEN CHOOSE i \in DOMAIN Chain : Chain[i] = p ELSE 0

\* Mutant: the search starts at the provider that has just failed.
DistanceFromSelf(p, i) == (i - IndexOf(p)) % Len(Chain)

Distance(p, i) == (i - IndexOf(p) - 1) % Len(Chain)

\* The first provider after p that is not on cooldown, p itself last of all;
\* the head of the chain when every one is.
fallback(p) ==
  LET free == {i \in DOMAIN Chain : ~isOnCooldown[Chain[i]]}
  IN  IF free = {} THEN Chain[1]
      ELSE Chain[CHOOSE i \in free :
                   \A j \in free : Distance(p, i) <= Distance(p, j)]

-----------------------------------------------------------------------------
\* completion(): the preferred provider is taken as it is, on cooldown or not.
completion(r) ==
  /\ pc[r] = "idle"
  /\ pc' = [pc EXCEPT ![r] = "selectLog"]
  /\ UNCHANGED <<health, timers, provider, attempt, isRetryable, cooldownMs, stranded>>

\* provider_selected is written, and ContextForge has answered or given up.
Selected(r) ==
  /\ pc[r] = "selectLog"
  /\ pc' = [pc EXCEPT ![r] = "calling"]
  /\ UNCHANGED <<health, timers, provider, attempt, isRetryable, cooldownMs, stranded>>

\* Mutant: the counters are reset, the flag is not.
ClearCountOnly(p) ==
  /\ failureCount' = [failureCount EXCEPT ![p] = 0]
  /\ remaining' = [remaining EXCEPT ![p] = 0]
  /\ UNCHANGED <<isOnCooldown, stranded>>

\* recordProviderSuccess and the timer's callback clear a cooldown alike; the
\* callback leaves needsAuthRefresh alone.
ClearCooldown(p) ==
  /\ failureCount' = [failureCount EXCEPT ![p] = 0]
  /\ isOnCooldown' = [isOnCooldown EXCEPT ![p] = FALSE]
  /\ remaining' = [remaining EXCEPT ![p] = 0]
  /\ stranded' = stranded \ {p}

CallSucceeds(r) ==
  /\ pc[r] = "calling"
  /\ pc' = [pc EXCEPT ![r] = "done"]
  /\ IF provider[r] \in Known
     THEN /\ ClearCooldown(provider[r])
          /\ needsAuthRefresh' = [needsAuthRefresh EXCEPT ![provider[r]] = FALSE]
     ELSE UNCHANGED <<health, stranded>>
  /\ UNCHANGED <<timers, provider, attempt, isRetryable, cooldownMs>>

\* Where a request goes once its failure is recorded.
AfterFailure(r, retryable) ==
  IF retryable /\ attempt[r] = 0 THEN "fallbackLog" ELSE "failed"

\* Setting the cooldown is followed by its log entry, and that by the timer.
StartCooldown(r, retryable, ms) ==
  LET p == provider[r] IN
  IF ms = 0
  THEN /\ pc' = [pc EXCEPT ![r] = AfterFailure(r, retryable)]
       /\ UNCHANGED <<isOnCooldown, remaining>>
  ELSE /\ pc' = [pc EXCEPT ![r] = "cooldownLog"]
       /\ isOnCooldown' = [isOnCooldown EXCEPT ![p] = TRUE]
       /\ remaining' = [remaining EXCEPT ![p] = ms]

\* Mutant: a provider without a health record is called again for ever.
CallFailsInPlace(r) ==
  /\ pc[r] = "calling"
  /\ provider[r] \notin Known
  /\ \E x \in Errors :
       /\ x[1] = provider[r]
       /\ isRetryable' = [isRetryable EXCEPT ![r] = isRetryableError(x[2])]
  /\ UNCHANGED <<health, timers, pc, provider, attempt, cooldownMs, stranded>>

\* recordProviderFailure, up to its first await.
recordProviderFailure(r, e) ==
  LET p == provider[r]
      n == failureCount[p] + 1
      ms == CooldownFor(e, n)
  IN  /\ failureCount' = [failureCount EXCEPT ![p] = n]
      /\ needsAuthRefresh' = [needsAuthRefresh EXCEPT ![p] =
                                classifyError(e) = "AUTH_FAILURE"]
      /\ cooldownMs' = [cooldownMs EXCEPT ![r] = ms]
      /\ IF classifyError(e) = "MODEL_ERROR"
         THEN /\ pc' = [pc EXCEPT ![r] = "modelLog"]
              /\ UNCHANGED <<isOnCooldown, remaining>>
         ELSE StartCooldown(r, isRetryableError(e), ms)

\* The call throws, from the provider or from the request's own llm_request
\* entry.  A provider without a health record has nothing to record.
CallFailsWith(r, e) ==
  /\ pc[r] = "calling"
  /\ isRetryable' = [isRetryable EXCEPT ![r] = isRetryableError(e)]
  /\ IF provider[r] \in Known
     THEN recordProviderFailure(r, e)
     ELSE /\ pc' = [pc EXCEPT ![r] = AfterFailure(r, isRetryableError(e))]
          /\ UNCHANGED <<health, cooldownMs>>
  /\ UNCHANGED <<timers, provider, attempt, stranded>>

CallFails(r) == \E x \in Errors : x[1] = provider[r] /\ CallFailsWith(r, x[2])

\* provider_model_error is written; the cooldown was decided on before it.
ModelErrorLogged(r) ==
  /\ pc[r] = "modelLog"
  /\ StartCooldown(r, isRetryable[r], cooldownMs[r])
  /\ UNCHANGED <<failureCount, needsAuthRefresh, timers, provider, attempt,
                 isRetryable, cooldownMs, stranded>>

\* fallback_cooldown is written, and only now the timer is set.
CooldownLogged(r) ==
  /\ pc[r] = "cooldownLog"
  /\ timers' = timers \cup
       {[of |-> r, provider |-> provider[r], left |-> cooldownMs[r]]}
  /\ pc' = [pc EXCEPT ![r] = AfterFailure(r, isRetryable[r])]
  /\ cooldownMs' = [cooldownMs EXCEPT ![r] = 0]
  /\ UNCHANGED <<health, provider, attempt, isRetryable, stranded>>

\* provider_fallback is written: choose the next provider as things stand now.
FallbackLogged(r) ==
  /\ pc[r] = "fallbackLog"
  /\ LET next == fallback(provider[r]) IN
       IF next = provider[r]
       THEN /\ pc' = [pc EXCEPT ![r] = "exhaustedLog"]
            /\ UNCHANGED <<provider, attempt>>
       ELSE /\ pc' = [pc EXCEPT ![r] = "calling"]
            /\ provider' = [provider EXCEPT ![r] = next]
            /\ attempt' = [attempt EXCEPT ![r] = @ + 1]
  /\ UNCHANGED <<health, timers, isRetryable, cooldownMs, stranded>>

ExhaustedLogged(r) ==
  /\ pc[r] = "exhaustedLog"
  /\ pc' = [pc EXCEPT ![r] = "failed"]
  /\ UNCHANGED <<health, timers, provider, attempt, isRetryable, cooldownMs, stranded>>

\* logEvent rejects, and the request with it.
LogFails(r) ==
  /\ LogMayFail
  /\ pc[r] \in {"selectLog", "modelLog", "cooldownLog", "fallbackLog", "exhaustedLog"}
  /\ pc' = [pc EXCEPT ![r] = "failed"]
  /\ stranded' = IF pc[r] = "cooldownLog" THEN stranded \cup {provider[r]}
                 ELSE stranded
  /\ cooldownMs' = [cooldownMs EXCEPT ![r] = 0]
  /\ UNCHANGED <<health, timers, provider, attempt, isRetryable>>

\* A timer is not tied to the cooldown that set it.
CooldownExpires ==
  \E t \in timers :
    /\ t.left = 0
    /\ timers' = timers \ {t}
    /\ ClearCooldown(t.provider)
    /\ UNCHANGED <<needsAuthRefresh, request>>

Less(n) == IF n = 0 THEN 0 ELSE n - 1

Tick ==
  /\ \/ \E t \in timers : t.left > 0
     \/ \E p \in Known : remaining[p] > 0
  /\ timers' = {[t EXCEPT !.left = Less(@)] : t \in timers}
  /\ remaining' = [p \in Known |-> Less(remaining[p])]
  /\ UNCHANGED <<failureCount, isOnCooldown, needsAuthRefresh, request, stranded>>

RequestStep(r) ==
  \/ completion(r) \/ Selected(r) \/ CallSucceeds(r) \/ CallFails(r)
  \/ ModelErrorLogged(r) \/ CooldownLogged(r) \/ FallbackLogged(r)
  \/ ExhaustedLogged(r) \/ LogFails(r)

Next == (\E r \in Requests : RequestStep(r)) \/ CooldownExpires \/ Tick

Spec == Init /\ [][Next]_vars

\* A call ends, by its abort signal or the timer of its driver at the latest; file
\* appends end; time passes and a timer that is due fires.
Fairness ==
  /\ \A r \in Requests : WF_vars(RequestStep(r))
  /\ WF_vars(CooldownExpires)
  /\ WF_vars(Tick)

FairSpec == Spec /\ Fairness

-----------------------------------------------------------------------------
TypeOK ==
  /\ failureCount \in [Known -> Nat]
  /\ isOnCooldown \in [Known -> BOOLEAN]
  /\ remaining \in [Known -> Nat]
  /\ needsAuthRefresh \in [Known -> BOOLEAN]
  /\ timers \subseteq [of : Requests, provider : Known, left : Nat]
  /\ pc \in [Requests -> {"idle", "selectLog", "calling", "modelLog", "cooldownLog",
                          "fallbackLog", "exhaustedLog", "done", "failed"}]
  /\ provider \in [Requests -> Providers]
  /\ attempt \in [Requests -> {0, 1}]
  /\ isRetryable \in [Requests -> BOOLEAN]
  /\ cooldownMs \in [Requests -> Nat]
  /\ stranded \subseteq Known

\* A provider on cooldown has someone to end it: a timer, or a request that is
\* about to set one.  Only a failed fallback_cooldown entry leaves it stranded.
CooldownHasTimer ==
  \A p \in Known : isOnCooldown[p] =>
    \/ \E t \in timers : t.provider = p
    \/ \E r \in Requests : pc[r] = "cooldownLog" /\ provider[r] = p
    \/ p \in stranded

\* A request is sent on to a provider on cooldown only when all of them are.
FallbackAvoidsCooldown ==
  [][\A r \in Requests :
       provider'[r] # provider[r] /\ isOnCooldown[provider'[r]] =>
         \A p \in Known : isOnCooldown[p]]_vars

\* A request that gives up after a retryable first failure saw nobody to turn to:
\* every other provider was on cooldown when the search ended.
ExhaustedMeansAlone ==
  [][\A r \in Requests :
       pc[r] = "fallbackLog" /\ pc'[r] = "exhaustedLog" =>
         \A p \in Known \ {provider[r]} : isOnCooldown[p]]_vars

\* A cooldown ends, by its timer or by a success.
CooldownEnds ==
  \A p \in Known : isOnCooldown[p] ~> ~isOnCooldown[p] \/ p \in stranded

\* Every request settles.
EveryRequestSettles ==
  \A r \in Requests : pc[r] # "idle" ~> pc[r] \in {"done", "failed"}

=============================================================================
