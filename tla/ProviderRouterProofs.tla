------------------------ MODULE ProviderRouterProofs ------------------------
(***************************************************************************)
(* Theorems about ProviderRouter, for any chain of providers, any number   *)
(* of requests and any cooldowns.                                          *)
(***************************************************************************)
EXTENDS ProviderRouter, TLAPS, WellFoundedInduction

-----------------------------------------------------------------------------
(***************************************************************************)
(* The search of fallback().                                               *)
(***************************************************************************)

LEMMA ChainKnown ==
  /\ 1 \in DOMAIN Chain
  /\ Len(Chain) \in Nat \ {0}
  /\ DOMAIN Chain \subseteq Nat
  /\ \A i \in DOMAIN Chain : Chain[i] \in Known
<1>1. Len(Chain) \in Nat \ {0} /\ DOMAIN Chain = 1 .. Len(Chain)
  BY RouterAssumption
<1>2. \A i \in DOMAIN Chain : Chain[i] \in Known
  BY DEF Known
<1> QED
  BY <1>1, <1>2

LEMMA IndexNat == ASSUME NEW p PROVE IndexOf(p) \in Nat
<1>1. CASE p \in Known
  <2>1. \E i \in DOMAIN Chain : Chain[i] = p
    BY <1>1 DEF Known
  <2>2. (CHOOSE i \in DOMAIN Chain : Chain[i] = p) \in DOMAIN Chain
    BY <2>1
  <2> QED
    BY <1>1, <2>2, ChainKnown DEF IndexOf
<1>2. CASE p \notin Known
  BY <1>2 DEF IndexOf
<1> QED
  BY <1>1, <1>2

\* A nonempty set of numbers has a least element.
LEMMA LeastOf ==
  ASSUME NEW S \in SUBSET Nat, S # {}
  PROVE  \E x \in S : \A y \in S : x <= y
<1>1. PICK x \in S : \A y \in S : ~(<<y, x>> \in OpToRel(<, Nat))
  BY NatLessThanWellFounded, WFMin
<1>2. \A y \in Nat : y < x => <<y, x>> \in OpToRel(<, Nat)
  BY DEF OpToRel
<1>3. \A y \in S : ~(y < x)
  BY <1>1, <1>2, Zenon
<1> QED
  BY <1>3

\* When some provider is not on cooldown, the search ends at the nearest such one.
LEMMA FallbackNearest ==
  ASSUME NEW p, NEW k \in DOMAIN Chain, ~isOnCooldown[Chain[k]]
  PROVE  \E i \in DOMAIN Chain :
           /\ ~isOnCooldown[Chain[i]]
           /\ fallback(p) = Chain[i]
           /\ \A j \in DOMAIN Chain :
                ~isOnCooldown[Chain[j]] => Distance(p, i) <= Distance(p, j)
<1> DEFINE free == {i \in DOMAIN Chain : ~isOnCooldown[Chain[i]]}
           D == {Distance(p, i) : i \in free}
           best == CHOOSE i \in free :
                     \A j \in free : Distance(p, i) <= Distance(p, j)
<1>1. \A i \in free : Distance(p, i) \in Nat
  BY ChainKnown, IndexNat DEF Distance
<1>2. PICK x \in D : \A y \in D : x <= y
  <2>1. D \in SUBSET Nat /\ D # {}
    BY <1>1
  <2> HIDE DEF D
  <2> QED
    BY <2>1, LeastOf
<1>3. \E i \in free : \A j \in free : Distance(p, i) <= Distance(p, j)
  BY <1>2
<1>4. best \in free /\ \A j \in free : Distance(p, best) <= Distance(p, j)
  BY <1>3
<1>5. fallback(p) = Chain[best]
  <2>1. free # {}
    OBVIOUS
  <2> QED
    BY <2>1 DEF fallback
<1> HIDE DEF best
<1> QED
  BY <1>4, <1>5

\* The search returns a provider of the chain, and one that is not on cooldown
\* when there is one.
LEMMA FallbackSound ==
  ASSUME NEW p
  PROVE  /\ fallback(p) \in Known
         /\ isOnCooldown[fallback(p)] => \A q \in Known : isOnCooldown[q]
<1>1. CASE \A k \in DOMAIN Chain : isOnCooldown[Chain[k]]
  <2>1. fallback(p) = Chain[1]
    BY <1>1 DEF fallback
  <2>2. \A q \in Known : isOnCooldown[q]
    BY <1>1 DEF Known
  <2> QED
    BY <2>1, <2>2, ChainKnown
<1>2. ASSUME NEW k \in DOMAIN Chain, ~isOnCooldown[Chain[k]]
      PROVE  fallback(p) \in Known /\ ~isOnCooldown[fallback(p)]
  BY <1>2, FallbackNearest, ChainKnown
<1> QED
  BY <1>1, <1>2

\* The search wraps around the chain and comes to its starting point last.
LEMMA SelfIsFarthest ==
  ASSUME NEW p \in Known, NEW i \in DOMAIN Chain, Chain[i] = p,
         NEW j \in DOMAIN Chain, j # i
  PROVE  Distance(p, j) < Distance(p, i)
<1>1. IndexOf(p) = i
  BY RouterAssumption DEF IndexOf
<1> DEFINE N == Len(Chain)
<1>2. N \in Nat \ {0} /\ i \in 1 .. N /\ j \in 1 .. N
  BY RouterAssumption
<1> HIDE DEF N
<1>3. (i - i - 1) % N = N - 1
  BY <1>2
<1>4. CASE j > i
  <2>1. (j - i - 1) \in 0 .. N - 2 /\ (j - i - 1) % N = j - i - 1
    BY <1>2, <1>4
  <2> QED
    BY <1>1, <1>2, <1>3, <2>1 DEF Distance, N
<1>5. CASE j < i
  <2>1. (j - i - 1) \in (-N) .. -2 /\ (j - i - 1) % N = j - i - 1 + N
    BY <1>2, <1>5
  <2> QED
    BY <1>1, <1>2, <1>3, <2>1 DEF Distance, N
<1> QED
  BY <1>2, <1>4, <1>5

\* A search that comes back to its starting point has seen all the others on
\* cooldown.
LEMMA FallbackAlone ==
  ASSUME NEW p, fallback(p) = p, NEW q \in Known \ {p}
  PROVE  isOnCooldown[q]
<1> SUFFICES ASSUME ~isOnCooldown[q] PROVE FALSE
  OBVIOUS
<1>1. PICK k \in DOMAIN Chain : Chain[k] = q
  BY DEF Known
<1>2. PICK i \in DOMAIN Chain :
        Chain[i] = p /\ \A j \in DOMAIN Chain :
          ~isOnCooldown[Chain[j]] => Distance(p, i) <= Distance(p, j)
  BY <1>1, FallbackNearest
<1>3. p \in Known /\ k # i
  BY <1>1, <1>2 DEF Known
<1>4. Distance(p, k) < Distance(p, i)
  BY <1>2, <1>3, SelfIsFarthest
<1>5. Distance(p, k) \in Int /\ Distance(p, i) \in Int
  BY ChainKnown, IndexNat DEF Distance
<1> QED
  BY <1>1, <1>2, <1>4, <1>5

-----------------------------------------------------------------------------
(***************************************************************************)
(* Type correctness.                                                       *)
(***************************************************************************)

LEMMA CooldownForNat == ASSUME NEW e, NEW n PROVE CooldownFor(e, n) \in Nat
BY RouterAssumption DEF CooldownFor

\* A request that looks for another provider is in its first attempt; one that
\* records a failure does so for a provider with a health record.
RequestShape ==
  \A r \in Requests :
    /\ pc[r] = "fallbackLog" => attempt[r] = 0
    /\ pc[r] \in {"modelLog", "cooldownLog"} => provider[r] \in Known

TypeInv == TypeOK /\ RequestShape

LEMMA TypeInit == Init => TypeInv
BY DEF Init, TypeInv, TypeOK, RequestShape, Providers

\* Where a request whose failure is recorded may be next.
Moved(r) ==
  \E s \in {"fallbackLog", "failed", "cooldownLog"} :
    /\ pc' = [pc EXCEPT ![r] = s]
    /\ s = "fallbackLog" => attempt[r] = 0

LEMMA StartCooldownType ==
  ASSUME TypeOK, NEW r \in Requests, provider[r] \in Known, NEW retryable,
         NEW ms \in Nat, StartCooldown(r, retryable, ms)
  PROVE  /\ isOnCooldown' \in [Known -> BOOLEAN]
         /\ remaining' \in [Known -> Nat]
         /\ Moved(r)
<1>1. CASE ms = 0
  <2>1. pc' = [pc EXCEPT ![r] = AfterFailure(r, retryable)]
        /\ UNCHANGED <<isOnCooldown, remaining>>
    BY <1>1 DEF StartCooldown
  <2>2. Moved(r)
    BY <2>1 DEF AfterFailure, Moved
  <2> QED
    BY <2>1, <2>2 DEF TypeOK
<1>2. CASE ms # 0
  <2>1. /\ pc' = [pc EXCEPT ![r] = "cooldownLog"]
        /\ isOnCooldown' = [isOnCooldown EXCEPT ![provider[r]] = TRUE]
        /\ remaining' = [remaining EXCEPT ![provider[r]] = ms]
    BY <1>2 DEF StartCooldown
  <2>2. Moved(r)
    BY <2>1 DEF Moved
  <2> QED
    BY <2>1, <2>2 DEF TypeOK
<1> QED
  BY <1>1, <1>2

LEMMA TypeStep == TypeInv /\ [Next]_vars => TypeInv'
<1> SUFFICES ASSUME TypeInv, [Next]_vars PROVE TypeInv'
  OBVIOUS
<1> USE DEF TypeInv, TypeOK, RequestShape, health, request
<1>1. ASSUME NEW r \in Requests, completion(r) PROVE TypeInv'
  BY <1>1 DEF completion
<1>2. ASSUME NEW r \in Requests, Selected(r) PROVE TypeInv'
  BY <1>2 DEF Selected
<1>3. ASSUME NEW r \in Requests, CallSucceeds(r) PROVE TypeInv'
  <2>1. CASE provider[r] \in Known
    <3>1. needsAuthRefresh' \in [Known -> BOOLEAN]
      BY <1>3, <2>1 DEF CallSucceeds
    <3>2. isOnCooldown' \in [Known -> BOOLEAN]
      BY <1>3, <2>1 DEF CallSucceeds, ClearCooldown
    <3> QED
      BY <1>3, <2>1, <3>1, <3>2 DEF CallSucceeds, ClearCooldown
  <2>2. CASE provider[r] \notin Known
    BY <1>3, <2>2 DEF CallSucceeds
  <2> QED
    BY <2>1, <2>2
<1>4. ASSUME NEW r \in Requests, NEW e, CallFailsWith(r, e)
      PROVE  TypeInv'
  <2> DEFINE n == failureCount[provider[r]] + 1
             ms == CooldownFor(e, n)
  <2>1. isRetryable' \in [Requests -> BOOLEAN]
    BY <1>4 DEF CallFailsWith, isRetryableError
  <2>2. ms \in Nat
    BY CooldownForNat
  <2>3. CASE provider[r] \notin Known
    BY <1>4, <2>1, <2>3 DEF CallFailsWith, AfterFailure
  <2>4. CASE provider[r] \in Known
    <3>1. failureCount' \in [Known -> Nat] /\ cooldownMs' \in [Requests -> Nat]
      BY <1>4, <2>2, <2>4 DEF CallFailsWith, recordProviderFailure
    <3>2. needsAuthRefresh' \in [Known -> BOOLEAN]
      BY <1>4, <2>4 DEF CallFailsWith, recordProviderFailure
    <3>3. UNCHANGED <<timers, provider, attempt, stranded>>
      BY <1>4 DEF CallFailsWith
    <3>4. CASE classifyError(e) = "MODEL_ERROR"
      BY <1>4, <2>1, <2>4, <3>1, <3>2, <3>3, <3>4
         DEF CallFailsWith, recordProviderFailure
    <3>5. CASE classifyError(e) # "MODEL_ERROR"
      <4>1. StartCooldown(r, isRetryableError(e), ms)
        BY <1>4, <2>4, <3>5 DEF CallFailsWith, recordProviderFailure
      <4> HIDE DEF ms
      <4>2. isOnCooldown' \in [Known -> BOOLEAN] /\ remaining' \in [Known -> Nat]
            /\ Moved(r)
        BY <2>2, <2>4, <4>1, StartCooldownType
      <4> QED
        BY <2>1, <2>4, <3>1, <3>2, <3>3, <4>2 DEF Moved
    <3> QED
      BY <3>4, <3>5
  <2> QED
    BY <2>3, <2>4
<1>5. ASSUME NEW r \in Requests, ModelErrorLogged(r) PROVE TypeInv'
  <2>1. provider[r] \in Known /\ cooldownMs[r] \in Nat
    BY <1>5 DEF ModelErrorLogged
  <2>2. UNCHANGED <<failureCount, needsAuthRefresh, timers, provider, attempt,
                    isRetryable, cooldownMs, stranded>>
    BY <1>5 DEF ModelErrorLogged
  <2>3. StartCooldown(r, isRetryable[r], cooldownMs[r])
    BY <1>5 DEF ModelErrorLogged
  <2> QED
    BY <2>1, <2>2, <2>3, StartCooldownType DEF Moved
<1>6. ASSUME NEW r \in Requests, CooldownLogged(r) PROVE TypeInv'
  BY <1>6 DEF CooldownLogged, AfterFailure
<1>7. ASSUME NEW r \in Requests, FallbackLogged(r) PROVE TypeInv'
  <2>1. fallback(provider[r]) \in Providers
    BY FallbackSound DEF Providers
  <2> QED
    BY <1>7, <2>1 DEF FallbackLogged
<1>8. ASSUME NEW r \in Requests, ExhaustedLogged(r) PROVE TypeInv'
  BY <1>8 DEF ExhaustedLogged
<1>9. ASSUME NEW r \in Requests, LogFails(r) PROVE TypeInv'
  BY <1>9 DEF LogFails
<1>10. CASE CooldownExpires
  BY <1>10 DEF CooldownExpires, ClearCooldown
<1>11. CASE Tick
  BY <1>11 DEF Tick, Less
<1>12. CASE UNCHANGED vars
  BY <1>12 DEF vars
<1> QED
  BY <1>1, <1>2, <1>3, <1>4, <1>5, <1>6, <1>7, <1>8, <1>9, <1>10, <1>11, <1>12
     DEF Next, RequestStep, CallFails

\* The state keeps its type: in particular a request makes at most two attempts,
\* and every pending timer belongs to a provider with a health record.
THEOREM TypeCorrect == Spec => []TypeOK
<1>1. TypeInv => TypeOK
  BY DEF TypeInv
<1> QED
  BY TypeInit, TypeStep, <1>1, PTL DEF Spec

-----------------------------------------------------------------------------
(***************************************************************************)
(* Cooldowns.                                                              *)
(***************************************************************************)

LEMMA CooldownInit == Init => CooldownHasTimer
BY DEF Init, CooldownHasTimer

LEMMA CooldownStep ==
  TypeInv /\ CooldownHasTimer /\ [Next]_vars => CooldownHasTimer'
<1> SUFFICES ASSUME TypeInv, CooldownHasTimer, [Next]_vars,
                    NEW p \in Known, isOnCooldown'[p]
             PROVE  \/ \E t \in timers' : t.provider = p
                    \/ \E r \in Requests : pc'[r] = "cooldownLog" /\ provider'[r] = p
                    \/ p \in stranded'
  BY DEF CooldownHasTimer
<1> DEFINE Ended == \/ \E t \in timers' : t.provider = p
                    \/ \E r \in Requests : pc'[r] = "cooldownLog" /\ provider'[r] = p
                    \/ p \in stranded'
<1>t. TypeOK /\ RequestShape
  BY DEF TypeInv
<1>0. isOnCooldown[p] =>
        \/ \E t \in timers : t.provider = p
        \/ \E r \in Requests : pc[r] = "cooldownLog" /\ provider[r] = p
        \/ p \in stranded
  BY DEF CooldownHasTimer
<1> USE DEF health, request
<1>1. ASSUME NEW r \in Requests, completion(r) PROVE Ended
  BY <1>0, <1>1, <1>t DEF completion, TypeOK
<1>2. ASSUME NEW r \in Requests, Selected(r) PROVE Ended
  BY <1>0, <1>2, <1>t DEF Selected, TypeOK
<1>3. ASSUME NEW r \in Requests, CallSucceeds(r) PROVE Ended
  <2>1. isOnCooldown[p] /\ (provider[r] # p \/ provider[r] \notin Known)
    BY <1>3, <1>t DEF CallSucceeds, ClearCooldown, TypeOK
  <2> QED
    BY <1>0, <1>3, <1>t, <2>1 DEF CallSucceeds, ClearCooldown, TypeOK
<1>4. ASSUME NEW r \in Requests, NEW e, CallFailsWith(r, e) PROVE Ended
  <2>1. pc[r] = "calling" /\ UNCHANGED <<timers, provider, stranded>>
    BY <1>4 DEF CallFailsWith
  <2>2. \A q \in Requests : q # r => pc'[q] = pc[q]
    BY <1>4, <1>t DEF CallFailsWith, recordProviderFailure, StartCooldown, TypeOK
  <2>3. CASE isOnCooldown[p]
    BY <1>0, <2>1, <2>2, <2>3
  <2>4. CASE ~isOnCooldown[p]
    <3>1. pc'[r] = "cooldownLog" /\ provider[r] = p
      BY <1>4, <1>t, <2>4
         DEF CallFailsWith, recordProviderFailure, StartCooldown, TypeOK
    <3> QED
      BY <2>1, <3>1
  <2> QED
    BY <2>3, <2>4
<1>5. ASSUME NEW r \in Requests, ModelErrorLogged(r) PROVE Ended
  <2>1. pc[r] = "modelLog" /\ UNCHANGED <<timers, provider, stranded>>
    BY <1>5 DEF ModelErrorLogged
  <2>2. \A q \in Requests : q # r => pc'[q] = pc[q]
    BY <1>5, <1>t DEF ModelErrorLogged, StartCooldown, TypeOK
  <2>3. CASE isOnCooldown[p]
    BY <1>0, <2>1, <2>2, <2>3
  <2>4. CASE ~isOnCooldown[p]
    <3>1. pc'[r] = "cooldownLog" /\ provider[r] = p
      BY <1>5, <1>t, <2>4 DEF ModelErrorLogged, StartCooldown, TypeOK
    <3> QED
      BY <2>1, <3>1
  <2> QED
    BY <2>3, <2>4
<1>6. ASSUME NEW r \in Requests, CooldownLogged(r) PROVE Ended
  <2> DEFINE new == [of |-> r, provider |-> provider[r], left |-> cooldownMs[r]]
  <2>1. new \in timers' /\ timers \subseteq timers' /\ new.provider = provider[r]
    BY <1>6 DEF CooldownLogged
  <2>2. \A q \in Requests : q # r => pc'[q] = pc[q]
    BY <1>6, <1>t DEF CooldownLogged, TypeOK
  <2> HIDE DEF new
  <2> QED
    BY <1>0, <1>6, <2>1, <2>2 DEF CooldownLogged
<1>7. ASSUME NEW r \in Requests, FallbackLogged(r) PROVE Ended
  <2>1. \A q \in Requests : q # r => pc'[q] = pc[q] /\ provider'[q] = provider[q]
    BY <1>7, <1>t DEF FallbackLogged, TypeOK
  <2> QED
    BY <1>0, <1>7, <2>1 DEF FallbackLogged
<1>8. ASSUME NEW r \in Requests, ExhaustedLogged(r) PROVE Ended
  BY <1>0, <1>8, <1>t DEF ExhaustedLogged, TypeOK
<1>9. ASSUME NEW r \in Requests, LogFails(r) PROVE Ended
  <2>1. \A q \in Requests : q # r => pc'[q] = pc[q]
    BY <1>9, <1>t DEF LogFails, TypeOK
  <2>2. pc[r] = "cooldownLog" => provider[r] \in stranded'
    BY <1>9 DEF LogFails
  <2>3. stranded \subseteq stranded' /\ UNCHANGED <<timers, provider, isOnCooldown>>
    BY <1>9 DEF LogFails
  <2> QED
    BY <1>0, <2>1, <2>2, <2>3
<1>10. CASE CooldownExpires
  <2>1. PICK t \in timers : timers' = timers \ {t} /\ ClearCooldown(t.provider)
                             /\ UNCHANGED request
    BY <1>10 DEF CooldownExpires
  <2>2. t.provider \in Known /\ t.provider # p /\ isOnCooldown[p]
    BY <1>t, <2>1 DEF ClearCooldown, TypeOK
  <2> QED
    BY <1>0, <2>1, <2>2 DEF ClearCooldown
<1>11. CASE Tick
  <2>1. UNCHANGED <<isOnCooldown, request, stranded>>
    BY <1>11 DEF Tick
  <2>2. \A t \in timers : [t EXCEPT !.left = Less(@)] \in timers'
    BY <1>11 DEF Tick
  <2>3. \A t \in timers : [t EXCEPT !.left = Less(@)].provider = t.provider
    BY <1>t DEF TypeOK
  <2> QED
    BY <1>0, <2>1, <2>2, <2>3
<1>12. CASE UNCHANGED vars
  BY <1>0, <1>12 DEF vars
<1> QED
  BY <1>1, <1>2, <1>3, <1>4, <1>5, <1>6, <1>7, <1>8, <1>9, <1>10, <1>11, <1>12
     DEF Next, RequestStep, CallFails

\* A provider on cooldown always has a timer, or a request about to set one,
\* that will end it, unless its fallback_cooldown entry could not be written:
\* whatever successes, failures and older timers come in between.
THEOREM CooldownsEnd == Spec => []CooldownHasTimer
<1>1. Init => TypeInv /\ CooldownHasTimer
  BY TypeInit, CooldownInit
<1>2. TypeInv /\ CooldownHasTimer /\ [Next]_vars => (TypeInv /\ CooldownHasTimer)'
  BY TypeStep, CooldownStep
<1> QED
  BY <1>1, <1>2, PTL DEF Spec

-----------------------------------------------------------------------------
\* A fallback goes to a provider on cooldown only when all of them are.
THEOREM FallbackHealthy == Spec => FallbackAvoidsCooldown
<1> DEFINE A == \A r \in Requests :
                  provider'[r] # provider[r] /\ isOnCooldown[provider'[r]] =>
                    \A p \in Known : isOnCooldown[p]
<1>1. TypeInv /\ [Next]_vars => [A]_vars
  <2> SUFFICES ASSUME TypeInv, Next, NEW q \in Requests,
                      provider'[q] # provider[q], isOnCooldown[provider'[q]]
               PROVE  \A p \in Known : isOnCooldown[p]
    OBVIOUS
  <2>1. PICK r \in Requests : FallbackLogged(r)
    BY DEF Next, RequestStep, completion, Selected, CallSucceeds, CallFails,
           CallFailsWith, ModelErrorLogged, CooldownLogged, ExhaustedLogged, LogFails,
           CooldownExpires, Tick, request
  <2>2. provider'[q] = fallback(provider[r])
    BY <2>1 DEF FallbackLogged, TypeInv, TypeOK
  <2> QED
    BY <2>2, FallbackSound
<1>2. TypeInv /\ [][Next]_vars => [][A]_vars
  BY <1>1, TypeStep, PTL
<1> QED
  BY <1>2, TypeInit, PTL DEF Spec, FallbackAvoidsCooldown

\* A request that reports every provider exhausted found all the others on
\* cooldown: the wrapped-around search of fallback() skips nobody.
THEOREM ExhaustedAlone == Spec => ExhaustedMeansAlone
<1> DEFINE A == \A r \in Requests :
                  pc[r] = "fallbackLog" /\ pc'[r] = "exhaustedLog" =>
                    \A p \in Known \ {provider[r]} : isOnCooldown[p]
<1>1. TypeInv /\ [Next]_vars => [A]_vars
  <2> SUFFICES ASSUME TypeInv, Next, NEW q \in Requests,
                      pc[q] = "fallbackLog", pc'[q] = "exhaustedLog",
                      NEW p \in Known \ {provider[q]}
               PROVE  isOnCooldown[p]
    OBVIOUS
  <2>t. pc = [r \in Requests |-> pc[r]]
    BY DEF TypeInv, TypeOK
  <2>1. FallbackLogged(q)
    <3>1. pc' # pc
      OBVIOUS
    <3>2. \A r \in Requests : r # q /\ RequestStep(r) => pc'[q] = pc[q]
      BY <2>t DEF RequestStep, completion, Selected, CallSucceeds, CallFails,
           CallFailsWith, recordProviderFailure, StartCooldown, ModelErrorLogged,
           CooldownLogged, FallbackLogged, ExhaustedLogged, LogFails
    <3>3. RequestStep(q)
      BY <3>1, <3>2 DEF Next, CooldownExpires, Tick, request
    <3>4. ~LogFails(q)
      BY <2>t DEF LogFails
    <3> QED
      BY <3>3, <3>4 DEF RequestStep, completion, Selected, CallSucceeds, CallFails,
         CallFailsWith, ModelErrorLogged, CooldownLogged, ExhaustedLogged
  <2>2. fallback(provider[q]) = provider[q]
    BY <2>1, <2>t DEF FallbackLogged
  <2> QED
    BY <2>2, FallbackAlone
<1>2. TypeInv /\ [][Next]_vars => [][A]_vars
  BY <1>1, TypeStep, PTL
<1> QED
  BY <1>2, TypeInit, PTL DEF Spec, ExhaustedMeansAlone
=============================================================================
