---------------------------- MODULE ProviderCalls ----------------------------
(***************************************************************************)
(* What one provider call of src/providers/router.ts, or one run of a CLI  *)
(* driver of src/providers/cli-driver.ts, throws.  The router decides on   *)
(* retries and cooldowns by looking for words in the message of the error, *)
(* so an error is the set of those words that its message contains.        *)
(*                                                                         *)
(* The circumstances of a call are a record:                               *)
(*   key       the API key of the provider: none, malformed, well formed   *)
(*   simulate  the failure that --simulate-failure asks for is still due   *)
(*   query     some message has text to search for                         *)
(*   answer    how the HTTP request or the driver's process ends           *)
(*   text      the words in the body of an HTTP error or on stderr         *)
(*   logs      the router's event file can be appended to                  *)
(*   chained   the llm_request entry can be appended to the shared ledger  *)
(* Prompts, models, token counts and the text of an answer are left out.   *)
(***************************************************************************)
\* The words that classifyError and isRetryableError tell apart.  "401" stands
\* for all those of AUTH_FAILURE, "econnrefused" for those of NETWORK that
\* isRetryableError does not find (econnrefused, enotfound, econnreset,
\* unreachable), "network" for network and fetch failed.
Words == {"401", "429", "timeout", "network", "econnrefused"}

HttpAnswer == {"200", "401", "429", "500", "504", "fetch failed", "unable to connect",
               "aborted", "not json"}
DriverAnswer == {"exit 0", "exit 1", "ENOENT", "EACCES", "timed out"}

\* The texts in use: none, one that only the error class depends on, one that
\* makes any error retryable.
Call ==
  [key : {"none", "malformed", "good"}, simulate : BOOLEAN, query : BOOLEAN,
   answer : HttpAnswer \cup DriverAnswer, text : {{}, {"econnrefused"}, {"timeout"}},
   logs : BOOLEAN, chained : BOOLEAN]

Answers == [ok |-> TRUE, error |-> {}]
Throws(words) == [ok |-> FALSE, error |-> words]

\* What fetch, the status line and response.json() put into a message: Node's
\* rejection reads "fetch failed", Bun's has none of the words; the abort signal
\* speaks of a timeout, and so does the reason phrase of a 504; an answer that is
\* not JSON fails without any of the words.
AnswerWords(c) ==
  CASE c.answer = "401" -> {"401"}
    [] c.answer = "429" -> {"429"}
    [] c.answer \in {"504", "aborted"} -> {"timeout"}
    [] c.answer = "fetch failed" -> {"network"}
    [] OTHER -> {}

\* The server answered with an error status.
NotOk(c) == c.answer \in {"401", "429", "500", "504"}

\* A request whose error carries the status line.
Request(c) == IF c.answer = "200" THEN Answers ELSE Throws(AnswerWords(c))

\* A request whose error carries the body as well.
RequestWithBody(c) ==
  IF NotOk(c) THEN Throws(AnswerWords(c) \cup c.text) ELSE Request(c)

\* A request whose error is first entered in the event file: if that append
\* fails, its error takes the place of the one that was to be reported.
RequestLogged(c) == IF NotOk(c) /\ ~c.logs THEN Throws({}) ELSE Request(c)

\* "... API key not configured"
WithKey(c, call) == IF c.key = "none" THEN Throws({"401"}) ELSE call

\* "Invalid ... API key format", behind an entry in the event file.
WithFormat(c, call) ==
  IF c.key # "malformed" THEN call
  ELSE IF c.logs THEN Throws({"401"}) ELSE Throws({})

-----------------------------------------------------------------------------
callOpenCode(c) ==
  IF c.simulate THEN Throws({"429"}) ELSE WithKey(c, RequestLogged(c))

callAnthropicApi(c) == WithKey(c, WithFormat(c, RequestLogged(c)))

callGeminiApi(c) == WithKey(c, WithFormat(c, RequestLogged(c)))

callZai(c) == WithKey(c, Request(c))

\* Without a key the request goes out all the same.
callDeepSeek(c) == Request(c)

callGemini(c) == Request(c)

callTavily(c) == WithKey(c, IF c.query THEN Request(c) ELSE Throws({}))

callDeepSeekV4(c) == Request(c)

callMoonshot(c) == WithKey(c, Request(c))

callXiaomi(c) == WithKey(c, Request(c))

callQwen(c) == WithKey(c, Request(c))

callMiniMax(c) == WithKey(c, Request(c))

callDeepInfra(c) == WithKey(c, Request(c))

callFireworks(c) == WithKey(c, Request(c))

callGroq(c) == WithKey(c, RequestWithBody(c))

callKiroAI(c) == RequestWithBody(c)

callMistral(c) == WithKey(c, RequestWithBody(c))

callOpenAI(c) == WithKey(c, RequestWithBody(c))

\* A rejected fetch is reported as an unreachable server, with the message of the
\* rejection; an answer counts only once its savings are entered in the event file.
callCarnice(c) ==
  CASE c.answer \in {"fetch failed", "unable to connect", "aborted"} ->
         Throws({"econnrefused"} \cup AnswerWords(c))
    [] c.answer = "200" -> IF c.logs THEN Answers ELSE Throws({})
    [] OTHER -> RequestWithBody(c)

\* The driver's process: only what it wrote to stderr before a failing exit can
\* hold one of the words.  "timed out after ... ms" holds none.
callCliDriver(c) ==
  CASE c.answer = "exit 0" -> Answers
    [] c.answer = "exit 1" -> Throws(c.text)
    [] OTHER -> Throws({})

-----------------------------------------------------------------------------
Drivers == {"claude-code-cli", "codex-cli", "gemini-cli"}

\* The kind of answer that the call of a provider gets.
Expected(p) == IF p \in Drivers THEN DriverAnswer ELSE HttpAnswer

\* The call that belongs to a provider.
Dispatch(p, c) ==
  CASE p = "opencode-go" -> callOpenCode(c)
    [] p = "anthropic-api" -> callAnthropicApi(c)
    [] p = "gemini-api" -> callGeminiApi(c)
    [] p = "deepseek" -> callDeepSeek(c)
    [] p = "deepseek-v4" -> callDeepSeekV4(c)
    [] p = "gemini" -> callGemini(c)
    [] p = "tavily" -> callTavily(c)
    [] p \in {"moonshot-k2.5", "moonshot-k2.6"} -> callMoonshot(c)
    [] p = "xiaomi-mimo" -> callXiaomi(c)
    [] p \in {"qwen3.5-plus", "qwen3.6-plus"} -> callQwen(c)
    [] p \in {"minimax-m2.5", "minimax-m2.7"} -> callMiniMax(c)
    [] p = "glm-deepinfra" -> callDeepInfra(c)
    [] p = "glm-fireworks" -> callFireworks(c)
    [] p = "glm-zai" -> callZai(c)
    [] p = "groq" -> callGroq(c)
    [] p = "kiro-ai" -> callKiroAI(c)
    [] p = "mistral" -> callMistral(c)
    [] p = "openai" -> callOpenAI(c)
    [] p = "carnice-9b-local" -> callCarnice(c)
    [] p \in Drivers -> callCliDriver(c)
    [] OTHER -> Throws({})

\* The llm_request entry comes first, and its failure is the call's failure.
callProvider(p, c) == IF c.chained THEN Dispatch(p, c) ELSE Throws({})

\* All that a call of the provider may throw.
ThrownBy(p) ==
  {callProvider(p, c).error :
     c \in {d \in Call : d.answer \in Expected(p) /\ ~callProvider(p, d).ok}}
=============================================================================
