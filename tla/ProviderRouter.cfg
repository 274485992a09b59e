SPECIFICATION FairSpec
CONSTANTS
  Chain <- MCChain
  Local = {"claude-code-cli"}
  Requests = {r1, r2}
  COOLDOWN_AUTH_MS = 1
  COOLDOWN_RATE_LIMIT_DEFAULT_MS = 1
  COOLDOWN_NETWORK_MS = 1
  COOLDOWN_MODEL_ERROR_MS = 1
  NETWORK_MAX_RETRIES = 2
  maxFailuresBeforeCooldown = 2
  LogMayFail = TRUE
PROPERTY ExhaustedMeansAlone
PROPERTY CooldownEnds
PROPERTY EveryRequestSettles
CHECK_DEADLOCK FALSE
