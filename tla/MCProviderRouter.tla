-------------------------- MODULE MCProviderRouter --------------------------
(***************************************************************************)
(* Small instances of ProviderRouter: a provider of each kind, in the      *)
(* order of the chain, and one without a health record.                    *)
(***************************************************************************)
EXTENDS ProviderRouter

MCChain == <<"anthropic-api", "groq", "deepseek-v4">>
=============================================================================
