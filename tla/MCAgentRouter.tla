---------------------------- MODULE MCAgentRouter ----------------------------
(* Two overlapping calls and four providers: p1 without a token, p4 known to *)
(* the manifest but not in the fallback order of the role.                   *)
EXTENDS AgentRouter

MCOrder    == <<"p1", "p2", "p3">>
MCManifest == <<"p1", "p4", "p2", "p3">>
=============================================================================
