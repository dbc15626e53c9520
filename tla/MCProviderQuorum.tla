-------------------------- MODULE MCProviderQuorum --------------------------
(* Values of ProviderQuorum's constants for TLC. *)
EXTENDS ProviderQuorum

CONSTANTS Claude, GPT, Gemini, Grok

\* Claude's cap is the shorter one; the pause fits into either.
Caps == [p \in Providers |-> IF p = Claude THEN 2 ELSE 3]
=============================================================================
