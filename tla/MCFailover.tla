----------------------------- MODULE MCFailover -----------------------------
EXTENDS Failover, TLC

\* Three rows of ALIAS_SEED: one that fails over to another provider, one
\* whose fallback is its own primary model, and one whose model no adapter
\* serves.
CONSTANTS smart, balanced, embed, anthropic, openai, google,
          claude, gpt, gemini, embedding

SeedProvider == smart :> anthropic @@ balanced :> google @@ embed :> openai
SeedPrimary == smart :> claude @@ balanced :> gemini @@ embed :> embedding
SeedFallback == smart :> gpt @@ balanced :> gemini @@ embed :> embedding
SeedHost == claude :> anthropic @@ gpt :> openai @@ gemini :> google
              @@ embedding :> Missing
=============================================================================
