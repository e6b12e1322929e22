--------------------------- MODULE MCSemanticCache ---------------------------
EXTENDS SemanticCache, TLC

CONSTANTS acme, zen, refund, refunds, weather

\* Two tenants, whose names stay apart.
Names == acme :> "atlas_cache_acme" @@ zen :> "atlas_cache_zen"

\* A question, its paraphrase and another question.
Close == {<<refund, refunds>>, <<refunds, refund>>}
Scores == [p \in Text \X Text |->
             IF p[1] = p[2] THEN 100 ELSE IF p \in Close THEN 98 ELSE 20]
=============================================================================
