---------------------------- MODULE MCPromotion -----------------------------
EXTENDS Promotion, TLC

CONSTANTS v1, v2, v3, rag, chat

\* v1 and v2 are versions of one prompt, v3 is another prompt's.
Owner == v1 :> rag @@ v2 :> rag @@ v3 :> chat

OneOwner == [v \in Version |-> rag]
=============================================================================
