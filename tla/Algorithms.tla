----------------------------- MODULE Algorithms -----------------------------
(***************************************************************************)
(* The pure parts of the gateway over all bounded inputs: in every state   *)
(* the functions of the subject keep their promises for the input so far.  *)
(***************************************************************************)
EXTENDS Outgoing, Books, Providers

C == INSTANCE Citation

Verifiers == {[m \in C!Markers |-> IF m = "[yes]" THEN "supported" ELSE no] :
                no \in {"denied", "malformed"}}

\* The citation guardrail passes exactly the answers whose factual claims are
\* each backed by a source they cite.
AnswersAreGrounded ==
  subject = "answer" =>
    \A required \in BOOLEAN, verify \in Verifiers : C!Grounded(required, verify, input)

=============================================================================
