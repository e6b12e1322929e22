---------------------------- MODULE MCChatService ----------------------------
EXTENDS ChatService, TLC

CONSTANTS
  alice, bob, mock, unknown,
  plain, personal, masked, hostile, long, short,
  good, banned, fixable, fixed, v1, v2

\* InjectionGuardrail and PiiGuardrail in its redact mode, on four texts.
InjectionGuard == [t \in Text |-> IF t = hostile THEN Rejected ELSE t]
PiiGuard == [t \in Text |-> IF t = personal THEN masked ELSE t]
DeployedPre == <<InjectionGuard, PiiGuard>>

ASSUME DeployedPreHolds == \A i \in 1 .. Len(DeployedPre) : GuardHolds(DeployedPre, i)

\* SchemaRepairGuardrail and ContentPolicyGuardrail, on four answers.
ContentPolicy == [a \in Answer |-> IF a = banned THEN Rejected ELSE a]
SchemaRepair == [a \in Answer |-> IF a = fixable THEN fixed ELSE a]
DeployedPost == <<ContentPolicy>>
RepairingPost == <<SchemaRepair, ContentPolicy>>

Ask(key, text, ref, stream) ==
  [key |-> key, model |-> mock, text |-> text, ref |-> ref, params |-> long,
   stream |-> stream]

\* Two tenants asking the same; a text that the guards change, with the
\* prompt by its production pointer, complete and streamed; a text that the
\* guards refuse; a model nobody serves; and the first tenant's question again
\* with a smaller max_tokens.
Arrivals ==
  {Ask(alice, plain, None, FALSE), Ask(bob, plain, None, FALSE),
   Ask(alice, personal, Production, FALSE), Ask(alice, personal, Production, TRUE),
   Ask(alice, hostile, None, FALSE),
   [Ask(alice, plain, None, FALSE) EXCEPT !.model = unknown],
   [Ask(alice, plain, None, FALSE) EXCEPT !.params = short]}

\* Development with nothing wired, one replica whose Kafka was down when its
\* recorder was built, and everything wired.
Deployments ==
  {{}, Collaborator \ {"publisher", "prompts"}, Collaborator}

Everything == {Collaborator}
OneAsk == {Ask(alice, plain, None, FALSE)}
=============================================================================
