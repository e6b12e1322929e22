------------------------------ MODULE Outgoing ------------------------------
(***************************************************************************)
(* What the guardrails let out, over all inputs: requests on their way to  *)
(* a provider, answers on theirs to the client, log records and tool       *)
(* outputs.                                                                *)
(***************************************************************************)
EXTENDS Inputs, SequencesExt

G == INSTANCE Guards

\* None is no label, no reason, no counts and no text.
ASSUME ReasonAssumption ==
  /\ None \notin {"too large", "classified", "no result"} \cup G!Imperatives \cup ToSet(G!Policy)
  /\ \A patterns \in {G!Patterns, G!NerPatterns} : None \notin [ToSet(patterns) -> Nat]
  /\ None \notin Seq(Alphabet.request)

\* Messages are cut at the slashes.
Requests ==
  LET texts == FoldLeft(LAMBDA acc, l : IF l = "/" THEN Append(acc, <<>>)
                                        ELSE [acc EXCEPT ![Len(acc)] = Append(@, l)],
                        <<<<>>>>, input)
  IN [i \in DOMAIN texts |-> [role |-> IF i = 1 THEN "system" ELSE "user",
                              content |-> texts[i]]]

\* A word split by a hidden character is spelled with -, a bracketed one as it
\* stands.
ToolOutput ==
  LET word(l) == CASE l = "ro-le:" -> [G!Plain("role:") EXCEPT !.split = TRUE]
                   [] l = "ig-nore" -> [G!Plain("ignore") EXCEPT !.split = TRUE]
                   [] l = "[ignore]" -> [G!Plain("ignore") EXCEPT !.brackets = 1]
                   [] OTHER -> G!Plain(l)
  IN [i \in DOMAIN input |-> word(input[i])]

\* What the guardrails let out is clean: requests on their way to a provider,
\* answers on theirs to the client, log records and tool outputs.
OutgoingIsClean ==
  /\ subject = "request" =>
       /\ \A max \in 1 .. 3 : G!Forwards(max, Requests)
       /\ G!Rejects(G!Patterns, "pii", Requests)
       /\ G!Rejects(G!NerPatterns, "pii_ner", Requests)
       /\ G!Screened(Requests)
       /\ G!LogsClean(Requests)
       /\ G!Returns(input)
  /\ subject = "tool_output" => G!Inert(ToolOutput)

=============================================================================
