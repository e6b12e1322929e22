----------------------------- MODULE Providers -----------------------------
(***************************************************************************)
(* What passes between the gateway and the providers, over all inputs: the *)
(* conversation, a reply, the mock's speech and the attempts at a call.    *)
(***************************************************************************)
EXTENDS Inputs

A == INSTANCE Adapters

\* None is no count, no counts and no reason to stop.
ASSUME ReplyAssumption ==
  /\ None \notin Nat
  /\ None \notin {"stop", "max_tokens", "none", "finishreason.stop", "finishreason.max_tokens"}
  /\ None \notin [input : Nat \cup {None}, output : Nat \cup {None},
                  created : Nat \cup {None}, read : Nat \cup {None}]

Dialogue == [i \in DOMAIN input |-> [role |-> input[i], content |-> <<i>>]]

Block == [one |-> [type |-> "text", text |-> <<"w1">>],
          two |-> [type |-> "text", text |-> <<"w2", "w3">>],
          none |-> [type |-> "text", text |-> <<>>],
          tool_use |-> [type |-> "tool_use"]]

\* OpenAI and Gemini may leave the counts out.
Replies(a) ==
  LET counted == {A!Usage(3, Len(input) + 1, c, r) : c \in {None, 1}, r \in {None, 2}}
  IN [blocks : {[i \in DOMAIN input |-> Block[input[i]]]},
      finish : {"stop", "max_tokens"},
      usage  : IF A!Vendor(a) = "Anthropic" THEN counted ELSE counted \cup {None}]

\* Every adapter delivers the conversation and streams what the reply says, in
\* chunks a client can end on; the adapters of an injected client end a stream
\* as they end a whole answer.
AdaptersAgree ==
  /\ subject = "messages" =>
       \A a \in A!Injected \cup A!Deployed :
         /\ A!Delivered(a, Dialogue)
         /\ a # "anthropic_provider" => A!Understood(a, Dialogue)
  /\ subject = "reply" =>
       \A a \in A!Injected \cup A!Deployed : \A r \in Replies(a) :
         /\ \A k \in 0 .. Len(A!Script(A!Vendor(a), r)) : A!WellFormed(a, r, k)
         /\ a \notin {"openai_provider", "google_provider"} =>
              A!EndsOnce(a, r) /\ A!EndsLikeChat(a, r)
  /\ subject = "speech" =>
       A!MockAgrees(<<[role |-> "user", content |-> input]>>)
  /\ subject = "attempts" =>
       \A a \in A!Injected \cup A!Deployed, max \in 1 .. 3 :
         A!RetriesWhatMayPass(max, a, input)

=============================================================================
