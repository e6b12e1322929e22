------------------------------- MODULE Guards -------------------------------
(***************************************************************************)
(* The guardrails that read text (src/app/guardrails), the chain that      *)
(* runs them, and the two other readers of the same PII patterns: the log  *)
(* filter and the span processor.  A text is a sequence of words; a word   *)
(* is what a pattern can match, and after redaction the name of a category *)
(* or the marker.  Lengths are counted in words.                           *)
(***************************************************************************)
EXTENDS Naturals, Sequences, SequencesExt, FiniteSets, FiniteSetsExt

CONSTANT None

Patterns == <<"EMAIL", "CREDIT_CARD", "SSN", "PHONE">>
NerPatterns == <<"PERSON", "ADDRESS", "IBAN", "IP_ADDRESS">>

\* The categories whose pattern finds a word.  A card, an SSN and a long
\* dotted quad also have the shape of a phone number.
Matches(w) == CASE w = "mail" -> {"EMAIL"}
                [] w = "card" -> {"CREDIT_CARD", "PHONE"}
                [] w = "ssn" -> {"SSN", "PHONE"}
                [] w = "quad" -> {"PHONE", "IP_ADDRESS"}
                [] w = "name" -> {"PERSON"}
                [] OTHER -> {}

Hits(c, text) == Cardinality({i \in DOMAIN text : c \in Matches(text[i])})

Sub(c, mark, text) ==
  [i \in DOMAIN text |-> IF c \in Matches(text[i]) THEN mark ELSE text[i]]

Categories == ToSet(Patterns \o NerPatterns)

\* What stands for a match: its category, or in logs one marker for all.
Placeholder == [c \in Categories |-> c]
Marker == [c \in Categories |-> "REDACTED"]

\* The patterns in their order, each over what the ones before it left.
RedactText(mark, patterns, text) ==
  FoldLeft(LAMBDA acc, c :
             [text   |-> Sub(c, mark[c], acc.text),
              counts |-> [acc.counts EXCEPT ![c] = Hits(c, acc.text)]],
           [text |-> text, counts |-> [c \in ToSet(patterns) |-> 0]], patterns)

\* Redacted copies of the messages and the totals per category.
Scan(patterns, messages) ==
  LET each == [i \in DOMAIN messages |->
                 RedactText(Placeholder, patterns, messages[i].content)]
  IN [messages |-> [i \in DOMAIN messages |->
                      [messages[i] EXCEPT !.content = each[i].text]],
      counts   |-> [c \in ToSet(patterns) |->
                      FoldLeft(LAMBDA n, e : n + e.counts[c], 0, each)]]

Found(scan) == \E c \in DOMAIN scan.counts : scan.counts[c] > 0

-----------------------------------------------------------------------------
(* A guardrail takes a context [messages, result] and passes a context on  *)
(* or rejects it with a reason.                                            *)

Pass(ctx) == [ctx |-> ctx, reject |-> None]
Reject(ctx, reason) == [ctx |-> ctx, reject |-> reason]

TotalChars(messages) == FoldLeft(LAMBDA n, m : n + Len(m.content), 0, messages)

SizeGuardrail(max, ctx) ==
  IF TotalChars(ctx.messages) > max THEN Reject(ctx, "too large") ELSE Pass(ctx)

Imperatives == {"ignore", "reveal"}

\* The label of the first pattern that matches, by message, then by pattern.
MatchedLabel(messages) ==
  LET flagged == {i \in DOMAIN messages :
                    ToSet(messages[i].content) \cap Imperatives # {}}
      first == ToSet(messages[Min(flagged)].content)
  IN IF flagged = {} THEN None
     ELSE IF "ignore" \in first THEN "ignore" ELSE "reveal"

InjectionGuardrail(ctx) ==
  IF MatchedLabel(ctx.messages) = None THEN Pass(ctx)
  ELSE Reject(ctx, MatchedLabel(ctx.messages))

\* The cheap model is asked about what the heuristic lets through.
InjectionClassifierGuardrail(verdict, ctx) ==
  IF MatchedLabel(ctx.messages) # None \/ verdict = "benign" THEN Pass(ctx)
  ELSE Reject(ctx, "classified")

PiiGuardrail(mode, ctx) ==
  LET scan == Scan(Patterns, ctx.messages)
  IN IF ~ Found(scan) THEN Pass(ctx)
     ELSE IF mode = "reject" THEN Reject(ctx, scan.counts)
     ELSE Pass([ctx EXCEPT !.messages = scan.messages])

\* Off the inline path: the context is never rewritten.
PiiNerGuardrail(mode, ctx) ==
  LET scan == Scan(NerPatterns, ctx.messages)
  IN IF mode = "reject" /\ Found(scan) THEN Reject(ctx, scan.counts) ELSE Pass(ctx)

Policy == <<"prompt-leak", "credentials">>

\* The first rule of the policy that the result breaks.
ContentPolicyGuardrail(ctx) ==
  LET broken == {i \in DOMAIN Policy : Policy[i] \in ToSet(ctx.result)}
  IN CASE ctx.result = None -> Reject(ctx, "no result")
       [] ctx.result # None /\ broken = {} -> Pass(ctx)
       [] OTHER -> Reject(ctx, Policy[Min(broken)])

Check(name, how, ctx) ==
  CASE name = "size" -> SizeGuardrail(how.max, ctx)
    [] name = "injection" -> InjectionGuardrail(ctx)
    [] name = "injection_classifier" -> InjectionClassifierGuardrail(how.verdict, ctx)
    [] name = "pii" -> PiiGuardrail(how.mode, ctx)
    [] name = "pii_ner" -> PiiNerGuardrail(how.mode, ctx)
    [] name = "content_policy" -> ContentPolicyGuardrail(ctx)

\* One phase of a chain: in order, up to the first rejection; every check that
\* runs is counted under its name and outcome.
Run(chain, how, ctx) ==
  FoldLeft(LAMBDA acc, name :
             IF acc.reject # None THEN acc
             ELSE LET out == Check(name, how, acc.ctx)
                  IN [ctx |-> out.ctx, reject |-> out.reject,
                      counted |-> Append(acc.counted,
                        <<name, IF out.reject = None THEN "pass" ELSE "block">>)],
           [ctx |-> ctx, reject |-> None, counted |-> <<>>], chain)

\* The chain _build_guardrails wires.
Pre == <<"size", "injection", "pii">>
Post == <<"content_policy">>

-----------------------------------------------------------------------------
(* Logs and spans: one marker, both pattern sets.  A value, with the lists  *)
(* and tuples nested in it however deep, is given by its leaves: a function *)
(* from their paths to a text or to something else, a scalar or a mapping,  *)
(* which is left as it is.                                                  *)

RedactForLog(text) == RedactText(Marker, Patterns \o NerPatterns, text).text

RedactValue(value) ==
  [path \in DOMAIN value |->
     IF value[path].type = "str" THEN [value[path] EXCEPT !.is = RedactForLog(@)]
     ELSE value[path]]

\* A record's message and its positional or named arguments; a span's
\* attributes.
Filter(record) ==
  [msg  |-> RedactForLog(record.msg),
   args |-> [k \in DOMAIN record.args |-> RedactValue(record.args[k])]]

-----------------------------------------------------------------------------
(* A tool's output before it re-enters a conversation.  Of a word is known  *)
(* whether a hidden character splits it, which no pattern looks through,    *)
(* and how many pairs of brackets stand around it, which hide it from none. *)
(* A role is one word with the blanks of its line before it; one imperative *)
(* with its object stands for the three pairs.                              *)

Plain(w) == [word |-> w, split |-> FALSE, brackets |-> 0]

Is(w, what) == w.word = what /\ ~ w.split

\* Hidden characters go, between words and inside them.
StripHidden(text) ==
  FoldLeft(LAMBDA kept, w : IF w.word = "hidden" THEN kept
                            ELSE Append(kept, [w EXCEPT !.split = FALSE]),
           <<>>, text)

\* A role at the start of a line.
ForgedRole(text, i) == /\ Is(text[i], "role:") /\ text[i].brackets = 0
                       /\ i = 1 \/ text[i - 1].word = "nl"

DefuseForgedRoles(text) ==
  [i \in DOMAIN text |->
     IF ForgedRole(text, i) THEN [text[i] EXCEPT !.word = "(defanged)"] ELSE text[i]]

Ahead == 2  \* how far the lookahead of an imperative reaches, in words

\* An imperative with its object not far behind it.
Commands(text, i) ==
  /\ Is(text[i], "ignore")
  /\ \E j \in i + 1 .. Min({Len(text), i + Ahead}) : Is(text[j], "instructions")

\* It is bracketed, once more if it was.
NeutralizeInjections(text) ==
  [i \in DOMAIN text |->
     IF Commands(text, i) THEN [text[i] EXCEPT !.brackets = @ + 1] ELSE text[i]]

\* Mutant: hidden characters are stripped last.
SanitizeLate(text) == StripHidden(NeutralizeInjections(DefuseForgedRoles(text)))

Sanitize(text) == NeutralizeInjections(DefuseForgedRoles(StripHidden(text)))

\* With the fence, on lines of their own.
Fenced(text) ==
  <<Plain("BEGIN"), Plain("nl")>> \o Sanitize(text) \o <<Plain("nl"), Plain("END")>>

-----------------------------------------------------------------------------
(* What they promise.                                                      *)

Pii(patterns, text) == {i \in DOMAIN text : Matches(text[i]) \cap ToSet(patterns) # {}}

\* What the deployed chain forwards fits the cap and carries no imperative and
\* no PII of the fast path; the rest of each message is as it was.  What it
\* does not forward was too large or flagged, and was not redacted first.
Forwards(max, messages) ==
  LET how == [max |-> max, mode |-> "redact", verdict |-> "benign"]
      ctx == [messages |-> messages, result |-> None]
      out == Run(Pre, how, ctx)
      sent == out.ctx.messages
      flagged == \E i \in DOMAIN messages : ToSet(messages[i].content) \cap Imperatives # {}
  IN /\ out.reject = None <=> TotalChars(messages) <= max /\ ~ flagged
     /\ out.reject # None => sent = messages
     /\ out.reject = None =>
          /\ DOMAIN sent = DOMAIN messages
          /\ \A i \in DOMAIN messages :
               LET was == messages[i].content
                   is == sent[i].content
               IN /\ sent[i].role = messages[i].role
                  /\ DOMAIN is = DOMAIN was
                  /\ Pii(Patterns, is) = {}
                  /\ \A k \in DOMAIN was \ Pii(Patterns, was) : is[k] = was[k]
     /\ \A i \in DOMAIN out.counted :
          out.counted[i] = <<Pre[i], IF out.reject # None /\ i = Len(out.counted)
                                     THEN "block" ELSE "pass">>

\* A rejection counts every word of PII once, and no context was rewritten.
Rejects(patterns, name, messages) ==
  LET how == [max |-> 0, mode |-> "reject", verdict |-> "benign"]
      out == Run(<<name>>, how, [messages |-> messages, result |-> None])
      total == FoldLeft(LAMBDA n, m : n + Cardinality(Pii(patterns, m.content)), 0, messages)
  IN /\ out.ctx.messages = messages
     /\ out.reject = None <=> total = 0
     /\ out.reject # None =>
          total = MapThenSumSet(LAMBDA c : out.reject[c], DOMAIN out.reject)

\* The heuristic and the classifier behind it let through only what both do.
Screened(messages) ==
  \A verdict \in {"benign", "injection"} :
    Run(<<"injection", "injection_classifier">>,
        [max |-> 0, mode |-> "redact", verdict |-> verdict],
        [messages |-> messages, result |-> None]).reject = None
      <=> MatchedLabel(messages) = None /\ verdict = "benign"

\* An answer is returned only if it breaks no rule; the reason is one it breaks.
Returns(text) ==
  LET how == [max |-> 0, mode |-> "redact", verdict |-> "benign"]
      out == Run(Post, how, [messages |-> <<>>, result |-> text])
  IN IF ToSet(text) \cap ToSet(Policy) = {} THEN out.reject = None
     ELSE out.reject \in ToSet(text) \cap ToSet(Policy)

\* Nothing either pattern set knows is left in a record's texts, be they
\* arguments or nested in one.
LogsClean(messages) ==
  LET text(i) == [type |-> "str", is |-> messages[i].content]
      nested == {<<i, i>> : i \in DOMAIN messages}
      record == Filter([msg |-> messages[1].content,
                        args |-> <<[path \in {<<>>} |-> text(1)],
                                   [path \in nested |-> text(path[1])]>>])
      all == Patterns \o NerPatterns
  IN /\ Pii(all, record.msg) = {}
     /\ \A k \in DOMAIN record.args : \A path \in DOMAIN record.args[k] :
          Pii(all, record.args[k][path].is) = {}

\* The words of a text that are not hidden, up to the i-th.
ShownUpTo(text, i) == {j \in 1 .. i : text[j].word # "hidden"}

\* A sanitized output hides nothing, forges no turn, and what commands stands
\* in brackets; the words that were not hidden are between its fences, in
\* their order and but for forged roles as they were; and sanitizing it again
\* would add brackets only.
Inert(text) ==
  LET out == Fenced(text)
      body == SubSeq(out, 3, Len(out) - 2)
      again == Sanitize(body)
  IN /\ \A i \in DOMAIN out : /\ out[i].word # "hidden" /\ ~ out[i].split
                              /\ ~ ForgedRole(out, i)
                              /\ Commands(out, i) => out[i].brackets > 0
     /\ Len(body) = Cardinality(ShownUpTo(text, Len(text)))
     /\ \A i \in ShownUpTo(text, Len(text)) :
          LET is == body[Cardinality(ShownUpTo(text, i))].word
          IN is = text[i].word \/ <<text[i].word, is>> = <<"role:", "(defanged)">>
     /\ Len(again) = Len(body)
     /\ \A i \in DOMAIN body : again[i].word = body[i].word

=============================================================================
