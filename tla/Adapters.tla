------------------------------ MODULE Adapters ------------------------------
(***************************************************************************)
(* The provider adapters (src/app/providers) as functions: what a list of *)
(* messages becomes at the vendor, what a vendor's reply becomes in the   *)
(* gateway, whole or as a stream, and the SSE frames ChatService makes of *)
(* a stream.  There are two adapters per vendor: the ones built around an *)
(* injected client, "anthropic", "openai" and "google" (default_providers)*)
(* and the deployed ones, "anthropic_provider", "openai_provider" and     *)
(* "google_provider" (from_settings), beside "mock".                      *)
(*                                                                         *)
(* A text is a sequence of words, a reply a record of content blocks, a   *)
(* finish reason and the vendor's token counts.  What the SDKs do with a  *)
(* reply, the whole message or the events of its stream, is external.     *)
(***************************************************************************)
EXTENDS Naturals, Sequences, SequencesExt, FiniteSetsExt

CONSTANT None

Injected == {"anthropic", "openai", "google"}
Deployed == {"anthropic_provider", "openai_provider", "google_provider"}

Vendor(a) == CASE a \in {"anthropic", "anthropic_provider"} -> "Anthropic"
               [] a \in {"openai", "openai_provider"} -> "OpenAI"
               [] a \in {"google", "google_provider"} -> "Google"
               [] a = "mock" -> "Mock"

OrElse(x, default) == IF x = None THEN default ELSE x

Usage(in, out, created, read) ==
  [input |-> in, output |-> out, created |-> created, read |-> read]

NoUsage == Usage(0, 0, 0, 0)

\* What of a sequence is in a set, in its order: SelectSeq as a fold, of which
\* more can be proved.
Among(s, S) == FoldLeft(LAMBDA kept, x : IF x \in S THEN Append(kept, x) ELSE kept, <<>>, s)

-----------------------------------------------------------------------------
(* Messages to the vendor.                                                 *)

Say(role, m) == [role |-> role, content |-> m.content]

Turns(role(_), ms) == [i \in 1 .. Len(ms) |-> Say(role(ms[i].role), ms[i])]

Systems(ms) == Among(ms, {m \in ToSet(ms) : m.role = "system"})

Spoken(ms) == Among(ms, {m \in ToSet(ms) : m.role # "system"})

\* The top-level system field of Anthropic and of Gemini; empty: omitted.
Instruction(ms) == [i \in 1 .. Len(Systems(ms)) |-> Systems(ms)[i].content]

ToContents(ms) ==
  [system |-> Instruction(ms),
   turns  |-> Turns(LAMBDA r : IF r = "assistant" THEN "model" ELSE "user",
                    Spoken(ms))]

ToAnthropicMessages(ms) ==
  [system |-> Instruction(ms),
   turns  |-> Turns(LAMBDA r : IF r = "assistant" THEN r ELSE "user",
                    Spoken(ms))]

ToOpenAIMessages(ms) ==
  [system |-> <<>>,
   turns  |-> Turns(LAMBDA r : IF r \in {"system", "assistant"} THEN r ELSE "user",
                    ms)]

CastMessages(ms) == [system |-> <<>>, turns |-> Turns(LAMBDA r : r, ms)]

MessagesToContents(ms) ==
  [system |-> <<>>,
   turns  |-> Turns(LAMBDA r : IF r = "assistant" THEN "model" ELSE "user", ms)]

Prompt(a, ms) ==
  CASE a = "anthropic" -> ToAnthropicMessages(ms)
    [] a = "openai" -> ToOpenAIMessages(ms)
    [] a = "google" -> ToContents(ms)
    [] a \in {"anthropic_provider", "openai_provider"} -> CastMessages(ms)
    [] a = "google_provider" -> MessagesToContents(ms)
    [] a = "mock" -> CastMessages(ms)

-----------------------------------------------------------------------------
(* A reply, whole or in chunks.                                            *)

\* What the vendors' counts become.  Cached tokens are dropped by the
\* deployed adapters.
MapUsage(a, u) ==
  IF u = None THEN NoUsage
  ELSE CASE a = "anthropic" -> Usage(u.input, u.output, OrElse(u.created, 0), OrElse(u.read, 0))
         [] a \in {"openai", "google"} -> Usage(u.input, u.output, 0, OrElse(u.read, 0))
         [] OTHER -> Usage(u.input, u.output, 0, 0)

\* google_provider stringifies the SDK's enumeration member, or None.
Stringified(reason) == CASE reason = None -> "none"
                         [] reason = "stop" -> "finishreason.stop"
                         [] reason = "max_tokens" -> "finishreason.max_tokens"

TextOf(blocks) ==
  FoldLeft(LAMBDA text, b : IF b.type = "text" THEN text \o b.text ELSE text,
           <<>>, blocks)

FirstText(blocks) ==
  IF blocks # <<>> /\ blocks[1].type = "text" THEN blocks[1].text ELSE <<>>

Chat(a, r) ==
  [content |-> IF a = "anthropic_provider" THEN FirstText(r.blocks)
               ELSE TextOf(r.blocks),
   finish  |-> IF a = "google_provider" THEN Stringified(r.finish)
               ELSE OrElse(r.finish, "stop"),
   usage   |-> MapUsage(a, r.usage)]

Chunk(text, finish, usage) == [text |-> text, finish |-> finish, usage |-> usage]

Words(r) == LET text == TextOf(r.blocks)
            IN [i \in 1 .. Len(text) |-> Chunk(<<text[i]>>, None, None)]

\* The events of a reply's stream.  OpenAI: the words, the finish reason, and
\* with include_usage a last chunk with the counts and no choices.  Anthropic:
\* the input counts first, the output count with the stop reason.  Gemini: the
\* counts so far on every chunk, the finish reason on the last.
Script(v, r) ==
  LET u == r.usage
      sofar(n) == IF u = None THEN None ELSE Usage(u.input, n, u.created, u.read)
  IN CASE v = "OpenAI" ->
            <<Chunk(<<>>, None, None)>> \o Words(r)
              \o <<Chunk(<<>>, OrElse(r.finish, "stop"), None), Chunk(<<>>, None, u)>>
       [] v = "Anthropic" ->
            <<Chunk(<<>>, None, Usage(u.input, None, u.created, u.read))>> \o Words(r)
              \o <<Chunk(<<>>, r.finish, Usage(None, u.output, None, None))>>
       [] v = "Google" ->
            [i \in 1 .. Len(Words(r)) |-> Chunk(Words(r)[i].text, None, sofar(i))]
              \o <<Chunk(<<>>, r.finish, u)>>

-----------------------------------------------------------------------------
(* A stream of StreamDeltas.  An adapter's generator is a fold over the   *)
(* events; the ones that keep the counts yield the terminal delta after   *)
(* the loop, so a stream that breaks off has none.                        *)

Content(text) == [content |-> text, finish |-> None, usage |-> None]
Terminal(finish, usage) == [content |-> <<>>, finish |-> finish, usage |-> usage]

Said(c) == IF c.text = <<>> THEN <<>> ELSE <<Content(c.text)>>

Kept == [deltas |-> <<>>, finish |-> "stop", usage |-> NoUsage]

\* Mutant: only the first chunk that carries counts is read.
KeepFirst(a, k, c) ==
  [deltas |-> k.deltas \o Said(c),
   finish |-> OrElse(c.finish, k.finish),
   usage  |-> IF k.usage = NoUsage THEN MapUsage(a, c.usage) ELSE k.usage]

Keep(a, k, c) ==
  [deltas |-> k.deltas \o Said(c),
   finish |-> OrElse(c.finish, k.finish),
   usage  |-> IF c.usage = None THEN k.usage ELSE MapUsage(a, c.usage)]

\* message_start carries the input and cache counts, message_delta the output.
KeepAnthropic(k, c) ==
  [Keep("anthropic", k, [c EXCEPT !.usage = None]) EXCEPT !.usage =
     IF c.usage = None THEN @
     ELSE IF c.usage.output = None
          THEN Usage(c.usage.input, @.output, OrElse(c.usage.created, 0), OrElse(c.usage.read, 0))
          ELSE [@ EXCEPT !.output = c.usage.output]]

OpenAIProviderStream(cs) ==
  FoldLeft(LAMBDA out, c : out \o Said(c) \o
             (IF c.finish = None THEN <<>>
              ELSE <<Terminal(c.finish, MapUsage("openai_provider", c.usage))>>),
           <<>>, cs)

GoogleProviderStream(cs) ==
  FoldLeft(LAMBDA out, c : out \o Said(c) \o
             (IF c.usage = None \/ c.usage.output = 0 THEN <<>>
              ELSE <<Terminal(Stringified(c.finish), MapUsage("google_provider", c.usage))>>),
           <<>>, cs)

\* text_stream and get_final_message: the SDK accumulates the message.
AnthropicProviderStream(cs, ended) ==
  LET k == FoldLeft(KeepAnthropic, Kept, cs)
  IN k.deltas \o (IF ended
                  THEN <<Terminal(k.finish, MapUsage("anthropic_provider", k.usage))>>
                  ELSE <<>>)

\* The adapters around an injected client end their stream with what they kept.
InjectedStream(a, cs, ended) ==
  LET k == IF a = "anthropic" THEN FoldLeft(KeepAnthropic, Kept, cs)
           ELSE FoldLeft(LAMBDA acc, c : Keep(a, acc, c), Kept, cs)
  IN k.deltas \o (IF ended THEN <<Terminal(k.finish, k.usage)>> ELSE <<>>)

Stream(a, cs, ended) ==
  CASE a = "openai_provider" -> OpenAIProviderStream(cs)
    [] a = "google_provider" -> GoogleProviderStream(cs)
    [] a = "anthropic_provider" -> AnthropicProviderStream(cs, ended)
    [] a \in Injected -> InjectedStream(a, cs, ended)

\* The mock echoes the last message word by word; its stream puts one space
\* between words, however many the message had.
Space == " "
Split(text) == Among(text, ToSet(text) \ {Space})
Reply(ms) == <<"[mock]", Space, "echo:", Space>>
               \o (IF ms = <<>> THEN <<>> ELSE Last(ms).content)
CountTokens(text) == Max({1, Len(Split(text))})
MockUsage(ms) ==
  Usage(FoldLeft(LAMBDA n, m : n + CountTokens(m.content), 0, ms),
        CountTokens(Reply(ms)), 0, 0)

MockChat(ms) == [content |-> Reply(ms), finish |-> "stop", usage |-> MockUsage(ms)]

MockStream(ms) ==
  LET ws == Split(Reply(ms))
  IN [i \in 1 .. Len(ws) |-> Content(IF i = 1 THEN <<ws[i]>> ELSE <<Space, ws[i]>>)]
       \o <<Terminal("stop", MockUsage(ms))>>

\* How a call ends, by the vendor's HTTP status: the deployed adapters name the
\* errors that are transient.
TransientStatus == {429, 500, 502, 503, 504}
Raised(a, status) ==
  CASE status = 200 -> "ok"
    [] status \in TransientStatus /\ a \in Deployed -> "TransientProviderError"
    [] OTHER -> "APIError"

\* build_retrying, for whoever calls an adapter through it: only a transient
\* error is tried again, up to max attempts, and the last outcome is the caller's.
Retrying(max, outcomes) ==
  FoldLeft(LAMBDA so, outcome :
             IF so.over THEN so
             ELSE [made |-> so.made + 1, last |-> outcome,
                   over |-> outcome # "TransientProviderError" \/ so.made + 1 = max],
           [made |-> 0, last |-> None, over |-> FALSE], outcomes)

-----------------------------------------------------------------------------
(* What the service sends: ChatService._to_response and _stream_frames.   *)

CompletionUsage(u) ==
  [prompt |-> u.input, completion |-> u.output, total |-> u.input + u.output]

ToResponse(result) ==
  [content |-> result.content, finish |-> result.finish,
   usage |-> CompletionUsage(result.usage)]

RoleFrame == [type |-> "role"]
DoneFrame == [type |-> "done"]

Frame(d) ==
  IF d.finish # None \/ d.usage # None
  THEN [type |-> "final", finish |-> OrElse(d.finish, "stop"),
        usage |-> IF d.usage = None THEN None ELSE CompletionUsage(d.usage)]
  ELSE [type |-> "content", content |-> d.content]

Frames(deltas, ended) ==
  <<RoleFrame>> \o [i \in 1 .. Len(deltas) |-> Frame(deltas[i])]
    \o (IF ended THEN <<DoneFrame>> ELSE <<>>)

-----------------------------------------------------------------------------
(* The promises of the port.                                               *)

Streaming(a, r, k) ==
  LET script == Script(Vendor(a), r)
  IN Frames(Stream(a, SubSeq(script, 1, k), k = Len(script)), k = Len(script))

Typed(fs, type) == Among(fs, {f \in ToSet(fs) : f.type = type})

Told(fs) ==
  FoldLeft(LAMBDA text, f : text \o f.content, <<>>, Typed(fs, "content"))

\* The role comes first, [DONE] last and only when the vendor's stream ended;
\* what was told is what the vendor said so far.
WellFormed(a, r, k) ==
  LET fs == Streaming(a, r, k)
      whole == k = Len(Script(Vendor(a), r))
  IN /\ fs[1] = RoleFrame /\ Len(Typed(fs, "role")) = 1
     /\ Typed(fs, "done") = IF whole THEN <<Last(fs)>> ELSE <<>>
     /\ IsPrefix(Told(fs), TextOf(r.blocks))
     /\ whole => Told(fs) = TextOf(r.blocks)

\* One final chunk, after the text.
EndsOnce(a, r) ==
  LET fs == Streaming(a, r, Len(Script(Vendor(a), r)))
  IN Len(Typed(fs, "final")) = 1 /\ fs[Len(fs) - 1].type = "final"

\* ... with the finish reason and the counts of the same reply when it is not
\* streamed.
EndsLikeChat(a, r) ==
  LET fs == Streaming(a, r, Len(Script(Vendor(a), r)))
      answer == ToResponse(Chat(a, r))
  IN /\ fs[Len(fs) - 1].finish = answer.finish
     /\ fs[Len(fs) - 1].usage = answer.usage

\* The mock says the same words either way, and counts them the same.
MockAgrees(ms) ==
  LET fs == Frames(MockStream(ms), TRUE)
      answer == ToResponse(MockChat(ms))
  IN /\ Split(Told(fs)) = Split(answer.content)
     /\ fs[Len(fs) - 1].usage = answer.usage /\ Len(Typed(fs, "final")) = 1

\* What was not transient is never tried again, and success is never repeated;
\* the caller is told of the last attempt.
RetriesWhatMayPass(max, a, statuses) ==
  LET end == Retrying(max, [i \in DOMAIN statuses |-> Raised(a, statuses[i])])
      final == {i \in DOMAIN statuses : statuses[i] \in {200, 400} \/ a \notin Deployed}
  IN /\ end.made <= max
     /\ end.made = IF final = {} THEN Min({max, Len(statuses)}) ELSE Min({max} \cup final)
     /\ end.made > 0 => (end.last = "ok" <=> statuses[end.made] = 200)

Mentions(p, m) == \/ \E i \in 1 .. Len(p.system) : p.system[i] = m.content
                  \/ \E i \in 1 .. Len(p.turns) : p.turns[i].content = m.content

\* The roles a vendor's API knows.
Vocabulary(v) == CASE v = "Anthropic" -> {"user", "assistant"}
                   [] v = "Google" -> {"user", "model"}
                   [] OTHER -> {"system", "user", "assistant", "tool"}

\* Every message reaches the vendor, in the order of the conversation, and the
\* model's own turns stay its own.
Delivered(a, ms) ==
  LET p == Prompt(a, ms)
      own == Among(p.turns, {t \in ToSet(p.turns) : t.role \in {"assistant", "model"}})
      talk == IF p.system = <<>> THEN ms ELSE Spoken(ms)
  IN /\ \A i \in 1 .. Len(ms) : Mentions(p, ms[i])
     /\ Len(p.turns) = Len(talk)
     /\ \A i \in 1 .. Len(talk) : p.turns[i].content = talk[i].content
     /\ Len(own) = Len(Among(ms, {m \in ToSet(ms) : m.role = "assistant"}))

Understood(a, ms) ==
  \A i \in 1 .. Len(Prompt(a, ms).turns) :
     Prompt(a, ms).turns[i].role \in Vocabulary(Vendor(a))

=============================================================================
