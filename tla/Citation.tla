------------------------------ MODULE Citation ------------------------------
(***************************************************************************)
(* The citation guardrail (src/app/guardrails/citation.py) and the        *)
(* verifier over the mcp-citations server (citation_mcp.py).  A text is a  *)
(* sequence of words, terminal marks, spaces and citation markers.         *)
(***************************************************************************)
EXTENDS Naturals, Sequences, SequencesExt, FiniteSets, FiniteSetsExt

CONSTANT None

Terminals == {".", "?"}
Markers == {"[yes]", "[no]"}   \* [source: id], by what its source supports
Space == " "

\* strip(): without the spaces at both ends.
Strip(text) ==
  LET solid == {i \in DOMAIN text : text[i] # Space}
  IN IF solid = {} THEN <<>> ELSE SubSeq(text, Min(solid), Max(solid))

\* Where a run of spaces after a terminal mark ends a fragment.
Cuts(text) == {i \in 2 .. Len(text) : text[i] = Space /\ text[i - 1] \in Terminals}

\* re.split and strip: the fragments that are not empty.
Fragments(text) ==
  LET whole == Strip(text)
      cuts == SetToSortSeq(Cuts(whole), <)
      bounds == <<0>> \o cuts \o <<Len(whole) + 1>>
      each == [i \in 1 .. Len(cuts) + 1 |->
                 Strip(SubSeq(whole, bounds[i] + 1, bounds[i + 1] - 1))]
  IN SelectSeq(each, LAMBDA f : f # <<>>)

\* The length of the run of markers, and spaces after them, that a fragment
\* begins with.
Leading(f) ==
  IF f[1] \notin Markers THEN 0
  ELSE Max({n \in DOMAIN f : \A i \in 1 .. n : f[i] \in Markers \cup {Space}})

\* Mutant: the markers at the head of a fragment stay with it.
ReattachNothing(sentences, f) == Append(sentences, f)

\* A fragment's leading markers belong to the claim before it.
Reattach(sentences, f) ==
  LET n == Leading(f)
      rest == Strip(SubSeq(f, n + 1, Len(f)))
      last == Len(sentences)
  IN IF n = 0 \/ last = 0 THEN Append(sentences, f)
     ELSE [sentences EXCEPT ![last] = @ \o <<Space>> \o Strip(SubSeq(f, 1, n))]
            \o (IF rest = <<>> THEN <<>> ELSE <<rest>>)

SplitSentences(text) == FoldLeft(Reattach, <<>>, Fragments(text))

StripCitations(sentence) == Strip(SelectSeq(sentence, LAMBDA w : w \notin Markers))

\* Only markers, a pure question, or a courtesy.
IsNonFactual(sentence) ==
  LET bare == StripCitations(sentence)
  IN \/ bare = <<>>
     \/ bare[Len(bare)] = "?" /\ \A i \in DOMAIN bare : bare[i] # "."
     \/ bare[1] = "thanks"

Citations(sentence) == SelectSeq(sentence, LAMBDA w : w \in Markers)

\* What verify_citation answers of a marker's source; an `exists` that is not a
\* boolean raises.
ToCitationCheck(answer) == IF answer = "malformed" THEN "raised" ELSE answer

\* The sources are asked in turn until one supports the claim.
RequireSupported(verify, sources) ==
  LET asked == FoldLeft(LAMBDA so, s : IF so # "denied" THEN so
                                       ELSE ToCitationCheck(verify[s]),
                        "denied", sources)
  IN CASE asked = "supported" -> "passed"
       [] asked = "denied" -> "unsupported-citation"
       [] asked = "raised" -> "raised"

\* The first sentence that fails decides.
Check(required, verify, text) ==
  FoldLeft(LAMBDA so, sentence :
             CASE so # "passed" \/ IsNonFactual(sentence) -> so
               [] so = "passed" /\ ~ IsNonFactual(sentence) /\ Citations(sentence) = <<>> ->
                    IF required THEN "uncited-claim" ELSE so
               [] OTHER -> RequireSupported(verify, Citations(sentence)),
           "passed", SplitSentences(text))

-----------------------------------------------------------------------------
(* What it promises, by position and without rewriting the text.           *)

\* The stretches of a text between one end of sentence and the next.
Stretches(text) ==
  LET ends == {0, Len(text)} \cup {i - 1 : i \in Cuts(text)}
  IN {<<p[1] + 1, p[2]>> : p \in {p \in ends \X ends :
                                    p[1] < p[2] /\ ~ \E c \in ends : p[1] < c /\ c < p[2]}}

\* The positions of the markers that a stretch begins with.
AtHead(text, a, b) ==
  {i \in a .. b : text[i] \in Markers
                  /\ \A k \in a .. i : text[k] \in Markers \cup {Space}}

\* The markers that cite the claim of a stretch: its own, less those at its head
\* unless it is the first, and those at the head of the next.
Cites(text, a, b) ==
  LET own == {i \in a .. b : text[i] \in Markers}
  IN (IF a = 1 THEN own ELSE own \ AtHead(text, a, b))
       \cup AtHead(text, b + 1, Len(text))

\* The words of a stretch that are neither spaces nor markers.
Claim(text, a, b) ==
  SelectSeq(SubSeq(text, a, b), LAMBDA w : w \notin Markers \cup {Space})

Factual(claim) ==
  /\ claim # <<>>
  /\ claim[1] # "thanks"
  /\ Last(claim) = "?" => "." \in ToSet(claim)

Supported(verify, text, cites) ==
  \E i \in cites : /\ verify[text[i]] = "supported"
                   /\ \A j \in cites : j < i => verify[text[j]] = "denied"

\* An answer passes exactly when every factual claim is cited, and one of its
\* sources supports it before one of them fails to say.
Grounded(required, verify, text) ==
  LET t == Strip(text)
  IN Check(required, verify, text) = "passed" <=>
       \A s \in Stretches(t) :
         LET cites == Cites(t, s[1], s[2])
         IN Factual(Claim(t, s[1], s[2])) =>
              \/ Supported(verify, t, cites)
              \/ ~ required /\ cites = {}

=============================================================================
