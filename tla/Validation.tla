----------------------------- MODULE Validation -----------------------------
(***************************************************************************)
(* The two JSON-schema validators, schema_repair.py's for a provider's    *)
(* structured output and resolver.py's for the parameters of a prompt,    *)
(* with what rests on them: the bounded repair loop and the resolution of *)
(* a prompt reference.                                                     *)
(*                                                                         *)
(* A JSON value is [type, is]: `is` holds a number in halves, 0 or 1 in   *)
(* halves for a bool, a length for a string, a sequence of values for an  *)
(* array, a function from names to values for an object.                  *)
(***************************************************************************)
EXTENDS Naturals, Sequences, FiniteSets

CONSTANT None

Value(type, is) == [type |-> type, is |-> is]

Keys(v) == DOMAIN v.is

\* A schema without keywords; None: the keyword is absent.
Any == [type |-> None, enum |-> None, required |-> {}, properties |-> <<>>,
        additional |-> None, items |-> None, minimum |-> None, maximum |-> None,
        minLength |-> None, maxLength |-> None, minItems |-> None, maxItems |-> None]

JsonTypes == [string |-> {"str"}, number |-> {"int", "float"}, integer |-> {"int"},
              boolean |-> {"bool"}, object |-> {"dict"}, array |-> {"list"},
              null |-> {"null"}]

\* Mutant: isinstance(True, int) holds in Python, and is not excluded.
TypeMatchesBool(v, name) ==
  /\ name \in DOMAIN JsonTypes
  /\ \/ v.type \in JsonTypes[name]
     \/ v.type = "bool" /\ "int" \in JsonTypes[name]

TypeMatches(v, name) ==
  /\ name \in DOMAIN JsonTypes
  /\ v.type \in JsonTypes[name]

\* Python's ==, under which True is 1 and 1.0 is 1.
Numeric == {"int", "float", "bool"}
Equals(v, w) == IF {v.type, w.type} \subseteq Numeric THEN v.is = w.is ELSE v = w

Outside(n, least, most) ==
  \/ least # None /\ n < least
  \/ most # None /\ n > most

ValidateString(v, s) ==
  IF Outside(v.is, s.minLength, s.maxLength) THEN {"length"} ELSE {}

ValidateNumber(v, s) ==
  IF Outside(v.is, s.minimum, s.maximum) THEN {"range"} ELSE {}

RECURSIVE Validate(_, _)

ValidateObject(v, s) ==
  (IF s.required \subseteq Keys(v) THEN {} ELSE {"required"})
    \cup UNION {Validate(v.is[k], s.properties[k]) : k \in Keys(v) \cap DOMAIN s.properties}
    \cup (IF s.additional = FALSE /\ ~ Keys(v) \subseteq DOMAIN s.properties
          THEN {"additionalProperties"} ELSE {})

ValidateArray(v, s) ==
  (IF Outside(Len(v.is), s.minItems, s.maxItems) THEN {"items"} ELSE {})
    \cup (IF s.items = None THEN {}
          ELSE UNION {Validate(v.is[i], s.items) : i \in DOMAIN v.is})

\* The keywords a value fails; a wrong type ends the check.
Validate(v, s) ==
  IF s.type # None /\ ~ \E name \in s.type : TypeMatches(v, name) THEN {"type"}
  ELSE (IF s.enum # None /\ ~ \E e \in s.enum : Equals(v, e) THEN {"enum"} ELSE {})
         \cup CASE v.type = "str" -> ValidateString(v, s)
                [] v.type \in {"int", "float"} -> ValidateNumber(v, s)
                [] v.type = "dict" -> ValidateObject(v, s)
                [] v.type = "list" -> ValidateArray(v, s)
                [] OTHER -> {}

-----------------------------------------------------------------------------
(* SchemaRepairGuardrail.check.  A candidate is a JSON value or text that  *)
(* does not parse; the repair callback's answers are a sequence, in which *)
(* None is a callback that gives up.                                       *)

Unparsable == Value("text", 0)

ParseAndValidate(c, s) == IF c = Unparsable THEN {"json"} ELSE Validate(c, s)

Rejected(n) == [verdict |-> "rejected", content |-> None, attempts |-> n]

RECURSIVE Repair(_, _, _, _, _)
Repair(c, s, answers, max, n) ==
  IF ParseAndValidate(c, s) = {}
  THEN [verdict |-> "passed", content |-> c, attempts |-> n]
  ELSE IF n = max \/ answers[n + 1] = None THEN Rejected(IF n = max THEN n ELSE n + 1)
  ELSE Repair(answers[n + 1], s, answers, max, n + 1)

Check(c, s, answers, max) == Repair(c, s, answers, max, 0)

-----------------------------------------------------------------------------
(* PromptResolver: reference, version, parameters, rendering.             *)

ParamTypes == DOMAIN JsonTypes \ {"null"}

\* Extra parameters are refused unless the schema allows them; a type it does
\* not know is not checked.  A schema without keywords, {}, accepts anything.
ValidateParams(s, params) ==
  \/ s = Any
  \/ /\ s.required \subseteq Keys(params)
     /\ s.additional = TRUE \/ Keys(params) \subseteq DOMAIN s.properties
     /\ \A k \in Keys(params) \cap DOMAIN s.properties :
           \A name \in ParamTypes :
              s.properties[k].type = {name} => params.is[k].type \in JsonTypes[name]

At == "@"
Newline == "nl"

\* _REF_RE: the name ends at the first @; the label is one line, and `$` lets
\* a newline follow it.
ParseRef(ref) ==
  LET ats == {i \in DOMAIN ref : ref[i] = At}
      at == CHOOSE i \in ats : \A j \in ats : i <= j
      end == IF ref # <<>> /\ ref[Len(ref)] = Newline THEN Len(ref) - 1 ELSE Len(ref)
      label == SubSeq(ref, at + 1, end)
  IN IF ats = {} \/ at = 1 \/ label = <<>> \/ \E i \in DOMAIN label : label[i] = Newline
     THEN None
     ELSE [name |-> SubSeq(ref, 1, at - 1), label |-> label]

\* The registry's rows are a function from [name, label] to versions; the
\* template is the set of variables it uses, which StrictUndefined insists on.
Resolve(ref, rows, params) ==
  LET key == ParseRef(ref)
  IN CASE key = None -> "InvalidPromptRefError"
       [] key # None /\ key \notin DOMAIN rows -> "PromptNotFoundError"
       [] OTHER -> IF ~ ValidateParams(rows[key].schema, params)
                        \/ ~ rows[key].template \subseteq Keys(params)
                   THEN "ParamsValidationError" ELSE "rendered"

-----------------------------------------------------------------------------
(* What they promise, keyword by keyword and node by node.                 *)

\* The values that a schema, through its keywords, speaks of.
Under(v, s) ==
  (IF v.type # "dict" THEN {}
   ELSE {<<v.is[k], s.properties[k]>> : k \in Keys(v) \cap DOMAIN s.properties})
    \cup (IF v.type # "list" \/ s.items = None THEN {}
          ELSE {<<v.is[i], s.items>> : i \in DOMAIN v.is})

Nodes(v, s) ==
  LET below(ns) == UNION {Under(n[1], n[2]) : n \in ns}
  IN {<<v, s>>} \cup Under(v, s) \cup below(Under(v, s))

IsA(v, name) ==
  CASE name = "integer" -> v.type = "int"
    [] name = "number" -> v.type \in {"int", "float"}
    [] name \in {"string", "boolean", "null"} ->
         v.type = [string |-> "str", boolean |-> "bool", null |-> "null"][name]
    [] name \in {"object", "array"} -> v.type = [object |-> "dict", array |-> "list"][name]
    [] OTHER -> FALSE

Within(n, least, most) == (least = None \/ least <= n) /\ (most = None \/ n <= most)

Keeps(v, s) ==
  /\ s.type # None => \E name \in s.type : IsA(v, name)
  /\ s.enum # None => \E e \in s.enum : Equals(v, e)
  /\ v.type = "str" => Within(v.is, s.minLength, s.maxLength)
  /\ v.type \in {"int", "float"} => Within(v.is, s.minimum, s.maximum)
  /\ v.type = "list" => Within(Len(v.is), s.minItems, s.maxItems)
  /\ v.type = "dict" =>
       /\ s.required \subseteq Keys(v)
       /\ s.additional = FALSE => Keys(v) \subseteq DOMAIN s.properties

Satisfies(v, s) == \A n \in Nodes(v, s) : Keeps(n[1], n[2])

ValidatesExactly(v, s) == Validate(v, s) = {} <=> Satisfies(v, s)

\* The first candidate that satisfies the schema within the cap is returned as
\* it is; the callback is asked no more often than it takes, and not again once
\* it gives up.
RepairsWithinCap(candidates, s, max) ==
  LET good == {i \in 1 .. max + 1 : candidates[i] \notin {None, Unparsable}
                                    /\ Satisfies(candidates[i], s)}
      gone == {i \in 1 .. max + 1 : candidates[i] = None}
      out == Check(candidates[1], s, Tail(candidates), max)
      won == \E i \in good : \A j \in gone : i < j
      first == CHOOSE i \in good : \A j \in good : i <= j
  IN IF won THEN out = [verdict |-> "passed", content |-> candidates[first],
                        attempts |-> first - 1]
     ELSE out.verdict = "rejected" /\ out.attempts <= max

\* The two validators agree on the parameters of a prompt.
Typed(s) == [Any EXCEPT !.type = {"object"}, !.required = s.required,
                        !.additional = (s.additional = TRUE),
                        !.properties = [k \in DOMAIN s.properties |->
                                          [Any EXCEPT !.type = s.properties[k].type]]]

ValidatorsAgree(v, s) ==
  v.type = "dict" /\ s # Any
    => (ValidateParams(s, v) <=> Validate(v, Typed(s)) = {})

\* A prompt is rendered only with parameters of the declared types, none missing
\* for the schema or the template and none that nobody declared.
RendersOnlyTyped(v, s) ==
  LET ref == <<"word", At, "word">>
      rows(template) == [k \in {[name |-> <<"word">>, label |-> <<"word">>]} |->
                           [schema |-> s, template |-> template]]
  IN v.type = "dict" =>
       \A template \in SUBSET {"a", "b"} :
         Resolve(ref, rows(template), v) = "rendered"
           <=> (s = Any \/ Satisfies(v, Typed(s))) /\ template \subseteq Keys(v)

\* A reference has one reading, or none.
ParsesOnly(ref) ==
  LET readings ==
        {r \in {<<SubSeq(ref, 1, i - 1), SubSeq(ref, i + 1, j), SubSeq(ref, j + 1, Len(ref))>> :
                  i \in {k \in DOMAIN ref : ref[k] = At}, j \in 1 .. Len(ref)} :
           /\ r[1] # <<>> /\ \A k \in DOMAIN r[1] : r[1][k] # At
           /\ r[2] # <<>> /\ \A k \in DOMAIN r[2] : r[2][k] # Newline
           /\ r[3] \in {<<>>, <<Newline>>}}
  IN IF ParseRef(ref) = None THEN readings = {}
     ELSE \E r \in readings : /\ ParseRef(ref) = [name |-> r[1], label |-> r[2]]
                              /\ readings = {r}

=============================================================================
