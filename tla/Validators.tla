----------------------------- MODULE Validators -----------------------------
(***************************************************************************)
(* Validation over the bounded inputs of Algorithms.  It is apart because  *)
(* the schemas are recursive, and so are Validation's operators.           *)
(***************************************************************************)
EXTENDS Algorithms

V == INSTANCE Validation

-----------------------------------------------------------------------------
(* Validation: a leaf, a list or an object of the leaves named, and the     *)
(* schemas of a leaf, of a list of leaves and of an object of them.         *)

Leaf == [true  |-> V!Value("bool", 2),   one  |-> V!Value("int", 2),
         half  |-> V!Value("float", 1),  null |-> V!Value("null", 0),
         short |-> V!Value("str", 1),    long |-> V!Value("str", 3),
         list  |-> V!Value("list", <<>>), dict |-> V!Value("dict", <<>>)]

Leaves == [i \in DOMAIN input |-> Leaf[input[i]]]

ListOf(vs) == V!Value("list", vs)
ObjectOf(vs) == V!Value("dict", [k \in {<<"a", "b", "c">>[i] : i \in DOMAIN vs} |->
                                   vs[CHOOSE i \in DOMAIN vs : <<"a", "b", "c">>[i] = k]])

Values == {ListOf(Leaves), ObjectOf(Leaves), ObjectOf(<<ListOf(Leaves)>>)}
            \cup {Leaves[i] : i \in DOMAIN input}

LeafSchemas ==
  {V!Any} \cup {[V!Any EXCEPT !.type = {name}] : name \in DOMAIN V!JsonTypes}
    \cup {[V!Any EXCEPT !.type = {"string", "number"}, !.minLength = 2, !.maximum = 1],
          [V!Any EXCEPT !.enum = {Leaf["one"], Leaf["short"]}]}

Schemas ==
  LeafSchemas
    \cup {[V!Any EXCEPT !.items = s, !.minItems = n[1], !.maxItems = n[2]] :
            s \in LeafSchemas, n \in {<<None, None>>, <<2, 2>>}}
    \cup {[V!Any EXCEPT !.properties = [k \in {"a"} |-> s], !.required = r, !.additional = more] :
            s \in LeafSchemas, r \in {{}, {"b"}}, more \in {None, TRUE, FALSE}}

Candidates == {<<x, y, z>> : x \in {Leaf["true"], V!Unparsable} \cup Values,
                             y \in {None, Leaf["half"]}, z \in {None, Leaf["one"]}}

\* The validators accept exactly what their schemas describe, and agree where
\* both apply; a repaired output is valid and within the cap; a prompt
\* reference has one reading.
ValidatorsAreExact ==
  /\ subject = "value" =>
       /\ \A v \in Values, s \in Schemas : V!ValidatesExactly(v, s)
       /\ \A v \in Values, s \in Schemas :
            (\A k \in DOMAIN s.properties :
               s.properties[k].type \in {None} \cup {{name} : name \in V!ParamTypes})
              => V!ValidatorsAgree(v, s) /\ V!RendersOnlyTyped(v, s)
       /\ \A c \in Candidates, s \in LeafSchemas, max \in 0 .. 2 :
            V!RepairsWithinCap(c, s, max)
  /\ subject = "reference" => V!ParsesOnly(input)

=============================================================================
