---------------------------- MODULE SemanticCache ----------------------------
(***************************************************************************)
(* SemanticCache (app/cache/semantic.py): concurrent get and set calls of  *)
(* several tenants over one Qdrant server.  Each call embeds its messages, *)
(* makes sure that the tenant's collection exists, and only then searches  *)
(* or upserts; between the listing and the creation other calls run, and   *)
(* creating a collection that exists is an error.                          *)
(***************************************************************************)
EXTENDS Naturals, FiniteSets

CONSTANTS
  Caller,      \* concurrent calls
  Tenant,
  Collection,  \* Qdrant's collection names
  NameOf,      \* the name that _collection gives a tenant
  Model,
  Text,        \* normalised messages
  Answer,
  Score,       \* the cosine similarity of two texts' embeddings
  Threshold,
  MaxFailures, \* bound on the count of failed creations
  None

ASSUME SemanticAssumption ==
  /\ IsFiniteSet(Caller)
  /\ Caller # {}
  /\ NameOf \in [Tenant -> Collection]
  /\ Score \in [Text \X Text -> Nat]
  /\ \A t \in Text, u \in Text : Score[t, u] = Score[u, t]
  /\ Threshold \in Nat
  /\ MaxFailures \in Nat

VARIABLES
  pc,          \* where each call is
  op,          \* what it was asked
  reply,       \* what a get returned
  collections, \* on the server
  points,      \* the stored points
  failures     \* history: creations refused, per collection

vars == <<pc, op, reply, collections, points, failures>>

Get == [kind : {"get"}, tenant : Tenant, model : Model, text : Text]

Set == [kind : {"set"}, tenant : Tenant, model : Model, text : Text,
        answer : Answer, cited : BOOLEAN]

\* _point_id: tenant, model and messages.
PointId(o) == [tenant |-> o.tenant, model |-> o.model, text |-> o.text]

Init ==
  /\ pc = [c \in Caller |-> "idle"]
  /\ op \in [Caller -> Get]
  /\ reply = [c \in Caller |-> None]
  /\ collections = {}
  /\ points = {}
  /\ failures = [k \in Collection |-> 0]

Mine(c) == NameOf[op[c].tenant]

Goto(c, next) == pc' = [pc EXCEPT ![c] = next]

Ready(c) == Goto(c, IF op[c].kind = "get" THEN "search" ELSE "upsert")

-----------------------------------------------------------------------------

\* A call arrives and embeds its messages; a cited answer is not stored.  (A
\* get with use_semantic_cache off returns at once and is left out.)
Start(c, o) ==
  /\ pc[c] = "idle"
  /\ o.kind = "set" => ~o.cited
  /\ op' = [op EXCEPT ![c] = o]
  /\ reply' = [reply EXCEPT ![c] = None]
  /\ Goto(c, "list")
  /\ UNCHANGED <<collections, points, failures>>

\* Mutant: every call tries to create its collection.
ListNothing(c) ==
  /\ pc[c] = "list"
  /\ Goto(c, "create")
  /\ UNCHANGED <<op, reply, collections, points, failures>>

\* _ensure_collection: get_collections ...
List(c) ==
  /\ pc[c] = "list"
  /\ IF Mine(c) \in collections THEN Ready(c) ELSE Goto(c, "create")
  /\ UNCHANGED <<op, reply, collections, points, failures>>

\* ... then create_collection, if it was not listed.
Create(c) ==
  /\ pc[c] = "create"
  /\ Mine(c) \notin collections
  /\ collections' = collections \union {Mine(c)}
  /\ Ready(c)
  /\ UNCHANGED <<op, reply, points, failures>>

\* The server refuses to create what another call has created since: the
\* exception ends the get or the set.
CreateFails(c) ==
  /\ pc[c] = "create"
  /\ Mine(c) \in collections
  /\ failures' = [failures EXCEPT ![Mine(c)] = IF @ < MaxFailures THEN @ + 1 ELSE @]
  /\ Goto(c, "idle")
  /\ UNCHANGED <<op, reply, collections, points>>

Similar(c, p) == p.collection = Mine(c) /\ Score[op[c].text, p.id.text] >= Threshold

\* Mutant: the whole server is searched.
SearchEverywhere(c) ==
  LET hits == {p \in points : Score[op[c].text, p.id.text] >= Threshold}
  IN /\ pc[c] = "search"
     /\ IF hits = {} THEN UNCHANGED reply
        ELSE \E p \in hits : reply' = [reply EXCEPT ![c] = p]
     /\ Goto(c, "idle")
     /\ UNCHANGED <<op, collections, points, failures>>

\* The nearest point of the tenant's collection over the threshold, whatever
\* model gave it.
Search(c) ==
  LET hits == {p \in points : Similar(c, p)}
  IN /\ pc[c] = "search"
     /\ IF hits = {} THEN UNCHANGED reply
        ELSE \E p \in hits :
               /\ \A other \in hits :
                    Score[op[c].text, other.id.text] <= Score[op[c].text, p.id.text]
               /\ reply' = [reply EXCEPT ![c] = p]
     /\ Goto(c, "idle")
     /\ UNCHANGED <<op, collections, points, failures>>

\* The same tenant, model and messages write the same point.
Upsert(c) ==
  /\ pc[c] = "upsert"
  /\ points' =
       {p \in points : p.collection # Mine(c) \/ p.id # PointId(op[c])}
         \union {[collection |-> Mine(c), id |-> PointId(op[c]), model |-> op[c].model,
                  answer |-> op[c].answer, cited |-> op[c].cited]}
  /\ Goto(c, "idle")
  /\ UNCHANGED <<op, reply, collections, failures>>

Step(c) == List(c) \/ Create(c) \/ CreateFails(c) \/ Search(c) \/ Upsert(c)

Next == \E c \in Caller : (\E o \in Get \union Set : Start(c, o)) \/ Step(c)

Spec == Init /\ [][Next]_vars

-----------------------------------------------------------------------------
(* Properties.                                                             *)

\* Tenants' names differ, and so do the collections they are given.
NamesApart == \A t \in Tenant, u \in Tenant : NameOf[t] = NameOf[u] => t = u

\* "A cached response can never cross tenants", and a cited one is never
\* served; what is served was asked closely enough.  (If names stay apart.)
ServesOwnUncited ==
  NamesApart =>
    \A c \in Caller :
      reply[c] # None =>
        /\ reply[c].id.tenant = op[c].tenant
        /\ ~reply[c].cited
        /\ Score[reply[c].id.text, op[c].text] >= Threshold

\* The race for a new collection costs at most the calls that were already
\* under way when it was created: with n callers, n - 1 calls ever fail on it.
RaceIsPaidOnce ==
  \A k \in Collection : failures[k] + 1 <= Cardinality(Caller)
=============================================================================
