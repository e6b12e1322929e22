------------------------------ MODULE Failover ------------------------------
(***************************************************************************)
(* Routing with failover: ChatService._call_provider over the aliases of   *)
(* app/routing/aliases.py and one circuit breaker per key.  The breakers   *)
(* are atomic here (AtomicBreaker; CircuitBreaker shows the Redis          *)
(* transactions implement it), the steps of a request are not: between the *)
(* reads of choose, the allow and the outcome, other requests run.         *)
(*                                                                         *)
(* The service is taken as wired with a router and a breaker.              *)
(***************************************************************************)
EXTENDS BreakerRules

CONSTANTS
  Caller,      \* concurrent requests, on any replica
  Alias, Provider, Model,
  ProviderOf, Primary, Fallback,   \* the alias rows
  Host,        \* which provider's adapter the registry returns for a model
  Missing,     \* ... or none: its SDK or key is not there
  Healthy      \* providers whose calls never fail, to state isolation

\* Breakers are keyed by whatever string choose and allow are given.
Key == Provider \union Model

ASSUME RouteAssumption ==
  /\ ProviderOf \in [Alias -> Provider]
  /\ Primary \in [Alias -> Model]
  /\ Fallback \in [Alias -> Model]
  /\ Host \in [Model -> Provider \union {Missing}]
  /\ Provider \intersect Model = {}
  /\ Missing \notin Provider
  /\ Healthy \subseteq Provider
  /\ \A a \in Alias : Host[Primary[a]] \in {ProviderOf[a], Missing}

VARIABLES
  hash,        \* the breaker under each key
  pc,          \* where each request is
  alias,       \* its alias, once resolved
  key          \* the breaker key it was given by choose

vars == <<hash, pc, alias, key>>

Phase == {"idle", "primary", "fallback", "allow", "calling"}

\* Type correctness: a request always holds an alias and a breaker key.
TypeOK ==
  /\ hash \in [Key -> Hash]
  /\ pc \in [Caller -> Phase]
  /\ alias \in [Caller -> Alias]
  /\ key \in [Caller -> Key]

Init ==
  /\ hash = [k \in Key |-> Clean]
  /\ pc = [c \in Caller |-> "idle"]
  /\ alias \in [Caller -> Alias]
  /\ key = [c \in Caller |-> ProviderOf[alias[c]]]

\* Mutant: failing over keeps the primary model.
ModelOfPrimary(c) == Primary[alias[c]]

\* On failover, the fallback model is the one called.
ModelOf(c) ==
  IF key[c] # ProviderOf[alias[c]] THEN Fallback[alias[c]] ELSE Primary[alias[c]]

\* The provider that serves the call.
Vendor(c) == Host[ModelOf(c)]

Goto(c, phase) == pc' = [pc EXCEPT ![c] = phase]

-----------------------------------------------------------------------------

\* The router resolves the alias.
Start(c, a) ==
  /\ pc[c] = "idle"
  /\ alias' = [alias EXCEPT ![c] = a]
  /\ key' = [key EXCEPT ![c] = ProviderOf[a]]
  /\ Goto(c, "primary")
  /\ UNCHANGED hash

\* Mutant: choose looks at the stored state, not at the cooldown.
ChoosePrimaryIfClosed(c) ==
  /\ pc[c] = "primary"
  /\ Goto(c, IF hash[ProviderOf[alias[c]]].state = "open" THEN "fallback" ELSE "allow")
  /\ UNCHANGED <<hash, alias, key>>

\* choose: the primary unless its breaker is cooling.  Its single-candidate
\* case compares a provider with a fallback model, and so never applies.
ChoosePrimary(c) ==
  /\ pc[c] = "primary"
  /\ Goto(c, IF Cooling(hash[ProviderOf[alias[c]]]) THEN "fallback" ELSE "allow")
  /\ UNCHANGED <<hash, alias, key>>

\* choose: then the fallback model's key, or AllProvidersUnavailable.
ChooseFallback(c) ==
  /\ pc[c] = "fallback"
  /\ IF Cooling(hash[Fallback[alias[c]]])
       THEN Goto(c, "idle") /\ UNCHANGED key
       ELSE /\ Goto(c, "allow")
            /\ key' = [key EXCEPT ![c] = Fallback[alias[c]]]
  /\ UNCHANGED <<hash, alias>>

\* UnknownModelError: the registry has no adapter for the model.
Unknown(c) ==
  /\ pc[c] = "allow"
  /\ Vendor(c) = Missing
  /\ Goto(c, "idle")
  /\ UNCHANGED <<hash, alias, key>>

\* CircuitOpenError: the breaker tripped after choose read it.
Reject(c) ==
  /\ pc[c] = "allow"
  /\ Vendor(c) # Missing
  /\ Cooling(hash[key[c]])
  /\ Goto(c, "idle")
  /\ UNCHANGED <<hash, alias, key>>

Allow(c) ==
  /\ pc[c] = "allow"
  /\ Vendor(c) # Missing
  /\ ~Cooling(hash[key[c]])
  /\ hash' = [hash EXCEPT ![key[c]] = IF ProbeDue(@) THEN AfterProbe(@) ELSE @]
  /\ Goto(c, "calling")
  /\ UNCHANGED <<alias, key>>

Succeed(c) ==
  /\ pc[c] = "calling"
  /\ hash' = [hash EXCEPT ![key[c]] = Clean]
  /\ Goto(c, "idle")
  /\ UNCHANGED <<alias, key>>

\* Mutant: the failure goes to the alias's provider, whoever served.
FailOnProvider(c) ==
  /\ pc[c] = "calling"
  /\ Vendor(c) \notin Healthy
  /\ \E stamp \in 0..hash[ProviderOf[alias[c]]].age :
       hash' = [hash EXCEPT ![ProviderOf[alias[c]]] = AfterFailure(@, stamp)]
  /\ Goto(c, "idle")
  /\ UNCHANGED <<alias, key>>

Fail(c) ==
  /\ pc[c] = "calling"
  /\ Vendor(c) \notin Healthy
  /\ \E stamp \in 0..hash[key[c]].age :
       hash' = [hash EXCEPT ![key[c]] = AfterFailure(@, stamp)]
  /\ Goto(c, "idle")
  /\ UNCHANGED <<alias, key>>

\* The client goes away, or the replica dies.
Abandon(c) ==
  /\ pc[c] # "idle"
  /\ Goto(c, "idle")
  /\ UNCHANGED <<hash, alias, key>>

Tick ==
  /\ hash' = [k \in Key |-> Aged(hash[k])]
  /\ UNCHANGED <<pc, alias, key>>

\* A quiet breaker's key expires.
Forget(k) ==
  /\ ~Cooling(hash[k])
  /\ hash' = [hash EXCEPT ![k] = Clean]
  /\ UNCHANGED <<pc, alias, key>>

Serve(c) ==
  \/ ChoosePrimary(c) \/ ChooseFallback(c) \/ Unknown(c)
  \/ Reject(c) \/ Allow(c) \/ Succeed(c) \/ Fail(c)

Next ==
  \/ \E c \in Caller : (\E a \in Alias : Start(c, a)) \/ Serve(c) \/ Abandon(c)
  \/ \E k \in Key : Forget(k)
  \/ Tick

Spec == Init /\ [][Next]_vars

\* Time passes, and a request that has started is carried on: the provider
\* answers or its client times out.
FairSpec == Spec /\ WF_vars(Tick) /\ \A c \in Caller : WF_vars(Serve(c))

-----------------------------------------------------------------------------
(* Properties.                                                             *)

\* The provider a breaker key stands for.
VendorOf(k) == IF k \in Provider THEN k ELSE Host[k]

\* Isolation: a provider whose calls all succeed is never quarantined,
\* however the outcomes of other providers' calls and of failovers
\* interleave with its own.
HealthyStaysInService ==
  \A k \in Key : VendorOf(k) \in Healthy => hash[k].state = "closed"

\* Every key is a circuit breaker to the requests that hold it: an outcome is
\* recorded only by a request its own allow admitted.
Breaker(k) == INSTANCE AtomicBreaker
  WITH hash <- hash[k],
       busy <- {c \in Caller : pc[c] = "calling" /\ key[c] = k}

EachKeyIsABreaker ==
  [][\A k \in Key : [Breaker(k)!Next]_(Breaker(k)!vars)]_vars

\* Failing over is temporary: once calls stop failing, every alias is served
\* by its primary again ("Recovery is automatic ... no manual reset").
ReturnsToPrimary ==
  (<>[][\A c \in Caller : ~Fail(c)]_vars)
    => <>[](\A c \in Caller : pc[c] = "calling" => key[c] = ProviderOf[alias[c]])

\* choose, "never serve from a provider known to be unhealthy".
ServesFromHealthy ==
  [][\A c \in Caller :
       pc[c] = "allow" /\ pc'[c] = "calling" => ~Cooling(hash[Vendor(c)])]_vars

\* CircuitOpenError, "the service layer catches it to fail over to the
\* fallback provider": allow refuses a request only if its fallback could not
\* serve it either.  The code does not keep this: the error is propagated.
RefusedOnlyIfNoneServes ==
  [][\A c \in Caller : Reject(c) => Cooling(hash[Fallback[alias[c]]])]_vars
=============================================================================
