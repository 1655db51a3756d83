----------------------------- MODULE RouterSpec -----------------------------
(***************************************************************************)
(* What the Router promises (specification sections 4.2, 4.3 and 7), with *)
(* no rule construction, no balancer and no strategy in it.                *)
(*                                                                         *)
(* A configuration loads exactly when every rule has an effective          *)
(* condition, no effective field is malformed, and every balancing tag     *)
(* names a balancer; otherwise the load fails as a whole.  Each connection *)
(* is then decided in one atomic step against one snapshot of the outbound *)
(* registry: the first rule whose effective fields all accept the context *)
(* gives the target, the rule's tag, or any live outbound its balancer's   *)
(* selectors match; "no rule matched" and "no live candidates" are the     *)
(* only errors.  The outcome is fixed to a set at that step and one member *)
(* of it is delivered then or later.                                       *)
(***************************************************************************)
EXTENDS Naturals, Sequences, SequencesExt, RoutingRule

CONSTANTS
  Tags, BalancerTags, RuleTables, BalancingRules, Dynamic, InitialOutbounds,
  Contexts, Conns, ErrNoRule, ErrNoCandidate

VARIABLES
  config,    \* the rule table of the configuration
  status,    \* "pending", "running" or "failed"
  registry,  \* the live outbound tags
  route      \* per connection: idle, or the outcomes fixed for it and the one delivered

vars == <<config, status, registry, route>>

Unrouted == [routed |-> FALSE, ctx |-> Nil, allowed |-> {}, out |-> Nil]

(* A rule description is valid when it has an effective field, none of    *)
(* its effective fields is malformed, and its balancing tag is known.      *)
ValidRule(rr) ==
  /\ EffectiveFields(rr) # {}
  /\ EffectiveFields(rr) \cap rr.broken = {}
  /\ rr.balancingTag \in {""} \cup BalancerTags

(* The outcomes the specification allows for ctx against the registry.   *)
Outcomes(ctx, live) ==
  LET hits == {i \in DOMAIN config : SpecApplies(config[i], ctx)}
      rr == config[Min(hits)]
      matched == {t \in live : \E s \in BalancingRules[rr.balancingTag].selectors :
                                 IsPrefix(s, t)}
  IN IF hits = {} THEN {ErrNoRule}
     ELSE IF rr.balancingTag = "" THEN {rr.tag}
     ELSE IF matched = {} THEN {ErrNoCandidate}
     ELSE matched

Init ==
  /\ config \in RuleTables
  /\ status = "pending"
  /\ registry = InitialOutbounds
  /\ route = [c \in Conns |-> Unrouted]

Load ==
  /\ status = "pending"
  /\ status' = IF \A i \in DOMAIN config : ValidRule(config[i]) THEN "running" ELSE "failed"
  /\ UNCHANGED <<config, registry, route>>

(* The decision: the outcome set is fixed against the registry as it is   *)
(* now; the result may be delivered in the same step.                      *)
Route(c, ctx) ==
  /\ status = "running"
  /\ ~route[c].routed
  /\ LET allowed == Outcomes(ctx, registry)
     IN \E o \in allowed \cup {Nil} :
          route' = [route EXCEPT ![c] = [routed |-> TRUE, ctx |-> ctx,
                                         allowed |-> allowed, out |-> o]]
  /\ UNCHANGED <<config, status, registry>>

Deliver(c) ==
  /\ route[c].routed /\ route[c].out = Nil
  /\ \E o \in route[c].allowed : route' = [route EXCEPT ![c].out = o]
  /\ UNCHANGED <<config, status, registry>>

Done(c) ==
  /\ route[c].routed /\ route[c].out # Nil
  /\ route' = [route EXCEPT ![c] = Unrouted]
  /\ UNCHANGED <<config, status, registry>>

Change ==
  /\ \E t \in Dynamic : registry' = registry \cup {t} \/ registry' = registry \ {t}
  /\ UNCHANGED <<config, status, route>>

Next ==
  \/ Load
  \/ \E c \in Conns : Deliver(c) \/ Done(c) \/ \E ctx \in Contexts : Route(c, ctx)
  \/ Change

Spec == Init /\ [][Next]_vars

=============================================================================
