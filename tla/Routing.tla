------------------------------ MODULE Routing ------------------------------
(***************************************************************************)
(* The Router with its Rules and Balancers (app/router/config.go: Rule,   *)
(* Rule.GetTag, BalancingRule.Build; the Router and Balancer operations    *)
(* the specification describes).                                           *)
(*                                                                         *)
(* A configuration is loaded once: every BalancingRule is built into a     *)
(* Balancer and every RoutingRule into a Rule.  Connections are then       *)
(* routed concurrently: the first Rule whose condition holds gives the     *)
(* outbound tag, through its Balancer when it has one.  A Balancer         *)
(* resolves its selectors against the live outbound registry and hands    *)
(* the candidates to its strategy.  The registry changes at any time       *)
(* (outbound handlers are added and removed at run time), so it can change *)
(* between the resolution of the candidates and the strategy's pick.       *)
(***************************************************************************)
EXTENDS Naturals, Sequences, SequencesExt, RoutingRule

CONSTANTS
  Tags,            \* outbound tags (sequences of characters)
  BalancerTags,    \* balancer tags
  RuleTables,      \* rule tables a configuration may hold
  BalancingRules,  \* balancer tag -> BalancingRule
  Dynamic,         \* outbound tags whose handlers come and go
  InitialOutbounds,\* outbound tags registered at start
  Contexts,        \* connection contexts
  Conns,           \* concurrent connections
  ErrNoRule,       \* PickRoute: no rule matched
  ErrNoCandidate,  \* PickOutbound: no live candidate
  Crash            \* a nil strategy dereferenced

\* BalancingRule.BalancingStrategy: Random, Latency, or another value of
\* the open proto3 enum.
StrategyKinds == {"Random", "Latency", "Other"}

\* A BalancingRule: its selectors, its strategy kind, and whether
\* NewLatencyStrategy returns a strategy for its parameters.
BalancingRule == [selectors : SUBSET Seq(STRING), strategy : StrategyKinds,
                  latencyBuilds : BOOLEAN]

ASSUME BalancingRules \in [BalancerTags -> BalancingRule]
ASSUME Dynamic \subseteq Tags /\ InitialOutbounds \subseteq Tags
ASSUME Contexts \subseteq Context

Outcomes == Tags \cup {ErrNoRule, ErrNoCandidate, Crash}

VARIABLES
  config,     \* the rule table of the loaded configuration
  status,     \* "pending", "running" or "failed"
  rules,      \* the Rules built from the table
  balancers,  \* the Balancers built from the BalancingRules
  registry,   \* the live outbound tags (the outbound manager)
  conn        \* per connection: where it is in PickRoute, and its result

vars == <<config, status, rules, balancers, registry, conn>>

Idle == [pc |-> "idle", ctx |-> Nil, rule |-> 0, cands |-> {}, out |-> Nil]

-----------------------------------------------------------------------------
(* Mutant forms.                                                           *)

\* Rule.GetTag handing back the balancing tag as if it were an outbound tag.
GetTagReturnsBalancerTag(r) ==
  IF r.balancer # "" THEN [pc |-> "done", out |-> r.balancer]
  ELSE [pc |-> "done", out |-> r.tag]

-----------------------------------------------------------------------------
(* BalancingRule.Build: Random, or Latency when NewLatencyStrategy gives a *)
(* strategy; any other case leaves the strategy nil, and no error is       *)
(* returned.                                                               *)
Build(br) ==
  [selectors |-> br.selectors,
   strategy |-> IF br.strategy = "Random" THEN "Random"
                ELSE IF br.strategy = "Latency" /\ br.latencyBuilds THEN "Latency"
                ELSE Nil]

(* Rule.GetTag: through the Balancer when there is one, else the tag.     *)
GetTag(r) ==
  IF r.balancer # "" THEN [pc |-> "balance", out |-> Nil]
  ELSE [pc |-> "done", out |-> r.tag]

(* The outbounds a Balancer's selectors pick out of the registry: every   *)
(* live tag that has a selector as a prefix.                               *)
SelectOutbounds(b, live) ==
  {t \in live : \E s \in balancers[b].selectors : IsPrefix(s, t)}

-----------------------------------------------------------------------------
Init ==
  /\ config \in RuleTables
  /\ status = "pending"
  /\ rules = <<>>
  /\ balancers = [b \in {} |-> Nil]
  /\ registry = InitialOutbounds
  /\ conn = [c \in Conns |-> Idle]

\* Mutant: a rule that fails to build is skipped (it never applies) and
\* the load goes on.
LoadConfigSkippingFailedRules ==
  /\ status = "pending"
  /\ LET built == [i \in DOMAIN config |-> BuildCondition(config[i])]
     IN /\ status' = "running"
        /\ rules' = [i \in DOMAIN config |->
                       [cond |-> IF built[i].ok THEN built[i].cond
                                 ELSE <<[reads |-> "domain", accept |-> {}]>>,
                        tag |-> config[i].tag, balancer |-> config[i].balancingTag]]
        /\ balancers' = [b \in BalancerTags |-> Build(BalancingRules[b])]
  /\ UNCHANGED <<config, registry, conn>>

(* Loading the router: build every balancer, then every rule in order;    *)
(* one failing rule, or a balancing tag with no balancer, fails the load. *)
LoadConfig ==
  /\ status = "pending"
  /\ LET built == [i \in DOMAIN config |-> BuildCondition(config[i])]
         ruleOK(i) == /\ built[i].ok
                      /\ config[i].balancingTag \in {""} \cup BalancerTags
     IN IF \A i \in DOMAIN config : ruleOK(i)
        THEN /\ status' = "running"
             /\ rules' = [i \in DOMAIN config |->
                            [cond |-> built[i].cond, tag |-> config[i].tag,
                             balancer |-> config[i].balancingTag]]
             /\ balancers' = [b \in BalancerTags |-> Build(BalancingRules[b])]
        ELSE /\ status' = "failed"
             /\ UNCHANGED <<rules, balancers>>
  /\ UNCHANGED <<config, registry, conn>>

(* Router.PickRoute: the first rule whose condition holds decides; no     *)
(* matching rule is an error.                                              *)
PickRoute(c, ctx) ==
  /\ status = "running"
  /\ conn[c].pc = "idle"
  /\ LET hits == {i \in DOMAIN rules : Apply(rules[i].cond, ctx)}
     IN conn' = [conn EXCEPT ![c] =
          IF hits = {}
          THEN [Idle EXCEPT !.pc = "done", !.ctx = ctx, !.out = ErrNoRule]
          ELSE LET i == Min(hits)
                   t == GetTag(rules[i])
               IN [Idle EXCEPT !.pc = t.pc, !.ctx = ctx, !.rule = i, !.out = t.out]]
  /\ UNCHANGED <<config, status, rules, balancers, registry>>

(* Balancer.PickOutbound, first half: resolve the candidates.             *)
SelectCandidates(c) ==
  /\ conn[c].pc = "balance"
  /\ LET cands == SelectOutbounds(rules[conn[c].rule].balancer, registry)
     IN conn' = [conn EXCEPT ![c] =
          IF cands = {} THEN [@ EXCEPT !.pc = "done", !.out = ErrNoCandidate]
          ELSE [@ EXCEPT !.pc = "pick", !.cands = cands]]
  /\ UNCHANGED <<config, status, rules, balancers, registry>>

(* Balancer.PickOutbound, second half: the strategy picks one of the      *)
(* resolved candidates (RandomStrategy: any of them).  A nil strategy is   *)
(* dereferenced.                                                           *)
StrategyPick(c) ==
  /\ conn[c].pc = "pick"
  /\ LET strategy == balancers[rules[conn[c].rule].balancer].strategy
     IN \E t \in conn[c].cands :
          conn' = [conn EXCEPT ![c].pc = "done",
                               ![c].out = IF strategy = Nil THEN Crash ELSE t]
  /\ UNCHANGED <<config, status, rules, balancers, registry>>

(* The dispatcher is done with the connection; a new one may start.       *)
Finish(c) ==
  /\ conn[c].pc = "done"
  /\ conn' = [conn EXCEPT ![c] = Idle]
  /\ UNCHANGED <<config, status, rules, balancers, registry>>

(* The outbound manager adds or removes a handler.                         *)
AddOutbound(t) ==
  /\ t \notin registry
  /\ registry' = registry \cup {t}
  /\ UNCHANGED <<config, status, rules, balancers, conn>>

RemoveOutbound(t) ==
  /\ t \in registry
  /\ registry' = registry \ {t}
  /\ UNCHANGED <<config, status, rules, balancers, conn>>

Next ==
  \/ LoadConfig
  \/ \E c \in Conns, ctx \in Contexts : PickRoute(c, ctx)
  \/ \E c \in Conns : SelectCandidates(c) \/ StrategyPick(c) \/ Finish(c)
  \/ \E t \in Dynamic : AddOutbound(t) \/ RemoveOutbound(t)

Spec == Init /\ [][Next]_vars

-----------------------------------------------------------------------------
TypeOK ==
  /\ status \in {"pending", "running", "failed"}
  /\ registry \subseteq Tags
  /\ conn \in [Conns -> [pc : {"idle", "balance", "pick", "done"},
                         ctx : Contexts \cup {Nil}, rule : Nat,
                         cands : SUBSET Tags, out : Outcomes \cup {Nil}]]

\* The rule of the table that the specification says decides a context.
FirstApplicable(ctx) ==
  LET hits == {i \in DOMAIN config : SpecApplies(config[i], ctx)}
  IN IF hits = {} THEN 0 ELSE Min(hits)

(* A routed connection is decided by the first rule of the configuration  *)
(* whose populated fields all accept its context, with the precedence the  *)
(* specification gives (port list over range, named GeoIP over CIDR...),  *)
(* and "no rule matched" only when no rule accepts it: BuildCondition and  *)
(* the first-match scan of PickRoute agree with the rule descriptions.     *)
RoutedByFirstApplicableRule ==
  \A c \in Conns : conn[c].pc # "idle" =>
    /\ conn[c].rule = FirstApplicable(conn[c].ctx)
    /\ conn[c].out = ErrNoRule <=> conn[c].rule = 0

(* The specification: the only errors a request meets are "no rule       *)
(* matched" and "no live candidates"; configuration errors abort the       *)
(* load.  A connection never reaches a balancer without a strategy.        *)
NoNilStrategy ==
  \A c \in Conns : conn[c].out # Crash

-----------------------------------------------------------------------------
(* The refinement mapping to RouterSpec.  A connection counts as routed   *)
(* in the abstract Router from the step at which the code has made its    *)
(* outcome set fixed: at PickRoute for a rule without a balancer and    *)
(* for "no rule matched", at SelectCandidates for a balanced rule (the    *)
(* resolved candidates, or "no live candidates"); StrategyPick delivers.  *)
RouteOf(c) ==
  LET x == conn[c] IN
  IF x.pc \in {"idle", "balance"}
  THEN [routed |-> FALSE, ctx |-> Nil, allowed |-> {}, out |-> Nil]
  ELSE [routed |-> TRUE, ctx |-> x.ctx,
        allowed |-> IF x.cands # {} THEN x.cands ELSE {x.out},
        out |-> x.out]

Router == INSTANCE RouterSpec WITH route <- [c \in Conns |-> RouteOf(c)]

(* The router implements the specification's Router: a configuration     *)
(* loads exactly when every rule is valid, and every connection is decided *)
(* as if atomically, against one snapshot of the registry, by the first    *)
(* applicable rule, with only the two request-time errors.                 *)
ImplementsRouter == Router!Spec

=============================================================================
