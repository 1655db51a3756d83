---------------------------- MODULE RoutingRule ----------------------------
(***************************************************************************)
(* Rule descriptions and their conditions (app/router/config.go,          *)
(* RoutingRule.BuildCondition, Rule.Apply).                                *)
(*                                                                         *)
(* A RoutingRule description carries one field per matcher.  A matcher is  *)
(* abstracted to the Context field it reads and the set of values it       *)
(* accepts: suffix, regex, CIDR or port-range tests are membership tests   *)
(* over a small set of values here, and their own modules model them.      *)
(* What is kept is the control of BuildCondition: which fields it reads,   *)
(* in which order, which field of a pair wins, which constructors can      *)
(* fail, and the rejection of a rule that has no effective field.          *)
(***************************************************************************)
EXTENDS Naturals, Sequences, SequencesExt

CONSTANTS
  Values,  \* the values a Context field can take
  Nil      \* an absent (nil) message field

\* Repeated fields: absent when empty.
ListFields == {"Domain", "UserEmail", "InboundTag", "Networks", "Geoip", "Cidr",
               "SourceGeoip", "SourceCidr", "CustomGeoip", "Protocol",
               "Attributes", "Application"}

\* Message fields: absent when nil, present even when empty.
PointerFields == {"PortList", "PortRange", "NetworkList"}

RuleFields == ListFields \cup PointerFields

\* Fields whose matcher constructor returns an error on bad input
\* (bad regex, unknown GeoIP list, bad CIDR, bad attribute script).
FallibleFields == {"Domain", "Geoip", "Cidr", "SourceGeoip", "SourceCidr", "Attributes"}

\* The Context field each matcher reads.
Reads == [Domain |-> "domain", UserEmail |-> "user", InboundTag |-> "inboundTag",
          PortList |-> "port", PortRange |-> "port",
          Networks |-> "network", NetworkList |-> "network",
          Geoip |-> "targetIP", Cidr |-> "targetIP",
          SourceGeoip |-> "sourceIP", SourceCidr |-> "sourceIP",
          CustomGeoip |-> "targetIP", Protocol |-> "protocol",
          Attributes |-> "attributes", Application |-> "application"]

ContextFields == {Reads[f] : f \in RuleFields}

Context == [ContextFields -> Values]

(* A rule description: the value of every field, the fields whose         *)
(* constructor would fail on it, the outbound tag and the balancing tag.   *)
RuleDesc(Tags, BalancerTags) ==
  [field : [RuleFields -> (SUBSET Values) \cup {Nil}],
   broken : SUBSET FallibleFields,
   tag : Tags, balancingTag : BalancerTags \cup {""}]

Populated(rr, f) ==
  IF f \in PointerFields THEN rr.field[f] # Nil ELSE rr.field[f] # {}

-----------------------------------------------------------------------------
(* Mutant forms.                                                           *)

\* The GeoIP pair tested the other way round: raw CIDRs win over GeoIP.
BuildStepsCidrFirst ==
  << <<"Domain">>, <<"UserEmail">>, <<"InboundTag">>, <<"PortList", "PortRange">>,
     <<"Networks", "NetworkList">>, <<"Cidr", "Geoip">>,
     <<"SourceGeoip", "SourceCidr">>, <<"CustomGeoip">>, <<"Protocol">>,
     <<"Attributes">>, <<"Application">> >>

-----------------------------------------------------------------------------
(* The if / else-if blocks of BuildCondition, in order: in a pair the     *)
(* first populated field is used and the second is ignored.               *)
BuildSteps ==
  << <<"Domain">>, <<"UserEmail">>, <<"InboundTag">>, <<"PortList", "PortRange">>,
     <<"Networks", "NetworkList">>, <<"Geoip", "Cidr">>,
     <<"SourceGeoip", "SourceCidr">>, <<"CustomGeoip">>, <<"Protocol">>,
     <<"Attributes">>, <<"Application">> >>

(* The fields that get a matcher, in the order they are added.            *)
ChosenFields(rr) ==
  LET chosen(step) == SelectSeq(step, LAMBDA f : Populated(rr, f))
  IN FoldLeft(LAMBDA acc, step : IF chosen(step) = <<>> THEN acc
                                 ELSE Append(acc, Head(chosen(step))),
              <<>>, BuildSteps)

(* RoutingRule.BuildCondition: a matcher per chosen field appended to the *)
(* condition chain; a failing constructor aborts the build; an empty      *)
(* chain is "this rule has no effective fields".                          *)
BuildCondition(rr) ==
  LET fs == ChosenFields(rr)
  IN IF \E i \in DOMAIN fs : fs[i] \in rr.broken
     THEN [ok |-> FALSE, cond |-> <<>>]
     ELSE IF fs = <<>>
     THEN [ok |-> FALSE, cond |-> <<>>]
     ELSE [ok |-> TRUE,
           cond |-> [i \in DOMAIN fs |-> [reads |-> Reads[fs[i]],
                                          accept |-> rr.field[fs[i]]]]]

(* Rule.Apply: the condition chain holds when every matcher accepts.      *)
Apply(cond, ctx) ==
  \A i \in DOMAIN cond : ctx[cond[i].reads] \in cond[i].accept

-----------------------------------------------------------------------------
(* The meaning of a rule description as the specification states it: the *)
(* effective fields are the populated ones (a field holding at least one  *)
(* value), an explicit port list overriding a single range, the network   *)
(* list the deprecated network message, named GeoIP lists the raw CIDRs;  *)
(* a rule with no effective field never applies (it is a configuration    *)
(* error).                                                                 *)
SpecPopulated(rr, f) == rr.field[f] \notin {Nil, {}}

Overrides == {<<"PortList", "PortRange">>, <<"Networks", "NetworkList">>,
              <<"Geoip", "Cidr">>, <<"SourceGeoip", "SourceCidr">>}

EffectiveFields(rr) ==
  {f \in RuleFields : SpecPopulated(rr, f) /\
                     ~\E o \in Overrides : o[2] = f /\ SpecPopulated(rr, o[1])}

SpecApplies(rr, ctx) ==
  /\ EffectiveFields(rr) # {}
  /\ \A f \in EffectiveFields(rr) : ctx[Reads[f]] \in rr.field[f]

=============================================================================
