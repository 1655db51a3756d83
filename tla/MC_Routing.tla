----------------------------- MODULE MC_Routing -----------------------------
(* Routers of four rules and one balancer over the outbounds "o*".        *)
EXTENDS Routing, TLC

D == <<"d">>
P == <<"p">>
OA == <<"o", "a">>
OB == <<"o", "b">>

MCTags == {D, P, OA, OB}
MCDynamic == {OA, OB}
MCInitialOutbounds == {D, P, OA}

\* A rule description with the given fields set and every other one absent.
Desc(fields, broken, tag, btag) ==
  [field |-> [f \in RuleFields |->
                IF f \in DOMAIN fields THEN fields[f]
                ELSE IF f \in PointerFields THEN Nil ELSE {}],
   broken |-> broken, tag |-> tag, balancingTag |-> btag]

R1 == Desc("Networks" :> {"b"}, {}, D, "")
R2 == Desc(("PortList" :> {"a"}) @@ ("PortRange" :> {"b"}) @@ ("Domain" :> {"a"}),
           {}, P, "b1")
R3 == Desc(("Geoip" :> {"a"}) @@ ("Cidr" :> {"b"}), {"Cidr"}, P, "")
R3Broken == Desc(("Geoip" :> {"a"}) @@ ("Cidr" :> {"b"}), {"Geoip"}, P, "")
R4 == Desc("Domain" :> {"b"}, {}, <<>>, "b1")
REmpty == Desc(<<>>, {}, D, "")

\* Rules that set both fields of an else-if pair, all well formed: the
\* network message list beside the networks, raw CIDRs beside a GeoIP list,
\* and the same for the source address.
RNet == Desc(("Networks" :> {"b"}) @@ ("NetworkList" :> {"a"}), {}, D, "")
RGeo == Desc(("Geoip" :> {"a"}) @@ ("Cidr" :> {"b"}), {}, P, "")
RSrc == Desc(("SourceGeoip" :> {"a"}) @@ ("SourceCidr" :> {"b"}), {}, D, "")

\* Two tables that load (the first with a malformed Cidr that Geoip hides,
\* the second with every other else-if pair set on both sides), one with a
\* rule of no field, one with a bad GeoIP.
MCRuleTables == {<<R1, R2, R3, R4>>, <<RNet, RGeo, RSrc, R4>>,
                 <<R1, REmpty, R3, R4>>, <<R1, R2, R3Broken, R4>>}

\* A port list message that is present but holds no range, beside a range;
\* a network list message present but empty.
R2EmptyList == Desc(("PortList" :> {}) @@ ("PortRange" :> {"b"}), {}, P, "")
REmptyList == Desc("NetworkList" :> {}, {}, D, "")

\* Tables in which a present-but-empty list message is the only port or
\* network field of a rule.
MCRuleTablesEmptyList == {<<R2EmptyList, R1>>, <<REmptyList, R1>>}

MCBalancingRules == "b1" :> [selectors |-> {<<"o">>}, strategy |-> "Random",
                             latencyBuilds |-> TRUE]

\* A balancer whose strategy kind is another value of the enum.
MCBalancingRulesOther == "b1" :> [selectors |-> {<<"o">>}, strategy |-> "Other",
                                  latencyBuilds |-> TRUE]

\* Contexts that differ in the fields the rules read.
MCContexts == {ctx \in Context :
                 \A f \in ContextFields \ {"domain", "port", "network", "targetIP", "sourceIP"} :
                   ctx[f] = "a"}
=============================================================================
