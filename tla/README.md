# TLA+ models of the v2ray-core router and transport configuration

This directory models, for the TLC model checker, the routing core of
v2ray-core and the generated transport configuration messages:
- rule construction (`src/app/router/config.go`);
- first-match routing through rules and balancers;
- the transport configuration messages (`src/unnamed/part_000`).

The Router and the Balancer's pick are not in this repository. The model needs them to drive the code that is here, so they are modelled from `spec.md`, and their definitions are marked `spec_modelled` in `PROJECT.json`. The LatencyStrategy is also absent from the repository. Nothing in this repository depends on its internals, so it is not modelled (see section 4).

## 1. Inventory

### The parts and how they interact

| Part | Source | State | Operations |
|---|---|---|---|
| CIDR list ordering | config.go:13-49 `CIDRList` | the flattened list a GeoIP/CIDR matcher is built from | `Len`, `Less`, `Swap` driven by `sort.Sort`, then de-duplication (spec) |
| Rule construction | config.go:68-151 `RoutingRule.BuildCondition`, 64-66 `Rule.Apply` | a rule description (one field per matcher) | build the AND chain of matchers; fail on a bad matcher; fail on an empty chain |
| Matchers | not in repository | — | a membership test of one context field |
| Router and Rule | config.go:51-62 `Rule`, `Rule.GetTag`; Router from spec §4.2 | loaded rules, balancers, live outbounds, connections in flight | load the configuration (all or nothing), `PickRoute` (first rule whose condition holds), `GetTag` |
| Balancer and BalancingRule.Build | config.go:153-178; Balancer from spec §4.3 | selectors, strategy | build; resolve the candidates from the outbound registry; let the strategy pick |
| RandomStrategy | spec §4.3 | none | pick any candidate |
| LatencyStrategy | not in repository (constructed at config.go:159) | — | not modelled |
| Transport config messages | part_000 | decoded `StreamConfig` (with its `TransportConfig` list and `SocketConfig`) and `ProxyConfig`, or nil | enum `String`, name/value maps, nil-safe getters, `Reset` |
| Outbound manager, dispatcher | not in repository | the live outbound tags | handlers added and removed at any time |

The interactions work like this:
- A configuration is loaded once. Every BalancingRule is built into a Balancer and every RoutingRule into a Rule.
- Connections are routed concurrently against the loaded rules.
- A rule with a balancing tag asks its Balancer. The Balancer reads the outbound registry, which changes under it, and hands the candidates to its strategy.

### The hard behaviours (the hazards of `PROJECT.json`)

These have a property:
- **Nil strategy.** `Build` can return a Balancer with a nil strategy and a nil error (config.go:155).
- **BuildCondition precedence.** PortList beats PortRange, Networks beats NetworkList, and Geoip beats Cidr (the same for the source pair). A malformed Cidr goes unnoticed when Geoip is set (config.go:87-125).
- **Empty chains.** A rule with no effective fields must be rejected. A present-but-empty PortList never matches.
- **CIDR order.** `CIDRList.Less` must be a strict total order, or de-duplication loses ranges.
- **GetTag prefers the balancer.** If a rule has both a balancer and a tag, GetTag uses the balancer. A balancer error does not fall back to the tag.
- **Open proto3 enums.** Unknown values are printed as numbers.
- **Nil messages.** Nil messages are read through getters.

These are listed without a property, because the code they depend on is not in this repository:
- **Stale candidates.** The registry can change between candidate resolution and the pick.
- **Latency parameters.** TotalMeasures, Interval, Delay, Timeout and Tolerance are passed to `NewLatencyStrategy` unvalidated.
- **Prober teardown.** `Build` gives `NewLatencyStrategy` no cancellation handle.

## 2. Modules

| Module | Models | State (VARIABLES) | Actions |
|---|---|---|---|
| `CIDRList` | `CIDRList.Less` as written, `sort.Sort` as insertion sort (what Go uses for lists of up to 12 entries), and the de-duplication of the sorted list | `input`, `result`, `built` | `BuildMatcher` |
| `RoutingRule` | `BuildCondition` and `Apply` as operators; the spec's rule semantics (`SpecApplies`) as the reference | — | — |
| `Routing` | the Router, Rules, Balancers, `BalancingRule.Build`, RandomStrategy; the outbound registry as environment | `config`, `status`, `rules`, `balancers`, `registry`, `conn` | `LoadConfig`, `PickRoute`, `SelectCandidates`, `StrategyPick`, `Finish`, `AddOutbound`, `RemoveOutbound` |
| `RouterSpec` | the abstract promise of the Router (spec §4.2, §4.3, §7): a table loads exactly when every rule is valid, and each connection is decided in one step, against one registry snapshot, by the first rule the spec's semantics accept | `config`, `status`, `registry`, `route` | `Load`, `Route`, `Deliver`, `Done`, `Change` |
| `TransportConfig` | enum maps and `String`; the getters of `TransportConfig`, `StreamConfig`, `SocketConfig` and `ProxyConfig` and their `Reset` methods | `msg` (a StreamConfig or nil, with its TransportSettings list and SocketConfig), `proxy` (a ProxyConfig or nil), `view` | `ReadOptions` (every getter chain, e.g. `GetSocketSettings().GetX()` and `GetTransportSettings()[i].GetProtocol()`), `ResetStream`, `ResetSocket`, `ResetTransport`, `ResetProxy` |

### How the modules correspond to the code

**Abstracting matchers.** A matcher is abstracted to the context field it reads and the set of values it accepts. `BuildCondition` keeps all of the code's control:
- the order of the `if` blocks (`BuildSteps`);
- which field of an else-if pair wins;
- the constructors that can fail (`FallibleFields`; a rule's `broken` set says which of its fields would make them fail);
- the empty-chain error.

**Splitting `Balancer.PickOutbound`.** `PickOutbound` is split into `SelectCandidates` and `StrategyPick`. The registry can change between the two, as it can in the code, where the strategy runs after the selectors are resolved.

**Refinement of the Router.** `Routing` instantiates `RouterSpec` through `RouteOf`, which maps each connection to the abstract `route`:
- a connection counts as routed once its outcome set is fixed;
- for a rule without a balancer, and for "no rule matched", that happens at `PickRoute`;
- for a balanced rule it happens at `SelectCandidates`, where the allowed set is the resolved candidates, or "no live candidate";
- `StrategyPick` is the abstract `Deliver`, and `Finish` is `Done`.

Placing the linearisation point at resolution avoids a prophecy variable for the later pick. The spec's validity of a rule (`ValidRule`, over the populated fields) is independent of `BuildCondition`, so the refinement compares the code's load result with the spec's for every table. That registry reads are atomic holds by construction: one step reads the registry.

## 3. Runs

| Run | Checks | Bounds |
|---|---|---|
| `cidr_order` (pass) | `SortedInSpecOrder`: the built list is strictly increasing in the spec's order. `NoDistinctEntryLost`: de-duplication keeps every distinct CIDR. | address lengths 1 and 2, bytes {0,1}, prefixes {0,1}, every list of up to 5 entries (542,906 states, about 7 s). An inserted entry can shift past up to four others, and duplicates can appear more than twice. Length 2 with two bytes reaches "equal length, first byte equal, second differs" and "equal address, different prefix". |
| `routing` (pass) | `RoutedByFirstApplicableRule`: the deciding rule is the first one the spec's semantics accept, and "no rule" occurs only when none does. `ImplementsRouter`: the router refines `RouterSpec`. | See the notes below the table (47,264 states, about 1 min 40 s). |
| `routing_nil_strategy` (violation) | `NoNilStrategy`: no connection reaches a balancer without a strategy. | the same, with the balancer's strategy kind outside Random/Latency. |
| `routing_empty_list` (violation) | `RoutedByFirstApplicableRule` on tables where a rule's PortList or NetworkList message is present but empty. | two 2-rule tables (9 steps to the counterexample). |
| `transport_config` (pass) | `EnumNamesRoundTrip`: the names read decode back to the values read, and each `String` is injective on the window and inverse to its value map. `NilReadsAsReset`: missing and reset messages read alike at every nesting level (see below). | See the notes below the table (264,102 states, about 17 s). |

The bounds of the `routing` run:
- 2 connections.
- 32 contexts, in which the domain, port, network, destination IP and source IP each take two values.
- 4 rule tables:
  - the first loads and has a malformed Cidr hidden by Geoip;
  - the second loads and sets both sides of the Networks/NetworkList, Geoip/Cidr and SourceGeoip/SourceCidr pairs;
  - the third fails on a rule with no field;
  - the fourth fails on a broken Geoip.
- The PortList/PortRange pair is set on both sides in the first table.
- A rule with both a tag and a balancer.
- One dynamic outbound.

The bounds of the `transport_config` run:
- The enum window {-1,0,1,2,3,6,10} covers negative, known, boundary and multi-digit unknown values.
- TransportSettings lists: empty, one nil entry, and one entry for an unknown protocol number with settings.
- Two security types and two proxy tags.
- Mark and TOS are fixed at 0, because the TProxy, TFO and bind fields already tell a reset SocketConfig from a set one.

`NilReadsAsReset` covers these cases:
- A missing StreamConfig, missing socket settings and reset ones configure the socket alike.
- A missing or reset StreamConfig reads as TCP with no transport settings and no security.
- A nil TransportSettings entry reads as a reset TransportConfig (TCP, no settings).
- A missing ProxyConfig has the empty tag.

`routing` and `transport_config` also check their module's `TypeOK`. It is broken by `GetTag` returning the balancing tag as an outbound, and by `Reset` leaving an empty, non-nil BindAddress. `CIDRList` defines a `TypeOK`, but its run does not check it, because no plausible slip in its code changes a type.

Every property of a passing run has a mutant in `PROJECT.json`: a plausible slip in the mapped definition that TLC shows violating it, with the run's cfg cut to that one property. The mutants are:
- `LessLongerFirst`: a Less that prefers longer addresses (`SortedInSpecOrder`);
- `LessIgnoringPrefix`: a Less that ignores the prefix (`NoDistinctEntryLost`);
- `BuildStepsCidrFirst`: the Geoip/Cidr pair tested the other way round (`RoutedByFirstApplicableRule`, on the second table that loads; under the first one the load fails);
- `LoadConfigSkippingFailedRules`: a load that skips a rule that fails to build and goes on (`ImplementsRouter`);
- `GetTagReturnsBalancerTag`: GetTag handing back the balancing tag (`TypeOK`);
- `TransportProtocolNameSlip`: an enum name slip (`EnumNamesRoundTrip`);
- `GetSocketConfigTProxyDefault`: a nil getter defaulting to TProxy (`NilReadsAsReset`);
- `ResetSocketConfigEmptyBind`: a Reset that leaves an empty BindAddress (`TypeOK`).

### Findings

`routing_nil_strategy` shows that `BalancingRule.Build` (config.go:153-178) returns a Balancer with a nil strategy and a nil error when `BalancingStrategy` is neither Random nor Latency, or when `NewLatencyStrategy` returns nil. The load succeeds, and the first connection routed to that balancer dereferences nil. The spec (§7) says configuration errors abort the load.

`routing_empty_list` shows that `BuildCondition` (config.go:87-90) tests PortList for nil, not for emptiness:
- In the trace, a rule with a present but empty PortList beside PortRange {b} loads.
- It gets a port matcher with no range.
- A connection on port b passes it by for the next rule.

The spec's "populated fields" reading would route that connection by the range. NetworkList is tested the same way (config.go:93).

### Deadlock and fairness

All runs set `CHECK_DEADLOCK FALSE`:
- `CIDRList` and `TransportConfig` are single computations that stop.
- `Routing` stops when a load fails, which is what the process does. `ImplementsRouter` is checked only in `routing`: under the nil-strategy and empty-list tables the code is known not to refine the spec (the two findings).

No run checks a liveness property, so no fairness is assumed. Once a connection's goroutine starts routing, it runs `GetTag` to its end. Whether that end is reached depends on `Balancer.PickOutbound` and the strategies, which are not in this repository.

## 4. Not modelled

- **Matchers and their data structures.** Domain tries, GeoIP files and attribute scripts are not in this repository. The spec leaves their lookup structure open ("binary trie or sorted-array binary search"). A model of one would check a design of the model's own, not this program.
- **The LatencyStrategy.** `NewLatencyStrategy`, its prober, its windows and its ranking are not in this repository. Only the call at config.go:159-171 and its nil result are, and `Routing.Build` models both. A model written from the spec alone makes its properties follow from its own definitions, so it is not kept. The same holds for reload and teardown of a Balancer, and for the pick of a Balancer's strategy over stale candidates.
- **Durations.** The parameters converted at config.go:160-167 are only handed on, so there is no arithmetic in this code to model.
- **Generated plumbing.** The `XXX_Unmarshal`, `XXX_Marshal`, `XXX_Merge`, `XXX_Size` and `XXX_DiscardUnknown` methods are one-line calls into the protobuf runtime, which is not in this repository. Decoding is modelled as `Init` choosing any message. `Descriptor`, `ProtoMessage`, `String` (text formatting) and the `init` registration change no message state.
