--------------------------- MODULE TransportConfig ---------------------------
(***************************************************************************)
(* The generated transport configuration messages (src/unnamed/part_000,  *)
(* package internet): the TransportProtocol, TCPFastOpenState and          *)
(* TProxyMode enums with their name and value maps and String methods,     *)
(* and the nil-safe getters of StreamConfig and SocketConfig.              *)
(*                                                                         *)
(* proto3 enums are open: a decoded message may carry any int32 in an enum *)
(* field, and String then falls back to the decimal number                 *)
(* (proto.EnumName).  The transport layer reads a StreamConfig, and the    *)
(* SocketConfig inside it, through getter chains such as                   *)
(* GetSocketSettings().GetTproxy(): every getter returns the zero value of *)
(* its field on a nil message, so the chain is safe at every level.  The   *)
(* state machine decodes a message (or none), resets it, and reads it.     *)
(***************************************************************************)
EXTENDS Integers, Sequences, TLC

CONSTANTS
  EnumWindow,  \* the int32 values a decoded enum field may hold here
  Marks,       \* SO_MARK values
  Ports,       \* bind ports
  TransportLists, \* the TransportSettings lists a decoded StreamConfig may hold
  SecurityTypes,  \* SecurityType strings
  ProxyTags,      \* ProxyConfig tags
  Nil

-----------------------------------------------------------------------------
(* Mutant forms.                                                           *)

\* A name map with a slip: MKCP registered under the name of UDP.
TransportProtocolNameSlip ==
  (0 :> "TCP") @@ (1 :> "UDP") @@ (2 :> "UDP") @@ (3 :> "WebSocket")
    @@ (4 :> "HTTP") @@ (5 :> "DomainSocket")

-----------------------------------------------------------------------------
TransportProtocolName ==
  (0 :> "TCP") @@ (1 :> "UDP") @@ (2 :> "MKCP") @@ (3 :> "WebSocket")
    @@ (4 :> "HTTP") @@ (5 :> "DomainSocket")

TransportProtocolValue ==
  ("TCP" :> 0) @@ ("UDP" :> 1) @@ ("MKCP" :> 2) @@ ("WebSocket" :> 3)
    @@ ("HTTP" :> 4) @@ ("DomainSocket" :> 5)

TCPFastOpenStateName == (0 :> "AsIs") @@ (1 :> "Enable") @@ (2 :> "Disable")
TCPFastOpenStateValue == ("AsIs" :> 0) @@ ("Enable" :> 1) @@ ("Disable" :> 2)

TProxyModeName == (0 :> "Off") @@ (1 :> "TProxy") @@ (2 :> "Redirect")
TProxyModeValue == ("Off" :> 0) @@ ("TProxy" :> 1) @@ ("Redirect" :> 2)

(* The String methods: proto.EnumName over the name map, falling back to  *)
(* strconv.Itoa of the number.                                             *)
EnumName(names, v) ==
  LET digit == <<"0", "1", "2", "3", "4", "5", "6", "7", "8", "9">>
      RECURSIVE Itoa(_)
      Itoa(n) == IF n < 0 THEN "-" \o Itoa(-n)
                 ELSE IF n < 10 THEN digit[n + 1]
                 ELSE Itoa(n \div 10) \o digit[(n % 10) + 1]
  IN IF v \in DOMAIN names THEN names[v] ELSE Itoa(v)

-----------------------------------------------------------------------------
(* A decoded SocketConfig; the byte field BindAddress is nil or not.       *)
SocketConfigs ==
  [mark : Marks, tfo : EnumWindow, tproxy : EnumWindow,
   receiveOriginalDestAddress : BOOLEAN, bindAddress : {Nil, "set"},
   bindPort : Ports, tos : Marks]

\* Mutant: GetTproxy on a nil message defaults to TProxy.
GetSocketConfigTProxyDefault(m) ==
  IF m # Nil THEN m
  ELSE [mark |-> 0, tfo |-> 0, tproxy |-> 1, receiveOriginalDestAddress |-> FALSE,
        bindAddress |-> Nil, bindPort |-> 0, tos |-> 0]

\* Mutant: Reset leaves BindAddress an empty, non-nil slice.
ResetSocketConfigEmptyBind ==
  [mark |-> 0, tfo |-> 0, tproxy |-> 0, receiveOriginalDestAddress |-> FALSE,
   bindAddress |-> "empty", bindPort |-> 0, tos |-> 0]

(* SocketConfig.Reset: the message with every field at its zero value.     *)
ResetSocketConfig ==
  [mark |-> 0, tfo |-> 0, tproxy |-> 0, receiveOriginalDestAddress |-> FALSE,
   bindAddress |-> Nil, bindPort |-> 0, tos |-> 0]

(* The getters GetMark ... GetTos: the field, or on a nil message Mark 0, *)
(* SocketConfig_AsIs, SocketConfig_Off, false, nil, 0 and 0.               *)
GetSocketConfig(m) ==
  IF m # Nil THEN m
  ELSE [mark |-> 0, tfo |-> 0, tproxy |-> 0, receiveOriginalDestAddress |-> FALSE,
        bindAddress |-> Nil, bindPort |-> 0, tos |-> 0]

(* A decoded TransportConfig: the deprecated protocol enum, its string    *)
(* form, and the transport's settings message, nil or not.                 *)
TransportConfigs ==
  [protocol : EnumWindow, protocolName : {"", "name"}, settings : {Nil, "set"}]

(* TransportConfig.Reset: every field at its zero value.                   *)
ResetTransportConfig == [protocol |-> 0, protocolName |-> "", settings |-> Nil]

(* The getters GetProtocol, GetProtocolName, GetSettings: the field, or on *)
(* a nil message TransportProtocol_TCP, "" and nil.                        *)
GetTransportConfig(m) ==
  IF m # Nil THEN m ELSE [protocol |-> 0, protocolName |-> "", settings |-> Nil]

(* A decoded StreamConfig: the deprecated protocol enum, its string form,  *)
(* the per-transport settings (a list whose entries may be nil), the       *)
(* security type, and the socket settings, nil or not.                     *)
StreamConfigs ==
  [protocol : EnumWindow, protocolName : {"", "name"},
   transportSettings : TransportLists, securityType : SecurityTypes,
   socketSettings : SocketConfigs \cup {Nil}]

(* StreamConfig.Reset: every field at its zero value.                      *)
ResetStreamConfig ==
  [protocol |-> 0, protocolName |-> "", transportSettings |-> <<>>,
   securityType |-> "", socketSettings |-> Nil]

(* The getters GetProtocol ... GetSocketSettings: the field, or on a nil   *)
(* message TransportProtocol_TCP, "", a nil list, "" and a nil SocketConfig.*)
GetStreamConfig(m) ==
  IF m # Nil THEN m
  ELSE [protocol |-> 0, protocolName |-> "", transportSettings |-> <<>>,
        securityType |-> "", socketSettings |-> Nil]

(* ProxyConfig.Reset and ProxyConfig.GetTag ("" on a nil message).         *)
ResetProxyConfig == [tag |-> ""]

GetProxyTag(m) == IF m # Nil THEN m.tag ELSE ""

VARIABLES
  msg,   \* the decoded StreamConfig, or Nil when the handler has none
  proxy, \* the decoded ProxyConfig, or Nil
  view   \* what the transport layer read through the getters

vars == <<msg, proxy, view>>

Init ==
  /\ msg \in StreamConfigs \cup {Nil}
  /\ proxy \in [tag : ProxyTags] \cup {Nil}
  /\ view = Nil

(* The transport layer reads the options through the getter chains, and   *)
(* names the enums through their String methods.                           *)
ReadOptions ==
  /\ view = Nil
  /\ LET st == GetStreamConfig(msg)
         s == GetSocketConfig(st.socketSettings)
         tc(i) == GetTransportConfig(st.transportSettings[i])
     IN view' = [protocol |-> EnumName(TransportProtocolName, st.protocol),
                 transport |-> [i \in DOMAIN st.transportSettings |->
                                  [tc(i) EXCEPT !.protocol =
                                     EnumName(TransportProtocolName, @)]],
                 security |-> st.securityType,
                 proxyTag |-> GetProxyTag(proxy),
                 options |-> s,
                 tfo |-> EnumName(TCPFastOpenStateName, s.tfo),
                 tproxy |-> EnumName(TProxyModeName, s.tproxy)]
  /\ UNCHANGED <<msg, proxy>>

(* StreamConfig.Reset on a decoded message.                                *)
ResetStream ==
  /\ msg # Nil
  /\ msg' = ResetStreamConfig
  /\ view' = Nil
  /\ UNCHANGED proxy

(* SocketConfig.Reset on the socket settings of a decoded message.         *)
ResetSocket ==
  /\ msg # Nil
  /\ msg.socketSettings # Nil
  /\ msg' = [msg EXCEPT !.socketSettings = ResetSocketConfig]
  /\ view' = Nil
  /\ UNCHANGED proxy

(* TransportConfig.Reset on a non-nil entry of the transport settings.     *)
ResetTransport(i) ==
  /\ msg # Nil
  /\ i \in DOMAIN msg.transportSettings
  /\ msg.transportSettings[i] # Nil
  /\ msg' = [msg EXCEPT !.transportSettings[i] = ResetTransportConfig]
  /\ view' = Nil
  /\ UNCHANGED proxy

(* ProxyConfig.Reset on a decoded ProxyConfig.                             *)
ResetProxy ==
  /\ proxy # Nil
  /\ proxy' = ResetProxyConfig
  /\ view' = Nil
  /\ UNCHANGED msg

Next ==
  \/ ReadOptions \/ ResetStream \/ ResetSocket \/ ResetProxy
  \/ \E i \in UNION {DOMAIN l : l \in TransportLists} : ResetTransport(i)

Spec == Init /\ [][Next]_vars

-----------------------------------------------------------------------------
TypeOK ==
  /\ msg \in {Nil} \cup [protocol : EnumWindow, protocolName : {"", "name"},
                        transportSettings : Seq(TransportConfigs \cup {Nil}),
                        securityType : SecurityTypes,
                        socketSettings : SocketConfigs \cup {Nil}]
  /\ proxy \in [tag : ProxyTags] \cup {Nil}
  /\ view \in {Nil} \cup [protocol : STRING, transport : Seq([protocol : STRING, protocolName : {"", "name"},
                                             settings : {Nil, "set"}]),
                         security : SecurityTypes, proxyTag : ProxyTags,
                         options : SocketConfigs, tfo : STRING, tproxy : STRING]

(* Once the socket layer has named the options it read, the names decode *)
(* back to exactly the values read: every enum's String method and value  *)
(* map are inverse on the known values, and String never gives two int32   *)
(* values of the window the same name, so an unknown value decoded from    *)
(* the wire is printed as its number and never taken for a known one.      *)
EnumNamesRoundTrip ==
  view # Nil =>
  /\ \A p \in {<<TCPFastOpenStateName, TCPFastOpenStateValue, "tfo">>,
              <<TProxyModeName, TProxyModeValue, "tproxy">>} :
       view[p[3]] \in DOMAIN p[2] => p[2][view[p[3]]] = view.options[p[3]]
  /\ view.protocol \in DOMAIN TransportProtocolValue =>
       TransportProtocolValue[view.protocol] = GetStreamConfig(msg).protocol
  /\ \A i \in DOMAIN view.transport :
       view.transport[i].protocol \in DOMAIN TransportProtocolValue =>
         TransportProtocolValue[view.transport[i].protocol] =
           GetTransportConfig(GetStreamConfig(msg).transportSettings[i]).protocol
  /\ \A p \in {<<TransportProtocolName, TransportProtocolValue>>,
              <<TCPFastOpenStateName, TCPFastOpenStateValue>>,
              <<TProxyModeName, TProxyModeValue>>} :
       \A v, w \in EnumWindow \cup DOMAIN p[1] :
         /\ (v \in DOMAIN p[1]) <=> (EnumName(p[1], v) \in DOMAIN p[2])
         /\ v \in DOMAIN p[1] => p[2][EnumName(p[1], v)] = v
         /\ EnumName(p[1], v) = EnumName(p[1], w) => v = w

(* A handler with no StreamConfig, a StreamConfig with no socket settings *)
(* and one whose socket settings were reset configure the socket the same *)
(* way, and a missing or reset StreamConfig reads as TCP with no          *)
(* transport settings and no security; a nil entry of TransportSettings    *)
(* reads as a reset TransportConfig (TCP, no settings), and a missing      *)
(* ProxyConfig as a reset one: the getters return the zero values at every *)
(* nil level.                                                              *)
NilReadsAsReset ==
  view # Nil =>
    /\ msg = Nil \/ msg.socketSettings \in {Nil, ResetSocketConfig} =>
         view.options = ResetSocketConfig
    /\ msg \in {Nil, ResetStreamConfig} =>
         /\ view.protocol = "TCP"
         /\ view.transport = <<>> /\ view.security = ""
    /\ \A i \in DOMAIN view.transport :
         msg.transportSettings[i] \in {Nil, ResetTransportConfig} =>
           view.transport[i] = [ResetTransportConfig EXCEPT !.protocol = "TCP"]
    /\ proxy \in {Nil, ResetProxyConfig} => view.proxyTag = ""

=============================================================================
