CONSTANTS
  EnumWindow <- MCEnumWindow
  Marks = {0}
  TransportLists <- MCTransportLists
  SecurityTypes = {"", "tls"}
  ProxyTags = {"", "out"}
  Ports = {0, 443}
  Nil = Nil
SPECIFICATION Spec
INVARIANTS
  TypeOK
  EnumNamesRoundTrip
  NilReadsAsReset
CHECK_DEADLOCK FALSE
