------------------------- MODULE MC_TransportConfig -------------------------
(* Enum fields decoded as known values, a negative value and values past   *)
(* the last name.                                                          *)
EXTENDS TransportConfig

MCEnumWindow == {-1, 0, 1, 2, 3, 6, 10}

(* No transport settings, a nil entry, and an entry for an unknown         *)
(* protocol number with settings.                                          *)
MCTransportLists ==
  {<<>>, <<Nil>>, <<[protocol |-> 6, protocolName |-> "name", settings |-> "set"]>>}
=============================================================================
