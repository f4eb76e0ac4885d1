------------------------- MODULE MCGatewayCaptures -------------------------
(* Instances of GatewayCaptures: two receivers and a fixture that names     *)
(* their devices in the other order; one receiver with a caster; one NMEA   *)
(* receiver and nothing else.                                               *)
EXTENDS GatewayCaptures

MCConfigurations ==
  { [protocol |-> "ns_raw_pair", ntrip |-> FALSE, fixture |-> <<"base", "rover">>],
    [protocol |-> "ns_raw", ntrip |-> TRUE, fixture |-> <<>>],
    [protocol |-> "nmea", ntrip |-> FALSE, fixture |-> <<"rover">>] }
=============================================================================
