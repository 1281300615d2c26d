--------------------------- MODULE MCGatewayClient ---------------------------
(* GatewayClient for TLC. *)
EXTENDS GatewayClient

\* As many ids as there can be requests in flight.
Ids == 1 .. MaxInFlight

=============================================================================
