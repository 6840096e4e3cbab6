------------------------- MODULE MCConnectorBroker -------------------------
(***************************************************************************)
(* Instance of ConnectorBroker: two calls that race for one proposal, over *)
(* two writes, a write whose destination is refused and a read.            *)
(***************************************************************************)
EXTENDS ConnectorBroker
=============================================================================
