--------------------------- MODULE MCConnectorSync ---------------------------
(* Two pages, mapped from the start to the end, and a push about both. *)
EXTENDS ConnectorSync, TLC

CONSTANTS p, q, e

Push == (e :> {p, q})
Both == {{p, q}}
=============================================================================
