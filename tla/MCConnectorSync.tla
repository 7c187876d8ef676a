-------------------------- MODULE MCConnectorSync --------------------------
(* Instances of ConnectorSync for TLC: the nodes are model values. *)
EXTENDS ConnectorSync
=============================================================================
