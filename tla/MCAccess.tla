------------------------------- MODULE MCAccess -------------------------------
(* Every route of the gateways and the services, one request at a time and   *)
(* another client behind the same address; limits scaled by Unit.            *)
EXTENDS Access
=============================================================================
