------------------------------ MODULE MCWsRecv ------------------------------
(* Instances of WsRecv; every constant is a number given in the .cfg.       *)
EXTENDS WsRecv

=============================================================================
