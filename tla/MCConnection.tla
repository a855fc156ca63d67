---------------------------- MODULE MCConnection ----------------------------
(* Two descriptor numbers: one may be leaked, dangling or the application's *)
(* while the client goes on with the other.                                 *)
EXTENDS Connection

MCFds == 0..1

=============================================================================
