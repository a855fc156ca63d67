------------------------------ MODULE MCNetIo -------------------------------
(* Instances of NetIo; every constant is a number given in the .cfg.        *)
EXTENDS NetIo

=============================================================================
