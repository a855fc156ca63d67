----------------------------- MODULE MCNdt7Run ------------------------------
(* Instances of Ndt7Run; every constant is a number given in the .cfg.      *)
EXTENDS Ndt7Run

=============================================================================
