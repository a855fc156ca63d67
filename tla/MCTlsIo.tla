------------------------------- MODULE MCTlsIo ------------------------------
(* Two records in a row fill the send buffer in between two reads.          *)
EXTENDS TlsIo
=============================================================================
