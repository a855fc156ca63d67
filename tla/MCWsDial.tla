------------------------------ MODULE MCWsDial ------------------------------
(* Lines of two symbols are too long, and so are five header lines that are *)
(* not blank: a reply with the four headers and the blank line just fits.   *)
(* Bytes end at 2: a host name of 3 is too long and a port of 9 too large.  *)
EXTENDS WsDial
=============================================================================
