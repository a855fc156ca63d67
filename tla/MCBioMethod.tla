---------------------------- MODULE MCBioMethod -----------------------------
(* Three threads, all alike.                                                *)
EXTENDS BioMethod

CONSTANTS t1, t2, t3

MCThreads == {t1, t2, t3}

=============================================================================
