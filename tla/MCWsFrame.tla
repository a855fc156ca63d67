----------------------------- MODULE MCWsFrame ------------------------------
(* Quaternary digits: up to 1 inline, up to 15 in two digits, more in eight; *)
(* the lengths tried are those on both sides of each boundary and of Total.  *)
EXTENDS WsFrame

MCLengths == {0, 1, 2, 3, 5, 15, 16, 17}
\* Every mask with one bit set tells which of its bytes is used where.
MCMasks == {[k \in 1..4 |-> IF k = j THEN 1 ELSE 0] : j \in 1..4}

=============================================================================
