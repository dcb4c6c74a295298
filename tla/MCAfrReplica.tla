--------------------------- MODULE MCAfrReplica ---------------------------
(* Constants of the AfrReplica runs.                                       *)
EXTENDS AfrReplica
CONSTANTS c1, c2, w1
OneWriter == [w \in Write |-> c1]
TwoWriters == [w \in Write |-> IF w = w1 THEN c1 ELSE c2]
=============================================================================
