------------------------------ MODULE MCMgmtV3 ------------------------------
(* A small cluster for TLC.                                                *)
EXTENDS MgmtV3

MCorigin == [t \in Txn |-> IF t = "t2" THEN "b" ELSE "a"]
MCflow == [t \in Txn |-> IF t = "t2" THEN "all" ELSE "snap"]
MCkeys == [t \in Txn |-> IF t = "t2" THEN {"v"} ELSE {"v", "s"}]
============================================================================
