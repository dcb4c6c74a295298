----------------------------- MODULE MCAfrLock -----------------------------
(* Small instances of AfrLock for TLC.                                     *)
EXTENDS AfrLock
============================================================================
