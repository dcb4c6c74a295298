---------------------------- MODULE MCClientFds ----------------------------
(* Small instances of ClientFds for TLC.                                   *)
EXTENDS ClientFds
============================================================================
