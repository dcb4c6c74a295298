----------------------------- MODULE MCInodelk -----------------------------
(* Small instances of Inodelk for TLC.                                     *)
EXTENDS Inodelk, TLC

F(c, o, d, type, start, end, block) ==
  [client |-> c, owner |-> o, volume |-> d, fl_type |-> type,
   fl_start |-> start, fl_end |-> end, can_block |-> block]

(* A whole-file lock, one nested in it, and of another client a shared     *)
(* lock, an exclusive one and a non-blocking one.                          *)
MCattr ==
  [l \in Lock |->
     CASE l = "whole"  -> F("c1", "o1", "d", "F_WRLCK", 0, 2, TRUE)
       [] l = "nested" -> F("c1", "o1", "d", "F_WRLCK", 0, 0, TRUE)
       [] l = "shared" -> F("c2", "o1", "d", "F_RDLCK", 0, 1, TRUE)
       [] l = "tail"   -> F("c2", "o2", "d", "F_WRLCK", 1, 2, TRUE)
       [] l = "try"    -> F("c2", "o2", "d", "F_RDLCK", 0, 0, FALSE)]
(* Threads are interchangeable.                                            *)
ThreadSymmetry == Permutations(Thread)
============================================================================
