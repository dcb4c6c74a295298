---------------------------- MODULE LockService ----------------------------
(***************************************************************************)
(* What the inode locks of a brick promise to the translators above:       *)
(* each request is granted at most once, only while no conflicting lock    *)
(* is held, is answered exactly once, and is never granted after its       *)
(* answer has been sent.                                                   *)
(***************************************************************************)
CONSTANTS
  Lock,             \* lock requests
  Conflicts(_, _)   \* two requests that must not be held together

VARIABLES
  holders,   \* requests whose lock is held
  status     \* "none", "asked", "owed" (granted, not answered), "answered"

Init ==
  /\ holders = {}
  /\ status = [l \in Lock |-> "none"]

Ask(l) ==
  /\ status[l] = "none"
  /\ status' = [status EXCEPT ![l] = "asked"]
  /\ UNCHANGED holders

Grant(l) ==
  /\ status[l] = "asked"
  /\ \A h \in holders : ~Conflicts(l, h)
  /\ holders' = holders \cup {l}
  /\ \E s \in {"owed", "answered"} : status' = [status EXCEPT ![l] = s]

Answer(l) ==
  /\ status[l] \in {"asked", "owed"}
  /\ status' = [status EXCEPT ![l] = "answered"]
  /\ UNCHANGED holders

Release(l) ==
  /\ l \in holders
  /\ holders' = holders \ {l}
  /\ UNCHANGED status

Next == \E l \in Lock : Ask(l) \/ Grant(l) \/ Answer(l) \/ Release(l)

Spec == Init /\ [][Next]_<<holders, status>>
============================================================================
