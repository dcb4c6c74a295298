---------------------------- MODULE InodelkRefs ----------------------------
(***************************************************************************)
(* The wakeups that waiters are due, the counts that keep a lock object    *)
(* and its inode alive, and the cleanup after a client.                    *)
(***************************************************************************)
EXTENDS InodelkService

(* Leaves are first-order reasoning unless they cite SMT.                  *)
USE Zenon

(* A cleanup that runs a grant pass for a lock it has released             *)
Passing(t) == \/ pc[t] = "cleanup_unref"
              \/ /\ ret[t] = "cleanup_unref"
                 /\ pc[t] \in {"grant", "granting", "unwinding"}

(* The lock a thread works on is its request or the lock of such a pass    *)
ArgOK(t) ==
  /\ arg[t].lock \in Lock => Own(t, arg[t].lock) \/ Passing(t)
  /\ Passing(t) => arg[t].lock \in released[t]
  /\ pc[t] \notin {"grant", "granting", "unwinding", "cleanup_unref"}
       => ret[t] # "cleanup_unref"

HoldInv == LifeInv /\ \A t \in Thread : ArgOK(t)

LEMMA InitHoldInv == Init => HoldInv
<1> SUFFICES ASSUME Init PROVE HoldInv
  OBVIOUS
<1>1. LifeInv BY InitLifeInv
<1>2. \A t \in Thread : ArgOK(t)
  BY LockAssumption DEF Init, ArgOK, Passing, NoArg, Arg
<1> QED BY <1>1, <1>2 DEF HoldInv

(* What waits is what the lock service has been asked for                  *)
LEMMA WaitingIs ==
  ASSUME HoldInv, NEW l \in Lock
  PROVE  Waiting(l) <=> (frame[l] = "wait" /\ ~InGranted(l))
<1>1. Life(l) BY DEF HoldInv, LifeInv
<1>2. ASSUME frame[l] = "wait", ~InGranted(l) PROVE Waiting(l)
  BY <1>2, LifeAnswered DEF HoldInv, AnsweredOnce
<1>3. ASSUME New(l), frame[l] # "none" PROVE frame[l] = "wait" /\ ~InGranted(l)
  BY <1>3, NewIs DEF HoldInv, InGranted
<1>4. ASSUME Waiting(l) PROVE New(l) /\ frame[l] # "none"
  <2>1. CASE Queue(l) BY <1>1, <2>1 DEF New, Life
  <2>2. ASSUME NEW t \in Thread, arg[t].lock = l, l \notin released[t]
        PROVE  New(l) /\ frame[l] # "none"
    <3>1. Own(t, l) BY <2>2 DEF HoldInv, ArgOK
    <3> QED BY <1>1, <3>1 DEF New, Life, Has
  <2>3. ASSUME NEW t \in Thread, Splice(t, l) \/ l \in unwind[t] \ granted[t]
        PROVE  New(l) /\ frame[l] # "none"
    BY <1>1, <2>3 DEF New, Life, Has
  <2> QED BY <1>4, <2>1, <2>2, <2>3 DEF Waiting, Queue, Splice
<1> QED BY <1>2, <1>3, <1>4

(* What thread t does                                                      *)
Acts(t) ==
  \/ \E l \in Lock : Request(t, l) \/ Unlock(t, l)
  \/ \E c \in Client : Disconnect(t, c) \/ Destroy(t, c)
  \/ \E d \in Domain, kind \in ClearLocks, range \in ClrRanges :
       Clrlk(t, d, kind, range)
  \/ Continue(t)

(* A step of one thread leaves the locals of the others alone              *)
LEMMA OthersStay ==
  ASSUME TypeOK, NEW t \in Thread, Acts(t)
  PROVE  Elsewhere(t)
<1> USE DEF TypeOK, RunOK, LocalsOK
<1>1. ASSUME NEW k \in Lock, Request(t, k)
       PROVE  Elsewhere(t)
  BY <1>1 DEF Request, Elsewhere, Call, locals
<1>2. ASSUME NEW k \in Lock, Unlock(t, k)
       PROVE  Elsewhere(t)
  BY <1>2 DEF Unlock, Elsewhere, Call, locals
<1>3. CASE PruneCheck(t)
  BY <1>3 DEF PruneCheck, Elsewhere, Goto, locals
<1>4. CASE PruneNothing(t)
  BY <1>4 DEF PruneNothing, Elsewhere, Goto, locals
<1>5. CASE PruneRevoke(t)
  BY <1>5 DEF PruneRevoke, Elsewhere, Call, locals
<1>6. CASE SetlkGrant(t)
  BY <1>6 DEF SetlkGrant, Elsewhere, Return, Call, locals
<1>7. CASE SetlkBlock(t)
  BY <1>7 DEF SetlkBlock, Elsewhere, Return, Call, locals
<1>8. CASE SetlkEagain(t)
  BY <1>8 DEF SetlkEagain, Elsewhere, Return, Call, locals
<1>9. CASE UnlockReturn(t)
  BY <1>9 DEF UnlockReturn, Elsewhere, Return, Call, locals
<1>10. CASE GrantEnter(t)
  BY <1>10 DEF GrantEnter, Elsewhere, Goto
<1>11. CASE GrantOne(t)
  BY <1>11 DEF GrantOne, Elsewhere, run
<1>12. CASE GrantRequeue(t)
  BY <1>12 DEF GrantRequeue, Elsewhere, run
<1>13. CASE GrantLeave(t)
  BY <1>13 DEF GrantLeave, Elsewhere, Goto, locals
<1>14. CASE GrantUnwind(t)
  BY <1>14 DEF GrantUnwind, Elsewhere, run
<1>15. CASE GrantUnref(t)
  BY <1>15 DEF GrantUnref, Elsewhere, Return, Call, Goto
<1>16. CASE CleanupOne(t)
  BY <1>16 DEF CleanupOne, Elsewhere, run
<1>17. CASE CleanupLeave(t)
  BY <1>17 DEF CleanupLeave, Elsewhere, Goto, locals
<1>18. CASE CleanupUnwind(t)
  BY <1>18 DEF CleanupUnwind, Elsewhere, run
<1>19. CASE CleanupGrant(t)
  BY <1>19 DEF CleanupGrant, Elsewhere, Call, locals
<1>20. CASE CleanupUnref(t)
  BY <1>20 DEF CleanupUnref, Elsewhere, Call
<1>21. CASE CleanupReturn(t)
  BY <1>21 DEF CleanupReturn, Elsewhere, Return, Call, locals
<1>22. ASSUME NEW c \in Client, NEW state, Cleanup(t, c, state)
       PROVE  Elsewhere(t)
  BY <1>22 DEF Cleanup, Elsewhere, Call
<1>23. CASE ClrEnter(t)
  BY <1>23 DEF ClrEnter, Elsewhere, Goto, locals
<1>24. CASE ClrBlocked(t)
  BY <1>24 DEF ClrBlocked, Elsewhere, run
<1>25. CASE ClrBlockedLeave(t)
  BY <1>25 DEF ClrBlockedLeave, Elsewhere, Goto, locals
<1>26. CASE ClrUnwind(t)
  BY <1>26 DEF ClrUnwind, Elsewhere, run
<1>27. CASE ClrUnwound(t)
  BY <1>27 DEF ClrUnwound, Elsewhere, Goto, locals
<1>28. CASE ClrGranted(t)
  BY <1>28 DEF ClrGranted, Elsewhere, run
<1>29. CASE ClrGrantedLeave(t)
  BY <1>29 DEF ClrGrantedLeave, Elsewhere, Goto, locals
<1>30. CASE ClrRead(t)
  BY <1>30 DEF ClrRead, Elsewhere, Goto
<1>31. CASE ClrWrite(t)
  BY <1>31 DEF ClrWrite, Elsewhere, Goto
<1>32. CASE ClrReleased(t)
  BY <1>32 DEF ClrReleased, Elsewhere, Goto, locals
<1>33. ASSUME NEW d \in Domain, NEW kind, NEW range, Clrlk(t, d, kind, range)
       PROVE  Elsewhere(t)
  BY <1>33 DEF Clrlk, Elsewhere, Call, locals
<1> QED BY <1>1, <1>2, <1>3, <1>4, <1>5, <1>6, <1>7, <1>8, <1>9, <1>10, <1>11,
     <1>12, <1>13, <1>14, <1>15, <1>16, <1>17, <1>18, <1>19, <1>20, <1>21,
     <1>22, <1>23, <1>24, <1>25, <1>26, <1>27, <1>28, <1>29, <1>30, <1>31,
     <1>32, <1>33
  DEF Acts, Continue, SetlkStep, GrantStep, CleanupStep, ClrStep, Disconnect,
     Destroy

(* Each step keeps track of the lock its thread works on                   *)
LEMMA ArgStays ==
  ASSUME TypeOK, NEW t \in Thread, Acts(t)
  PROVE  ArgOK(t) /\ ThreadOK(t) => ArgOK(t)'
<1> USE DEF TypeOK, RunOK, LocalsOK
<1>0. ASSUME Return(t) PROVE ArgOK(t)'
  <2>1. /\ pc'[t] = "idle" /\ ret'[t] = "idle" /\ arg'[t] = NoArg
    BY <1>0, CallIs, SMT DEF Return
  <2>2. NoArg.lock \notin Lock BY LockAssumption DEF NoArg, Arg
  <2> QED BY <2>1, <2>2 DEF ArgOK, Passing
<1>1. ASSUME NEW k \in Lock, Request(t, k)
       PROVE  ArgOK(t) /\ ThreadOK(t) => ArgOK(t)'
  BY <1>1, LockAssumption, SMT DEF Request, ArgOK, ThreadOK, Own, Passing, Call,
     Arg, NoArg, locals
<1>2. ASSUME NEW k \in Lock, Unlock(t, k)
       PROVE  ArgOK(t) /\ ThreadOK(t) => ArgOK(t)'
  BY <1>2, LockAssumption, SMT DEF Unlock, ArgOK, ThreadOK, Own, Passing, Call,
     Arg, NoArg, locals
<1>3. CASE PruneCheck(t)
  BY <1>3, LockAssumption, SMT DEF PruneCheck, ArgOK, ThreadOK, Own, Passing, Goto,
     locals
<1>4. CASE PruneNothing(t)
  BY <1>4, LockAssumption, SMT DEF PruneNothing, ArgOK, ThreadOK, Own, Passing,
     Goto, locals
<1>5. CASE PruneRevoke(t)
  BY <1>5, LockAssumption, SMT DEF PruneRevoke, ArgOK, ThreadOK, Own, Passing,
     Call, Arg, NoArg, ClrStart, locals
<1>6. CASE SetlkGrant(t)
  BY <1>0, <1>6 DEF SetlkGrant
<1>7. CASE SetlkBlock(t)
  BY <1>0, <1>7 DEF SetlkBlock
<1>8. CASE SetlkEagain(t)
  BY <1>0, <1>8 DEF SetlkEagain
<1>9. CASE UnlockReturn(t)
  BY <1>0, <1>9 DEF UnlockReturn
<1>10. CASE GrantEnter(t)
  BY <1>10, LockAssumption DEF GrantEnter, ArgOK, ThreadOK, Own, Passing, Goto
<1>11. CASE GrantOne(t)
  BY <1>11, LockAssumption DEF GrantOne, ArgOK, ThreadOK, Own, Passing, run
<1>12. CASE GrantRequeue(t)
  BY <1>12, LockAssumption DEF GrantRequeue, ArgOK, ThreadOK, Own, Passing, run
<1>13. CASE GrantLeave(t)
  BY <1>13, LockAssumption, SMT DEF GrantLeave, ArgOK, ThreadOK, Own, Passing,
     Goto, locals
<1>14. CASE GrantUnwind(t)
  BY <1>14, LockAssumption DEF GrantUnwind, ArgOK, ThreadOK, Own, Passing, run
<1>15. CASE GrantUnref(t)
  <2>1. CASE ret[t] = "idle" BY <1>0, <1>15, <2>1 DEF GrantUnref
  <2>2. CASE ret[t] # "idle"
    <3>1. /\ pc'[t] = ret[t] /\ UNCHANGED <<ret, arg, released>>
          /\ pc[t] = "unwinding"
      BY <1>15, <2>2, SMT DEF GrantUnref, Goto
    <3> QED BY <3>1, SMT DEF ArgOK, ThreadOK, Own, Passing
  <2> QED BY <2>1, <2>2
<1>16. CASE CleanupOne(t)
  BY <1>16, LockAssumption DEF CleanupOne, ArgOK, ThreadOK, Own, Passing, run
<1>17. CASE CleanupLeave(t)
  BY <1>17, LockAssumption, SMT DEF CleanupLeave, ArgOK, ThreadOK, Own, Passing,
     Goto, locals
<1>18. CASE CleanupUnwind(t)
  BY <1>18, LockAssumption DEF CleanupUnwind, ArgOK, ThreadOK, Own, Passing,
     run
<1>19. CASE CleanupGrant(t)
  BY <1>19, LockAssumption, SMT DEF CleanupGrant, ArgOK, ThreadOK, Own,
     Passing,
     Call, Arg, NoArg, locals
<1>20. CASE CleanupUnref(t)
  BY <1>20, LockAssumption, SMT DEF CleanupUnref, ArgOK, ThreadOK, Own,
     Passing,
     Call, Arg, NoArg
<1>21. CASE CleanupReturn(t)
  BY <1>0, <1>21 DEF CleanupReturn
<1>22. ASSUME NEW c \in Client, NEW state, Cleanup(t, c, state)
       PROVE  ArgOK(t) /\ ThreadOK(t) => ArgOK(t)'
  BY <1>22, LockAssumption, SMT DEF Cleanup, ArgOK, ThreadOK, Own, Passing, Call,
     Arg, NoArg
<1>23. CASE ClrEnter(t)
  BY <1>23, LockAssumption, SMT DEF ClrEnter, ArgOK, ThreadOK, Own, Passing,
     Goto,
     locals
<1>24. CASE ClrBlocked(t)
  BY <1>24, LockAssumption DEF ClrBlocked, ArgOK, ThreadOK, Own, Passing, run
<1>25. CASE ClrBlockedLeave(t)
  BY <1>25, LockAssumption, SMT DEF ClrBlockedLeave, ArgOK, ThreadOK, Own,
     Passing,
     Goto, locals
<1>26. CASE ClrUnwind(t)
  BY <1>26, LockAssumption DEF ClrUnwind, ArgOK, ThreadOK, Own, Passing, run
<1>27. CASE ClrUnwound(t)
  BY <1>27, LockAssumption, SMT DEF ClrUnwound, ArgOK, ThreadOK, Own, Passing,
     Goto, locals
<1>28. CASE ClrGranted(t)
  BY <1>28, LockAssumption DEF ClrGranted, ArgOK, ThreadOK, Own, Passing, run
<1>29. CASE ClrGrantedLeave(t)
  BY <1>29, LockAssumption, SMT DEF ClrGrantedLeave, ArgOK, ThreadOK, Own,
     Passing,
     Goto, locals
<1>30. CASE ClrRead(t)
  BY <1>30, LockAssumption, SMT DEF ClrRead, ArgOK, ThreadOK, Own, Passing,
     Goto
<1>31. CASE ClrWrite(t)
  BY <1>31, LockAssumption, SMT DEF ClrWrite, ArgOK, ThreadOK, Own, Passing, Goto
<1>32. CASE ClrReleased(t)
  BY <1>32, LockAssumption, SMT DEF ClrReleased, ArgOK, ThreadOK, Own, Passing,
     Goto, locals
<1>33. ASSUME NEW d \in Domain, NEW kind, NEW range, Clrlk(t, d, kind, range)
       PROVE  ArgOK(t) /\ ThreadOK(t) => ArgOK(t)'
  BY <1>33, LockAssumption, SMT DEF Clrlk, ArgOK, ThreadOK, Own, Passing, Call,
     Arg, NoArg, ClrStart, locals
<1> QED BY <1>1, <1>2, <1>3, <1>4, <1>5, <1>6, <1>7, <1>8, <1>9, <1>10, <1>11,
     <1>12, <1>13, <1>14, <1>15, <1>16, <1>17, <1>18, <1>19, <1>20, <1>21,
     <1>22, <1>23, <1>24, <1>25, <1>26, <1>27, <1>28, <1>29, <1>30, <1>31,
     <1>32, <1>33
  DEF Acts, Continue, SetlkStep, GrantStep, CleanupStep, ClrStep, Disconnect,
     Destroy

LEMMA NextHoldInv == HoldInv /\ [Next]_vars => HoldInv'
<1> SUFFICES ASSUME HoldInv, [Next]_vars PROVE HoldInv'
  OBVIOUS
<1>1. LifeInv' BY NextLifeInv DEF HoldInv
<1>2. ASSUME NEW t \in Thread, Acts(t), NEW u \in Thread PROVE ArgOK(u)'
  <2>1. TypeOK /\ ArgOK(t) /\ ThreadOK(t) /\ ArgOK(u)
    BY DEF HoldInv, LifeInv, TypeInv
  <2>2. Elsewhere(t) /\ ArgOK(t)' BY <1>2, <2>1, OthersStay, ArgStays
  <2>3. CASE u # t BY <2>1, <2>2, <2>3 DEF Elsewhere, ArgOK, Passing, Own
  <2> QED BY <2>2, <2>3
<1>3. CASE UNCHANGED vars
  BY <1>1, <1>3 DEF HoldInv, ArgOK, Passing, Own, vars, run, locals
<1>4. CASE Next BY <1>1, <1>2, <1>4 DEF HoldInv, Next, Acts
<1> QED BY <1>3, <1>4

----------------------------------------------------------------------------
(* References, when nothing clears locks                                   *)

Uncleared == ClearLocks = {} /\ ~Revocation

Usual == {"idle", "setlk", "grant", "granting", "unwinding", "unlocked",
          "cleanup", "cleanup_unwind", "cleanup_unref"}

(* An unlock request returns from its grant pass to the end of the unlock  *)
PathOK(t) == /\ pc[t] \in Usual
             /\ ret[t] = "unlocked"
                  => pc[t] \in {"grant", "granting", "unwinding", "unlocked"}

(* A lock is granted once and released once                                *)
Once(l) ==
  /\ l \in inodelk_list => ~InReleased(l)
  /\ \A t, u \in Thread : l \in granted[t] /\ l \in granted[u] => t = u
  /\ \A t, u \in Thread : l \in released[t] /\ l \in released[u] => t = u

Asked(l) == frame[l] = "wait" /\ ~InGranted(l)

LockRef(l) == ref[l] = Count(l \in inodelk_list) + Count(Asked(l))
                       + Count(InGranted(l)) + Count(InReleased(l))

User(l) == l \in inodelk_list \/ Asked(l) \/ InReleased(l)

Users == {l \in Lock : User(l)}

Unlocking(t) == pc[t] = "unlocked" \/ ret[t] = "unlocked"

Unlockers == {t \in Thread : Unlocking(t)}

InodeRef == iref = Cardinality(Users) + Cardinality(Unlockers)

RefInv == /\ HoldInv
          /\ \A t \in Thread : PathOK(t)
          /\ \A l \in Lock : Once(l) /\ LockRef(l)
          /\ InodeRef

(* One lock changes hands, or none                                         *)
LEMMA OtherRefs ==
  ASSUME RefInv, NEW k,
         \A l \in Lock \ {k} :
           /\ frame'[l] = frame[l] /\ ref'[l] = ref[l]
           /\ l \in inodelk_list' <=> l \in inodelk_list
           /\ \A u \in Thread : /\ l \in granted'[u] <=> l \in granted[u]
                                /\ l \in released'[u] <=> l \in released[u],
         k \in Lock => Once(k)' /\ LockRef(k)'
  PROVE  /\ \A l \in Lock : Once(l)' /\ LockRef(l)'
         /\ \A l \in Lock \ {k} : User(l)' <=> User(l)
<1> SUFFICES ASSUME NEW l \in Lock, l # k
             PROVE  Once(l)' /\ LockRef(l)' /\ (User(l)' <=> User(l))
  OBVIOUS
<1>1. (InGranted(l)' <=> InGranted(l)) /\ (InReleased(l)' <=> InReleased(l))
  BY DEF InGranted, InReleased
<1>2. Asked(l)' <=> Asked(l) BY <1>1 DEF Asked
<1>3. Once(l) /\ LockRef(l) BY DEF RefInv
<1>4. Once(l)' BY <1>1, <1>3 DEF Once
<1>5. LockRef(l)' BY <1>1, <1>2, <1>3 DEF LockRef, Count
<1> QED BY <1>1, <1>2, <1>4, <1>5 DEF User

(* One element more or less changes a count by one, as it does for finite  *)
(* sets                                                                    *)
Counted(U) ==
  /\ Cardinality({}) = 0
  /\ \A S, T \in SUBSET U : \A x :
       T \ {x} = S \ {x} =>
         /\ Cardinality(S) \in Int
         /\ Cardinality(T) = Cardinality(S) - Count(x \in S) + Count(x \in T)

(* The count of the inode                                                  *)
LEMMA InodeRefStep ==
  ASSUME Counted(Lock), Counted(Thread), RefInv, NEW k, NEW t \in Thread,
         \A l \in Lock \ {k} : User(l)' <=> User(l), Elsewhere(t),
         iref' = iref - Count(k \in Users) + Count(k \in Users')
                      - Count(Unlocking(t)) + Count(Unlocking(t)')
  PROVE  InodeRef'
<1>1. /\ Users \in SUBSET Lock /\ Users' \in SUBSET Lock
      /\ Unlockers \in SUBSET Thread /\ Unlockers' \in SUBSET Thread
  BY DEF Users, Unlockers
<1>2. Users' \ {k} = Users \ {k} BY DEF Users
<1>3. Unlockers' \ {t} = Unlockers \ {t}
  BY DEF Unlockers, Unlocking, Elsewhere
<1>4. /\ Cardinality(Users) \in Int
      /\ Cardinality(Users') = Cardinality(Users) - Count(k \in Users)
                                 + Count(k \in Users')
  BY <1>1, <1>2 DEF Counted
<1>5. /\ Cardinality(Unlockers) \in Int
      /\ Cardinality(Unlockers') = Cardinality(Unlockers)
                                     - Count(t \in Unlockers) + Count(t \in Unlockers')
  BY <1>1, <1>3 DEF Counted
<1>6. (t \in Unlockers <=> Unlocking(t)) /\ (t \in Unlockers' <=> Unlocking(t)')
  BY DEF Unlockers
<1>7. iref = Cardinality(Users) + Cardinality(Unlockers) BY DEF RefInv, InodeRef
<1> QED BY <1>4, <1>5, <1>6, <1>7, SMT DEF InodeRef, Count

LEMMA RefStep ==
  ASSUME Counted(Lock), Counted(Thread), RefInv, HoldInv',
         NEW t \in Thread, Elsewhere(t), PathOK(t)', NEW k,
         \A l \in Lock \ {k} :
           /\ frame'[l] = frame[l] /\ ref'[l] = ref[l]
           /\ l \in inodelk_list' <=> l \in inodelk_list
           /\ l \in granted'[t] <=> l \in granted[t]
           /\ l \in released'[t] <=> l \in released[t],
         k \in Lock => Once(k)' /\ LockRef(k)',
         iref' = iref - Count(k \in Users) + Count(k \in Users')
                      - Count(Unlocking(t)) + Count(Unlocking(t)')
  PROVE  RefInv'
<1>1. \A l \in Lock \ {k}, u \in Thread :
        /\ l \in granted'[u] <=> l \in granted[u]
        /\ l \in released'[u] <=> l \in released[u]
  BY DEF Elsewhere
<1>2. /\ \A l \in Lock : Once(l)' /\ LockRef(l)'
      /\ \A l \in Lock \ {k} : User(l)' <=> User(l)
  BY <1>1, OtherRefs
<1>3. InodeRef' BY <1>2, InodeRefStep
<1>4. \A u \in Thread : PathOK(u)' BY DEF RefInv, PathOK, Elsewhere
<1> QED BY <1>2, <1>3, <1>4 DEF RefInv

(* Steps that neither take nor drop a reference of a lock                  *)
LEMMA QuietRefs ==
  ASSUME Counted(Lock), Counted(Thread), RefInv, HoldInv',
         NEW t \in Thread, Elsewhere(t),
         \/ SetlkBlock(t) \/ UnlockReturn(t) \/ GrantEnter(t) \/ GrantRequeue(t)
         \/ GrantLeave(t) \/ CleanupLeave(t) \/ CleanupGrant(t)
         \/ CleanupReturn(t) \/ \E c \in Client : Disconnect(t, c) \/ Destroy(t, c)
  PROVE  RefInv'
<1>1. /\ UNCHANGED <<frame, ref, inodelk_list>>
      /\ UNCHANGED <<granted, released>>
  BY DEF SetlkBlock, UnlockReturn, GrantEnter, GrantRequeue, GrantLeave,
     CleanupLeave, CleanupGrant, CleanupReturn, Disconnect, Destroy, Cleanup,
     objs, lists, locals
<1>2. RunOK /\ PathOK(t) /\ iref \in Int
  BY DEF RefInv, HoldInv, LifeInv, TypeInv, TypeOK, SharedOK
<1>3. PathOK(t)'
  BY <1>2 DEF SetlkBlock, UnlockReturn, GrantEnter, GrantRequeue, GrantLeave,
     CleanupLeave, CleanupGrant, CleanupReturn, Disconnect, Destroy, Cleanup,
     Call, Return, Goto, run, RunOK, PathOK, Usual
<1>4. iref' = iref - Count(Unlocking(t)) + Count(Unlocking(t)')
  <2>1. CASE UnlockReturn(t)
    <3>1. iref' = iref - 1 /\ pc[t] = "unlocked" /\ Return(t)
      BY <2>1 DEF UnlockReturn, inode_unref
    <3>2. pc'[t] = "idle" /\ ret'[t] = "idle" BY <1>2, <3>1, CallIs DEF Return
    <3> QED BY <1>2, <3>1, <3>2, SMT DEF Unlocking, Count
  <2>2. CASE ~UnlockReturn(t)
    <3>1. UNCHANGED iref
      BY <2>2 DEF SetlkBlock, GrantEnter, GrantRequeue, GrantLeave,
         CleanupLeave, CleanupGrant, CleanupReturn, Disconnect, Destroy, Cleanup,
         shared
    <3>2. Unlocking(t)' <=> Unlocking(t)
      BY <1>2, <2>2 DEF SetlkBlock, GrantEnter, GrantRequeue, GrantLeave,
         CleanupLeave, CleanupGrant, CleanupReturn, Disconnect, Destroy, Cleanup,
         Call, Return, Goto, run, RunOK, PathOK, Unlocking
    <3> QED BY <1>2, <3>1, <3>2, SMT DEF Count
  <2> QED BY <2>1, <2>2
<1>5. NoLock \notin Lock /\ NoLock \notin Users /\ NoLock \notin Users'
  BY LockAssumption DEF Users
<1>6. iref' = iref - Count(NoLock \in Users) + Count(NoLock \in Users')
                   - Count(Unlocking(t)) + Count(Unlocking(t)')
  BY <1>2, <1>4, <1>5, SMT DEF Count
<1> QED BY <1>1, <1>3, <1>5, <1>6, RefStep

(* The request of a thread is counted once, by the thread                  *)
LEMMA AskedRef ==
  ASSUME RefInv, NEW l \in Lock, New(l), frame[l] # "none"
  PROVE  /\ frame[l] = "wait" /\ Asked(l) /\ l \notin inodelk_list
         /\ ~InGranted(l) /\ ~InReleased(l) /\ ref[l] = 1 /\ l \in Users
<1>1. LifeInv /\ LockRef(l) BY DEF RefInv, HoldInv
<1>2. /\ frame[l] = "wait" /\ l \notin inodelk_list
      /\ ~InGranted(l) /\ ~InReleased(l)
  BY <1>1, NewIs DEF InGranted, InReleased
<1> QED BY <1>1, <1>2, SMT DEF Asked, LockRef, Count, Users, User

LEMMA RequestRef ==
  ASSUME Counted(Lock), Counted(Thread), RefInv, HoldInv', Uncleared,
         NEW t \in Thread, Elsewhere(t), NEW k \in Lock, Request(t, k)
  PROVE  RefInv'
<1>1. /\ LifeInv /\ RunOK /\ PathOK(t) /\ iref \in Int /\ ref \in [Lock -> Int]
      /\ frame \in [Lock -> {"none", "wait", "null"}]
  BY DEF RefInv, HoldInv, LifeInv, TypeInv, TypeOK, SharedOK, ObjsOK
<1>2. /\ pc[t] = "idle" /\ frame[k] = "none"
      /\ ref' = [ref EXCEPT ![k] = 1] /\ frame' = [frame EXCEPT ![k] = "wait"]
      /\ iref' = iref + 1 /\ UNCHANGED <<inodelk_list, granted, released>>
      /\ Call(t, "setlk", "idle", Arg(k, dom(k), attr[k].client))
  BY DEF Request, lists, locals, Uncleared
<1>3. pc'[t] = "setlk" /\ ret'[t] = "idle" BY <1>1, <1>2, CallIs, SMT
<1>4. PathOK(t)' BY <1>3 DEF PathOK, Usual
<1>5. /\ ref'[k] = 1 /\ frame'[k] = "wait"
      /\ \A l \in Lock \ {k} : frame'[l] = frame[l] /\ ref'[l] = ref[l]
  BY <1>1, <1>2
<1>6. /\ k \notin inodelk_list /\ ~InGranted(k) /\ ~InReleased(k)
  BY <1>1, <1>2, NewIs DEF New, InGranted, InReleased
<1>7. /\ k \notin inodelk_list' /\ ~InGranted(k)' /\ ~InReleased(k)' /\ Asked(k)'
  BY <1>2, <1>5, <1>6 DEF InGranted, InReleased, Asked
<1>8. Once(k)' BY <1>7 DEF Once, InGranted, InReleased
<1>9. LockRef(k)' BY <1>5, <1>7, SMT DEF LockRef, Count
<1>10. k \notin Users /\ k \in Users'
  BY <1>2, <1>6, <1>7 DEF Users, User, Asked
<1>11. ~Unlocking(t) /\ ~Unlocking(t)'
  BY <1>1, <1>2, <1>3 DEF Unlocking, PathOK
<1>12. iref' = iref - Count(k \in Users) + Count(k \in Users')
                    - Count(Unlocking(t)) + Count(Unlocking(t)')
  BY <1>1, <1>2, <1>10, <1>11, SMT DEF Count
<1> QED BY <1>2, <1>4, <1>5, <1>8, <1>9, <1>12, RefStep

LEMMA SetlkRef ==
  ASSUME Counted(Lock), Counted(Thread), RefInv, HoldInv',
         NEW t \in Thread, Elsewhere(t), SetlkGrant(t) \/ SetlkEagain(t)
  PROVE  RefInv'
<1>1. /\ LifeInv /\ RunOK /\ PathOK(t) /\ iref \in Int /\ ref \in [Lock -> Int]
      /\ frame \in [Lock -> {"none", "wait", "null"}]
  BY DEF RefInv, HoldInv, LifeInv, TypeInv, TypeOK, SharedOK, ObjsOK
<1>2. pc[t] = "setlk" BY DEF SetlkGrant, SetlkEagain
<1>3. PICK k \in Lock : arg[t].lock = k
  BY <1>1, <1>2 DEF LifeInv, TypeInv, PlaceOK
<1>4. Own(t, k) /\ New(k) /\ frame[k] # "none"
  <2>1. Own(t, k) BY <1>2, <1>3 DEF Own
  <2> QED BY <1>1, <2>1, HandIs DEF New, Has
<1>5. /\ frame[k] = "wait" /\ Asked(k) /\ k \notin inodelk_list
      /\ ~InGranted(k) /\ ~InReleased(k) /\ ref[k] = 1 /\ k \in Users
  BY <1>4, AskedRef
<1>6. /\ UNCHANGED <<granted, released>> /\ Return(t) /\ STACK_UNWIND(k)
  BY <1>3 DEF SetlkGrant, SetlkEagain, locals
<1>7. pc'[t] = "idle" /\ ret'[t] = "idle" BY <1>1, <1>6, CallIs, SMT DEF Return
<1>8. PathOK(t)' BY <1>7 DEF PathOK, Usual
<1>9. frame'[k] = "null" /\ \A l \in Lock \ {k} : frame'[l] = frame[l]
  BY <1>1, <1>6 DEF STACK_UNWIND
<1>10. ~InGranted(k)' /\ ~InReleased(k)' /\ ~Asked(k)'
  BY <1>5, <1>6, <1>9 DEF InGranted, InReleased, Asked
<1>11. Once(k)' BY <1>10 DEF Once, InGranted, InReleased
<1>12. ~Unlocking(t) /\ ~Unlocking(t)'
  BY <1>1, <1>2, <1>7 DEF Unlocking, PathOK
<1>13. CASE SetlkGrant(t)
  <2>1. inodelk_list' = inodelk_list \cup {k} /\ UNCHANGED <<ref, iref>>
    BY <1>3, <1>13 DEF SetlkGrant, shared
  <2>2. LockRef(k)' BY <1>5, <1>10, <2>1, SMT DEF LockRef, Count
  <2>3. k \in Users' BY <2>1 DEF Users, User
  <2>4. iref' = iref - Count(k \in Users) + Count(k \in Users')
                     - Count(Unlocking(t)) + Count(Unlocking(t)')
    BY <1>1, <1>5, <1>12, <2>1, <2>3, SMT DEF Count
  <2>5. \A l \in Lock \ {k} : l \in inodelk_list' <=> l \in inodelk_list
    BY <2>1
  <2> QED BY <1>6, <1>8, <1>9, <1>11, <2>1, <2>2, <2>4, <2>5, RefStep
<1>14. CASE SetlkEagain(t)
  <2>1. /\ ref' = [ref EXCEPT ![k] = @ - 1] /\ iref' = iref - 1
        /\ UNCHANGED inodelk_list
    BY <1>3, <1>14 DEF SetlkEagain, __pl_inodelk_unref, inode_unref, lists
  <2>2. ref'[k] = 0 /\ \A l \in Lock \ {k} : ref'[l] = ref[l]
    BY <1>1, <1>5, <2>1, SMT
  <2>3. LockRef(k)' BY <1>5, <1>10, <2>1, <2>2, SMT DEF LockRef, Count
  <2>4. k \notin Users' BY <1>5, <1>10, <2>1 DEF Users, User
  <2>5. iref' = iref - Count(k \in Users) + Count(k \in Users')
                     - Count(Unlocking(t)) + Count(Unlocking(t)')
    BY <1>1, <1>5, <1>12, <2>1, <2>4, SMT DEF Count
  <2> QED BY <1>6, <1>8, <1>9, <1>11, <2>1, <2>2, <2>3, <2>5, RefStep
<1> QED BY <1>13, <1>14

LEMMA RefTypes ==
  ASSUME RefInv, NEW t \in Thread
  PROVE  /\ LifeInv /\ RunOK /\ PathOK(t) /\ ThreadOK(t) /\ ArgOK(t)
         /\ iref \in Int /\ ref \in [Lock -> Int]
         /\ frame \in [Lock -> {"none", "wait", "null"}]
         /\ granted \in [Thread -> SUBSET Lock]
         /\ released \in [Thread -> SUBSET Lock]
         /\ unwind \in [Thread -> SUBSET Lock]
BY DEF RefInv, HoldInv, LifeInv, TypeInv, TypeOK, SharedOK, ObjsOK, LocalsOK

LEMMA AskedNew ==
  ASSUME RefInv, NEW l \in Lock, Asked(l)
  PROVE  New(l)
<1>1. Life(l) BY DEF RefInv, HoldInv, LifeInv
<1> QED BY <1>1 DEF Asked, Life, Has, New, InGranted

(* The unlock moves its inode reference from the lock to itself            *)
LEMMA UnlockRef ==
  ASSUME Counted(Lock), Counted(Thread), RefInv, HoldInv',
         NEW t \in Thread, Elsewhere(t), NEW k \in Lock, Unlock(t, k)
  PROVE  RefInv'
<1>1. /\ LifeInv /\ RunOK /\ PathOK(t) /\ iref \in Int /\ ref \in [Lock -> Int]
  BY RefTypes
<1>2. /\ pc[t] = "idle" /\ k \in inodelk_list
      /\ inodelk_list' = inodelk_list \ {k} /\ ref' = [ref EXCEPT ![k] = @ - 1]
      /\ Call(t, "grant", "unlocked", Arg(NoLock, dom(k), attr[k].client))
      /\ UNCHANGED <<frame, iref, granted, released>>
  BY DEF Unlock, __pl_inodelk_unref, shared, locals
<1>3. pc'[t] = "grant" /\ ret'[t] = "unlocked" BY <1>1, <1>2, CallIs
<1>4. PathOK(t)' BY <1>3 DEF PathOK, Usual
<1>5. ref'[k] = ref[k] - 1 /\ \A l \in Lock \ {k} : ref'[l] = ref[l]
  BY <1>1, <1>2
<1>6. ~Asked(k) /\ ~InReleased(k)
  <2>1. ~InReleased(k) BY <1>2 DEF RefInv, Once
  <2>2. Asked(k) => New(k) BY AskedNew
  <2>3. New(k) => k \notin inodelk_list BY <1>1, NewIs
  <2> QED BY <1>2, <2>1, <2>2, <2>3
<1>7. /\ (InGranted(k)' <=> InGranted(k)) /\ ~InReleased(k)'
      /\ ~Asked(k)' /\ k \notin inodelk_list'
  BY <1>2, <1>6 DEF InGranted, InReleased, Asked
<1>8. Once(k)' BY <1>2, <1>7 DEF RefInv, Once
<1>9. LockRef(k)'
  <2>1. LockRef(k) BY DEF RefInv
  <2> QED BY <1>1, <1>2, <1>5, <1>6, <1>7, <2>1, SMT DEF LockRef, Count
<1>10. k \in Users /\ k \notin Users'
  BY <1>2, <1>7 DEF Users, User
<1>11. ~Unlocking(t) /\ Unlocking(t)'
  BY <1>1, <1>2, <1>3 DEF Unlocking, PathOK
<1>12. iref' = iref - Count(k \in Users) + Count(k \in Users')
                    - Count(Unlocking(t)) + Count(Unlocking(t)')
  BY <1>1, <1>2, <1>10, <1>11, SMT DEF Count
<1>13. \A l \in Lock \ {k} : l \in inodelk_list' <=> l \in inodelk_list
  BY <1>2
<1> QED BY <1>2, <1>4, <1>5, <1>8, <1>9, <1>12, <1>13, RefStep

(* A grant pass holds the lock it granted until it has answered it         *)
LEMMA GrantOneRef ==
  ASSUME Counted(Lock), Counted(Thread), RefInv, HoldInv',
         NEW t \in Thread, Elsewhere(t), GrantOne(t)
  PROVE  RefInv'
<1>1. /\ LifeInv /\ RunOK /\ PathOK(t) /\ iref \in Int /\ ref \in [Lock -> Int]
      /\ granted \in [Thread -> SUBSET Lock]
  BY RefTypes
<1>2. PICK k : k = Head(blocked_list[t]) OBVIOUS
<1>3. k \in Lock /\ Splice(t, k)
  BY <1>1, <1>2, HeadIs DEF GrantOne
<1>4. /\ inodelk_list' = inodelk_list \cup {k}
      /\ ref' = [ref EXCEPT ![k] = @ + 1]
      /\ granted' = [granted EXCEPT ![t] = @ \cup {k}]
      /\ UNCHANGED <<frame, iref, pc, ret, released>>
  BY <1>2 DEF GrantOne, __pl_inodelk_ref, shared, run
<1>5. New(k) /\ frame[k] # "none"
  BY <1>1, <1>3, HandIs DEF New, Has
<1>6. /\ frame[k] = "wait" /\ Asked(k) /\ k \notin inodelk_list
      /\ ~InGranted(k) /\ ~InReleased(k) /\ ref[k] = 1 /\ k \in Users
  BY <1>5, <1>3, AskedRef
<1>7. /\ k \in granted'[t] /\ \A u \in Thread \ {t} : k \notin granted'[u]
      /\ \A l \in Lock \ {k} : l \in granted'[t] <=> l \in granted[t]
  BY <1>1, <1>4, <1>6 DEF InGranted
<1>8. InGranted(k)' /\ ~InReleased(k)' /\ ~Asked(k)' /\ k \in inodelk_list'
  BY <1>4, <1>6, <1>7 DEF InGranted, InReleased, Asked
<1>9. Once(k)' BY <1>7, <1>8 DEF Once, InReleased
<1>10. ref'[k] = 2 /\ \A l \in Lock \ {k} : ref'[l] = ref[l]
  BY <1>1, <1>3, <1>4, <1>6, SMT
<1>11. LockRef(k)' BY <1>8, <1>10, SMT DEF LockRef, Count
<1>12. k \in Users' BY <1>3, <1>8 DEF Users, User
<1>13. PathOK(t)' /\ (Unlocking(t)' <=> Unlocking(t))
  BY <1>1, <1>4 DEF PathOK, Unlocking
<1>14. iref' = iref - Count(k \in Users) + Count(k \in Users')
                    - Count(Unlocking(t)) + Count(Unlocking(t)')
  BY <1>1, <1>4, <1>6, <1>12, <1>13, SMT DEF Count
<1>15. \A l \in Lock \ {k} : l \in inodelk_list' <=> l \in inodelk_list
  BY <1>4
<1> QED BY <1>4, <1>7, <1>9, <1>10, <1>11, <1>13, <1>14, <1>15, RefStep

(* An answer outside the critical section changes no count                 *)
LEMMA GrantUnwindRef ==
  ASSUME Counted(Lock), Counted(Thread), RefInv, HoldInv',
         NEW t \in Thread, Elsewhere(t), GrantUnwind(t)
  PROVE  RefInv'
<1>1. /\ PathOK(t) /\ ThreadOK(t) /\ iref \in Int
      /\ frame \in [Lock -> {"none", "wait", "null"}]
      /\ unwind \in [Thread -> SUBSET Lock]
  BY RefTypes
<1>2. PICK k \in unwind[t] : STACK_UNWIND(k) BY DEF GrantUnwind
<1>3. /\ pc[t] = "unwinding"
      /\ UNCHANGED <<ref, iref, inodelk_list, pc, ret, granted, released>>
  BY DEF GrantUnwind, lists, shared, run
<1>4. k \in Lock /\ k \in granted[t] BY <1>1, <1>2, <1>3 DEF ThreadOK
<1>5. \A l \in Lock \ {k} : frame'[l] = frame[l]
  BY <1>1, <1>2 DEF STACK_UNWIND
<1>6. /\ InGranted(k) /\ InGranted(k)' /\ (InReleased(k)' <=> InReleased(k))
      /\ ~Asked(k) /\ ~Asked(k)'
  BY <1>3, <1>4 DEF InGranted, InReleased, Asked
<1>7. Once(k)' /\ LockRef(k)'
  <2>1. Once(k) /\ LockRef(k) BY <1>4 DEF RefInv
  <2>2. Once(k)' BY <1>3, <1>6, <2>1 DEF Once
  <2>3. LockRef(k)' BY <1>3, <1>6, <2>1 DEF LockRef, Count
  <2> QED BY <2>2, <2>3
<1>8. k \in Users' <=> k \in Users BY <1>3, <1>6 DEF Users, User
<1>9. PathOK(t)' /\ (Unlocking(t)' <=> Unlocking(t))
  BY <1>1, <1>3 DEF PathOK, Unlocking
<1>10. iref' = iref - Count(k \in Users) + Count(k \in Users')
                    - Count(Unlocking(t)) + Count(Unlocking(t)')
  BY <1>1, <1>3, <1>8, <1>9, SMT DEF Count
<1> QED BY <1>3, <1>5, <1>7, <1>9, <1>10, RefStep

(* The end of the grant pass drops the reference of every lock it granted  *)
LEMMA GrantUnrefRef ==
  ASSUME Counted(Lock), Counted(Thread), RefInv, HoldInv',
         NEW t \in Thread, Elsewhere(t), GrantUnref(t)
  PROVE  RefInv'
<1>1. /\ LifeInv /\ RunOK /\ PathOK(t) /\ iref \in Int /\ ref \in [Lock -> Int]
      /\ granted \in [Thread -> SUBSET Lock]
  BY RefTypes
<1>2. /\ pc[t] = "unwinding" /\ unwind[t] = {}
      /\ ref' = [l \in Lock |-> IF l \in granted[t] THEN ref[l] - 1 ELSE ref[l]]
      /\ granted' = [granted EXCEPT ![t] = {}]
      /\ UNCHANGED <<frame, iref, inodelk_list, released>>
  BY DEF GrantUnref, lists, shared
<1>3. \/ pc'[t] = "idle" /\ ret'[t] = "idle" /\ ret[t] = "idle"
      \/ pc'[t] = ret[t] /\ ret'[t] = ret[t] /\ ret[t] # "idle"
  <2>1. CASE ret[t] = "idle"
    <3>1. Call(t, "idle", "idle", NoArg) BY <2>1 DEF GrantUnref, Return
    <3> QED BY <1>1, <2>1, <3>1, CallIs
  <2>2. CASE ret[t] # "idle"
    <3>1. Goto(t, ret[t]) BY <2>2 DEF GrantUnref
    <3> QED BY <1>1, <2>2, <3>1, GotoIs
  <2> QED BY <2>1, <2>2
<1>4. PathOK(t)' /\ (Unlocking(t)' <=> Unlocking(t))
  BY <1>1, <1>2, <1>3 DEF PathOK, Usual, Unlocking, RunOK
<1>5. \A u \in Thread : granted'[u] = IF u = t THEN {} ELSE granted[u]
  BY <1>1, <1>2
<1>6. ASSUME NEW l \in Lock
      PROVE  Once(l)' /\ LockRef(l)' /\ (User(l)' <=> User(l))
  <2>1. Life(l) /\ Once(l) /\ LockRef(l) /\ ref[l] \in Int
    BY <1>1 DEF RefInv, LifeInv
  <2>2. InReleased(l)' <=> InReleased(l) BY <1>2 DEF InReleased
  <2>3. Once(l)' BY <1>2, <1>5, <2>1, <2>2 DEF Once
  <2>4. InGranted(l)' <=> InGranted(l) /\ l \notin granted[t]
    BY <1>5, <2>1 DEF InGranted, Once
  <2>5. l \in granted[t] => frame[l] = "null" /\ InGranted(l)
    BY <1>2, <2>1 DEF Life, InGranted
  <2>6. Asked(l)' <=> Asked(l) BY <1>2, <2>4, <2>5 DEF Asked
  <2>7. ref'[l] = IF l \in granted[t] THEN ref[l] - 1 ELSE ref[l]
    BY <1>2
  <2>8. LockRef(l)'
    BY <1>2, <2>1, <2>2, <2>4, <2>5, <2>6, <2>7, SMT DEF LockRef, Count
  <2> QED BY <1>2, <2>2, <2>3, <2>6, <2>8 DEF User
<1>7. NoLock \notin Users /\ NoLock \notin Users'
  BY LockAssumption DEF Users
<1>8. iref' = iref - Count(NoLock \in Users) + Count(NoLock \in Users')
                   - Count(Unlocking(t)) + Count(Unlocking(t)')
  BY <1>1, <1>2, <1>4, <1>7, SMT DEF Count
<1>9. InodeRef' BY <1>6, <1>8, InodeRefStep
<1>10. \A u \in Thread : PathOK(u)' BY <1>4 DEF RefInv, PathOK, Elsewhere
<1> QED BY <1>6, <1>9, <1>10 DEF RefInv

(* The cleanup takes over the reference of a granted lock; a blocked one   *)
(* it takes off the queue to answer it                                     *)
LEMMA CleanupOneRef ==
  ASSUME Counted(Lock), Counted(Thread), RefInv, HoldInv',
         NEW t \in Thread, Elsewhere(t), CleanupOne(t)
  PROVE  RefInv'
<1>1. /\ LifeInv /\ PathOK(t) /\ iref \in Int /\ ref \in [Lock -> Int]
      /\ released \in [Thread -> SUBSET Lock]
      /\ inodelk_list \subseteq Lock
  BY RefTypes DEF LifeInv, TypeInv, TypeOK, ListsOK
<1>2. UNCHANGED <<frame, ref, iref, pc, ret, granted>>
  BY DEF CleanupOne, objs, shared, run
<1>3. PathOK(t)' /\ (Unlocking(t)' <=> Unlocking(t))
  BY <1>1, <1>2 DEF PathOK, Unlocking
<1>4. CASE InList(cursor[t])
  <2>1. PICK k \in Lock : k = cursor[t] BY <1>1, <1>4 DEF InList
  <2>2. /\ k \in inodelk_list /\ inodelk_list' = inodelk_list \ {k}
        /\ released' = [released EXCEPT ![t] = @ \cup {k}]
    BY <1>4, <2>1 DEF CleanupOne, InList
  <2>3. Once(k) /\ LockRef(k) /\ ~InReleased(k) BY <2>2 DEF RefInv, Once
  <2>4. ~Asked(k)
    <3>1. Asked(k) => New(k) BY AskedNew
    <3>2. New(k) => k \notin inodelk_list BY <1>1, NewIs
    <3> QED BY <2>2, <3>1, <3>2
  <2>5. /\ k \in released'[t] /\ \A u \in Thread \ {t} : k \notin released'[u]
        /\ \A l \in Lock \ {k} : l \in released'[t] <=> l \in released[t]
    BY <1>1, <2>2, <2>3 DEF InReleased
  <2>6. /\ InReleased(k)' /\ ~Asked(k)' /\ k \notin inodelk_list'
        /\ InGranted(k)' <=> InGranted(k)
    BY <1>2, <2>2, <2>4, <2>5 DEF InGranted, InReleased, Asked
  <2>7. Once(k)' BY <1>2, <2>3, <2>5, <2>6 DEF Once
  <2>8. LockRef(k)'
    BY <1>1, <1>2, <2>2, <2>3, <2>4, <2>6, SMT DEF LockRef, Count
  <2>9. k \in Users /\ k \in Users' BY <2>2, <2>6 DEF Users, User
  <2>10. iref' = iref - Count(k \in Users) + Count(k \in Users')
                      - Count(Unlocking(t)) + Count(Unlocking(t)')
    BY <1>1, <1>2, <1>3, <2>9, SMT DEF Count
  <2>11. \A l \in Lock \ {k} : l \in inodelk_list' <=> l \in inodelk_list
    BY <2>2
  <2> QED BY <1>2, <1>3, <2>5, <2>7, <2>8, <2>10, <2>11, RefStep
<1>5. CASE ~InList(cursor[t])
  <2>1. UNCHANGED <<inodelk_list, released>> BY <1>5 DEF CleanupOne
  <2>2. NoLock \notin Lock /\ NoLock \notin Users /\ NoLock \notin Users'
    BY LockAssumption DEF Users
  <2>3. iref' = iref - Count(NoLock \in Users) + Count(NoLock \in Users')
                     - Count(Unlocking(t)) + Count(Unlocking(t)')
    BY <1>1, <1>2, <1>3, <2>2, SMT DEF Count
  <2> QED BY <1>2, <1>3, <2>1, <2>2, <2>3, RefStep
<1> QED BY <1>4, <1>5

(* A blocked request that the cleanup answers                              *)
LEMMA CleanupUnwindRef ==
  ASSUME Counted(Lock), Counted(Thread), RefInv, HoldInv',
         NEW t \in Thread, Elsewhere(t), CleanupUnwind(t)
  PROVE  RefInv'
<1>1. /\ LifeInv /\ PathOK(t) /\ ThreadOK(t) /\ iref \in Int
      /\ frame \in [Lock -> {"none", "wait", "null"}]
      /\ released \in [Thread -> SUBSET Lock]
      /\ unwind \in [Thread -> SUBSET Lock]
  BY RefTypes
<1>2. PICK k \in unwind[t] :
        /\ IF frame[k] = "wait" THEN STACK_UNWIND(k)
                                ELSE UNCHANGED <<frame, replies>>
        /\ released' = [released EXCEPT ![t] = @ \cup {k}]
  BY DEF CleanupUnwind
<1>3. /\ pc[t] = "cleanup_unwind"
      /\ UNCHANGED <<ref, iref, inodelk_list, pc, ret, granted>>
  BY DEF CleanupUnwind, lists, shared, run
<1>4. k \in Lock /\ New(k) /\ frame[k] # "none"
  <2>1. k \in Lock /\ Has(t, k) BY <1>1, <1>2 DEF Has
  <2>2. k \notin granted[t] BY <1>1, <1>3 DEF ThreadOK
  <2> QED BY <1>1, <1>2, <2>1, <2>2, HandIs DEF New
<1>5. /\ frame[k] = "wait" /\ Asked(k) /\ k \notin inodelk_list
      /\ ~InGranted(k) /\ ~InReleased(k) /\ ref[k] = 1 /\ k \in Users
  BY <1>4, AskedRef
<1>6. frame'[k] = "null" /\ \A l \in Lock \ {k} : frame'[l] = frame[l]
  BY <1>1, <1>2, <1>4, <1>5 DEF STACK_UNWIND
<1>7. /\ k \in released'[t] /\ \A u \in Thread \ {t} : k \notin released'[u]
      /\ \A l \in Lock \ {k} : l \in released'[t] <=> l \in released[t]
  BY <1>1, <1>2, <1>5 DEF InReleased
<1>8. /\ InReleased(k)' /\ ~Asked(k)' /\ k \notin inodelk_list' /\ ~InGranted(k)'
  BY <1>3, <1>5, <1>6, <1>7 DEF InGranted, InReleased, Asked
<1>9. Once(k)' BY <1>7, <1>8 DEF Once, InGranted
<1>10. LockRef(k)' BY <1>3, <1>5, <1>8, SMT DEF LockRef, Count
<1>11. k \in Users' BY <1>4, <1>8 DEF Users, User
<1>12. PathOK(t)' /\ (Unlocking(t)' <=> Unlocking(t))
  BY <1>1, <1>3 DEF PathOK, Unlocking
<1>13. iref' = iref - Count(k \in Users) + Count(k \in Users')
                    - Count(Unlocking(t)) + Count(Unlocking(t)')
  BY <1>1, <1>3, <1>5, <1>11, <1>12, SMT DEF Count
<1> QED BY <1>3, <1>6, <1>7, <1>9, <1>10, <1>12, <1>13, RefStep

(* The last reference of a released lock                                   *)
LEMMA CleanupUnrefRef ==
  ASSUME Counted(Lock), Counted(Thread), RefInv, HoldInv',
         NEW t \in Thread, Elsewhere(t), CleanupUnref(t)
  PROVE  RefInv'
<1>1. /\ LifeInv /\ RunOK /\ PathOK(t) /\ ArgOK(t) /\ iref \in Int
      /\ ref \in [Lock -> Int] /\ released \in [Thread -> SUBSET Lock]
  BY RefTypes
<1>2. pc[t] = "cleanup_unref" BY DEF CleanupUnref
<1>3. PICK k \in Lock : k = arg[t].lock /\ k \in released[t]
  BY <1>1, <1>2 DEF ArgOK, Passing
<1>4. /\ ref' = [ref EXCEPT ![k] = @ - 1] /\ iref' = iref - 1
      /\ released' = [released EXCEPT ![t] = @ \ {k}]
      /\ Call(t, "cleanup_unwind", "idle", Arg(NoLock, NoLock, arg[t].client))
      /\ UNCHANGED <<frame, inodelk_list, granted>>
  BY <1>3 DEF CleanupUnref, __pl_inodelk_unref, inode_unref, lists
<1>5. pc'[t] = "cleanup_unwind" /\ ret'[t] = "idle" BY <1>1, <1>4, CallIs, SMT
<1>6. PathOK(t)' BY <1>5 DEF PathOK, Usual
<1>7. ~Unlocking(t) /\ ~Unlocking(t)'
  BY <1>1, <1>2, <1>5 DEF Unlocking, PathOK
<1>8. Once(k) /\ LockRef(k) /\ InReleased(k) /\ k \notin inodelk_list
  BY <1>3 DEF RefInv, Once, InReleased
<1>9. ~Asked(k)
  <2>1. Asked(k) => New(k) BY AskedNew
  <2>2. New(k) => k \notin released[t] BY <1>1, NewIs
  <2> QED BY <1>3, <2>1, <2>2
<1>10. /\ \A u \in Thread : k \notin released'[u]
       /\ \A l \in Lock \ {k} : l \in released'[t] <=> l \in released[t]
  BY <1>1, <1>3, <1>4, <1>8 DEF Once
<1>11. /\ ~InReleased(k)' /\ ~Asked(k)' /\ k \notin inodelk_list'
       /\ (InGranted(k)' <=> InGranted(k))
  BY <1>4, <1>8, <1>9, <1>10 DEF InGranted, InReleased, Asked
<1>12. Once(k)' BY <1>4, <1>8, <1>10, <1>11 DEF Once
<1>13. ref'[k] = ref[k] - 1 /\ \A l \in Lock \ {k} : ref'[l] = ref[l]
  BY <1>1, <1>4
<1>14. LockRef(k)'
  BY <1>1, <1>8, <1>9, <1>11, <1>13, SMT DEF LockRef, Count
<1>15. k \in Users /\ k \notin Users' BY <1>8, <1>11 DEF Users, User
<1>16. iref' = iref - Count(k \in Users) + Count(k \in Users')
                    - Count(Unlocking(t)) + Count(Unlocking(t)')
  BY <1>1, <1>4, <1>7, <1>15, SMT DEF Count
<1> QED BY <1>4, <1>6, <1>10, <1>12, <1>13, <1>14, <1>16, RefStep

LEMMA UsualActs ==
  ASSUME Uncleared, NEW t \in Thread, Acts(t), PathOK(t)
  PROVE  \/ \E l \in Lock : Request(t, l) \/ Unlock(t, l)
         \/ \E c \in Client : Disconnect(t, c) \/ Destroy(t, c)
         \/ SetlkGrant(t) \/ SetlkBlock(t) \/ SetlkEagain(t) \/ UnlockReturn(t)
         \/ GrantStep(t) \/ CleanupStep(t)
<1>1. ~PruneCheck(t) /\ ~PruneNothing(t) /\ ~PruneRevoke(t)
  BY DEF PathOK, Usual, PruneCheck, PruneNothing, PruneRevoke
<1>2. ~ClrStep(t)
  BY DEF PathOK, Usual, ClrStep, ClrEnter, ClrBlocked, ClrBlockedLeave,
     ClrUnwind, ClrUnwound, ClrGranted, ClrGrantedLeave, ClrRead, ClrWrite,
     ClrReleased
<1>3. ~\E d \in Domain, kind \in ClearLocks, range \in ClrRanges :
         Clrlk(t, d, kind, range)
  BY DEF Uncleared
<1> QED BY <1>1, <1>2, <1>3 DEF Acts, Continue, SetlkStep

LEMMA InitRefInv == Init /\ Uncleared /\ Counted(Lock) => RefInv
<1> SUFFICES ASSUME Init, Uncleared, Counted(Lock) PROVE RefInv
  OBVIOUS
<1>1. HoldInv BY InitHoldInv
<1>2. \A t \in Thread : PathOK(t) /\ ~Unlocking(t)
  BY DEF Init, PathOK, Usual, Unlocking
<1>3. \A l \in Lock : /\ l \notin inodelk_list /\ ~Asked(l) /\ ref[l] = 0
                      /\ ~InGranted(l) /\ ~InReleased(l)
  BY DEF Init, Asked, InGranted, InReleased
<1>4. \A l \in Lock : Once(l) BY <1>3 DEF Once, InGranted, InReleased
<1>5. \A l \in Lock : LockRef(l) BY <1>3, SMT DEF LockRef, Count
<1>6. InodeRef
  <2>1. Users = {} /\ Unlockers = {} BY <1>2, <1>3 DEF Users, User, Unlockers
  <2>2. Cardinality({}) = 0 BY DEF Counted
  <2> QED BY <2>1, <2>2, SMT DEF InodeRef, Init
<1> QED BY <1>1, <1>2, <1>4, <1>5, <1>6 DEF RefInv

LEMMA NextRefInv ==
  ASSUME Counted(Lock), Counted(Thread), Uncleared
  PROVE  RefInv /\ [Next]_vars => RefInv'
<1> SUFFICES ASSUME RefInv, [Next]_vars PROVE RefInv'
  OBVIOUS
<1>1. HoldInv' BY NextHoldInv DEF RefInv
<1>2. ASSUME NEW t \in Thread, Acts(t) PROVE RefInv'
  <2>1. Elsewhere(t) /\ PathOK(t)
    BY <1>2, OthersStay DEF RefInv, HoldInv, LifeInv, TypeInv
  <2>2. ASSUME NEW l \in Lock, Request(t, l) PROVE RefInv'
    BY <1>1, <2>1, <2>2, RequestRef
  <2>3. ASSUME NEW l \in Lock, Unlock(t, l) PROVE RefInv'
    BY <1>1, <2>1, <2>3, UnlockRef
  <2>4. CASE SetlkGrant(t) \/ SetlkEagain(t) BY <1>1, <2>1, <2>4, SetlkRef
  <2>5. CASE GrantOne(t) BY <1>1, <2>1, <2>5, GrantOneRef
  <2>6. CASE GrantUnwind(t) BY <1>1, <2>1, <2>6, GrantUnwindRef
  <2>7. CASE GrantUnref(t) BY <1>1, <2>1, <2>7, GrantUnrefRef
  <2>8. CASE CleanupOne(t) BY <1>1, <2>1, <2>8, CleanupOneRef
  <2>9. CASE CleanupUnwind(t) BY <1>1, <2>1, <2>9, CleanupUnwindRef
  <2>10. CASE CleanupUnref(t) BY <1>1, <2>1, <2>10, CleanupUnrefRef
  <2>11. CASE \/ SetlkBlock(t) \/ UnlockReturn(t) \/ GrantEnter(t)
              \/ GrantRequeue(t) \/ GrantLeave(t) \/ CleanupLeave(t)
              \/ CleanupGrant(t) \/ CleanupReturn(t)
              \/ \E c \in Client : Disconnect(t, c) \/ Destroy(t, c)
    BY <1>1, <2>1, <2>11, QuietRefs
  <2>12. \/ \E l \in Lock : Request(t, l) \/ Unlock(t, l)
         \/ \E c \in Client : Disconnect(t, c) \/ Destroy(t, c)
         \/ SetlkGrant(t) \/ SetlkBlock(t) \/ SetlkEagain(t) \/ UnlockReturn(t)
         \/ GrantStep(t) \/ CleanupStep(t)
    BY <1>2, <2>1, UsualActs
  <2> QED
    BY <2>2, <2>3, <2>4, <2>5, <2>6, <2>7, <2>8, <2>9, <2>10, <2>11,
       <2>12
    DEF GrantStep, CleanupStep
<1>3. CASE UNCHANGED vars
  <2>1. UNCHANGED <<ref, frame, inodelk_list, iref>>
    BY <1>3 DEF vars, objs, lists, shared
  <2>2. UNCHANGED <<pc, ret, granted, released>>
    BY <1>3 DEF vars, run, locals
  <2>3. UNCHANGED <<Users, Unlockers>>
    BY <2>1, <2>2 DEF Users, User, Asked, InGranted, InReleased, Unlockers,
       Unlocking
  <2>4. InodeRef' BY <2>1, <2>3 DEF RefInv, InodeRef
  <2>5. \A t \in Thread : PathOK(t)' BY <2>2 DEF RefInv, PathOK
  <2>6. \A l \in Lock : Once(l)' /\ LockRef(l)'
    BY <2>1, <2>2 DEF RefInv, Once, LockRef, Asked, InGranted, InReleased
  <2> QED BY <1>1, <2>4, <2>5, <2>6 DEF RefInv
<1>4. CASE Next BY <1>2, <1>4 DEF Next, Acts
<1> QED BY <1>3, <1>4

LEMMA RefIsExact == RefInv => RefExact
<1> SUFFICES ASSUME RefInv PROVE RefExact
  OBVIOUS
<1>1. \A l \in Lock : Waiting(l) <=> Asked(l)
  BY WaitingIs DEF RefInv, Asked
<1>2. \A l \in Lock : ref[l] = Count(l \in inodelk_list) + Count(Waiting(l))
                               + Count(InGranted(l)) + Count(InReleased(l))
  BY <1>1 DEF RefInv, LockRef, Count
<1>3. Users = {l \in Lock : l \in inodelk_list \/ Waiting(l) \/ InReleased(l)}
  BY <1>1 DEF Users, User
<1>4. Unlockers = {t \in Thread : "unlocked" \in {pc[t], ret[t]}}
  BY DEF Unlockers, Unlocking
<1>5. iref = Cardinality(Users) + Cardinality(Unlockers) BY DEF RefInv, InodeRef
<1>6. iref = Cardinality({l \in Lock : l \in inodelk_list \/ Waiting(l)
                                      \/ InReleased(l)})
             + Cardinality({t \in Thread : "unlocked" \in {pc[t], ret[t]}})
  BY <1>3, <1>4, <1>5
<1> QED BY <1>2, <1>6 DEF RefExact

----------------------------------------------------------------------------
(* No wakeup is lost                                                       *)

(* What a thread has in hand when it clears or releases locks              *)
ClearOK(t) ==
  /\ pc[t] \in ClrPC => clr[t].kind # {}
  /\ clr[t].kind # {} => pc[t] \in ClrPC \cup {"grant", "granting", "unwinding"}
  /\ arg[t].lock \in Lock => arg[t].dom = dom(arg[t].lock)
  /\ pc[t] \in {"clr_blkd_loop", "clr_unwind"}
       => \A l \in unwind[t] : dom(l) = arg[t].dom
  /\ pc[t] \in {"clr_granted_loop", "clr_read", "clr_write"}
       => \A l \in released[t] : dom(l) = arg[t].dom
  /\ released[t] # {} => \/ pc[t] \in {"clr_granted_loop", "clr_read",
                              "clr_write", "cleanup", "cleanup_unwind"}
                         \/ Passing(t)

(* Thread t is still to run a grant pass over the domain                   *)
Due(t, d) ==
  \/ /\ arg[t].dom = d
     /\ \/ pc[t] \in {"grant", "granting"}
        \/ clr[t].kind # {} /\ pc[t] # "unwinding"
  \/ \E l \in released[t] \cup (unwind[t] \ granted[t]) :
       /\ dom(l) = d
       /\ ~(arg[t].lock = l /\ pc[t] \in {"unwinding", "cleanup_unref"})

(* A waiter that a grant pass would leave where it is                      *)
Blocked(q, i) == \/ ~__inodelk_grantable(q[i])
                 \/ \E j \in 1 .. (i - 1) : inodelk_conflict(q[i], q[j])

Settled(d) ==
  \A i \in DOMAIN blocked_inodelks[d] : Blocked(blocked_inodelks[d], i)

Passes(t, d) == pc[t] = "granting" /\ arg[t].dom = d

(* As long as a pass rebuilds a queue, what it has put back is settled     *)
Wakes(d) == \/ Settled(d)
            \/ /\ \E t \in Thread : Due(t, d)
               /\ \A t \in Thread : ~Passes(t, d)

WakeInv == /\ HoldInv
           /\ \A t \in Thread : ClearOK(t)
           /\ \A d \in Domain : Wakes(d)

LEMMA InitWakeInv == Init => WakeInv
<1> SUFFICES ASSUME Init PROVE WakeInv
  OBVIOUS
<1>1. HoldInv BY InitHoldInv
<1>2. ASSUME NEW t \in Thread PROVE ClearOK(t)
  <2>1. /\ pc[t] = "idle" /\ clr[t] = NoClr /\ arg[t] = NoArg
        /\ released[t] = {}
    BY DEF Init
  <2>2. NoClr.kind = {} /\ NoArg.lock \notin Lock
    BY LockAssumption DEF NoClr, NoArg, Arg
  <2> QED BY <2>1, <2>2 DEF ClearOK, ClrPC
<1>3. ASSUME NEW d \in Domain PROVE Wakes(d)
  <2>1. blocked_inodelks[d] = <<>> BY DEF Init
  <2>2. DOMAIN blocked_inodelks[d] = {} BY <2>1, SMT
  <2> QED BY <2>2 DEF Wakes, Settled
<1> QED BY <1>1, <1>2, <1>3 DEF WakeInv

(* The locks for which thread t is still to run a pass, but for the one    *)
(* whose pass it has run                                                   *)
Hand(t) == released[t] \cup (unwind[t] \ granted[t])

Spent(t, l) == arg[t].lock = l /\ pc[t] \in {"unwinding", "cleanup_unref"}

LEMMA DueIs ==
  ASSUME NEW t, NEW d
  PROVE  Due(t, d) <=>
           \/ /\ arg[t].dom = d
              /\ \/ pc[t] \in {"grant", "granting"}
                 \/ clr[t].kind # {} /\ pc[t] # "unwinding"
           \/ \E l \in Hand(t) : dom(l) = d /\ ~Spent(t, l)
BY DEF Due, Hand, Spent

LEMMA CallHere ==
  ASSUME RunOK, NEW t \in Thread, NEW f, NEW r, NEW a, Call(t, f, r, a)
  PROVE  pc'[t] = f /\ ret'[t] = r /\ arg'[t] = a
BY DEF Call, RunOK

LEMMA GotoHere ==
  ASSUME RunOK, NEW t \in Thread, NEW label, Goto(t, label)
  PROVE  pc'[t] = label /\ ret'[t] = ret[t] /\ arg'[t] = arg[t]
BY DEF Goto, RunOK

ArgDom(t) == arg[t].lock \in Lock => arg[t].dom = dom(arg[t].lock)

LEMMA ArgDomIs ==
  ASSUME NEW t, NEW l, NEW d, NEW c, arg'[t] = Arg(l, d, c),
         l \in Lock => d = dom(l)
  PROVE  ArgDom(t)'
<1>1. arg'[t].lock = l /\ arg'[t].dom = d BY SMT DEF Arg
<1> QED BY <1>1 DEF ArgDom, dom

(* A pass that is due stays due until it has been over the queue           *)
LEMMA HandStays ==
  ASSUME TypeInv, LinksOK, NEW t \in Thread, Acts(t), ThreadOK(t), ClearOK(t),
         ArgOK(t)
  PROVE  /\ ClearOK(t)'
         /\ \A d : Due(t, d) /\ ~Passes(t, d) => Due(t, d)'
<1> DEFINE Plain == {"idle", "prune", "pruning", "setlk", "unlocked"}
           Cleaning == {"cleanup", "cleanup_unwind"}
           Pass == {"grant", "granting", "unwinding"}
           Past == {"unwinding", "cleanup_unref"}
           Stays == \A d : Due(t, d) /\ ~Passes(t, d) => Due(t, d)'
<1>0. /\ RunOK /\ PlaceOK /\ released \in [Thread -> SUBSET Lock]
      /\ unwind \in [Thread -> SUBSET Lock] /\ granted \in [Thread -> SUBSET Lock]
  BY DEF TypeInv, TypeOK, LocalsOK
<1>n. NoArg.lock \notin Lock /\ NoArg = Arg(NoLock, NoLock, NoLock)
  BY LockAssumption DEF NoArg, Arg
<1>l. NoLock \notin Lock BY LockAssumption
<1>k. NoClr.kind = {} BY DEF NoClr
(* Where a thread may be with what it has                                  *)
<1>e. ASSUME ArgDom(t)',
             \/ pc'[t] \in Plain /\ released'[t] = {} /\ clr'[t].kind = {}
             \/ pc'[t] \in Cleaning /\ clr'[t].kind = {}
             \/ pc'[t] = "cleanup_unref" /\ clr'[t].kind = {}
             \/ pc'[t] \in Pass /\ (released'[t] = {} \/ ret'[t] = "cleanup_unref")
      PROVE  ClearOK(t)'
  BY <1>e DEF ClearOK, ArgDom, ClrPC, Passing
<1>f. ASSUME ArgDom(t)', pc'[t] \in ClrPC, clr'[t].kind # {},
             \/ released'[t] = {}
             \/ /\ pc'[t] \in {"clr_granted_loop", "clr_read", "clr_write"}
                /\ \A l \in released'[t] : dom(l) = arg'[t].dom,
             pc'[t] \in {"clr_blkd_loop", "clr_unwind"}
               => \A l \in unwind'[t] : dom(l) = arg'[t].dom
      PROVE  ClearOK(t)'
  BY <1>f DEF ClearOK, ArgDom, ClrPC
<1>g. ArgDom(t) BY DEF ClearOK, ArgDom
<1>h. ASSUME pc[t] \in Plain PROVE released[t] = {} /\ clr[t].kind = {}
  BY <1>h DEF ClearOK, Passing, ClrPC
<1>i. ASSUME pc[t] \in Cleaning \cup {"cleanup_unref"} PROVE clr[t].kind = {}
  BY <1>i DEF ClearOK, ClrPC
(* Outside passes and clear-locks, what is due are the locks in hand       *)
<1>a. ASSUME pc[t] \in Plain \cup Cleaning \cup {"cleanup_unref"},
             pc'[t] \notin Past,
             \A l \in Hand(t) : ~Spent(t, l) => l \in Hand(t)'
      PROVE  Stays
  <2> SUFFICES ASSUME NEW d, Due(t, d) PROVE Due(t, d)'
    OBVIOUS
  <2>1. clr[t].kind = {} /\ pc[t] \notin {"grant", "granting"}
    BY <1>a, <1>h, <1>i
  <2>2. PICK l \in Hand(t) : dom(l) = d /\ ~Spent(t, l) BY <2>1, DueIs
  <2>3. l \in Hand(t)' /\ ~Spent(t, l)' BY <1>a, <2>2 DEF Spent
  <2> QED BY <2>2, <2>3 DEF Due, Hand, Spent
<1>b. ASSUME UNCHANGED <<released, unwind, granted>>
      PROVE  \A l \in Hand(t) : l \in Hand(t)'
  BY <1>b DEF Hand
(* A clear-locks command is to run a pass over the domain it clears        *)
<1>c. ASSUME pc[t] \in ClrPC, pc'[t] \in ClrPC \cup {"grant"},
             arg'[t] = arg[t], clr'[t] = clr[t],
             \A l \in Hand(t) : dom(l) # arg[t].dom => l \in Hand(t)'
      PROVE  Stays
  <2> SUFFICES ASSUME NEW d, Due(t, d) PROVE Due(t, d)'
    OBVIOUS
  <2>1. clr[t].kind # {} /\ pc'[t] # "unwinding" /\ pc'[t] \notin Past
    BY <1>c DEF ClearOK, ClrPC
  <2>2. CASE arg[t].dom = d BY <1>c, <2>1, <2>2 DEF Due
  <2>3. CASE arg[t].dom # d
    <3>1. PICK l \in Hand(t) : dom(l) = d /\ ~Spent(t, l) BY <2>3, DueIs
    <3>2. l \in Hand(t)' /\ ~Spent(t, l)' BY <1>c, <2>1, <2>3, <3>1 DEF Spent
    <3> QED BY <3>1, <3>2 DEF Due, Hand, Spent
  <2> QED BY <2>2, <2>3
(* What a pass over another domain leaves in hand                          *)
<1>d. ASSUME pc[t] \in Pass, UNCHANGED <<clr, released>>, arg'[t] = arg[t],
             pc'[t] = pc[t] \/ (pc[t] = "grant" /\ pc'[t] = "granting")
               \/ (pc[t] = "granting" /\ pc'[t] = "unwinding")
      PROVE  Stays
  <2> SUFFICES ASSUME NEW d, Due(t, d), ~Passes(t, d) PROVE Due(t, d)'
    OBVIOUS
  <2>1. pc[t] = "grant" => unwind[t] = {} BY DEF ThreadOK
  <2>2. pc[t] # "grant" => unwind[t] \subseteq granted[t] BY <1>d DEF ThreadOK
  <2>3. Hand(t) = released[t] BY <2>1, <2>2 DEF Hand
  <2>4. CASE arg[t].dom = d /\ pc[t] = "grant"
    <3>1. pc'[t] \in {"grant", "granting"} BY <1>d, <2>4
    <3> QED BY <1>d, <2>4, <3>1 DEF Due
  <2>5. CASE ~(arg[t].dom = d /\ pc[t] = "grant")
    <3>1. CASE arg[t].dom = d /\ pc[t] = "unwinding"
      <4>1. PICK l \in Hand(t) : dom(l) = d /\ ~Spent(t, l) BY <3>1, DueIs
      <4>2. ~Spent(t, l)' BY <1>d, <3>1, <4>1 DEF Spent
      <4>3. l \in released'[t] BY <1>d, <2>3, <4>1
      <4> QED BY <4>1, <4>2, <4>3 DEF Due, Spent
    <3>2. CASE arg[t].dom # d
      <4>1. PICK l \in Hand(t) : dom(l) = d /\ ~Spent(t, l) BY <3>2, DueIs
      <4>2. l \in Lock /\ l \in released'[t] BY <1>0, <1>d, <2>3, <4>1
      <4>3. arg[t].lock # l BY <1>g, <3>2, <4>1, <4>2 DEF ArgDom
      <4> QED BY <1>d, <4>1, <4>2, <4>3 DEF Due
    <3> QED BY <1>d, <2>5, <3>1, <3>2 DEF Passes
  <2> QED BY <2>4, <2>5
<1>1. ASSUME NEW k \in Lock, Request(t, k) PROVE ClearOK(t)' /\ Stays
  <2>1. /\ pc[t] = "idle" /\ UNCHANGED <<released, unwind, granted, clr>>
        /\ Call(t, IF Revocation THEN "prune" ELSE "setlk", "idle",
                Arg(k, dom(k), attr[k].client))
    BY <1>1 DEF Request, locals
  <2>2. pc'[t] \in {"prune", "setlk"} /\ arg'[t] = Arg(k, dom(k), attr[k].client)
    BY <1>0, <2>1, CallHere
  <2>3. ArgDom(t)' BY <2>2, ArgDomIs
  <2> QED BY <1>a, <1>b, <1>e, <1>h, <2>1, <2>2, <2>3
<1>2. ASSUME NEW k \in Lock, Unlock(t, k) PROVE ClearOK(t)' /\ Stays
  <2>1. /\ pc[t] = "idle" /\ UNCHANGED <<released, unwind, granted, clr>>
        /\ Call(t, "grant", "unlocked", Arg(NoLock, dom(k), attr[k].client))
    BY <1>2 DEF Unlock, locals
  <2>2. pc'[t] = "grant" /\ arg'[t] = Arg(NoLock, dom(k), attr[k].client)
    BY <1>0, <2>1, CallHere
  <2>3. ArgDom(t)' BY <1>l, <2>2, ArgDomIs
  <2> QED BY <1>a, <1>b, <1>e, <1>h, <2>1, <2>2, <2>3
<1>3. CASE PruneCheck(t) \/ PruneNothing(t)
  <2>1. /\ pc[t] \in {"prune", "pruning"}
        /\ UNCHANGED <<released, unwind, granted, clr>>
        /\ \E label \in {"setlk", "pruning"} : Goto(t, label)
    BY <1>3 DEF PruneCheck, PruneNothing, locals
  <2>2. pc'[t] \in {"setlk", "pruning"} /\ arg'[t] = arg[t]
    BY <1>0, <2>1, GotoHere
  <2>3. ArgDom(t)' BY <1>g, <2>2 DEF ArgDom
  <2> QED BY <1>a, <1>b, <1>e, <1>h, <2>1, <2>2, <2>3
<1>4. CASE PruneRevoke(t)
  <2>1. PICK kind \in {{"blocked", "granted"}, {"granted"}} :
          /\ Call(t, ClrStart(kind), "setlk", arg[t])
          /\ clr' = [clr EXCEPT ![t] = [kind |-> kind, range |-> Lock]]
    BY <1>4 DEF PruneRevoke
  <2>2. pc[t] = "pruning" /\ UNCHANGED <<released, unwind, granted>>
    BY <1>4 DEF PruneRevoke, locals
  <2>3. pc'[t] = ClrStart(kind) /\ arg'[t] = arg[t] BY <1>0, <2>1, CallHere
  <2>4. pc'[t] \in {"clr_blkd", "clr_granted"} BY <2>3 DEF ClrStart
  <2>5. clr'[t] = [kind |-> kind, range |-> Lock] BY <1>0, <2>1 DEF RunOK
  <2>6. clr'[t].kind = kind /\ kind # {} BY <2>5, SMT
  <2>7. ArgDom(t)' BY <1>g, <2>3 DEF ArgDom
  <2>8. ClearOK(t)' BY <1>f, <1>h, <2>2, <2>4, <2>6, <2>7 DEF ClrPC
  <2> QED BY <1>a, <1>b, <2>2, <2>4, <2>8
<1>5. CASE SetlkGrant(t) \/ SetlkBlock(t) \/ SetlkEagain(t) \/ UnlockReturn(t)
  <2>1. /\ pc[t] \in {"setlk", "unlocked"}
        /\ UNCHANGED <<released, unwind, granted, clr>> /\ Return(t)
    BY <1>5 DEF SetlkGrant, SetlkBlock, SetlkEagain, UnlockReturn, locals
  <2>2. pc'[t] = "idle" /\ arg'[t] = NoArg BY <1>0, <2>1, CallHere DEF Return
  <2>3. ArgDom(t)' BY <1>n, <2>2 DEF ArgDom
  <2> QED BY <1>a, <1>b, <1>e, <1>h, <2>1, <2>2, <2>3
<1>6. CASE GrantEnter(t) \/ GrantOne(t) \/ GrantRequeue(t) \/ GrantLeave(t)
             \/ GrantUnwind(t)
  <2>1. pc[t] \in Pass /\ UNCHANGED <<clr, released>>
    BY <1>6 DEF GrantEnter, GrantOne, GrantRequeue, GrantLeave, GrantUnwind, run,
       locals
  <2>2. \/ UNCHANGED <<pc, arg, ret>>
        \/ pc[t] = "grant" /\ Goto(t, "granting")
        \/ pc[t] = "granting" /\ Goto(t, "unwinding")
    BY <1>6 DEF GrantEnter, GrantOne, GrantRequeue, GrantLeave, GrantUnwind, run
  <2>3. /\ arg'[t] = arg[t] /\ ret'[t] = ret[t]
        /\ pc'[t] = pc[t] \/ (pc[t] = "grant" /\ pc'[t] = "granting")
             \/ (pc[t] = "granting" /\ pc'[t] = "unwinding")
    BY <1>0, <2>2, GotoHere
  <2>4. ArgDom(t)' BY <1>g, <2>3 DEF ArgDom
  <2>5. released[t] = {} \/ ret[t] = "cleanup_unref"
    BY <2>1 DEF ClearOK, Passing
  <2>6. pc'[t] \in Pass BY <2>1, <2>3
  <2>7. ClearOK(t)' BY <1>e, <2>1, <2>3, <2>4, <2>5, <2>6
  <2> QED BY <1>d, <2>1, <2>3, <2>7
<1>7. CASE GrantUnref(t)
  <2>1. /\ pc[t] = "unwinding" /\ unwind[t] = {} /\ UNCHANGED released
        /\ clr' = [clr EXCEPT ![t] = NoClr]
        /\ IF ret[t] = "idle" THEN Return(t) ELSE Goto(t, ret[t])
    BY <1>7 DEF GrantUnref
  <2>2. clr'[t].kind = {} BY <1>0, <1>k, <2>1 DEF RunOK
  <2>3. ret[t] \in {"idle", "setlk", "unlocked", "cleanup_unref"}
    BY <1>0 DEF RunOK
  <2>4. /\ pc'[t] = ret[t]
        /\ arg'[t] = arg[t] \/ arg'[t] = NoArg
    <3>1. CASE ret[t] = "idle"
      <4>1. Call(t, "idle", "idle", NoArg) BY <2>1, <3>1 DEF Return
      <4> QED BY <1>0, <3>1, <4>1, CallHere
    <3>2. CASE ret[t] # "idle"
      <4>1. Goto(t, ret[t]) BY <2>1, <3>2
      <4> QED BY <1>0, <4>1, GotoHere
    <3> QED BY <3>1, <3>2
  <2>5. ArgDom(t)' BY <1>g, <1>n, <2>4 DEF ArgDom
  <2>6. released[t] = {} \/ ret[t] = "cleanup_unref"
    BY <2>1 DEF ClearOK, Passing
  <2>7. ClearOK(t)' BY <1>e, <2>1, <2>2, <2>3, <2>4, <2>5, <2>6
  <2>8. ASSUME NEW d, Due(t, d) PROVE Due(t, d)'
    <3>1. PICK l \in Hand(t) : dom(l) = d /\ ~Spent(t, l) BY <2>1, <2>8, DueIs
    <3>2. l \in released'[t] /\ l \in Lock BY <1>0, <2>1, <3>1 DEF Hand
    <3>3. arg'[t].lock # l BY <1>n, <2>1, <2>4, <3>1, <3>2 DEF Spent
    <3> QED BY <3>1, <3>2, <3>3 DEF Due
  <2> QED BY <2>7, <2>8
<1>8. CASE CleanupOne(t)
  <2>1. /\ pc[t] = "cleanup" /\ UNCHANGED <<pc, arg, clr, granted>>
        /\ UNCHANGED released
             \/ \E l : released' = [released EXCEPT ![t] = @ \cup {l}]
        /\ UNCHANGED unwind
             \/ \E l : unwind' = [unwind EXCEPT ![t] = @ \cup {l}]
    BY <1>8 DEF CleanupOne, run
  <2>2. released[t] \subseteq released'[t] /\ unwind[t] \subseteq unwind'[t]
    BY <1>0, <2>1
  <2>3. \A l \in Hand(t) : l \in Hand(t)' BY <2>1, <2>2 DEF Hand
  <2>4. ArgDom(t)' BY <1>g, <2>1 DEF ArgDom
  <2> QED BY <1>a, <1>e, <1>i, <2>1, <2>3, <2>4
<1>9. CASE CleanupLeave(t)
  <2>1. /\ pc[t] = "cleanup" /\ Goto(t, "cleanup_unwind")
        /\ UNCHANGED <<released, unwind, granted, clr>>
    BY <1>9 DEF CleanupLeave, locals
  <2>2. pc'[t] = "cleanup_unwind" /\ arg'[t] = arg[t] BY <1>0, <2>1, GotoHere
  <2>3. ArgDom(t)' BY <1>g, <2>2 DEF ArgDom
  <2> QED BY <1>a, <1>b, <1>e, <1>i, <2>1, <2>2, <2>3
<1>10. CASE CleanupGrant(t)
  <2>1. /\ pc[t] = "cleanup_unwind" /\ UNCHANGED <<released, unwind, granted, clr>>
        /\ \E l \in released[t] :
             Call(t, "grant", "cleanup_unref", Arg(l, dom(l), arg[t].client))
    BY <1>10 DEF CleanupGrant, locals
  <2>2. PICK l : Call(t, "grant", "cleanup_unref", Arg(l, dom(l), arg[t].client))
    BY <2>1
  <2>3. /\ pc'[t] = "grant" /\ ret'[t] = "cleanup_unref"
        /\ arg'[t] = Arg(l, dom(l), arg[t].client)
    BY <1>0, <2>2, CallHere
  <2>4. ArgDom(t)' BY <2>3, ArgDomIs
  <2> QED BY <1>a, <1>b, <1>e, <2>1, <2>3, <2>4
<1>11. CASE CleanupReturn(t)
  <2>1. /\ pc[t] = "cleanup_unwind" /\ UNCHANGED <<released, unwind, granted, clr>>
        /\ released[t] = {} /\ Return(t)
    BY <1>11 DEF CleanupReturn, locals
  <2>2. pc'[t] = "idle" /\ arg'[t] = NoArg BY <1>0, <2>1, CallHere DEF Return
  <2>3. ArgDom(t)' BY <1>n, <2>2 DEF ArgDom
  <2> QED BY <1>a, <1>b, <1>e, <1>i, <2>1, <2>2, <2>3
<1>12. CASE CleanupUnwind(t)
  <2>1. PICK k : /\ unwind' = [unwind EXCEPT ![t] = @ \ {k}]
                 /\ released' = [released EXCEPT ![t] = @ \cup {k}]
    BY <1>12 DEF CleanupUnwind
  <2>2. pc[t] = "cleanup_unwind" /\ UNCHANGED <<pc, arg, clr, granted>>
    BY <1>12 DEF CleanupUnwind, run
  <2>3. unwind'[t] = unwind[t] \ {k} /\ released'[t] = released[t] \cup {k}
    BY <1>0, <2>1
  <2>4. \A l \in Hand(t) : l \in Hand(t)' BY <2>2, <2>3 DEF Hand
  <2>5. ArgDom(t)' BY <1>g, <2>2 DEF ArgDom
  <2> QED BY <1>a, <1>e, <1>i, <2>2, <2>4, <2>5
<1>13. CASE CleanupUnref(t)
  <2>1. /\ pc[t] = "cleanup_unref" /\ UNCHANGED <<unwind, granted, clr>>
        /\ Call(t, "cleanup_unwind", "idle", Arg(NoLock, NoLock, arg[t].client))
        /\ released' = [released EXCEPT ![t] = @ \ {arg[t].lock}]
    BY <1>13 DEF CleanupUnref
  <2>2. /\ pc'[t] = "cleanup_unwind"
        /\ arg'[t] = Arg(NoLock, NoLock, arg[t].client)
    BY <1>0, <2>1, CallHere
  <2>3. released'[t] = released[t] \ {arg[t].lock} BY <1>0, <2>1
  <2>4. \A l \in Hand(t) : ~Spent(t, l) => l \in Hand(t)'
    BY <2>1, <2>3 DEF Hand, Spent
  <2>5. ArgDom(t)' BY <1>l, <2>2, ArgDomIs
  <2> QED BY <1>a, <1>e, <1>i, <2>1, <2>2, <2>4, <2>5
<1>14. ASSUME NEW c \in Client, NEW state, Cleanup(t, c, state)
       PROVE  ClearOK(t)' /\ Stays
  <2>1. /\ pc[t] = "idle" /\ UNCHANGED <<released, unwind, granted, clr>>
        /\ Call(t, "cleanup", "idle", Arg(NoLock, NoLock, c))
    BY <1>14 DEF Cleanup
  <2>2. pc'[t] = "cleanup" /\ arg'[t] = Arg(NoLock, NoLock, c)
    BY <1>0, <2>1, CallHere
  <2>3. ArgDom(t)' BY <1>l, <2>2, ArgDomIs
  <2> QED BY <1>a, <1>b, <1>e, <1>h, <2>1, <2>2, <2>3
<1>15. ASSUME NEW b \in Domain, NEW kind \in ClearLocks, NEW range,
              Clrlk(t, b, kind, range)
       PROVE  ClearOK(t)' /\ Stays
  <2>1. /\ pc[t] = "idle" /\ UNCHANGED <<released, unwind, granted>>
        /\ Call(t, ClrStart(kind), "idle", Arg(NoLock, b, NoLock))
        /\ clr' = [clr EXCEPT ![t] = [kind |-> kind, range |-> range]]
    BY <1>15 DEF Clrlk, locals
  <2>2. pc'[t] = ClrStart(kind) /\ arg'[t] = Arg(NoLock, b, NoLock)
    BY <1>0, <2>1, CallHere
  <2>3. pc'[t] \in {"clr_blkd", "clr_granted"} BY <2>2 DEF ClrStart
  <2>4. clr'[t] = [kind |-> kind, range |-> range] BY <1>0, <2>1 DEF RunOK
  <2>5. clr'[t].kind = kind /\ kind # {} BY <2>4, LockAssumption, SMT
  <2>6. ArgDom(t)' BY <1>l, <2>2, ArgDomIs
  <2>7. ClearOK(t)' BY <1>f, <1>h, <2>1, <2>3, <2>5, <2>6 DEF ClrPC
  <2> QED BY <1>a, <1>b, <2>1, <2>3, <2>7
(* In a clear-locks command, with the locals as they are                   *)
<1>j. ASSUME pc[t] \in ClrPC, NEW label \in ClrPC \cup {"grant"}, Goto(t, label),
             UNCHANGED <<released, unwind, granted, clr>>,
             \/ released[t] = {}
             \/ /\ label \in {"clr_granted_loop", "clr_read", "clr_write"}
                /\ pc[t] \in {"clr_granted_loop", "clr_read", "clr_write"},
             label \in {"clr_blkd_loop", "clr_unwind"}
               => unwind[t] = {} \/ pc[t] \in {"clr_blkd_loop", "clr_unwind"}
      PROVE  ClearOK(t)' /\ Stays
  <2>1. pc'[t] = label /\ arg'[t] = arg[t] BY <1>0, <1>j, GotoHere
  <2>2. ArgDom(t)' BY <1>g, <2>1 DEF ArgDom
  <2>3. Stays BY <1>b, <1>c, <1>j, <2>1
  <2>4. clr[t].kind # {} BY <1>j DEF ClearOK
  <2>5. pc[t] \in {"clr_granted_loop", "clr_read", "clr_write"}
          => \A l \in released[t] : dom(l) = arg[t].dom
    BY DEF ClearOK
  <2>6. pc[t] \in {"clr_blkd_loop", "clr_unwind"}
          => \A l \in unwind[t] : dom(l) = arg[t].dom
    BY DEF ClearOK
  <2>7. CASE label = "grant"
    <3>1. released'[t] = {} BY <1>j, <2>7
    <3> QED BY <1>e, <2>1, <2>2, <2>3, <2>7, <3>1
  <2>8. CASE label \in ClrPC
    BY <1>f, <1>j, <2>1, <2>2, <2>3, <2>4, <2>5, <2>6, <2>8
  <2> QED BY <1>j, <2>7, <2>8
<1>m. ASSUME pc[t] \in {"clr_blkd", "clr_blkd_loop", "clr_unwind", "clr_granted"}
      PROVE  released[t] = {}
  BY <1>m DEF ClearOK, Passing
<1>16. CASE ClrEnter(t)
  <2>1. /\ UNCHANGED <<released, unwind, granted, clr>>
        /\ \/ pc[t] = "clr_blkd" /\ Goto(t, "clr_blkd_loop")
           \/ pc[t] = "clr_granted" /\ Goto(t, "clr_granted_loop")
    BY <1>16 DEF ClrEnter, locals
  <2>2. pc[t] = "clr_blkd" => unwind[t] = {} BY DEF ThreadOK
  <2> QED BY <1>j, <1>m, <2>1, <2>2 DEF ClrPC
<1>17. CASE ClrBlockedLeave(t)
  <2>1. /\ UNCHANGED <<released, unwind, granted, clr>>
        /\ pc[t] = "clr_blkd_loop" /\ Goto(t, "clr_unwind")
    BY <1>17 DEF ClrBlockedLeave, locals
  <2> QED BY <1>j, <1>m, <2>1 DEF ClrPC
<1>18. CASE ClrUnwound(t)
  <2>1. /\ UNCHANGED <<released, unwind, granted, clr>> /\ pc[t] = "clr_unwind"
        /\ Goto(t, "clr_granted") \/ Goto(t, "grant")
    BY <1>18 DEF ClrUnwound, locals
  <2> QED BY <1>j, <1>m, <2>1 DEF ClrPC
<1>19. CASE ClrGrantedLeave(t) \/ ClrRead(t) \/ ClrReleased(t)
  <2>1. /\ UNCHANGED <<released, unwind, granted, clr>>
        /\ \/ pc[t] = "clr_granted_loop" /\ Goto(t, "clr_read")
           \/ pc[t] = "clr_read" /\ Goto(t, "clr_write")
           \/ pc[t] = "clr_read" /\ released[t] = {} /\ Goto(t, "grant")
    BY <1>19 DEF ClrGrantedLeave, ClrRead, ClrReleased, locals
  <2> QED BY <1>j, <2>1 DEF ClrPC
<1>20. CASE ClrBlocked(t)
  <2>1. /\ pc[t] = "clr_blkd_loop"
        /\ UNCHANGED <<pc, arg, clr, granted, released>>
        /\ \E i \in DOMAIN blocked_inodelks[arg[t].dom] :
             unwind' = [unwind EXCEPT ![t] =
                          @ \cup {blocked_inodelks[arg[t].dom][i]}]
    BY <1>20 DEF ClrBlocked, run
  <2>2. PICK l \in Elems(blocked_inodelks[arg[t].dom]) :
          unwind' = [unwind EXCEPT ![t] = @ \cup {l}]
    BY <2>1 DEF Elems
  <2>3. arg[t].dom \in Domain BY <1>0, <2>1 DEF PlaceOK, ClrPC
  <2>4. dom(l) = arg[t].dom BY <2>2, <2>3 DEF LinksOK
  <2>5. unwind'[t] = unwind[t] \cup {l} BY <1>0, <2>2
  <2>6. \A x \in Hand(t) : x \in Hand(t)' BY <2>1, <2>5 DEF Hand
  <2>7. \A x \in unwind'[t] : dom(x) = arg[t].dom
    BY <2>1, <2>4, <2>5 DEF ClearOK
  <2>8. ArgDom(t)' /\ clr[t].kind # {} BY <1>g, <2>1 DEF ArgDom, ClearOK, ClrPC
  <2>9. ClearOK(t)' BY <1>f, <1>m, <2>1, <2>7, <2>8 DEF ClrPC
  <2> QED BY <1>c, <2>1, <2>6, <2>9 DEF ClrPC
<1>21. CASE ClrGranted(t)
  <2>1. /\ pc[t] = "clr_granted_loop"
        /\ UNCHANGED <<pc, arg, clr, granted, unwind>>
        /\ \E l \in Granted(arg[t].dom) :
             released' = [released EXCEPT ![t] = @ \cup {l}]
    BY <1>21 DEF ClrGranted, run
  <2>2. PICK l \in Granted(arg[t].dom) :
          released' = [released EXCEPT ![t] = @ \cup {l}]
    BY <2>1
  <2>3. dom(l) = arg[t].dom BY <2>2 DEF Granted
  <2>4. released'[t] = released[t] \cup {l} BY <1>0, <2>2
  <2>5. \A x \in Hand(t) : x \in Hand(t)' BY <2>1, <2>4 DEF Hand
  <2>6. \A x \in released'[t] : dom(x) = arg[t].dom
    BY <2>1, <2>3, <2>4 DEF ClearOK
  <2>7. ArgDom(t)' /\ clr[t].kind # {} BY <1>g, <2>1 DEF ArgDom, ClearOK, ClrPC
  <2>8. ClearOK(t)' BY <1>f, <2>1, <2>6, <2>7 DEF ClrPC
  <2> QED BY <1>c, <2>1, <2>5, <2>8 DEF ClrPC
<1>22. CASE ClrUnwind(t)
  <2>1. /\ pc[t] = "clr_unwind" /\ UNCHANGED <<pc, arg, clr, granted, released>>
        /\ \E k \in unwind[t] : unwind' = [unwind EXCEPT ![t] = @ \ {k}]
    BY <1>22 DEF ClrUnwind, run
  <2>2. PICK k \in unwind[t] : unwind' = [unwind EXCEPT ![t] = @ \ {k}] BY <2>1
  <2>3. unwind'[t] = unwind[t] \ {k} BY <1>0, <2>2
  <2>4. \A l \in unwind[t] : dom(l) = arg[t].dom BY <2>1 DEF ClearOK
  <2>5. \A l \in Hand(t) : dom(l) # arg[t].dom => l \in Hand(t)'
    BY <2>1, <2>2, <2>3, <2>4 DEF Hand
  <2>6. ArgDom(t)' /\ clr[t].kind # {} BY <1>g, <2>1 DEF ArgDom, ClearOK, ClrPC
  <2>7. ClearOK(t)' BY <1>f, <1>m, <2>1, <2>3, <2>4, <2>6 DEF ClrPC
  <2> QED BY <1>c, <2>1, <2>5, <2>7 DEF ClrPC
<1>23. CASE ClrWrite(t)
  <2>1. /\ pc[t] = "clr_write" /\ Goto(t, "clr_read")
        /\ UNCHANGED <<clr, granted, unwind>>
        /\ released' = [released EXCEPT ![t] = @ \ {cursor[t]}]
    BY <1>23 DEF ClrWrite
  <2>2. pc'[t] = "clr_read" /\ arg'[t] = arg[t] BY <1>0, <2>1, GotoHere
  <2>3. released'[t] = released[t] \ {cursor[t]} BY <1>0, <2>1
  <2>4. \A l \in released[t] : dom(l) = arg[t].dom BY <2>1 DEF ClearOK
  <2>5. \A l \in Hand(t) : dom(l) # arg[t].dom => l \in Hand(t)'
    BY <2>1, <2>3, <2>4 DEF Hand
  <2>6. ArgDom(t)' BY <1>g, <2>2 DEF ArgDom
  <2>7. clr[t].kind # {} BY <2>1 DEF ClearOK, ClrPC
  <2>8. ClearOK(t)' BY <1>f, <2>1, <2>2, <2>3, <2>4, <2>6, <2>7 DEF ClrPC
  <2> QED BY <1>c, <2>1, <2>2, <2>5, <2>8 DEF ClrPC
<1> QED
  BY <1>1, <1>2, <1>3, <1>4, <1>5, <1>6, <1>7, <1>8, <1>9, <1>10, <1>11, <1>12,
     <1>13, <1>14, <1>15, <1>16, <1>17, <1>18, <1>19, <1>20, <1>21, <1>22, <1>23
  DEF Acts, Continue, SetlkStep, GrantStep, CleanupStep, ClrStep, Disconnect,
     Destroy

LEMMA SettledStays ==
  ASSUME WakeInv, NEW d \in Domain, Settled(d),
         blocked_inodelks'[d] = blocked_inodelks[d],
         \A g \in inodelk_list : dom(g) = d => g \in inodelk_list'
  PROVE  Settled(d)'
<1> DEFINE q == blocked_inodelks[d]
<1>1. \A l \in Elems(q) : dom(l) = d BY DEF WakeInv, HoldInv, LifeInv, LinksOK
<1>2. blocked_inodelks'[d] = q OBVIOUS
<1> SUFFICES ASSUME NEW i \in DOMAIN q PROVE Blocked(q, i)'
  BY <1>2 DEF Settled, Blocked
<1>3. Blocked(q, i) /\ q[i] \in Elems(q) BY DEF Settled, Elems
<1>4. dom(q[i]) = d BY <1>1, <1>3
<1>5. ~__inodelk_grantable(q[i]) => ~__inodelk_grantable(q[i])'
  BY <1>4 DEF __inodelk_grantable
<1> QED BY <1>2, <1>3, <1>5 DEF Blocked

(* A lock that __lock_inodelk refuses is settled at the end of the queue   *)
LEMMA SettledAppend ==
  ASSUME WakeInv, NEW l \in Lock, ~CanLock(l), Settled(dom(l)),
         UNCHANGED inodelk_list,
         blocked_inodelks' = [blocked_inodelks EXCEPT ![dom(l)] = Append(@, l)]
  PROVE  Settled(dom(l))'
<1>1. dom(l) \in Domain /\ blocked_inodelks \in [Domain -> Seq(Lock)]
  BY FieldTypes DEF WakeInv, HoldInv, LifeInv, TypeInv, TypeOK, ListsOK
<1>q. PICK q : q = blocked_inodelks[dom(l)] OBVIOUS
<1>r. PICK r : r = Append(q, l) OBVIOUS
<1>2. q \in Seq(Lock) /\ blocked_inodelks'[dom(l)] = r BY <1>1, <1>q, <1>r
<1>3. /\ Len(q) \in Nat /\ DOMAIN q = 1 .. Len(q) /\ DOMAIN r = 1 .. (Len(q) + 1)
      /\ r[Len(q) + 1] = l
      /\ \A i \in 1 .. Len(q) : r[i] = q[i]
  BY <1>2, <1>r, AppendIs, LenIs, SMT
<1>5. \A i \in DOMAIN q : Blocked(q, i) BY <1>q DEF Settled
<1>6. ~__inodelk_grantable(l) \/ \E j \in 1 .. Len(q) : inodelk_conflict(l, q[j])
  BY <1>3, <1>q DEF CanLock, __blocked_lock_conflict, Elems
<1>7. \A k : __inodelk_grantable(k)' <=> __inodelk_grantable(k)
  BY DEF __inodelk_grantable
<1>4. SUFFICES ASSUME NEW i \in DOMAIN r PROVE Blocked(r, i)
  BY <1>2, <1>7 DEF Settled, Blocked
<1>8. CASE i = Len(q) + 1
  <2>1. i - 1 = Len(q) BY <1>3, <1>8, SMT
  <2>2. ASSUME NEW j \in 1 .. Len(q) PROVE r[j] = q[j] BY <1>3
  <2> QED BY <1>3, <1>6, <1>8, <2>1, <2>2 DEF Blocked
<1>9. CASE i # Len(q) + 1
  <2>1. i \in 1 .. Len(q) /\ \A j \in 1 .. (i - 1) : j \in 1 .. Len(q)
    BY <1>3, <1>9, SMT
  <2>2. r[i] = q[i] /\ Blocked(q, i) BY <1>3, <1>5, <2>1
  <2>3. \A j \in 1 .. (i - 1) : r[j] = q[j] BY <1>3, <2>1
  <2> QED BY <2>2, <2>3 DEF Blocked
<1> QED BY <1>8, <1>9

(* What a clear-locks command clears is known to its thread only           *)
LEMMA OthersClear ==
  ASSUME TypeOK, NEW t \in Thread, Acts(t), NEW u \in Thread, u # t
  PROVE  clr'[u] = clr[u]
<1> USE DEF TypeOK, RunOK
<1>1. \/ UNCHANGED clr
      \/ \E x : clr' = [clr EXCEPT ![t] = x]
  <2>1. ASSUME NEW k \in Lock, Request(t, k) \/ Unlock(t, k)
        PROVE  UNCHANGED clr
    BY <2>1 DEF Request, Unlock
  <2>2. ASSUME NEW c \in Client, Disconnect(t, c) \/ Destroy(t, c)
        PROVE  UNCHANGED clr
    BY <2>2 DEF Disconnect, Destroy, Cleanup
  <2>3. ASSUME NEW d \in Domain, NEW kind \in ClearLocks, NEW range \in ClrRanges,
               Clrlk(t, d, kind, range)
        PROVE  \E x : clr' = [clr EXCEPT ![t] = x]
    BY <2>3 DEF Clrlk
  <2>4. CASE SetlkStep(t)
    BY <2>4 DEF SetlkStep, PruneCheck, PruneNothing, PruneRevoke, SetlkGrant,
       SetlkBlock, SetlkEagain, UnlockReturn
  <2>5. CASE GrantStep(t)
    BY <2>5 DEF GrantStep, GrantEnter, GrantOne, GrantRequeue, GrantLeave,
       GrantUnwind, GrantUnref, run
  <2>6. CASE CleanupStep(t)
    BY <2>6 DEF CleanupStep, CleanupOne, CleanupLeave, CleanupUnwind,
       CleanupGrant, CleanupUnref, CleanupReturn, run
  <2>7. CASE ClrStep(t)
    BY <2>7 DEF ClrStep, ClrEnter, ClrBlocked, ClrBlockedLeave, ClrUnwind,
       ClrUnwound, ClrGranted, ClrGrantedLeave, ClrRead, ClrWrite, ClrReleased,
       run
  <2> QED BY <2>1, <2>2, <2>3, <2>4, <2>5, <2>6, <2>7 DEF Acts, Continue
<1> QED BY <1>1

(* The others are no nearer to their passes                                *)
LEMMA OthersDue ==
  ASSUME TypeOK, NEW t \in Thread, Acts(t), NEW u \in Thread, u # t, NEW d
  PROVE  (Due(u, d)' <=> Due(u, d)) /\ (Passes(u, d)' <=> Passes(u, d))
<1>1. Elsewhere(t) BY OthersStay
<1>2. clr'[u] = clr[u] BY OthersClear
<1>3. /\ pc'[u] = pc[u] /\ arg'[u] = arg[u] /\ granted'[u] = granted[u]
      /\ unwind'[u] = unwind[u] /\ released'[u] = released[u]
  BY <1>1 DEF Elsewhere
<1> QED BY <1>2, <1>3 DEF Due, Passes

(* A step that leaves a settled queue settled                              *)
LEMMA WakesStay ==
  ASSUME WakeInv, NEW t \in Thread, Acts(t), NEW d \in Domain,
         Settled(d) => Settled(d)', Passes(t, d)' => Passes(t, d)
  PROVE  Wakes(d)'
<1>1. /\ TypeInv /\ TypeOK /\ LinksOK /\ ThreadOK(t) /\ ClearOK(t)
      /\ ArgOK(t) /\ Wakes(d)
  BY DEF WakeInv, HoldInv, LifeInv, TypeInv
<1>2. CASE Settled(d) BY <1>2 DEF Wakes
<1>3. CASE ~Settled(d)
  <2>1. \A u \in Thread : ~Passes(u, d) BY <1>1, <1>3 DEF Wakes
  <2>2. PICK u \in Thread : Due(u, d) BY <1>1, <1>3 DEF Wakes
  <2>3. Due(u, d)'
    <3>1. CASE u = t BY <1>1, <2>1, <2>2, <3>1, HandStays
    <3>2. CASE u # t BY <1>1, <2>2, <3>2, OthersDue
    <3> QED BY <3>1, <3>2
  <2>4. ASSUME NEW v \in Thread PROVE ~Passes(v, d)'
    <3>1. CASE v = t BY <2>1, <3>1
    <3>2. CASE v # t BY <1>1, <2>1, <3>2, OthersDue
    <3> QED BY <3>1, <3>2
  <2> QED BY <2>3, <2>4 DEF Wakes
<1> QED BY <1>2, <1>3

(* A step that makes room and owes the queue a pass                        *)
LEMMA WakesDue ==
  ASSUME WakeInv, NEW t \in Thread, Acts(t), NEW d \in Domain,
         Due(t, d)', ~Passes(t, d)', mutex = NoThread \/ mutex = t
  PROVE  Wakes(d)'
<1> SUFFICES ASSUME NEW u \in Thread, u # t PROVE ~Passes(u, d)'
  BY DEF Wakes
<1>1. TypeOK /\ ThreadOK(u) BY DEF WakeInv, HoldInv, LifeInv, TypeInv
<1>2. mutex # u BY LockAssumption
<1>3. ~Passes(u, d) BY <1>1, <1>2 DEF ThreadOK, Passes
<1> QED BY <1>1, <1>3, OthersDue

LEMMA NextWakes ==
  ASSUME WakeInv, NEW t \in Thread, Acts(t), NEW d \in Domain
  PROVE  Wakes(d)'
<1>0. /\ RunOK /\ PlaceOK /\ LinksOK /\ ThreadOK(t) /\ ClearOK(t)
      /\ blocked_inodelks \in [Domain -> Seq(Lock)]
      /\ client_list \in [Client -> Seq(Lock)]
      /\ blocked_list \in [Thread -> Seq(Lock)]
  BY DEF WakeInv, HoldInv, LifeInv, TypeInv, TypeOK, ListsOK, LocalsOK
(* The queue stays and no granted lock of the domain goes                  *)
<1>a. ASSUME blocked_inodelks'[d] = blocked_inodelks[d],
             \A g \in inodelk_list : dom(g) = d => g \in inodelk_list',
             Passes(t, d)' => Passes(t, d)
      PROVE  Wakes(d)'
  <2>1. Settled(d) => Settled(d)' BY <1>a, SettledStays
  <2> QED BY <1>a, <2>1, WakesStay
<1>b. ASSUME UNCHANGED <<inodelk_list, blocked_inodelks>>,
             pc'[t] # "granting" \/ UNCHANGED <<pc, arg>>
      PROVE  Wakes(d)'
  BY <1>a, <1>b DEF Passes
<1>c. ASSUME UNCHANGED <<inodelk_list, blocked_inodelks>>, NEW label,
             Goto(t, label), label # "granting"
      PROVE  Wakes(d)'
  BY <1>0, <1>b, <1>c, GotoHere
<1>e. ASSUME UNCHANGED <<inodelk_list, blocked_inodelks>>, NEW f, NEW r, NEW a,
             Call(t, f, r, a), f # "granting"
      PROVE  Wakes(d)'
  BY <1>0, <1>b, <1>e, CallHere
<1>1. ASSUME NEW k \in Lock, Request(t, k) PROVE Wakes(d)'
  <2>1. /\ UNCHANGED <<inodelk_list, blocked_inodelks>>
        /\ \E f \in {"prune", "setlk"} :
             Call(t, f, "idle", Arg(k, dom(k), attr[k].client))
    BY <1>1 DEF Request, lists
  <2> QED BY <1>e, <2>1
<1>2. ASSUME NEW k \in Lock, Unlock(t, k) PROVE Wakes(d)'
  <2>1. /\ mutex = NoThread /\ inodelk_list' = inodelk_list \ {k}
        /\ UNCHANGED blocked_inodelks
        /\ Call(t, "grant", "unlocked", Arg(NoLock, dom(k), attr[k].client))
    BY <1>2 DEF Unlock, SetlkEnter
  <2>2. pc'[t] = "grant" /\ arg'[t] = Arg(NoLock, dom(k), attr[k].client)
    BY <1>0, <2>1, CallHere
  <2>3. ~Passes(t, d)' BY <2>2 DEF Passes
  <2>4. CASE d = dom(k)
    <3>1. arg'[t].dom = d BY <2>2, <2>4, SMT DEF Arg
    <3>2. Due(t, d)' BY <2>2, <3>1 DEF Due
    <3> QED BY <2>1, <2>3, <3>2, WakesDue
  <2>5. CASE d # dom(k) BY <1>a, <2>1, <2>3, <2>5
  <2> QED BY <2>4, <2>5
<1>3. CASE PruneCheck(t) \/ PruneNothing(t)
  <2>1. /\ UNCHANGED <<inodelk_list, blocked_inodelks>>
        /\ \E label \in {"setlk", "pruning"} : Goto(t, label)
    BY <1>3 DEF PruneCheck, PruneNothing, lists
  <2> QED BY <1>c, <2>1
<1>4. CASE PruneRevoke(t)
  <2>1. /\ UNCHANGED <<inodelk_list, blocked_inodelks>>
        /\ \E f \in {"clr_blkd", "clr_granted"} : Call(t, f, "setlk", arg[t])
    BY <1>4 DEF PruneRevoke, lists, ClrStart
  <2> QED BY <1>e, <2>1
<1>5. CASE SetlkGrant(t)
  <2>1. /\ UNCHANGED blocked_inodelks /\ Return(t)
        /\ inodelk_list' = inodelk_list \cup {arg[t].lock}
    BY <1>5 DEF SetlkGrant
  <2>2. pc'[t] = "idle" BY <1>0, <2>1, CallHere DEF Return
  <2> QED BY <1>a, <2>1, <2>2 DEF Passes
<1>6. CASE SetlkBlock(t) \/ GrantRequeue(t)
  <2>1. PICK l : /\ UNCHANGED inodelk_list /\ ~CanLock(l) /\ l \in Lock
                 /\ blocked_inodelks' =
                      [blocked_inodelks EXCEPT ![dom(l)] = Append(@, l)]
    <3>1. CASE SetlkBlock(t)
      <4>1. arg[t].lock \in Lock BY <1>0, <3>1 DEF SetlkBlock, PlaceOK
      <4> QED BY <3>1, <4>1 DEF SetlkBlock
    <3>2. CASE GrantRequeue(t)
      <4>1. Head(blocked_list[t]) \in Lock
        BY <1>0, <3>2, HeadTailIs DEF GrantRequeue
      <4> QED BY <3>2, <4>1 DEF GrantRequeue
    <3> QED BY <1>6, <3>1, <3>2
  <2>2. Passes(t, d)' => Passes(t, d)
    <3>1. CASE SetlkBlock(t)
      <4>1. pc'[t] = "idle" BY <1>0, <3>1, CallHere DEF SetlkBlock, Return
      <4> QED BY <4>1 DEF Passes
    <3>2. CASE GrantRequeue(t) BY <3>2 DEF GrantRequeue, run, Passes
    <3> QED BY <1>6, <3>1, <3>2
  <2>3. CASE d = dom(l)
    <3>1. Settled(d) => Settled(d)' BY <2>1, <2>3, SettledAppend
    <3> QED BY <2>2, <3>1, WakesStay
  <2>4. CASE d # dom(l)
    <3>1. blocked_inodelks'[d] = blocked_inodelks[d] BY <1>0, <2>1, <2>4
    <3> QED BY <1>a, <2>1, <2>2, <3>1
  <2> QED BY <2>3, <2>4
<1>7. CASE SetlkEagain(t) \/ UnlockReturn(t) \/ CleanupReturn(t)
  <2>1. UNCHANGED <<inodelk_list, blocked_inodelks>> /\ Return(t)
    BY <1>7 DEF SetlkEagain, UnlockReturn, CleanupReturn, lists
  <2> QED BY <1>e, <2>1 DEF Return
<1>8. CASE GrantEnter(t)
  <2>1. /\ UNCHANGED inodelk_list /\ Goto(t, "granting")
        /\ blocked_inodelks' = [blocked_inodelks EXCEPT ![arg[t].dom] = <<>>]
    BY <1>8 DEF GrantEnter
  <2>2. CASE d = arg[t].dom
    <3>1. blocked_inodelks'[d] = <<>> BY <1>0, <2>1, <2>2
    <3>2. DOMAIN blocked_inodelks'[d] = {} BY <3>1, SMT
    <3> QED BY <3>2 DEF Wakes, Settled
  <2>3. CASE d # arg[t].dom
    <3>1. blocked_inodelks'[d] = blocked_inodelks[d] BY <1>0, <2>1, <2>3
    <3>2. arg'[t] = arg[t] BY <1>0, <2>1, GotoHere
    <3> QED BY <1>a, <2>1, <2>3, <3>1, <3>2 DEF Passes
  <2> QED BY <2>2, <2>3
<1>9. CASE GrantOne(t)
  <2>1. /\ UNCHANGED <<blocked_inodelks, pc, arg>>
        /\ \E l : inodelk_list' = inodelk_list \cup {l}
    BY <1>9 DEF GrantOne, run
  <2> QED BY <1>a, <2>1 DEF Passes
<1>10. CASE GrantLeave(t)
  <2>1. UNCHANGED <<inodelk_list, blocked_inodelks>> /\ Goto(t, "unwinding")
    BY <1>10 DEF GrantLeave, lists
  <2> QED BY <1>c, <2>1
<1>11. CASE GrantUnwind(t) \/ CleanupUnwind(t) \/ ClrUnwind(t)
  <2>1. UNCHANGED <<inodelk_list, blocked_inodelks, pc, arg>>
    BY <1>11 DEF GrantUnwind, CleanupUnwind, ClrUnwind, lists, run
  <2> QED BY <1>b, <2>1
<1>12. CASE GrantUnref(t)
  <2>1. /\ UNCHANGED <<inodelk_list, blocked_inodelks>>
        /\ IF ret[t] = "idle" THEN Return(t) ELSE Goto(t, ret[t])
    BY <1>12 DEF GrantUnref, lists
  <2>2. ret[t] # "granting" BY <1>0 DEF RunOK
  <2> QED BY <1>c, <1>e, <2>1, <2>2 DEF Return
<1>13. CASE CleanupOne(t)
  <2>0. cursor[t] \in Lock
    <3>1. arg[t].client \in Client BY <1>0, <1>13 DEF CleanupOne, PlaceOK
    <3>2. Elems(client_list[arg[t].client]) \subseteq Lock
      BY <1>0, <3>1, ElemsType
    <3> QED BY <1>13, <3>2 DEF CleanupOne
  <2>1. /\ mutex = NoThread /\ pc[t] = "cleanup" /\ UNCHANGED <<pc, arg, granted>>
        /\ \/ /\ inodelk_list' = inodelk_list \ {cursor[t]}
              /\ released' = [released EXCEPT ![t] = @ \cup {cursor[t]}]
              /\ UNCHANGED blocked_inodelks
           \/ /\ UNCHANGED inodelk_list
              /\ blocked_inodelks' = [blocked_inodelks EXCEPT
                                   ![dom(cursor[t])] = Unlink(@, cursor[t])]
              /\ unwind' = [unwind EXCEPT ![t] = @ \cup {cursor[t]}]
    BY <1>13 DEF CleanupOne, run
  <2>2. ~Passes(t, d)' BY <2>1 DEF Passes
  <2>3. CASE d = dom(cursor[t])
    <3>1. granted[t] = {} BY <1>0, <2>1 DEF ThreadOK
    <3>2. /\ released \in [Thread -> SUBSET Lock]
          /\ unwind \in [Thread -> SUBSET Lock]
      BY DEF WakeInv, HoldInv, LifeInv, TypeInv, TypeOK, LocalsOK
    <3>3. cursor[t] \in released'[t] \/ cursor[t] \in unwind'[t]
      BY <2>1, <3>2
    <3>4. Due(t, d)' BY <2>1, <2>3, <3>1, <3>3 DEF Due
    <3> QED BY <2>1, <2>2, <3>4, WakesDue
  <2>4. CASE d # dom(cursor[t])
    <3>1. blocked_inodelks'[d] = blocked_inodelks[d] BY <1>0, <2>1, <2>4
    <3>2. \A g \in inodelk_list : dom(g) = d => g \in inodelk_list'
      BY <2>1, <2>4
    <3> QED BY <1>a, <2>2, <3>1, <3>2
  <2> QED BY <2>3, <2>4
<1>14. CASE CleanupLeave(t)
  <2>1. UNCHANGED <<inodelk_list, blocked_inodelks>> /\ Goto(t, "cleanup_unwind")
    BY <1>14 DEF CleanupLeave, lists
  <2> QED BY <1>c, <2>1
<1>15. CASE CleanupGrant(t)
  <2>1. /\ UNCHANGED <<inodelk_list, blocked_inodelks>>
        /\ \E a : Call(t, "grant", "cleanup_unref", a)
    BY <1>15 DEF CleanupGrant, lists
  <2> QED BY <1>e, <2>1
<1>16. CASE CleanupUnref(t)
  <2>1. /\ UNCHANGED <<inodelk_list, blocked_inodelks>>
        /\ \E a : Call(t, "cleanup_unwind", "idle", a)
    BY <1>16 DEF CleanupUnref, lists
  <2> QED BY <1>e, <2>1
<1>17. ASSUME NEW c \in Client, Disconnect(t, c) \/ Destroy(t, c)
       PROVE  Wakes(d)'
  <2>1. /\ UNCHANGED <<inodelk_list, blocked_inodelks>>
        /\ \E a : Call(t, "cleanup", "idle", a)
    BY <1>17 DEF Disconnect, Destroy, Cleanup, lists
  <2> QED BY <1>e, <2>1
<1>18. ASSUME NEW b \in Domain, NEW kind, NEW range, Clrlk(t, b, kind, range)
       PROVE  Wakes(d)'
  <2>1. /\ UNCHANGED <<inodelk_list, blocked_inodelks>>
        /\ \E a : Call(t, ClrStart(kind), "idle", a)
    BY <1>18 DEF Clrlk, lists
  <2>2. ClrStart(kind) # "granting" BY DEF ClrStart
  <2> QED BY <1>e, <2>1, <2>2
<1>19. CASE ClrEnter(t) \/ ClrBlockedLeave(t) \/ ClrUnwound(t)
              \/ ClrGrantedLeave(t) \/ ClrRead(t) \/ ClrWrite(t) \/ ClrReleased(t)
  <2>1. /\ UNCHANGED <<inodelk_list, blocked_inodelks>>
        /\ \E label \in ClrPC \cup {"grant"} : Goto(t, label)
    BY <1>19 DEF ClrEnter, ClrBlockedLeave, ClrUnwound, ClrGrantedLeave, ClrRead,
       ClrWrite, ClrReleased, lists, ClrPC
  <2>2. "granting" \notin ClrPC \cup {"grant"} BY DEF ClrPC
  <2> QED BY <1>c, <2>1, <2>2
<1>20. CASE ClrBlocked(t) \/ ClrGranted(t)
  <2>1. /\ pc[t] \in {"clr_blkd_loop", "clr_granted_loop"}
        /\ UNCHANGED <<pc, arg, clr>>
    BY <1>20 DEF ClrBlocked, ClrGranted, run
  <2>2. mutex = t /\ clr[t].kind # {} BY <1>0, <2>1 DEF ThreadOK, ClearOK, ClrPC
  <2>3. ~Passes(t, d)' BY <2>1 DEF Passes
  <2>4. CASE d = arg[t].dom
    <3>1. Due(t, d)' BY <2>1, <2>2, <2>4 DEF Due
    <3> QED BY <2>2, <2>3, <3>1, WakesDue
  <2>5. CASE d # arg[t].dom
    <3>1. blocked_inodelks'[d] = blocked_inodelks[d]
      BY <1>0, <1>20, <2>5 DEF ClrBlocked, ClrGranted
    <3>2. \A g \in inodelk_list : dom(g) = d => g \in inodelk_list'
      BY <1>20, <2>5 DEF ClrBlocked, ClrGranted, Granted
    <3> QED BY <1>a, <2>3, <3>1, <3>2
  <2> QED BY <2>4, <2>5
<1> QED
  BY <1>1, <1>2, <1>3, <1>4, <1>5, <1>6, <1>7, <1>8, <1>9, <1>10, <1>11, <1>12,
     <1>13, <1>14, <1>15, <1>16, <1>17, <1>18, <1>19, <1>20
  DEF Acts, Continue, SetlkStep, GrantStep, CleanupStep, ClrStep

LEMMA NextWakeInv == WakeInv /\ [Next]_vars => WakeInv'
<1> SUFFICES ASSUME WakeInv, [Next]_vars PROVE WakeInv'
  OBVIOUS
<1>1. HoldInv' BY NextHoldInv DEF WakeInv
<1>2. ASSUME NEW t \in Thread, Acts(t), NEW u \in Thread PROVE ClearOK(u)'
  <2>1. /\ TypeInv /\ TypeOK /\ LinksOK /\ ThreadOK(t) /\ ArgOK(t)
        /\ ClearOK(t) /\ ClearOK(u)
    BY DEF WakeInv, HoldInv, LifeInv, TypeInv
  <2>2. CASE u = t BY <1>2, <2>1, <2>2, HandStays
  <2>3. CASE u # t
    <3>1. Elsewhere(t) /\ clr'[u] = clr[u]
      BY <1>2, <2>1, <2>3, OthersStay, OthersClear
    <3> QED BY <2>1, <2>3, <3>1 DEF Elsewhere, ClearOK, Passing
  <2> QED BY <2>2, <2>3
<1>3. CASE UNCHANGED vars
  <2>1. UNCHANGED <<pc, ret, arg, clr, granted, unwind, released>>
    BY <1>3 DEF vars, run, locals
  <2>2. UNCHANGED <<inodelk_list, blocked_inodelks>> BY <1>3 DEF vars, lists
  <2>3. \A t \in Thread : ClearOK(t)'
    BY <2>1 DEF WakeInv, ClearOK, Passing
  <2>4. ASSUME NEW d \in Domain PROVE Wakes(d)'
    <3>1. Settled(d) => Settled(d)' BY <2>2, SettledStays
    <3>2. \A t \in Thread : /\ Due(t, d)' <=> Due(t, d)
                            /\ Passes(t, d)' <=> Passes(t, d)
      BY <2>1 DEF Due, Passes
    <3> QED BY <3>1, <3>2 DEF WakeInv, Wakes
  <2> QED BY <1>1, <2>3, <2>4 DEF WakeInv
<1>4. CASE Next
  <2>1. PICK t \in Thread : Acts(t) BY <1>4 DEF Next, Acts
  <2>2. \A d \in Domain : Wakes(d)' BY <2>1, NextWakes
  <2>3. \A u \in Thread : ClearOK(u)' BY <1>2, <2>1
  <2> QED BY <1>1, <2>2, <2>3 DEF WakeInv
<1> QED BY <1>3, <1>4

(* No wakeup is lost, whatever unlocks, cleanups, revocations, clear-locks *)
(* commands and grant passes interleave: whoever takes a granted lock or a *)
(* waiter away still has grant_blocked_inode_locks to call for its domain, *)
(* and a pass leaves each waiter behind a lock that keeps it out.          *)
THEOREM NoWakeupLost == Spec => []NoneStranded
<1>1. WakeInv => NoneStranded
  <2> SUFFICES ASSUME WakeInv, NEW d \in Domain, ~PassDue(d),
                      NEW i \in DOMAIN blocked_inodelks[d]
               PROVE  Blocked(blocked_inodelks[d], i)
    BY DEF NoneStranded, Blocked
  <2>1. \A t \in Thread : ~Due(t, d) BY DEF PassDue, Due
  <2> QED BY <2>1 DEF WakeInv, Wakes, Settled
<1> QED BY <1>1, InitWakeInv, NextWakeInv, PTL DEF Spec

----------------------------------------------------------------------------
(* The cleanup of a client, when nothing clears locks                      *)

(* A cleanup holds ctx->lock and is at the first lock of its client        *)
CursorOK(t) == pc[t] = "cleanup" =>
  /\ ctx_lock[arg[t].client] = t
  /\ cursor[t] = First(client_list[arg[t].client])

Ended(c) == conn[c] \in {"destroying", "destroyed"}

(* Nothing is asked for a client that is being destroyed, and what it had  *)
(* is gone once a cleanup has left the loop                                *)
EndOK(c) ==
  /\ Ended(c) => \A l \in Lock : attr[l].client = c => frame[l] # "wait"
  /\ conn[c] = "destroyed" => client_list[c] = <<>>
  /\ conn[c] = "destroying" =>
       \A t \in Thread : pc[t] # "idle" /\ arg[t].client = c
                           => pc[t] = "cleanup" \/ client_list[c] = <<>>

EndInv == /\ HoldInv
          /\ \A t \in Thread : PathOK(t) /\ CursorOK(t)
          /\ \A c \in Client : EndOK(c)

LEMMA InitEndInv == Init => EndInv
<1> SUFFICES ASSUME Init PROVE EndInv
  OBVIOUS
<1>1. HoldInv BY InitHoldInv
<1>2. \A t \in Thread : PathOK(t) /\ CursorOK(t)
  BY DEF Init, PathOK, Usual, CursorOK
<1>3. \A c \in Client : conn[c] = "connected" BY DEF Init
<1>4. \A c \in Client : EndOK(c) BY <1>3 DEF EndOK, Ended
<1> QED BY <1>1, <1>2, <1>4 DEF EndInv

(* The lock after the first one is the first once that one is unlinked     *)
LEMMA FirstUnlinked ==
  ASSUME NEW S, NEW s \in Seq(S), NoDup(s), s # <<>>
  PROVE  NextOf(s, s[1]) = First(Unlink(s, s[1]))
<1>1. Len(s) \in Nat \ {0} /\ DOMAIN s = 1 .. Len(s) BY LenIs, EmptyIs
<1>2. 1 \in DOMAIN s BY <1>1, SMT
<1> DEFINE n == CHOOSE j \in DOMAIN s : s[j] = s[1]
<1>3. n = 1 BY <1>2 DEF NoDup
<1>4. Unlink(s, s[1]) = RemoveIndex(s, n) BY <1>2 DEF Unlink
<1>5. NextOf(s, s[1]) = IF n < Len(s) THEN s[n + 1] ELSE NoLock BY DEF NextOf
<1> HIDE DEF n
<1>6. PICK a : a = SubSeq(s, 1, 0) OBVIOUS
<1>7. PICK b : b = SubSeq(s, 2, Len(s)) OBVIOUS
<1>8. a \in Seq(S) /\ Len(a) = 0
  <2>1. 1 \in 1 .. Len(s) + 1 /\ 0 \in 0 .. Len(s) /\ ~(1 <= 0) BY <1>1, SMT
  <2> QED BY <1>6, <2>1, SubSeqIs
<1>9. b \in Seq(S) /\ Len(b) = Len(s) - 1 /\ (1 < Len(s) => b[1] = s[2])
  <2>1. 2 \in 1 .. Len(s) + 1 /\ Len(s) \in 0 .. Len(s) BY <1>1, SMT
  <2>2. /\ b \in Seq(S)
        /\ Len(b) = IF 2 <= Len(s) THEN Len(s) - 2 + 1 ELSE 0
        /\ \A i \in 1 .. Len(s) - 2 + 1 : b[i] = s[2 + i - 1]
    BY <1>7, <2>1, SubSeqIs
  <2>3. Len(b) = Len(s) - 1
    <3>1. CASE 2 <= Len(s)
      <4>1. Len(b) = Len(s) - 2 + 1 BY <2>2, <3>1
      <4> QED BY <1>1, <4>1, SMT
    <3>2. CASE ~(2 <= Len(s))
      <4>1. Len(b) = 0 BY <2>2, <3>2
      <4> QED BY <1>1, <3>2, <4>1, SMT
    <3> QED BY <3>1, <3>2
  <2>4. ASSUME 1 < Len(s) PROVE b[1] = s[2]
    <3>1. 1 \in 1 .. Len(s) - 2 + 1 /\ 2 + 1 - 1 = 2 BY <1>1, <2>4, SMT
    <3> QED BY <2>2, <3>1
  <2> QED BY <2>2, <2>3, <2>4
<1>10. PICK r : r = a \o b OBVIOUS
<1>11. Unlink(s, s[1]) = r BY <1>3, <1>4, <1>6, <1>7, <1>10, SMT DEF RemoveIndex
<1>12. r \in Seq(S) /\ Len(r) = Len(s) - 1 /\ (1 < Len(s) => r[1] = s[2])
  <2>1. /\ r \in Seq(S) /\ Len(r) = Len(a) + Len(b)
        /\ \A i \in 1 .. Len(a) + Len(b) :
             r[i] = IF i <= Len(a) THEN a[i] ELSE b[i - Len(a)]
    BY <1>8, <1>9, <1>10, ConcatIs
  <2> QED BY <1>1, <1>8, <1>9, <2>1, SMT
<1>13. CASE 1 < Len(s)
  <2>1. r # <<>> BY <1>1, <1>12, <1>13, EmptyIs, SMT
  <2> QED BY <1>3, <1>5, <1>11, <1>12, <1>13, <2>1, SMT DEF First
<1>14. CASE ~(1 < Len(s))
  <2>1. r = <<>> BY <1>1, <1>12, <1>14, EmptyIs, SMT
  <2> QED BY <1>3, <1>5, <1>11, <1>14, <2>1 DEF First
<1> QED BY <1>13, <1>14

LEMMA FirstIs ==
  ASSUME NEW s \in Seq(Lock)
  PROVE  /\ s # <<>> => First(s) = s[1] /\ First(s) \in Elems(s)
                        /\ First(s) \in Lock
         /\ First(s) = NoLock => s = <<>>
<1>1. CASE s # <<>>
  <2>1. Len(s) \in Nat \ {0} /\ DOMAIN s = 1 .. Len(s) BY <1>1, LenIs, EmptyIs
  <2>2. 1 \in DOMAIN s BY <2>1, SMT
  <2>3. First(s) = s[1] BY <1>1 DEF First
  <2>4. s[1] \in Elems(s) BY <2>2 DEF Elems
  <2>5. s[1] \in Lock BY <2>4, ElemsType
  <2> QED BY <1>1, <2>3, <2>4, <2>5, LockAssumption
<1>2. CASE s = <<>> BY <1>2
<1> QED BY <1>1, <1>2

LEMMA CursorElsewhere ==
  ASSUME EndInv, NEW t \in Thread, Elsewhere(t), NEW u \in Thread \ {t},
         cursor'[u] = cursor[u],
         \A c \in Client : ctx_lock[c] = u
           => ctx_lock'[c] = u /\ client_list'[c] = client_list[c]
  PROVE  CursorOK(u)'
<1> SUFFICES ASSUME pc'[u] = "cleanup"
             PROVE  /\ ctx_lock'[arg'[u].client] = u
                    /\ cursor'[u] = First(client_list'[arg'[u].client])
  BY DEF CursorOK, First
<1>1. pc[u] = "cleanup" /\ arg'[u] = arg[u] BY DEF Elsewhere
<1>2. CursorOK(u) /\ PlaceOK BY DEF EndInv, HoldInv, LifeInv, TypeInv
<1>3. arg[u].client \in Client BY <1>1, <1>2 DEF PlaceOK
<1> QED BY <1>1, <1>2, <1>3 DEF CursorOK

LEMMA EndStep ==
  ASSUME EndInv, NEW t \in Thread, Elsewhere(t), NEW c \in Client,
         conn'[c] = conn[c],
         Ended(c) => \A l \in Lock : attr[l].client = c /\ frame'[l] = "wait"
                                       => frame[l] = "wait",
         Ended(c) /\ client_list[c] = <<>> => client_list'[c] = <<>>,
         Ended(c) /\ pc'[t] # "idle" /\ arg'[t].client = c =>
           \/ pc'[t] = "cleanup" \/ client_list'[c] = <<>>
           \/ pc[t] \notin {"idle", "cleanup"} /\ arg[t].client = c
  PROVE  EndOK(c)'
<1>1. EndOK(c) BY DEF EndInv
<1>2. Ended(c)' <=> Ended(c) BY DEF Ended
<1>3. Ended(c)' => \A l \in Lock : attr[l].client = c => frame'[l] # "wait"
  BY <1>1, <1>2 DEF EndOK
<1>4. conn'[c] = "destroyed" => client_list'[c] = <<>>
  BY <1>1 DEF EndOK, Ended
<1>5. ASSUME conn'[c] = "destroying", NEW u \in Thread, pc'[u] # "idle",
             arg'[u].client = c
      PROVE  pc'[u] = "cleanup" \/ client_list'[c] = <<>>
  <2>1. Ended(c) BY <1>5 DEF Ended
  <2>2. CASE u = t BY <1>1, <1>5, <2>1, <2>2 DEF EndOK
  <2>3. CASE u # t
    <3>1. pc'[u] = pc[u] /\ arg'[u] = arg[u] BY <2>3 DEF Elsewhere
    <3> QED BY <1>1, <1>5, <2>1, <3>1 DEF EndOK
  <2> QED BY <2>2, <2>3
<1> QED BY <1>3, <1>4, <1>5 DEF EndOK

(* A step that neither begins nor leaves the loop of a cleanup             *)
Calm(t) ==
  /\ UNCHANGED <<conn, client_list, ctx_lock, cursor>>
  /\ pc[t] \notin {"idle", "cleanup"} /\ pc'[t] # "cleanup"
  /\ pc'[t] = "idle" \/ arg'[t].client = arg[t].client
  /\ \A l \in Lock : frame'[l] = "wait" => frame[l] = "wait"

(* The part of the invariant that is about threads and clients             *)
EndsOK == /\ \A t \in Thread : CursorOK(t)
          /\ \A c \in Client : EndOK(c)

LEMMA CalmEnds ==
  ASSUME EndInv, NEW t \in Thread, Elsewhere(t), Calm(t)
  PROVE  EndsOK'
<1>1. CursorOK(t)' BY DEF Calm, CursorOK
<1>2. ASSUME NEW u \in Thread \ {t} PROVE CursorOK(u)'
  BY CursorElsewhere DEF Calm
<1>3. ASSUME NEW c \in Client PROVE EndOK(c)'
  <2>1. /\ conn'[c] = conn[c] /\ client_list'[c] = client_list[c]
        /\ \A l \in Lock : attr[l].client = c /\ frame'[l] = "wait"
                             => frame[l] = "wait"
        /\ pc'[t] # "idle" /\ arg'[t].client = c
             => pc[t] \notin {"idle", "cleanup"} /\ arg[t].client = c
    BY DEF Calm
  <2> QED BY <2>1, EndStep
<1> QED BY <1>1, <1>2, <1>3 DEF EndsOK

LEMMA Unwound ==
  ASSUME ObjsOK, NEW k \in Lock, STACK_UNWIND(k)
  PROVE  \A l \in Lock : frame'[l] = "wait" => frame[l] = "wait"
BY DEF STACK_UNWIND, ObjsOK

LEMMA CalmActs ==
  ASSUME TypeOK, PlaceOK, NEW t \in Thread,
         \/ SetlkEagain(t) \/ UnlockReturn(t) \/ GrantStep(t)
         \/ CleanupUnwind(t) \/ CleanupGrant(t) \/ CleanupUnref(t)
  PROVE  Calm(t)
<1>0. ObjsOK /\ RunOK /\ unwind \in [Thread -> SUBSET Lock]
  BY DEF TypeOK, LocalsOK
<1>1. CASE SetlkEagain(t)
  <2>1. /\ UNCHANGED <<conn, client_list, ctx_lock, cursor>>
        /\ pc[t] = "setlk" /\ Return(t) /\ STACK_UNWIND(arg[t].lock)
    BY <1>1 DEF SetlkEagain, lists, locals
  <2>2. pc'[t] = "idle" BY <1>0, <2>1, CallHere DEF Return
  <2>3. arg[t].lock \in Lock BY <2>1 DEF PlaceOK
  <2> QED BY <1>0, <2>1, <2>2, <2>3, Unwound DEF Calm
<1>2. CASE UnlockReturn(t)
  <2>1. /\ UNCHANGED <<conn, client_list, ctx_lock, cursor, frame>>
        /\ pc[t] = "unlocked" /\ Return(t)
    BY <1>2 DEF UnlockReturn, objs, lists, locals
  <2>2. pc'[t] = "idle" BY <1>0, <2>1, CallHere DEF Return
  <2> QED BY <2>1, <2>2 DEF Calm
<1>3. CASE GrantEnter(t) \/ GrantLeave(t)
  <2>1. /\ UNCHANGED <<conn, client_list, ctx_lock, cursor, frame>>
        /\ pc[t] \in {"grant", "granting"}
        /\ Goto(t, "granting") \/ Goto(t, "unwinding")
    BY <1>3 DEF GrantEnter, GrantLeave, objs, lists, locals
  <2>2. pc'[t] \in {"granting", "unwinding"} /\ arg'[t] = arg[t]
    BY <1>0, <2>1, GotoHere
  <2> QED BY <2>1, <2>2 DEF Calm
<1>4. CASE GrantOne(t) \/ GrantRequeue(t)
  <2>1. /\ UNCHANGED <<conn, client_list, ctx_lock, cursor, frame, pc, arg>>
        /\ pc[t] = "granting"
    BY <1>4 DEF GrantOne, GrantRequeue, objs, shared, run
  <2> QED BY <2>1 DEF Calm
<1>5. CASE GrantUnwind(t) \/ CleanupUnwind(t)
  <2>1. /\ UNCHANGED <<conn, client_list, ctx_lock, cursor, pc, arg>>
        /\ pc[t] \in {"unwinding", "cleanup_unwind"}
        /\ \E l \in unwind[t] : STACK_UNWIND(l) \/ UNCHANGED frame
    BY <1>5 DEF GrantUnwind, CleanupUnwind, lists, shared, run
  <2>2. \A l \in Lock : frame'[l] = "wait" => frame[l] = "wait"
    BY <1>0, <2>1, Unwound
  <2> QED BY <2>1, <2>2 DEF Calm
<1>6. CASE GrantUnref(t)
  <2>1. /\ UNCHANGED <<conn, client_list, ctx_lock, cursor, frame>>
        /\ pc[t] = "unwinding"
        /\ IF ret[t] = "idle" THEN Return(t) ELSE Goto(t, ret[t])
    BY <1>6 DEF GrantUnref, lists, shared
  <2>2. ret[t] \in {"idle", "setlk", "unlocked", "cleanup_unref"}
    BY <1>0 DEF RunOK
  <2>3. CASE ret[t] = "idle"
    <3>1. pc'[t] = "idle" BY <1>0, <2>1, <2>3, CallHere DEF Return
    <3> QED BY <2>1, <3>1 DEF Calm
  <2>4. CASE ret[t] # "idle"
    <3>1. Goto(t, ret[t]) BY <2>1, <2>4
    <3>2. pc'[t] = ret[t] /\ arg'[t] = arg[t] BY <1>0, <3>1, GotoHere
    <3> QED BY <2>1, <2>2, <3>2 DEF Calm
  <2> QED BY <2>3, <2>4
<1>7. CASE CleanupGrant(t)
  <2>1. /\ UNCHANGED <<conn, client_list, ctx_lock, cursor, frame>>
        /\ pc[t] = "cleanup_unwind"
    BY <1>7 DEF CleanupGrant, objs, lists, shared, locals
  <2>2. PICK l : Call(t, "grant", "cleanup_unref", Arg(l, dom(l), arg[t].client))
    BY <1>7 DEF CleanupGrant
  <2>3. pc'[t] = "grant" /\ arg'[t] = Arg(l, dom(l), arg[t].client)
    BY <1>0, <2>2, CallHere
  <2>4. arg'[t].client = arg[t].client BY <2>3, SMT DEF Arg
  <2> QED BY <2>1, <2>3, <2>4 DEF Calm
<1>8. CASE CleanupUnref(t)
  <2>1. /\ UNCHANGED <<conn, client_list, ctx_lock, cursor, frame>>
        /\ pc[t] = "cleanup_unref"
        /\ Call(t, "cleanup_unwind", "idle", Arg(NoLock, NoLock, arg[t].client))
    BY <1>8 DEF CleanupUnref, lists
  <2>2. /\ pc'[t] = "cleanup_unwind"
        /\ arg'[t] = Arg(NoLock, NoLock, arg[t].client)
    BY <1>0, <2>1, CallHere
  <2>3. arg'[t].client = arg[t].client BY <2>2, SMT DEF Arg
  <2> QED BY <2>1, <2>2, <2>3 DEF Calm
<1> QED BY <1>1, <1>2, <1>3, <1>4, <1>5, <1>6, <1>7, <1>8 DEF GrantStep

(* A step for one client, which holds no lock of the others                *)
LEMMA ClientEnds ==
  ASSUME EndInv, NEW t \in Thread, Elsewhere(t), NEW k \in Client,
         CursorOK(t)', EndOK(k)',
         \A u \in Thread \ {t} : cursor'[u] = cursor[u] /\ ctx_lock[k] # u,
         \A c \in Client \ {k} : /\ conn'[c] = conn[c]
                                 /\ client_list'[c] = client_list[c]
                                 /\ ctx_lock'[c] = ctx_lock[c],
         \A l \in Lock : attr[l].client # k /\ frame'[l] = "wait"
                           => frame[l] = "wait",
         pc'[t] = "idle" \/ arg'[t].client = k
  PROVE  EndsOK'
<1>1. ASSUME NEW u \in Thread \ {t} PROVE CursorOK(u)'
  <2>1. \A c \in Client : ctx_lock[c] = u
          => ctx_lock'[c] = u /\ client_list'[c] = client_list[c]
    OBVIOUS
  <2> QED BY <2>1, CursorElsewhere
<1>2. ASSUME NEW c \in Client \ {k} PROVE EndOK(c)'
  <2>1. c # k /\ conn'[c] = conn[c] /\ client_list'[c] = client_list[c]
    OBVIOUS
  <2>2. ASSUME NEW l \in Lock, attr[l].client = c, frame'[l] = "wait"
        PROVE  frame[l] = "wait"
    BY <2>1, <2>2
  <2>3. ~(pc'[t] # "idle" /\ arg'[t].client = c) BY <2>1
  <2> QED BY <2>1, <2>2, <2>3, EndStep
<1> QED BY <1>1, <1>2 DEF EndsOK

LEMMA SetlkEnds ==
  ASSUME EndInv, NEW t \in Thread, Elsewhere(t), SetlkGrant(t) \/ SetlkBlock(t)
  PROVE  EndsOK'
<1>l. PICK l : l = arg[t].lock OBVIOUS
<1>k. PICK k : k = attr[l].client OBVIOUS
<1>0. /\ RunOK /\ PlaceOK /\ ObjsOK /\ client_list \in [Client -> Seq(Lock)]
  BY DEF EndInv, HoldInv, LifeInv, TypeInv, TypeOK, ListsOK
<1>1. /\ pc[t] = "setlk" /\ ctx_lock[k] = NoThread
      /\ UNCHANGED <<conn, ctx_lock, cursor>> /\ Return(t)
      /\ client_list' = [client_list EXCEPT ![k] = Append(@, l)]
      /\ STACK_UNWIND(l) \/ UNCHANGED frame
  BY <1>l, <1>k DEF SetlkGrant, SetlkBlock, SetlkEnter, shared, locals, objs
<1>2. l \in Lock /\ Own(t, l) BY <1>0, <1>1, <1>l DEF PlaceOK, Own
<1>3. k \in Client BY <1>2, <1>k, FieldTypes
<1>4. frame[l] = "wait" BY <1>2, HandIs DEF EndInv, HoldInv, Has
<1>5. ~Ended(k) BY <1>2, <1>3, <1>4, <1>k DEF EndInv, EndOK
<1>6. pc'[t] = "idle" BY <1>0, <1>1, CallHere DEF Return
<1>7. \A m \in Lock : frame'[m] = "wait" => frame[m] = "wait"
  BY <1>0, <1>1, <1>2, Unwound
<1>8. \A c \in Client \ {k} : client_list'[c] = client_list[c] BY <1>0, <1>1
<1>9. CursorOK(t)' BY <1>6 DEF CursorOK
<1>10. EndOK(k)' BY <1>1, <1>5 DEF EndOK, Ended
<1>11. \A u \in Thread : ctx_lock[k] # u BY <1>1, LockAssumption
<1> QED BY <1>1, <1>3, <1>6, <1>7, <1>8, <1>9, <1>10, <1>11, ClientEnds

LEMMA AskEnds ==
  ASSUME EndInv, NEW t \in Thread, Elsewhere(t), NEW m \in Lock, Request(t, m)
  PROVE  EndsOK'
<1>0. RunOK /\ ObjsOK BY DEF EndInv, HoldInv, LifeInv, TypeInv, TypeOK
<1>1. PICK k : k = attr[m].client OBVIOUS
<1>2. /\ conn[k] \in {"connected", "disconnected"} /\ pc[t] = "idle"
      /\ UNCHANGED <<conn, ctx_lock, cursor, client_list>>
      /\ frame' = [frame EXCEPT ![m] = "wait"]
      /\ \E f \in {"prune", "setlk"} : Call(t, f, "idle", Arg(m, dom(m), k))
  BY <1>1 DEF Request, lists, locals
<1>3. pc'[t] \in {"prune", "setlk"} /\ arg'[t] = Arg(m, dom(m), k)
  BY <1>0, <1>2, CallHere
<1>4. arg'[t].client = k BY <1>3, SMT DEF Arg
<1>5. CursorOK(t)' BY <1>3 DEF CursorOK
<1>6. ASSUME NEW u \in Thread \ {t} PROVE CursorOK(u)'
  BY <1>2, CursorElsewhere
<1>7. ASSUME NEW c \in Client PROVE EndOK(c)'
  <2>1. CASE c = k BY <1>2, <2>1 DEF EndOK, Ended
  <2>2. CASE c # k
    <3>1. /\ conn'[c] = conn[c] /\ client_list'[c] = client_list[c]
          /\ \A l \in Lock : attr[l].client = c /\ frame'[l] = "wait"
                               => frame[l] = "wait"
          /\ ~(pc'[t] # "idle" /\ arg'[t].client = c)
      BY <1>0, <1>1, <1>2, <1>4, <2>2 DEF ObjsOK
    <3> QED BY <3>1, EndStep
  <2> QED BY <2>1, <2>2
<1> QED BY <1>5, <1>6, <1>7 DEF EndsOK

LEMMA UnlockEnds ==
  ASSUME EndInv, NEW t \in Thread, Elsewhere(t), NEW m \in Lock, Unlock(t, m)
  PROVE  EndsOK'
<1>0. RunOK /\ client_list \in [Client -> Seq(Lock)]
  BY DEF EndInv, HoldInv, LifeInv, TypeInv, TypeOK, ListsOK
<1>1. PICK k : k = attr[m].client OBVIOUS
<1>2. /\ conn[k] \in {"connected", "disconnected"} /\ ctx_lock[k] = NoThread
      /\ UNCHANGED <<conn, ctx_lock, cursor, frame>>
      /\ client_list' = [client_list EXCEPT ![k] = Unlink(@, m)]
      /\ Call(t, "grant", "unlocked", Arg(NoLock, dom(m), k))
  BY <1>1 DEF Unlock, SetlkEnter, shared, locals
<1>3. k \in Client BY <1>1, FieldTypes
<1>4. pc'[t] = "grant" /\ arg'[t] = Arg(NoLock, dom(m), k)
  BY <1>0, <1>2, CallHere
<1>5. arg'[t].client = k BY <1>4, SMT DEF Arg
<1>6. CursorOK(t)' BY <1>4 DEF CursorOK
<1>7. EndOK(k)' BY <1>2 DEF EndOK, Ended
<1>8. \A c \in Client \ {k} : client_list'[c] = client_list[c] BY <1>0, <1>2
<1>9. \A u \in Thread : ctx_lock[k] # u BY <1>2, LockAssumption
<1> QED BY <1>2, <1>3, <1>5, <1>6, <1>7, <1>8, <1>9, ClientEnds

(* A cleanup begins with an idle thread and the first lock of its client   *)
LEMMA CleanupEnds ==
  ASSUME EndInv, NEW t \in Thread, Elsewhere(t), NEW k \in Client,
         Disconnect(t, k) \/ Destroy(t, k)
  PROVE  EndsOK'
<1>0. /\ RunOK /\ conn \in [Client -> {"connected", "disconnected", "destroying",
                                       "destroyed"}]
      /\ ctx_lock \in [Client -> Thread \cup {NoThread}]
      /\ cursor \in [Thread -> Lock \cup {NoLock}]
  BY DEF EndInv, HoldInv, LifeInv, TypeInv, TypeOK, SharedOK, LocalsOK
<1>1. PICK state \in {"disconnected", "destroying"} :
        /\ Cleanup(t, k, state) /\ (state = "destroying" => ~InRequest(k))
  BY DEF Disconnect, Destroy
<1>2. /\ ctx_lock[k] = NoThread /\ ctx_lock' = [ctx_lock EXCEPT ![k] = t]
      /\ conn' = [conn EXCEPT ![k] = state]
      /\ UNCHANGED <<client_list, frame>>
      /\ Call(t, "cleanup", "idle", Arg(NoLock, NoLock, k))
      /\ cursor' = [cursor EXCEPT ![t] = First(client_list[k])]
  BY <1>1 DEF Cleanup, objs, lists
<1>3. pc'[t] = "cleanup" /\ arg'[t] = Arg(NoLock, NoLock, k)
  BY <1>0, <1>2, CallHere
<1>4. arg'[t].client = k BY <1>3, SMT DEF Arg
<1>5. /\ ctx_lock'[k] = t /\ conn'[k] = state
      /\ cursor'[t] = First(client_list'[k])
      /\ \A u \in Thread \ {t} : cursor'[u] = cursor[u]
      /\ \A c \in Client \ {k} : conn'[c] = conn[c] /\ ctx_lock'[c] = ctx_lock[c]
  BY <1>0, <1>2
<1>6. CursorOK(t)' BY <1>4, <1>5 DEF CursorOK, First
<1>7. EndOK(k)'
  <2>1. CASE state = "disconnected" BY <1>5, <2>1 DEF EndOK, Ended
  <2>2. CASE state = "destroying"
    <3>1. /\ \A l \in Lock : attr[l].client = k => frame[l] # "wait"
          /\ \A u \in Thread : pc[u] = "idle" \/ arg[u].client # k
      BY <1>1, <2>2 DEF InRequest
    <3>2. \A u \in Thread : pc'[u] # "idle" /\ arg'[u].client = k
                              => pc'[u] = "cleanup"
      BY <1>3, <3>1 DEF Elsewhere
    <3> QED BY <1>2, <1>5, <2>2, <3>1, <3>2 DEF EndOK
  <2> QED BY <2>1, <2>2
<1>8. \A u \in Thread : ctx_lock[k] # u BY <1>2, LockAssumption
<1> QED BY <1>2, <1>4, <1>5, <1>6, <1>7, <1>8, ClientEnds

(* In the loop of a cleanup, and out of it                                 *)
LEMMA LoopEnds ==
  ASSUME EndInv, NEW t \in Thread, Elsewhere(t),
         CleanupOne(t) \/ CleanupLeave(t) \/ CleanupReturn(t)
  PROVE  EndsOK'
<1>0. /\ RunOK /\ PlaceOK /\ client_list \in [Client -> Seq(Lock)]
      /\ ctx_lock \in [Client -> Thread \cup {NoThread}]
      /\ conn \in [Client -> {"connected", "disconnected", "destroying",
                              "destroyed"}]
      /\ cursor \in [Thread -> Lock \cup {NoLock}]
      /\ LinksOK /\ CursorOK(t)
  BY DEF EndInv, HoldInv, LifeInv, TypeInv, TypeOK, ListsOK, SharedOK, LocalsOK
<1>1. PICK k : k = arg[t].client OBVIOUS
<1>2. pc[t] \in {"cleanup", "cleanup_unwind"}
  BY DEF CleanupOne, CleanupLeave, CleanupReturn
<1>3. k \in Client BY <1>0, <1>1, <1>2 DEF PlaceOK
<1>4. PICK s : s = client_list[k] OBVIOUS
<1>5. s \in Seq(Lock) /\ NoDup(s) /\ EndOK(k)
  BY <1>0, <1>3, <1>4 DEF LinksOK, EndInv
<1>6. CASE CleanupOne(t)
  <2>1. /\ pc[t] = "cleanup" /\ cursor[t] \in Elems(s)
        /\ UNCHANGED <<conn, ctx_lock, frame, pc, arg>>
        /\ client_list' = [client_list EXCEPT ![k] = Unlink(@, cursor[t])]
        /\ cursor' = [cursor EXCEPT ![t] = NextOf(s, cursor[t])]
    BY <1>1, <1>4, <1>6 DEF CleanupOne, shared, run, objs
  <2>2. ctx_lock[k] = t /\ cursor[t] = First(s)
    BY <1>0, <1>1, <1>4, <2>1 DEF CursorOK
  <2>3. s # <<>> BY <2>1, EmptyElems
  <2>4. cursor[t] = s[1] BY <1>5, <2>2, <2>3, FirstIs
  <2>5. client_list'[k] = Unlink(s, s[1]) /\ cursor'[t] = NextOf(s, s[1])
    BY <1>0, <1>3, <1>4, <2>1, <2>4
  <2>6. cursor'[t] = First(client_list'[k])
    BY <1>5, <2>3, <2>5, FirstUnlinked
  <2>7. CursorOK(t)'
    <3>1. arg'[t].client = k /\ ctx_lock'[k] = t BY <1>1, <2>1, <2>2
    <3>2. cursor'[t] = First(client_list[arg[t].client])'
      BY <2>6, <3>1 DEF First
    <3> QED BY <3>1, <3>2 DEF CursorOK
  <2>8. EndOK(k)'
    <3>1. conn'[k] = conn[k] /\ frame' = frame /\ pc'[t] = "cleanup"
      BY <2>1
    <3> QED BY <1>3, <1>4, <2>3, <3>1, EndStep
  <2>9. /\ \A u \in Thread \ {t} : cursor'[u] = cursor[u]
        /\ \A c \in Client \ {k} : client_list'[c] = client_list[c]
    BY <1>0, <2>1
  <2>10. arg'[t].client = k BY <1>1, <2>1
  <2> QED BY <1>3, <2>1, <2>2, <2>7, <2>8, <2>9, <2>10, ClientEnds
<1>7. CASE CleanupLeave(t)
  <2>1. /\ pc[t] = "cleanup" /\ cursor[t] = NoLock
        /\ UNCHANGED <<conn, client_list, frame, cursor>>
        /\ ctx_lock' = [ctx_lock EXCEPT ![k] = NoThread]
        /\ Goto(t, "cleanup_unwind")
    BY <1>1, <1>7 DEF CleanupLeave, lists, locals, objs
  <2>2. ctx_lock[k] = t /\ cursor[t] = First(s)
    BY <1>0, <1>1, <1>4, <2>1 DEF CursorOK
  <2>3. s = <<>> BY <1>5, <2>1, <2>2, FirstIs
  <2>4. pc'[t] = "cleanup_unwind" /\ arg'[t] = arg[t]
    BY <1>0, <2>1, GotoHere
  <2>5. CursorOK(t)' BY <2>4 DEF CursorOK
  <2>6. conn'[k] = conn[k] /\ frame' = frame /\ client_list'[k] = <<>>
    BY <1>4, <2>1, <2>3
  <2>7. EndOK(k)' BY <1>3, <2>6, EndStep
  <2>8. \A c \in Client \ {k} : ctx_lock'[c] = ctx_lock[c] BY <1>0, <2>1
  <2>9. arg'[t].client = k BY <1>1, <2>4
  <2> QED BY <1>3, <2>1, <2>2, <2>5, <2>7, <2>8, <2>9, ClientEnds
<1>8. CASE CleanupReturn(t)
  <2>1. /\ pc[t] = "cleanup_unwind"
        /\ UNCHANGED <<client_list, ctx_lock, frame, cursor>>
        /\ conn' = [conn EXCEPT ![k] = IF @ = "destroying" THEN "destroyed" ELSE @]
        /\ Return(t)
    BY <1>1, <1>8 DEF CleanupReturn, lists, locals, objs
  <2>2. pc'[t] = "idle" BY <1>0, <2>1, CallHere DEF Return
  <2>3. CursorOK(t)' BY <2>2 DEF CursorOK
  <2>4. ASSUME NEW u \in Thread \ {t} PROVE CursorOK(u)'
    BY <2>1, <2>4, CursorElsewhere
  <2>5. ASSUME NEW c \in Client PROVE EndOK(c)'
    <3>1. CASE conn'[c] = conn[c]
      <4>1. frame' = frame /\ client_list'[c] = client_list[c] BY <2>1
      <4> QED BY <2>2, <3>1, <4>1, EndStep
    <3>2. CASE conn'[c] # conn[c]
      <4>1. c = k /\ conn[k] = "destroying" /\ conn'[k] = "destroyed"
        BY <1>0, <1>3, <2>1, <3>2
      <4>2. client_list[k] = <<>> BY <1>1, <1>5, <2>1, <4>1 DEF EndOK
      <4>3. \A l \in Lock : attr[l].client = k => frame[l] # "wait"
        BY <1>5, <4>1 DEF EndOK, Ended
      <4> QED BY <2>1, <4>1, <4>2, <4>3 DEF EndOK
    <3> QED BY <3>1, <3>2
  <2> QED BY <2>3, <2>4, <2>5 DEF EndsOK
<1> QED BY <1>6, <1>7, <1>8

(* Without clear-locks and revocation no thread is in their code           *)
LEMMA PathStays ==
  ASSUME Uncleared, RunOK, NEW t \in Thread, Acts(t), PathOK(t)
  PROVE  PathOK(t)'
<1>1. ASSUME NEW l \in Lock, Request(t, l) PROVE PathOK(t)'
  <2>1. \E a : Call(t, "setlk", "idle", a) BY <1>1 DEF Request, Uncleared
  <2>2. pc'[t] = "setlk" /\ ret'[t] = "idle" BY <2>1, CallHere
  <2> QED BY <2>2 DEF PathOK, Usual
<1>2. ASSUME NEW l \in Lock, Unlock(t, l) PROVE PathOK(t)'
  <2>1. \E a : Call(t, "grant", "unlocked", a) BY <1>2 DEF Unlock
  <2>2. pc'[t] = "grant" /\ ret'[t] = "unlocked" BY <2>1, CallHere
  <2> QED BY <2>2 DEF PathOK, Usual
<1>3. ASSUME NEW c \in Client, Disconnect(t, c) \/ Destroy(t, c)
      PROVE  PathOK(t)'
  <2>1. \E a : Call(t, "cleanup", "idle", a)
    BY <1>3 DEF Disconnect, Destroy, Cleanup
  <2>2. pc'[t] = "cleanup" /\ ret'[t] = "idle" BY <2>1, CallHere
  <2> QED BY <2>2 DEF PathOK, Usual
<1>4. CASE Return(t)
  <2>1. pc'[t] = "idle" /\ ret'[t] = "idle" BY <1>4, CallHere DEF Return
  <2> QED BY <2>1 DEF PathOK, Usual
<1>5. CASE SetlkGrant(t) \/ SetlkBlock(t) \/ SetlkEagain(t) \/ UnlockReturn(t)
             \/ CleanupReturn(t)
  BY <1>4, <1>5 DEF SetlkGrant, SetlkBlock, SetlkEagain, UnlockReturn,
     CleanupReturn
<1>6. CASE GrantEnter(t) \/ GrantLeave(t)
  <2>1. /\ \E label \in {"granting", "unwinding"} : Goto(t, label)
    BY <1>6 DEF GrantEnter, GrantLeave
  <2>2. pc'[t] \in {"granting", "unwinding"} BY <2>1, GotoHere
  <2> QED BY <2>2 DEF PathOK, Usual
<1>7. CASE GrantOne(t) \/ GrantRequeue(t) \/ GrantUnwind(t) \/ CleanupOne(t)
             \/ CleanupUnwind(t)
  <2>1. UNCHANGED <<pc, ret>>
    BY <1>7 DEF GrantOne, GrantRequeue, GrantUnwind, CleanupOne, CleanupUnwind,
       run
  <2> QED BY <2>1 DEF PathOK
<1>8. CASE GrantUnref(t)
  <2>1. Return(t) \/ Goto(t, ret[t]) BY <1>8 DEF GrantUnref
  <2>2. CASE Goto(t, ret[t])
    <3>1. pc'[t] = ret[t] /\ ret'[t] = ret[t] BY <2>2, GotoHere
    <3>2. ret[t] \in {"idle", "setlk", "unlocked", "cleanup_unref"}
      BY DEF RunOK
    <3> QED BY <3>1, <3>2 DEF PathOK, Usual
  <2> QED BY <1>4, <2>1, <2>2
<1>9. CASE CleanupLeave(t)
  <2>1. pc[t] = "cleanup" /\ Goto(t, "cleanup_unwind") BY <1>9 DEF CleanupLeave
  <2>2. pc'[t] = "cleanup_unwind" /\ ret'[t] = ret[t] BY <2>1, GotoHere
  <2> QED BY <2>1, <2>2 DEF PathOK, Usual
<1>10. CASE CleanupGrant(t)
  <2>1. \E a : Call(t, "grant", "cleanup_unref", a) BY <1>10 DEF CleanupGrant
  <2>2. pc'[t] = "grant" /\ ret'[t] = "cleanup_unref" BY <2>1, CallHere
  <2> QED BY <2>2 DEF PathOK, Usual
<1>11. CASE CleanupUnref(t)
  <2>1. \E a : Call(t, "cleanup_unwind", "idle", a) BY <1>11 DEF CleanupUnref
  <2>2. pc'[t] = "cleanup_unwind" /\ ret'[t] = "idle" BY <2>1, CallHere
  <2> QED BY <2>2 DEF PathOK, Usual
<1> QED
  BY <1>1, <1>2, <1>3, <1>5, <1>6, <1>7, <1>8, <1>9, <1>10, <1>11, UsualActs
  DEF GrantStep, CleanupStep

LEMMA NextEndInv ==
  ASSUME Uncleared
  PROVE  EndInv /\ [Next]_vars => EndInv'
<1> SUFFICES ASSUME EndInv, [Next]_vars PROVE EndInv'
  OBVIOUS
<1>1. HoldInv' BY NextHoldInv DEF EndInv
<1>2. ASSUME NEW t \in Thread, Acts(t) PROVE EndInv'
  <2>1. TypeOK /\ RunOK /\ PlaceOK /\ PathOK(t)
    BY DEF EndInv, HoldInv, LifeInv, TypeInv, TypeOK
  <2>2. Elsewhere(t) /\ PathOK(t)' BY <1>2, <2>1, OthersStay, PathStays
  <2>3. \A u \in Thread : PathOK(u)' BY <2>2 DEF EndInv, PathOK, Elsewhere
  <2>4. ASSUME NEW l \in Lock, Request(t, l) \/ Unlock(t, l) PROVE EndsOK'
    BY <2>2, <2>4, AskEnds, UnlockEnds
  <2>5. ASSUME NEW c \in Client, Disconnect(t, c) \/ Destroy(t, c) PROVE EndsOK'
    BY <2>2, <2>5, CleanupEnds
  <2>6. ASSUME SetlkGrant(t) \/ SetlkBlock(t) PROVE EndsOK'
    BY <2>2, <2>6, SetlkEnds
  <2>7. ASSUME CleanupOne(t) \/ CleanupLeave(t) \/ CleanupReturn(t)
        PROVE  EndsOK'
    BY <2>2, <2>7, LoopEnds
  <2>8. ASSUME \/ SetlkEagain(t) \/ UnlockReturn(t) \/ GrantStep(t)
               \/ CleanupUnwind(t) \/ CleanupGrant(t) \/ CleanupUnref(t)
        PROVE  EndsOK'
    <3>1. Calm(t) BY <2>1, <2>8, CalmActs
    <3> QED BY <2>2, <3>1, CalmEnds
  <2>9. \/ \E l \in Lock : Request(t, l) \/ Unlock(t, l)
        \/ \E c \in Client : Disconnect(t, c) \/ Destroy(t, c)
        \/ SetlkGrant(t) \/ SetlkBlock(t) \/ SetlkEagain(t) \/ UnlockReturn(t)
        \/ GrantStep(t) \/ CleanupStep(t)
    BY <1>2, <2>1, UsualActs
  <2>10. EndsOK'
    BY <2>4, <2>5, <2>6, <2>7, <2>8, <2>9 DEF CleanupStep
  <2> QED BY <1>1, <2>3, <2>10 DEF EndInv, EndsOK
<1>3. CASE UNCHANGED vars
  <2>1. UNCHANGED <<pc, ret, arg, cursor>> BY <1>3 DEF vars, run, locals
  <2>2. UNCHANGED <<frame, client_list, ctx_lock, conn>>
    BY <1>3 DEF vars, objs, lists, shared
  <2>3. \A t \in Thread : PathOK(t)' /\ CursorOK(t)'
    BY <2>1, <2>2 DEF EndInv, PathOK, CursorOK, First
  <2>4. \A c \in Client : EndOK(c)'
    BY <2>1, <2>2 DEF EndInv, EndOK, Ended
  <2> QED BY <1>1, <2>3, <2>4 DEF EndInv
<1>4. CASE Next BY <1>2, <1>4 DEF Next, Acts
<1> QED BY <1>3, <1>4

(* When nothing clears locks, the lock that the loop of the cleanup saves  *)
(* as the next one is still on the list of the client when the loop comes  *)
(* to it: ctx->lock keeps everyone else off that list.                     *)
THEOREM CleanupCursorLive ==
  ASSUME ClearLocks = {}, ~Revocation
  PROVE  Spec => []CursorLive
<1>1. Uncleared BY DEF Uncleared
<1>2. EndInv => CursorLive
  <2> SUFFICES ASSUME EndInv, NEW t \in Thread, pc[t] = "cleanup",
                      cursor[t] # NoLock
               PROVE  cursor[t] \in Elems(client_list[arg[t].client])
    BY DEF CursorLive
  <2>1. /\ CursorOK(t) /\ PlaceOK /\ client_list \in [Client -> Seq(Lock)]
    BY DEF EndInv, HoldInv, LifeInv, TypeInv, TypeOK, ListsOK
  <2>2. arg[t].client \in Client BY <2>1 DEF PlaceOK
  <2>3. client_list[arg[t].client] \in Seq(Lock) BY <2>1, <2>2
  <2>4. cursor[t] = First(client_list[arg[t].client]) BY <2>1 DEF CursorOK
  <2>5. client_list[arg[t].client] # <<>> BY <2>4 DEF First
  <2> QED BY <2>3, <2>4, <2>5, FirstIs
<1> QED BY <1>1, <1>2, InitEndInv, NextEndInv, PTL DEF Spec

(* When nothing clears locks, a client that pl_client_destroy_cbk is done  *)
(* with has no lock left, neither granted nor waited for, and its list of  *)
(* locks is empty.                                                         *)
THEOREM NothingLeftBehind ==
  ASSUME ClearLocks = {}, ~Revocation
  PROVE  Spec => []DestroyedHoldsNothing
<1>1. Uncleared BY DEF Uncleared
<1>2. EndInv => DestroyedHoldsNothing
  <2> SUFFICES ASSUME EndInv, NEW c \in Client, conn[c] = "destroyed"
               PROVE  /\ client_list[c] = <<>>
                      /\ \A l \in Lock : attr[l].client = c
                           => ~(l \in inodelk_list \/ Waiting(l))
    BY DEF DestroyedHoldsNothing
  <2>1. HoldInv /\ EndOK(c) BY DEF EndInv
  <2>2. client_list[c] = <<>> BY <2>1 DEF EndOK
  <2>3. ASSUME NEW l \in Lock, attr[l].client = c
        PROVE  l \notin inodelk_list /\ ~Waiting(l)
    <3>1. frame[l] # "wait" BY <2>1, <2>3 DEF EndOK, Ended
    <3>2. ~Waiting(l) BY <2>1, <3>1, WaitingIs
    <3>3. ~Listed(l) BY <2>2, <2>3, EmptyElems DEF Listed
    <3>4. Life(l) BY <2>1 DEF HoldInv, LifeInv
    <3> QED BY <3>2, <3>3, <3>4 DEF Life
  <2> QED BY <2>2, <2>3
<1> QED BY <1>1, <1>2, InitEndInv, NextEndInv, PTL DEF Spec

----------------------------------------------------------------------------
(* References, for finitely many requests and threads                     *)

LOCAL FT == INSTANCE FiniteSetTheorems

(* The finite sets of the library are those of the model.                  *)
LEMMA SameCount ==
  ASSUME NEW S
  PROVE  /\ FT!Cardinality(S) = Cardinality(S)
         /\ FT!IsFiniteSet(S) <=> IsFiniteSet(S)
BY DEF FT!Cardinality, FT!IsFiniteSet, Cardinality, IsFiniteSet

LEMMA FiniteCounted == ASSUME NEW U, IsFiniteSet(U) PROVE Counted(U)
<1>1. Cardinality({}) = 0 BY FT!FS_EmptySet, SameCount
<1>2. ASSUME NEW S \in SUBSET U, NEW T \in SUBSET U, NEW x, T \ {x} = S \ {x}
      PROVE  /\ Cardinality(S) \in Int
             /\ Cardinality(T) = Cardinality(S) - Count(x \in S) + Count(x \in T)
  <2>1. IsFiniteSet(S) BY FT!FS_Subset, SameCount
  <2>2. Cardinality(S) \in Nat BY <2>1, FT!FS_CardinalityType, SameCount
  <2>3. /\ IsFiniteSet(S \ {x})
        /\ Cardinality(S \ {x})
             = IF x \in S THEN Cardinality(S) - 1 ELSE Cardinality(S)
    BY <2>1, FT!FS_RemoveElement, SameCount
  <2>4. Cardinality((S \ {x}) \cup {x}) = Cardinality(S \ {x}) + 1
    <3>1. x \notin S \ {x} OBVIOUS
    <3>2. /\ FT!IsFiniteSet(S \ {x})
          /\ FT!Cardinality((S \ {x}) \cup {x})
               = IF x \in S \ {x} THEN FT!Cardinality(S \ {x})
                                 ELSE FT!Cardinality(S \ {x}) + 1
      BY <2>3, FT!FS_AddElement, SameCount
    <3> QED BY <3>1, <3>2, SameCount
  <2>5. CASE x \in T
    <3>1. T = (S \ {x}) \cup {x} BY <1>2, <2>5
    <3> QED BY <2>2, <2>3, <2>4, <2>5, <3>1, SMT DEF Count
  <2>6. CASE x \notin T
    <3>1. T = S \ {x} BY <1>2, <2>6
    <3> QED BY <2>2, <2>3, <2>6, <3>1, SMT DEF Count
  <2> QED BY <2>5, <2>6
<1> QED BY <1>1, <1>2 DEF Counted

(* For finitely many requests and threads, and as long as no locks are     *)
(* cleared or revoked: the count of a lock is one for each list it is in   *)
(* and each grant pass or cleanup that still uses it, and the references   *)
(* to the inode are those of the locks and of the unlocks under way, so    *)
(* __pl_inodelk_unref frees neither early nor late.                        *)
THEOREM ReferencesExact ==
  ASSUME IsFiniteSet(Lock), IsFiniteSet(Thread), ClearLocks = {}, ~Revocation
  PROVE  Spec => []RefExact
<1>1. Uncleared BY DEF Uncleared
<1>2. Counted(Lock) /\ Counted(Thread) BY FiniteCounted
<1>3. Init => RefInv BY <1>1, <1>2, InitRefInv
<1>4. RefInv /\ [Next]_vars => RefInv' BY <1>1, <1>2, NextRefInv
<1>5. RefInv => RefExact BY RefIsExact
<1> QED BY <1>3, <1>4, <1>5, PTL DEF Spec
============================================================================
