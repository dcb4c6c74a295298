---------------------------- MODULE MgmtV3Proofs ----------------------------
(***************************************************************************)
(* TimerCovers, CommitUnderLock and AllOrNothing for any cluster, any      *)
(* transactions and any number of faults: no order of locks, unlocks,      *)
(* disconnects, restarts and expiring timers leaves a mgmt_v3 lock that no *)
(* timer will take back or lets a glusterd commit without the locks, and   *)
(* what the CLI is told of a transaction agrees with what every glusterd   *)
(* that took part and stayed connected has done.                           *)
(***************************************************************************)
EXTENDS MgmtV3, TLAPS

(* Leaves are first-order reasoning unless they cite SMT.                  *)
USE Zenon

(* The dicts have an entry per name, and a timer that is somewhere belongs *)
(* to a transaction.                                                       *)
LockTypes ==
  /\ mgmt_v3_lock \in [Node -> [Key -> Node \cup {NoNode}]]
  /\ timer \in [Node -> [Key -> Txn \cup {NoTxn}]]
  /\ armed \subseteq Node \X Key \X Txn
  /\ fired \subseteq Node \X Key \X Txn
  /\ cbk \subseteq Node \X Key \X Txn

(* Between the two halves of the callback its name is not locked: the      *)
(* second half may cancel whatever timer the dict has.                     *)
CbkUnlocked == \A e \in cbk : mgmt_v3_lock[e[1]][e[2]] = NoNode

TimerInv == LockTypes /\ CbkUnlocked /\ TimerCovers

LEMMA InitTimerInv == Init => TimerInv
  BY SMT DEF Init, TimerInv, LockTypes, CbkUnlocked, TimerCovers

(* The names of the transactions are locked by all or none of them.        *)
LEMMA MultipleLockInv ==
  ASSUME TimerInv, NEW n \in Node, NEW t \in Txn, origin[t] \in Node,
         keys[t] \subseteq Key, NEW ok \in BOOLEAN, MultipleLock(n, t, ok),
         UNCHANGED timers, CallbackWhole
  PROVE  TimerInv'
<1> DEFINE K == IF ok THEN keys[t] ELSE {}
<1>1. /\ mgmt_v3_lock' = [mgmt_v3_lock EXCEPT ![n] =
           [k \in Key |-> IF k \in K THEN origin[t] ELSE mgmt_v3_lock[n][k]]]
      /\ timer' = [timer EXCEPT ![n] =
           [k \in Key |-> IF k \in K THEN t ELSE timer[n][k]]]
      /\ armed' = armed \cup ({n} \X K \X {t})
      /\ fired' = fired /\ cbk' = cbk
  BY DEF MultipleLock, timers
<1>2. K \subseteq Key
  OBVIOUS
<1> HIDE DEF K
<1>3. LockTypes'
  BY <1>1, <1>2 DEF TimerInv, LockTypes
<1>4. CbkUnlocked'
  BY <1>1 DEF TimerInv, CbkUnlocked, CallbackWhole
<1>5. TimerCovers'
  <2> SUFFICES ASSUME NEW m \in Node, NEW k \in Key,
                      mgmt_v3_lock'[m][k] # NoNode
               PROVE  \E u \in Txn : <<m, k, u>> \in
                        fired' \cup (armed' \cap {<<m, k, timer'[m][k]>>})
    BY DEF TimerCovers
  <2>1. CASE m = n /\ k \in K
    <3>1. timer'[m][k] = t /\ <<m, k, t>> \in armed'
      BY <1>1, <1>2, <2>1 DEF TimerInv, LockTypes
    <3> QED BY <3>1
  <2>2. CASE ~(m = n /\ k \in K)
    <3>1. /\ mgmt_v3_lock'[m][k] = mgmt_v3_lock[m][k]
          /\ timer'[m][k] = timer[m][k]
      BY <1>1, <2>2 DEF TimerInv, LockTypes
    <3> QED BY <1>1, <3>1 DEF TimerInv, TimerCovers
  <2> QED BY <2>1, <2>2
<1> QED BY <1>3, <1>4, <1>5 DEF TimerInv

(* A name that stays locked keeps its timer when others are unlocked.      *)
LEMMA UnlockInv ==
  ASSUME TimerInv, NEW n \in Node, NEW K \in SUBSET Key, Unlock(n, K),
         UNCHANGED timers, CallbackWhole
  PROVE  TimerInv'
<1>1. /\ mgmt_v3_lock' = [mgmt_v3_lock EXCEPT ![n] =
           [k \in Key |-> IF k \in K THEN NoNode ELSE mgmt_v3_lock[n][k]]]
      /\ timer' = [timer EXCEPT ![n] =
           [k \in Key |-> IF k \in K THEN NoTxn ELSE timer[n][k]]]
      /\ armed' = armed \ {<<n, k, timer[n][k]>> : k \in K}
      /\ fired' = fired /\ cbk' = cbk
  BY DEF Unlock, timers
<1>2. LockTypes'
  BY <1>1 DEF TimerInv, LockTypes
<1>3. CbkUnlocked'
  BY <1>1 DEF TimerInv, CbkUnlocked, CallbackWhole
<1>4. TimerCovers'
  <2> SUFFICES ASSUME NEW m \in Node, NEW k \in Key,
                      mgmt_v3_lock'[m][k] # NoNode
               PROVE  \E u \in Txn : <<m, k, u>> \in
                        fired' \cup (armed' \cap {<<m, k, timer'[m][k]>>})
    BY DEF TimerCovers
  <2>1. ~(m = n /\ k \in K)
    BY <1>1 DEF TimerInv, LockTypes
  <2>2. /\ mgmt_v3_lock'[m][k] = mgmt_v3_lock[m][k]
        /\ timer'[m][k] = timer[m][k]
    BY <1>1, <2>1 DEF TimerInv, LockTypes
  <2>3. PICK u \in Txn : <<m, k, u>> \in
                           fired \cup (armed \cap {<<m, k, timer[m][k]>>})
    BY <2>2 DEF TimerInv, TimerCovers
  <2>4. <<m, k, u>> \notin {<<n, j, timer[n][j]>> : j \in K}
    BY <2>1
  <2> QED BY <1>1, <2>2, <2>3, <2>4
<1> QED BY <1>2, <1>3, <1>4 DEF TimerInv

(* Steps that touch neither the locks nor their timers.                    *)
LEMMA LocksUnchangedInv ==
  ASSUME TimerInv, UNCHANGED <<locks, timers>>
  PROVE  TimerInv'
  BY DEF TimerInv, LockTypes, CbkUnlocked, TimerCovers, locks, timers

----------------------------------------------------------------------------
(* The steps                                                               *)

(* What a phase does on a glusterd.                                        *)
LEMMA PerformInv ==
  ASSUME TimerInv, NEW n \in Node, NEW t \in Txn, NEW phase,
         NEW ok \in BOOLEAN, Perform(n, t, phase, ok), UNCHANGED timers,
         CallbackWhole
  PROVE  TimerInv'
<1>1. origin[t] \in Node /\ keys[t] \in SUBSET Key
  BY TxnAssumption
<1>2. CASE MultipleLock(n, t, ok)
  BY <1>1, <1>2, MultipleLockInv
<1>3. CASE MultipleUnlock(n, t, ok)
  <2>1. Unlock(n, Owned(n, keys[t], origin[t]))
    BY <1>3 DEF MultipleUnlock
  <2>2. Owned(n, keys[t], origin[t]) \in SUBSET Key
    BY <1>1 DEF Owned
  <2> QED BY <2>1, <2>2, UnlockInv
<1>4. CASE UNCHANGED locks
  BY <1>4, LocksUnchangedInv
<1> QED BY <1>2, <1>3, <1>4 DEF Perform

(* Both halves of a transaction's step: its own part, then the requests.   *)
LEMMA EnterInv ==
  ASSUME TimerInv, NEW t \in Txn, NEW x, Enter(t, x), UNCHANGED timers,
         CallbackWhole
  PROVE  TimerInv'
<1>1. origin[t] \in Node
  BY TxnAssumption
<1>2. PICK ok \in BOOLEAN : Perform(origin[t], t, x.phase, ok)
  BY DEF Enter
<1> QED BY <1>1, <1>2, PerformInv

(* An event that fires is still a timer of its name.                       *)
LEMMA ExpireInv ==
  ASSUME TimerInv, NEW n \in Node, NEW k \in Key, NEW t \in Txn,
         Expire(n, k, t)
  PROVE  TimerInv'
  BY DEF TimerInv, LockTypes, CbkUnlocked, TimerCovers, Expire

(* The first half of the callback leaves nothing to cover ...              *)
LEMMA TimerCbkLockInv ==
  ASSUME TimerInv, NEW n \in Node, NEW k \in Key, NEW t \in Txn,
         TimerCbkLock(n, k, t)
  PROVE  TimerInv'
<1>1. /\ mgmt_v3_lock' = [mgmt_v3_lock EXCEPT ![n][k] = NoNode]
      /\ fired' = fired \ {<<n, k, t>>} /\ cbk' = cbk \cup {<<n, k, t>>}
      /\ timer' = timer /\ armed' = armed
  BY DEF TimerCbkLock
<1>2. LockTypes'
  BY <1>1, SMT DEF TimerInv, LockTypes
<1>3. CbkUnlocked'
  BY <1>1, SMT DEF TimerInv, LockTypes, CbkUnlocked
<1>4. TimerCovers'
  BY <1>1, ZenonT(60) DEF TimerInv, LockTypes, TimerCovers
<1> QED BY <1>2, <1>3, <1>4 DEF TimerInv

(* ... and the second one finds the name unlocked.                         *)
LEMMA TimerCbkTimerInv ==
  ASSUME TimerInv, NEW n \in Node, NEW k \in Key, NEW t \in Txn,
         TimerCbkTimer(n, k, t)
  PROVE  TimerInv'
<1>1. /\ mgmt_v3_lock' = mgmt_v3_lock /\ fired' = fired
      /\ cbk' = cbk \ {<<n, k, t>>} /\ armed' = armed \ {<<n, k, timer[n][k]>>}
      /\ timer' = [timer EXCEPT ![n][k] = NoTxn]
  BY DEF TimerCbkTimer
<1>2. mgmt_v3_lock[n][k] = NoNode
  BY DEF TimerCbkTimer, TimerInv, CbkUnlocked
<1>3. LockTypes'
  BY <1>1 DEF TimerInv, LockTypes
<1>4. CbkUnlocked'
  BY <1>1 DEF TimerInv, CbkUnlocked
<1>5. TimerCovers'
  BY <1>1, <1>2, ZenonT(60) DEF TimerInv, LockTypes, TimerCovers
<1> QED BY <1>3, <1>4, <1>5 DEF TimerInv

LEMMA RestartInv ==
  ASSUME TimerInv, NEW n \in Node, Restart(n)
  PROVE  TimerInv'
<1>1. /\ mgmt_v3_lock' = [mgmt_v3_lock EXCEPT ![n] = [k \in Key |-> NoNode]]
      /\ timer' = [timer EXCEPT ![n] = [k \in Key |-> NoTxn]]
      /\ armed' = {e \in armed : e[1] # n}
      /\ fired' = {e \in fired : e[1] # n}
      /\ cbk' = {e \in cbk : e[1] # n}
  BY DEF Restart
<1>2. LockTypes'
  BY <1>1 DEF TimerInv, LockTypes
<1>3. CbkUnlocked'
  BY <1>1 DEF TimerInv, LockTypes, CbkUnlocked
<1>4. TimerCovers'
  BY <1>1 DEF TimerInv, LockTypes, TimerCovers
<1> QED BY <1>2, <1>3, <1>4 DEF TimerInv

(* The inductive step, action by action.                                   *)
LEMMA NextTimerInv ==
  ASSUME TimerInv, [Next /\ CallbackWhole]_vars
  PROVE  TimerInv'
<1>1. CASE UNCHANGED vars
  BY <1>1, LocksUnchangedInv DEF vars
<1>2. CASE Next /\ CallbackWhole
  <2> USE <1>2
  <2>1. ASSUME NEW t \in Txn, Start(t) PROVE TimerInv'
    <3>1. origin[t] \in Node /\ keys[t] \subseteq Key
      BY TxnAssumption
    <3>2. PICK ok \in BOOLEAN : MultipleLock(origin[t], t, ok)
      BY <2>1 DEF Start
    <3> QED BY <2>1, <3>1, <3>2, MultipleLockInv DEF Start
  <2>2. ASSUME NEW t \in Txn, Advance(t) PROVE TimerInv'
    <3>1. PICK x : \/ UNCHANGED locks
                   \/ Enter(t, x)
      BY <2>2 DEF Advance
    <3> QED BY <2>2, <3>1, EnterInv, LocksUnchangedInv DEF Advance
  <2>3. ASSUME NEW t \in Txn, Finish(t) PROVE TimerInv'
    <3>1. PICK ok \in BOOLEAN : MultipleUnlock(origin[t], t, ok)
      BY <2>3 DEF Finish
    <3>2. origin[t] \in Node /\ keys[t] \subseteq Key
      BY TxnAssumption
    <3>3. Owned(origin[t], keys[t], origin[t]) \in SUBSET Key
      BY <3>2 DEF Owned
    <3> QED BY <2>3, <3>1, <3>2, <3>3, UnlockInv DEF Finish, MultipleUnlock
  <2>4. ASSUME NEW t \in Txn, NEW n \in Node, NEW p \in Phases,
               Handle(t, n, p)
        PROVE  TimerInv'
    BY <2>4, PerformInv DEF Handle
  <2>5. ASSUME NEW n \in Node, NEW m \in Node,
               Break(n, m) \/ Connect(n, m)
        PROVE  TimerInv'
    BY <2>5, LocksUnchangedInv DEF Break, Connect
  <2>6. ASSUME NEW n \in Node, NEW m \in Node, Disconnect(n, m)
        PROVE  TimerInv'
    <3>1. Owned(n, VolKey, m) \in SUBSET Key
      BY TxnAssumption DEF Owned
    <3> QED BY <2>6, <3>1, UnlockInv DEF Disconnect
  <2>7. ASSUME NEW n \in Node, Restart(n) PROVE TimerInv'
    BY <2>7, RestartInv
  <2>8. ASSUME NEW n \in Node, NEW k \in Key, NEW t \in Txn,
               \/ Expire(n, k, t)
               \/ TimerCbkLock(n, k, t)
               \/ TimerCbkTimer(n, k, t)
        PROVE  TimerInv'
    BY <2>8, ExpireInv, TimerCbkLockInv, TimerCbkTimerInv
  <2> QED BY <2>1, <2>2, <2>3, <2>4, <2>5, <2>6, <2>7, <2>8 DEF Next
<1> QED BY <1>1, <1>2

(* Every mgmt_v3 lock has a timer that will release it (the timer armed by *)
(* glusterd_mgmt_v3_lock, or one that has fired and whose callback is to   *)
(* delete the lock), in clusters of any size and whatever faults occur.    *)
THEOREM LocksAreCovered == FairSpec => []TimerCovers
<1>1. TimerInv => TimerCovers
  BY DEF TimerInv
<1> QED BY <1>1, InitTimerInv, NextTimerInv, PTL DEF FairSpec

----------------------------------------------------------------------------
(* No commit without locks, when no glusterd originates more than one      *)
(* transaction.  (The owner of a lock is a glusterd: a transaction cannot  *)
(* tell its locks from those of another one of the same originator.)       *)

OneTxnPerNode == \A t, u \in Txn : origin[t] = origin[u] => t = u

After == {"prevalidate", "brick_pre", "commit", "brick_post", "post", "cleanup"}

TxnRec == [phase : Phases \cup {"new", "end", "dead"}, gen : Nat,
           with : SUBSET Node, pend : SUBSET Node, ret : BOOLEAN,
           failed : BOOLEAN, success : BOOLEAN, unbarriered : BOOLEAN,
           cleaned : BOOLEAN]

TxnTypes ==
  /\ txn \in [Txn -> TxnRec]
  /\ \A t \in Txn : flow[t] = "all" =>
       txn[t].phase \notin {"brick_pre", "brick_post", "cleanup"}
  /\ conn \in [Node -> [Node -> {"up", "broken", "down"}]]
  /\ gen \in [Node -> [Node -> Nat]]

(* t may have lost a lock on n, or its originator.                         *)
Gone(t, n) == <<t, n>> \in lost \/ <<t, origin[t]>> \in lost

(* n holds the locks of t, and they are t's own.                           *)
Held(t, n) == \A k \in keys[t] : /\ mgmt_v3_lock[n][k] = origin[t]
                                 /\ timer[n][k] = t

(* A glusterd t waits for is connected and was so when t began; nobody     *)
(* knows of a later generation than the counter.                           *)
Waits(t) ==
  /\ txn[t].gen <= gen[origin[t]][origin[t]]
  /\ ~Running(t) => txn[t].pend = {}
  /\ \A n \in txn[t].pend : n \in Eligible(t, txn[t])
                             /\ conn[origin[t]][n] = "up"

(* A request on its way is waited for, or its connection is gone.          *)
Asked(t) ==
  \A n \in Node, p \in Phases : <<t, n, p>> \in req =>
    Gone(t, n) \/ (Running(t) /\ txn[t].phase = p /\ n \in txn[t].pend)

(* Between lockdown and unlock, whoever could get a request holds the      *)
(* locks; while the lockdown is under way, or it will fail.                *)
Locked(t) ==
  /\ txn[t].phase \in After \cup {"lock"} =>
       Gone(t, origin[t]) \/ Held(t, origin[t])
  /\ txn[t].phase \in After => \A n \in Eligible(t, txn[t]) :
       Gone(t, n) \/ Held(t, n)
  /\ txn[t].phase = "lock" => \A n \in Eligible(t, txn[t]) :
       Gone(t, n) \/ Held(t, n) \/ n \in txn[t].pend \/ ~txn[t].ret

DoneTypes == done \in [Node -> SUBSET Txn]

CommitInv ==
  /\ TimerInv /\ TxnTypes /\ DoneTypes
  /\ \A t \in Txn : Waits(t) /\ Asked(t) /\ Locked(t)

LEMMA InitCommitInv == Init => CommitInv
<1> SUFFICES ASSUME Init PROVE CommitInv
  OBVIOUS
<1>1. TimerInv
  BY InitTimerInv
<1>2. Idle \in TxnRec
  BY DEF Idle, TxnRec, Phases
<1>3. \A t \in Txn : txn[t] = Idle /\ Idle.phase = "new" /\ Idle.pend = {}
                                  /\ Idle.gen = 0
  BY DEF Init, Idle
<1>4. TxnTypes
  BY <1>2, <1>3 DEF Init, TxnTypes
<1>5. ASSUME NEW t \in Txn PROVE Waits(t) /\ Asked(t) /\ Locked(t)
  <2>1. origin[t] \in Node
    BY TxnAssumption
  <2> QED BY <1>3, <2>1, SMT DEF Init, Waits, Asked, Locked, Running, After
<1>6. DoneTypes
  BY DEF Init, DoneTypes
<1> QED BY <1>1, <1>4, <1>5, <1>6 DEF CommitInv

----------------------------------------------------------------------------
(* What becomes of the locks a transaction holds                           *)

(* A lockdown takes names that are free ...                                *)
LEMMA HeldMultipleLock ==
  ASSUME LockTypes, NEW n \in Node, NEW t \in Txn, NEW ok \in BOOLEAN,
         MultipleLock(n, t, ok), NEW u \in Txn, NEW m \in Node, Held(u, m)
  PROVE  Held(u, m)'
<1>1. origin[u] # NoNode /\ keys[u] \subseteq Key
  BY TxnAssumption
<1>2. ASSUME NEW k \in keys[u]
      PROVE  mgmt_v3_lock'[m][k] = origin[u] /\ timer'[m][k] = u
  <2>1. mgmt_v3_lock[m][k] = origin[u] /\ timer[m][k] = u
    BY DEF Held
  <2>2. m = n /\ ok => k \notin keys[t]
    BY <1>1, <2>1 DEF MultipleLock
  <2> QED BY <1>1, <2>1, <2>2 DEF MultipleLock, LockTypes
<1> QED BY <1>2 DEF Held

(* ... and makes them its own.                                             *)
LEMMA OwnMultipleLock ==
  ASSUME LockTypes, NEW n \in Node, NEW t \in Txn, MultipleLock(n, t, TRUE)
  PROVE  Held(t, n)'
<1>1. keys[t] \subseteq Key
  BY TxnAssumption
<1> QED BY <1>1 DEF Held, MultipleLock, LockTypes

(* An unlock spares the locks of others.                                   *)
LEMMA HeldUnlock ==
  ASSUME LockTypes, NEW n \in Node, NEW K, NEW uuid,
         Unlock(n, Owned(n, K, uuid)), NEW u \in Txn, NEW m \in Node,
         Held(u, m), m # n \/ origin[u] # uuid
  PROVE  Held(u, m)'
<1>1. keys[u] \subseteq Key
  BY TxnAssumption
<1>2. ASSUME NEW k \in keys[u]
      PROVE  mgmt_v3_lock'[m][k] = origin[u] /\ timer'[m][k] = u
  <2>1. mgmt_v3_lock[m][k] = origin[u] /\ timer[m][k] = u
    BY DEF Held
  <2>2. m = n => k \notin Owned(n, K, uuid)
    BY <2>1 DEF Owned
  <2> QED BY <1>1, <2>1, <2>2 DEF Unlock, LockTypes
<1> QED BY <1>2 DEF Held

LEMMA HeldUnchanged ==
  ASSUME NEW u \in Txn, NEW m \in Node, Held(u, m), UNCHANGED locks
  PROVE  Held(u, m)'
  BY DEF Held, locks

(* A phase of t leaves the locks of others, its own on other glusterds,    *)
(* and its own here unless it unlocks.                                     *)
LEMMA PerformHeld ==
  ASSUME LockTypes, OneTxnPerNode, NEW n \in Node, NEW t \in Txn, NEW phase,
         NEW ok \in BOOLEAN, Perform(n, t, phase, ok), NEW u \in Txn,
         NEW m \in Node, Held(u, m), m # n \/ u # t \/ phase # "unlock"
  PROVE  Held(u, m)'
<1>1. CASE MultipleLock(n, t, ok)
  BY <1>1, HeldMultipleLock
<1>2. CASE phase = "unlock" /\ MultipleUnlock(n, t, ok)
  <2>1. m # n \/ origin[u] # origin[t]
    BY <1>2 DEF OneTxnPerNode
  <2> QED BY <1>2, <2>1, HeldUnlock DEF MultipleUnlock
<1>3. CASE UNCHANGED locks
  BY <1>3, HeldUnchanged
<1> QED BY <1>1, <1>2, <1>3 DEF Perform

----------------------------------------------------------------------------
(* Steps of a transaction                                                  *)

(* A transaction that no step touches, whose locks stay and whose requests *)
(* grow no more.                                                           *)
LEMMA Bystander ==
  ASSUME NEW t \in Txn, Waits(t), Asked(t), Locked(t), txn'[t] = txn[t],
         UNCHANGED <<net, lost>>,
         \A m \in Node : Held(t, m) => Held(t, m)',
         \A n \in Node, p \in Phases : <<t, n, p>> \in req' => <<t, n, p>> \in req
  PROVE  (Waits(t) /\ Asked(t) /\ Locked(t))'
<1>1. Eligible(t, txn[t])' = Eligible(t, txn[t])
  BY DEF Eligible, net
<1>2. \A n \in Node : Gone(t, n)' <=> Gone(t, n)
  BY DEF Gone
<1>3. Running(t)' <=> Running(t)
  BY DEF Running
<1>4. Waits(t)'
  BY <1>1, <1>3 DEF Waits, net
<1>5. Asked(t)'
  BY <1>2, <1>3 DEF Asked
<1>6. origin[t] \in Node /\ Eligible(t, txn[t]) \subseteq Node
  BY TxnAssumption DEF Eligible
<1>7. Locked(t)'
  BY <1>1, <1>2, <1>6 DEF Locked
<1> QED BY <1>4, <1>5, <1>7

LEMMA SendRec ==
  ASSUME TxnTypes, NEW t \in Txn, NEW x \in TxnRec, Send(t, x)
  PROVE  /\ txn' \in [Txn -> TxnRec]
         /\ \A u \in Txn \ {t} : txn'[u] = txn[u]
         /\ txn'[t].phase = x.phase /\ txn'[t].gen = x.gen
         /\ txn'[t].pend = {m \in Eligible(t, x) : conn[origin[t]][m] = "up"}
         /\ txn'[t].ret <=> Eligible(t, x) = txn'[t].pend
<1> DEFINE P == Eligible(t, x)
           up == {m \in P : conn[origin[t]][m] = "up"}
           y == [x EXCEPT !.pend = up, !.ret = P = up]
<1>1. up \in SUBSET Node /\ (P = up) \in BOOLEAN
  BY DEF Eligible
<1>2. y \in TxnRec /\ y.phase = x.phase /\ y.gen = x.gen /\ y.pend = up
      /\ y.ret = (P = up)
  <2> HIDE DEF P, up
  <2> QED BY <1>1 DEF TxnRec
<1>3. txn' = [txn EXCEPT ![t] = y]
  BY DEF Send
<1> HIDE DEF y
<1> QED BY <1>2, <1>3 DEF TxnTypes

(* After its requests are sent, a transaction waits for those it sent them *)
(* to.                                                                     *)
LEMMA SendOwn ==
  ASSUME TxnTypes, NEW t \in Txn, NEW x \in TxnRec, Send(t, x),
         x.phase \in Phases, x.gen <= gen[origin[t]][origin[t]],
         UNCHANGED <<net, lost>>,
         \A n \in Node, p \in Phases : <<t, n, p>> \in req => Gone(t, n)
  PROVE  /\ Waits(t)' /\ Asked(t)'
         /\ Eligible(t, txn[t])' = Eligible(t, x)
         /\ \A n \in Eligible(t, x) : n \in txn'[t].pend \/ ~txn'[t].ret
<1> DEFINE y == txn'[t]
<1>1. /\ y.phase = x.phase /\ y.gen = x.gen
      /\ y.pend = {m \in Eligible(t, x) : conn[origin[t]][m] = "up"}
      /\ y.ret <=> Eligible(t, x) = y.pend
  BY SendRec
<1>2. Eligible(t, txn[t])' = Eligible(t, x)
  BY <1>1 DEF Eligible, net
<1>3. Running(t)'
  BY <1>1 DEF Running, Phases
<1>4. Waits(t)'
  BY <1>1, <1>2, <1>3 DEF Waits, net
<1>5. Asked(t)'
  <2>1. ASSUME NEW n \in Node, NEW p \in Phases, <<t, n, p>> \in req'
        PROVE  Gone(t, n)' \/ (p = x.phase /\ n \in y.pend)
    BY <1>1, <2>1 DEF Send, Gone
  <2> QED BY <1>1, <1>3, <2>1 DEF Asked
<1> QED BY <1>1, <1>2, <1>4, <1>5

(* What the phases of both flows lead to.                                  *)
LEMMA NextPhase ==
  ASSUME TxnTypes, NEW t \in Txn, Running(t), txn[t].phase # "unlock",
         NEW x \in IF flow[t] = "all" THEN AllPhases(txn[t])
                                     ELSE SnapPhases(txn[t])
  PROVE  /\ x \in TxnRec /\ x.gen = txn[t].gen /\ x.pend = txn[t].pend
         /\ x.phase \in After \cup {"unlock"}
         /\ flow[t] = "all" => x.phase \notin {"brick_pre", "brick_post", "cleanup"}
         /\ txn[t].phase = "lock" /\ x.phase \in After => txn[t].ret
<1> DEFINE z == txn[t]
<1>1. z \in TxnRec
  BY DEF TxnTypes
<1>2. z.phase \in After \cup {"lock"}
  BY <1>1 DEF Running, TxnRec, Phases, After
<1>3. \A w \in TxnRec, p \in After \cup {"unlock"} :
        /\ Go(w, p) \in TxnRec /\ Fail(w, p) \in TxnRec
        /\ Go(w, p).phase = p /\ Fail(w, p).phase = p
        /\ Go(w, p).gen = w.gen /\ Fail(w, p).gen = w.gen
        /\ Go(w, p).pend = w.pend /\ Fail(w, p).pend = w.pend
  <2> TAKE w \in TxnRec, p \in After \cup {"unlock"}
  <2>1. p \in Phases
    BY DEF After, Phases
  <2>2. Go(w, p) \in TxnRec /\ Go(w, p).phase = p /\ Go(w, p).gen = w.gen
        /\ Go(w, p).pend = w.pend
    BY <2>1 DEF Go, TxnRec
  <2>3. Fail(w, p) \in TxnRec /\ Fail(w, p).phase = p /\ Fail(w, p).gen = w.gen
        /\ Fail(w, p).pend = w.pend
    BY <2>1 DEF Fail, TxnRec
  <2> QED BY <2>2, <2>3
<1>4. CASE flow[t] = "all"
  <2>1. z.phase \in {"lock", "prevalidate", "commit", "post"}
    BY <1>2, <1>4 DEF TxnTypes, After
  <2>2. \/ x = Fail(z, "unlock")
        \/ z.ret /\ \E p \in {"prevalidate", "commit", "post", "unlock"} : x = Go(z, p)
    BY <1>4, <2>1, SMTT(30) DEF AllPhases
  <2> QED BY <1>1, <1>3, <2>2, SMT DEF After
<1>5. CASE flow[t] # "all"
  <2>1. CASE z.phase = "lock"
    <3>1. x = Fail(z, "unlock") \/ (z.ret /\ x = Go(z, "prevalidate"))
      BY <1>5, <2>1 DEF SnapPhases
    <3> QED BY <1>1, <1>3, <1>5, <3>1, SMT DEF After
  <2>2. CASE z.phase = "prevalidate"
    <3>1. x = Fail(z, "cleanup") \/ x = Go(z, "brick_pre")
      BY <1>5, <2>2 DEF SnapPhases, PostValidate
    <3> QED BY <1>1, <1>3, <1>5, <2>2, <3>1, SMT DEF After
  <2>3. CASE z.phase = "brick_pre"
    <3>1. x = Go(z, "commit") \/ x = Go(z, "brick_post")
      BY <1>5, <2>3 DEF SnapPhases
    <3> QED BY <1>1, <1>3, <1>5, <2>3, <3>1, SMT DEF After
  <2>4. CASE z.phase = "commit"
    <3> DEFINE g == Go(z, "brick_post")
    <3>1. x = [g EXCEPT !.success = z.ret]
      BY <1>5, <2>4 DEF SnapPhases
    <3>2. g \in TxnRec /\ g.phase = "brick_post" /\ g.gen = z.gen /\ g.pend = z.pend
      BY <1>1, <1>3 DEF After
    <3>3. z.ret \in BOOLEAN
      BY <1>1 DEF TxnRec
    <3> HIDE DEF g
    <3>4. x \in TxnRec /\ x.phase = g.phase /\ x.gen = g.gen /\ x.pend = g.pend
      BY <3>1, <3>2, <3>3 DEF TxnRec
    <3> QED BY <1>5, <2>4, <3>2, <3>4 DEF After
  <2>5. CASE z.phase = "brick_post"
    <3> DEFINE y == [z EXCEPT !.unbarriered = z.ret]
    <3>1. x = Fail(y, "cleanup") \/ x = Go(y, "post")
      BY <1>5, <2>5 DEF SnapPhases, PostValidate
    <3>2. y \in TxnRec /\ y.gen = z.gen /\ y.pend = z.pend
      BY <1>1 DEF TxnRec
    <3> HIDE DEF y
    <3> QED BY <1>3, <1>5, <2>5, <3>1, <3>2, SMT DEF After
  <2>6. CASE z.phase \in {"post", "cleanup"}
    <3> DEFINE y == [z EXCEPT !.cleaned = z.failed /\ z.ret]
    <3>1. x = Go(y, "unlock") \/ x = Fail(y, "unlock")
      BY <1>5, <2>6 DEF SnapPhases
    <3>2. y \in TxnRec /\ y.gen = z.gen /\ y.pend = z.pend
      <4> DEFINE b == z.failed /\ z.ret
      <4>1. b \in BOOLEAN
        OBVIOUS
      <4> HIDE DEF b
      <4>2. [z EXCEPT !.cleaned = b] \in TxnRec
        BY <1>1, <4>1 DEF TxnRec
      <4>3. [z EXCEPT !.cleaned = b].gen = z.gen /\ [z EXCEPT !.cleaned = b].pend = z.pend
        BY <1>1 DEF TxnRec
      <4> QED BY <4>2, <4>3 DEF b
    <3> HIDE DEF y
    <3> QED BY <1>3, <1>5, <2>6, <3>1, <3>2, SMT DEF After
  <2> QED BY <1>2, <2>1, <2>2, <2>3, <2>4, <2>5, <2>6 DEF After
<1> QED BY <1>4, <1>5

(* The part of the invariant that is about transactions.                   *)
TxnInv == TxnTypes /\ \A t \in Txn : Waits(t) /\ Asked(t) /\ Locked(t)

LEMMA StartCommitInv ==
  ASSUME CommitInv, NEW t \in Txn, Start(t)
  PROVE  TxnInv'
<1> DEFINE n == origin[t]
           W == {n} \cup {m \in Node : conn[n][m] # "down"}
           x == [txn[t] EXCEPT !.gen = gen[n][n], !.phase = "lock", !.with = W]
           y == [x EXCEPT !.phase = "end", !.failed = TRUE]
<1>1. /\ LockTypes /\ TxnTypes /\ n \in Node
      /\ \A u \in Txn : Waits(u) /\ Asked(u) /\ Locked(u)
  BY TxnAssumption DEF CommitInv, TimerInv
<1>2. PICK ok \in BOOLEAN :
        /\ MultipleLock(n, t, ok)
        /\ IF ok THEN Send(t, x)
           ELSE txn' = [txn EXCEPT ![t] = y] /\ UNCHANGED req
  BY DEF Start
<1>3. /\ txn[t] \in TxnRec /\ gen[n][n] \in Nat /\ W \in SUBSET Node
      /\ ~Running(t) /\ txn[t].pend = {}
  BY <1>1 DEF Start, Running, TxnTypes, Waits
<1>4. UNCHANGED <<net, lost>> /\ conn' = conn /\ gen' = gen
  BY DEF Start, net
<1>5. x \in TxnRec /\ x.phase = "lock" /\ x.gen = gen[n][n] /\ x.pend = {}
  <2> HIDE DEF W
  <2> QED BY <1>3 DEF TxnRec, Phases
<1> HIDE DEF x
<1>6. y \in TxnRec /\ y.phase = "end" /\ y.gen = x.gen /\ y.pend = {}
  BY <1>5 DEF TxnRec, Phases
<1> HIDE DEF y
<1>7. \A u \in Txn, m \in Node : Held(u, m) => Held(u, m)'
  BY <1>1, <1>2, HeldMultipleLock
<1>8. /\ txn' \in [Txn -> TxnRec] /\ txn'[t].phase \in {"lock", "end"}
      /\ \A u \in Txn \ {t} : txn'[u] = txn[u]
  BY <1>1, <1>2, <1>5, <1>6, SendRec DEF TxnTypes
<1>9. TxnTypes'
  BY <1>1, <1>4, <1>8 DEF TxnTypes
<1>10. ASSUME NEW u \in Txn, u # t PROVE (Waits(u) /\ Asked(u) /\ Locked(u))'
  <2>1. \A m \in Node, p \in Phases : <<u, m, p>> \in req' => <<u, m, p>> \in req
    BY <1>2, <1>10, SMT DEF Send
  <2> QED BY <1>1, <1>4, <1>7, <1>8, <1>10, <2>1, Bystander
<1>11. \A m \in Node, p \in Phases : <<t, m, p>> \in req => Gone(t, m)
  BY <1>1, <1>3 DEF Asked
<1>12. CASE ok
  <2>1. Send(t, x) /\ x.phase \in Phases
    BY <1>2, <1>5, <1>12 DEF Phases
  <2>2. x.gen <= gen[origin[t]][origin[t]]
    BY <1>3, <1>5, SMTT(30)
  <2>3. /\ Waits(t)' /\ Asked(t)'
        /\ Eligible(t, txn[t])' = Eligible(t, x)
        /\ \A m \in Eligible(t, x) : m \in txn'[t].pend \/ ~txn'[t].ret
    BY <1>1, <1>4, <1>5, <1>11, <2>1, <2>2, SendOwn
  <2>4. Held(t, n)'
    BY <1>1, <1>2, <1>12, OwnMultipleLock
  <2>5. txn'[t].phase = "lock"
    BY <1>1, <1>5, <2>1, SendRec
  <2>6. Locked(t)'
    BY <2>3, <2>4, <2>5 DEF Locked, After
  <2> QED BY <1>9, <1>10, <2>3, <2>6 DEF TxnInv
<1>13. CASE ~ok
  <2>1. txn'[t] = y /\ req' = req
    BY <1>1, <1>2, <1>13 DEF TxnTypes
  <2>2. Waits(t)'
    BY <1>3, <1>4, <1>5, <1>6, <2>1, SMT DEF Waits
  <2>3. Asked(t)'
    BY <1>4, <1>11, <2>1 DEF Asked, Gone
  <2>4. Locked(t)'
    BY <1>6, <2>1 DEF Locked, After
  <2> QED BY <1>9, <1>10, <2>2, <2>3, <2>4 DEF TxnInv
<1> QED BY <1>12, <1>13

LEMMA AdvanceCommitInv ==
  ASSUME CommitInv, OneTxnPerNode, NEW t \in Txn, Advance(t)
  PROVE  TxnInv'
<1> DEFINE n == origin[t]
<1>1. /\ LockTypes /\ TxnTypes /\ n \in Node
      /\ \A u \in Txn : Waits(u) /\ Asked(u) /\ Locked(u)
  BY TxnAssumption DEF CommitInv, TimerInv
<1>2. /\ Running(t) /\ txn[t].phase # "unlock" /\ txn[t].pend = {}
      /\ UNCHANGED <<net, lost>> /\ conn' = conn /\ gen' = gen
  BY DEF Advance, net
<1>3. PICK x \in IF flow[t] = "all" THEN AllPhases(txn[t]) ELSE SnapPhases(txn[t]) :
        IF x.phase = "unlock" THEN Send(t, x) /\ UNCHANGED <<locks, data>>
                              ELSE Enter(t, x)
  BY DEF Advance
<1>4. /\ x \in TxnRec /\ x.gen = txn[t].gen /\ x.pend = {}
      /\ x.phase \in After \cup {"unlock"}
      /\ flow[t] = "all" => x.phase \notin {"brick_pre", "brick_post", "cleanup"}
      /\ txn[t].phase = "lock" /\ x.phase \in After => txn[t].ret
  BY <1>1, <1>2, NextPhase
<1>5. x.phase \in Phases /\ x.gen <= gen[origin[t]][origin[t]]
  BY <1>1, <1>4 DEF After, Phases, Waits
<1> DEFINE y == [x EXCEPT !.ret = FALSE]
<1>6. \/ Send(t, x)
      \/ txn' = [txn EXCEPT ![t] = y] /\ req' = req
  BY <1>3 DEF Enter
<1>7. y \in TxnRec /\ y.phase = x.phase /\ y.gen = x.gen /\ y.pend = {}
  BY <1>4 DEF TxnRec
<1> HIDE DEF y
<1>8. /\ txn' \in [Txn -> TxnRec] /\ txn'[t].phase = x.phase
      /\ txn'[t].gen = x.gen
      /\ \A u \in Txn \ {t} : txn'[u] = txn[u]
  BY <1>1, <1>4, <1>6, <1>7, SendRec DEF TxnTypes
<1>9. TxnTypes'
  BY <1>1, <1>2, <1>4, <1>8 DEF TxnTypes
<1>10. \A u \in Txn, m \in Node : Held(u, m) => Held(u, m)'
  <2>1. CASE x.phase = "unlock"
    BY <1>3, <2>1, HeldUnchanged
  <2>2. CASE x.phase # "unlock"
    BY <1>1, <1>3, <2>2, PerformHeld, SMTT(30) DEF Enter
  <2> QED BY <2>1, <2>2
<1>11. ASSUME NEW u \in Txn, u # t PROVE (Waits(u) /\ Asked(u) /\ Locked(u))'
  <2>1. \A m \in Node, p \in Phases : <<u, m, p>> \in req' => <<u, m, p>> \in req
    BY <1>6, <1>11, SMTT(30) DEF Send
  <2> QED BY <1>1, <1>2, <1>8, <1>10, <1>11, <2>1, Bystander
<1>12. \A m \in Node, p \in Phases : <<t, m, p>> \in req => Gone(t, m)
  BY <1>1, <1>2 DEF Asked
<1>13. Waits(t)' /\ Asked(t)'
  <2>1. CASE Send(t, x)
    BY <1>1, <1>2, <1>4, <1>5, <1>12, <2>1, SendOwn
  <2>2. CASE txn' = [txn EXCEPT ![t] = y] /\ req' = req
    <3>1. txn'[t] = y
      BY <1>1, <2>2 DEF TxnTypes
    <3>2. Waits(t)'
      BY <1>2, <1>5, <1>7, <3>1 DEF Waits
    <3>3. Asked(t)'
      BY <1>2, <1>12, <2>2 DEF Asked, Gone
    <3> QED BY <3>2, <3>3
  <2> QED BY <1>6, <2>1, <2>2
<1>14. Locked(t)'
  <2>1. Eligible(t, txn[t])' = Eligible(t, txn[t])
    BY <1>2, <1>4, <1>8 DEF Eligible
  <2>2. txn[t].phase \in After \cup {"lock"}
    BY <1>1, <1>2 DEF TxnTypes, TxnRec, Running, After, Phases
  <2>3. Gone(t, n) \/ Held(t, n)
    BY <1>1, <2>2 DEF Locked
  <2>4. x.phase \in After =>
          \A m \in Eligible(t, txn[t]) : Gone(t, m) \/ Held(t, m)
    BY <1>1, <1>2, <1>4, <2>2 DEF Locked
  <2>5. \A m \in Node : Gone(t, m)' <=> Gone(t, m)
    BY <1>2 DEF Gone
  <2>6. Eligible(t, txn[t]) \subseteq Node
    BY DEF Eligible
  <2> QED BY <1>1, <1>4, <1>8, <1>10, <2>1, <2>3, <2>4, <2>5, <2>6
          DEF Locked, After
<1> QED BY <1>9, <1>11, <1>13, <1>14 DEF TxnInv

LEMMA FinishCommitInv ==
  ASSUME CommitInv, OneTxnPerNode, NEW t \in Txn, Finish(t)
  PROVE  TxnInv'
<1> DEFINE n == origin[t]
<1>1. /\ LockTypes /\ TxnTypes /\ n \in Node
      /\ \A u \in Txn : Waits(u) /\ Asked(u) /\ Locked(u)
  BY TxnAssumption DEF CommitInv, TimerInv
<1>2. /\ txn[t].phase = "unlock" /\ txn[t].pend = {} /\ req' = req
      /\ UNCHANGED <<net, lost>> /\ conn' = conn /\ gen' = gen
  BY DEF Finish, net
<1>3. PICK ok \in BOOLEAN :
        /\ MultipleUnlock(n, t, ok)
        /\ txn' = [txn EXCEPT ![t].phase = "end", ![t].failed = @ \/ ~ok]
  BY DEF Finish
<1> DEFINE y == txn'[t]
<1>4. /\ txn' \in [Txn -> TxnRec]
      /\ y.phase = "end" /\ y.gen = txn[t].gen /\ y.pend = {}
      /\ \A u \in Txn \ {t} : txn'[u] = txn[u]
  <2> DEFINE b == txn[t].failed \/ ~ok
             z == [txn[t] EXCEPT !.phase = "end", !.failed = b]
  <2>1. txn' = [txn EXCEPT ![t] = z]
    BY <1>1, <1>3 DEF TxnTypes, TxnRec
  <2>2. b \in BOOLEAN /\ txn[t] \in TxnRec
    BY <1>1 DEF TxnTypes
  <2> HIDE DEF b
  <2>3. z \in TxnRec /\ z.phase = "end" /\ z.gen = txn[t].gen /\ z.pend = {}
    BY <1>2, <2>2 DEF TxnRec, Phases
  <2> HIDE DEF z
  <2> QED BY <1>1, <2>1, <2>3 DEF TxnTypes
<1>5. TxnTypes'
  BY <1>1, <1>2, <1>4 DEF TxnTypes
<1>6. ASSUME NEW u \in Txn, u # t PROVE (Waits(u) /\ Asked(u) /\ Locked(u))'
  <2>1. origin[u] # origin[t]
    BY <1>6 DEF OneTxnPerNode
  <2>2. \A m \in Node : Held(u, m) => Held(u, m)'
    BY <1>1, <1>3, <2>1, HeldUnlock DEF MultipleUnlock
  <2> QED BY <1>1, <1>2, <1>4, <1>6, <2>2, Bystander
<1>7. Waits(t)'
  BY <1>1, <1>2, <1>4, SMTT(30) DEF Waits
<1>8. Asked(t)'
  BY <1>1, <1>2 DEF Asked, Gone
<1>9. Locked(t)'
  BY <1>4 DEF Locked, After
<1> QED BY <1>5, <1>6, <1>7, <1>8, <1>9 DEF TxnInv

----------------------------------------------------------------------------
(* Steps of the peers, the network and the timers                          *)

LEMMA HandleCommitInv ==
  ASSUME CommitInv, OneTxnPerNode, NEW t \in Txn, NEW n \in Node,
         NEW p \in Phases, Handle(t, n, p)
  PROVE  TxnInv'
<1>1. /\ LockTypes /\ TxnTypes /\ origin[t] \in Node
      /\ \A u \in Txn : Waits(u) /\ Asked(u) /\ Locked(u)
  BY TxnAssumption DEF CommitInv, TimerInv
<1>2. /\ <<t, n, p>> \in req /\ req' = req \ {<<t, n, p>>}
      /\ UNCHANGED <<net, lost>> /\ conn' = conn /\ gen' = gen
  BY DEF Handle, net
<1> DEFINE Waited == Running(t) /\ txn[t].phase = p /\ n \in txn[t].pend
<1>3. PICK ok \in BOOLEAN :
        /\ Perform(n, t, p, ok)
        /\ txn' = IF Waited
                    THEN [txn EXCEPT ![t].pend = @ \ {n}, ![t].ret = @ /\ ok]
                    ELSE txn
  BY DEF Handle
<1>4. Gone(t, n) \/ Waited
  BY <1>1, <1>2 DEF Asked
<1>5. \A u \in Txn, m \in Node :
        /\ Held(u, m) /\ (m # n \/ u # t \/ p # "unlock") => Held(u, m)'
        /\ Gone(u, m)' <=> Gone(u, m)
  BY <1>1, <1>2, <1>3, PerformHeld, SMT DEF Gone
<1> DEFINE y == txn'[t]
<1>6. /\ txn' \in [Txn -> TxnRec]
      /\ y.phase = txn[t].phase /\ y.gen = txn[t].gen
      /\ \A u \in Txn \ {t} : txn'[u] = txn[u]
      /\ ~Waited => y = txn[t]
      /\ Waited => y.pend = txn[t].pend \ {n} /\ (y.ret <=> txn[t].ret /\ ok)
  <2>1. CASE Waited
    <3> DEFINE q == txn[t].pend \ {n}
               b == txn[t].ret /\ ok
               z == [txn[t] EXCEPT !.pend = q, !.ret = b]
    <3>1. txn' = [txn EXCEPT ![t] = z]
      BY <1>1, <1>3, <2>1 DEF TxnTypes, TxnRec
    <3>2. b \in BOOLEAN /\ q \in SUBSET Node /\ txn[t] \in TxnRec
      BY <1>1 DEF TxnTypes, TxnRec
    <3> HIDE DEF b, q
    <3>3. z \in TxnRec /\ z.phase = txn[t].phase /\ z.gen = txn[t].gen
          /\ z.pend = q /\ z.ret = b
      BY <3>2 DEF TxnRec
    <3> HIDE DEF z
    <3>4. y = z /\ txn' \in [Txn -> TxnRec] /\ \A u \in Txn \ {t} : txn'[u] = txn[u]
      BY <1>1, <3>1, <3>3 DEF TxnTypes
    <3> QED BY <2>1, <3>3, <3>4 DEF b, q
  <2>2. CASE ~Waited
    BY <1>1, <1>3, <2>2 DEF TxnTypes
  <2> QED BY <2>1, <2>2
<1>7. TxnTypes'
  BY <1>1, <1>2, <1>6 DEF TxnTypes
<1>8. ASSUME NEW u \in Txn, u # t PROVE (Waits(u) /\ Asked(u) /\ Locked(u))'
  BY <1>1, <1>2, <1>5, <1>6, <1>8, Bystander
<1>9. /\ Eligible(t, txn[t])' = Eligible(t, txn[t])
      /\ Eligible(t, txn[t]) \subseteq Node
      /\ Running(t)' <=> Running(t)
  BY <1>2, <1>6 DEF Eligible, Running
<1>10. y.pend \subseteq txn[t].pend
  BY <1>6
<1>11. Waits(t)'
  BY <1>1, <1>2, <1>6, <1>9, <1>10, SMTT(30) DEF Waits
<1>12. Asked(t)'
  <2>1. ASSUME NEW m \in Node, NEW q \in Phases, <<t, m, q>> \in req'
        PROVE  Gone(t, m) \/ (Running(t) /\ txn[t].phase = q /\ m \in y.pend)
    <3>1. <<t, m, q>> \in req /\ (m # n \/ q # p)
      BY <1>2, <2>1
    <3>2. Gone(t, m) \/ (Running(t) /\ txn[t].phase = q /\ m \in txn[t].pend)
      BY <1>1, <3>1 DEF Asked
    <3> QED BY <1>6, <3>1, <3>2
  <2> QED BY <1>5, <1>6, <1>9, <2>1 DEF Asked
<1>13. Locked(t)'
  <2>1. CASE ~Waited
    <3>1. \A m \in Node : Gone(t, m) \/ Held(t, m) => Gone(t, m)' \/ Held(t, m)'
      BY <1>4, <1>5, <2>1
    <3> QED BY <1>1, <1>5, <1>6, <1>9, <2>1, <3>1, ZenonT(60) DEF Locked
  <2>2. CASE Waited /\ p = "unlock"
    BY <1>6, <2>2 DEF Locked, After
  <2>3. CASE Waited /\ p # "unlock"
    <3>1. \A m \in Node : Held(t, m) => Held(t, m)'
      BY <1>5, <2>3
    <3>2. txn[t].phase = "lock" /\ ok => Held(t, n)'
      <4>1. txn[t].phase = "lock" /\ ok => MultipleLock(n, t, TRUE)
        BY <1>3, <2>3 DEF Perform
      <4> QED BY <1>1, <4>1, OwnMultipleLock
    <3>3. ASSUME txn[t].phase = "lock", NEW m \in Eligible(t, txn[t])
          PROVE  Gone(t, m)' \/ Held(t, m)' \/ m \in y.pend \/ ~y.ret
      <4>1. Gone(t, m) \/ Held(t, m) \/ m \in txn[t].pend \/ ~txn[t].ret
        BY <1>1, <3>3 DEF Locked
      <4>2. CASE m = n
        BY <1>5, <1>6, <1>9, <2>3, <3>1, <3>2, <3>3, <4>1, <4>2
      <4>3. CASE m # n
        BY <1>5, <1>6, <1>9, <2>3, <3>1, <4>1, <4>3
      <4> QED BY <4>2, <4>3
    <3> QED BY <1>1, <1>5, <1>6, <1>9, <3>1, <3>3 DEF Locked
  <2> QED BY <2>1, <2>2, <2>3
<1> QED BY <1>7, <1>8, <1>11, <1>12, <1>13 DEF TxnInv

(* A step of the network: a transaction goes on with fewer answers to come *)
(* and fewer peers, or dies.                                               *)
LEMMA Shrinks ==
  ASSUME NEW t \in Txn, Waits(t), Asked(t), Locked(t),
         txn'[t].gen = txn[t].gen, lost \subseteq lost', req' \subseteq req,
         txn[t].gen <= gen'[origin[t]][origin[t]],
         txn'[t].phase = txn[t].phase,
         txn'[t].pend \subseteq txn[t].pend,
         txn'[t].ret => txn[t].ret,
         \A n \in txn[t].pend \ txn'[t].pend : Gone(t, n)',
         \A n \in txn'[t].pend : n \in Eligible(t, txn[t])' /\ conn'[origin[t]][n] = "up",
         Running(t) => Eligible(t, txn[t])' \subseteq Eligible(t, txn[t]),
         Running(t) => \A m \in Node : Held(t, m) => Held(t, m)' \/ Gone(t, m)'
  PROVE  (Waits(t) /\ Asked(t) /\ Locked(t))'
<1>1. Running(t)' <=> Running(t)
  BY DEF Running
<1>2. origin[t] \in Node /\ Eligible(t, txn[t]) \subseteq Node
  BY TxnAssumption DEF Eligible
<1>3. Waits(t)'
  <2>1. ~Running(t)' => txn'[t].pend = {}
    BY <1>1 DEF Waits
  <2> QED BY <2>1 DEF Waits
<1>4. \A n \in Node : Gone(t, n) => Gone(t, n)'
  BY DEF Gone
<1>5. Asked(t)'
  BY <1>1, <1>4 DEF Asked
<1>6. Locked(t)'
  <2>1. CASE ~Running(t)
    BY <2>1 DEF Running, Locked, After
  <2>2. CASE Running(t)
    <3>1. \A m \in Node : Gone(t, m) \/ Held(t, m) => Gone(t, m)' \/ Held(t, m)'
      BY <1>4, <2>2
    <3>2. Eligible(t, txn[t])' \subseteq Eligible(t, txn[t])
      BY <2>2
    <3>3. txn[t].phase \in After \cup {"lock"} =>
            Gone(t, origin[t])' \/ Held(t, origin[t])'
      BY <1>2, <3>1 DEF Locked
    <3>4. txn[t].phase \in After =>
            \A m \in Eligible(t, txn[t])' : Gone(t, m)' \/ Held(t, m)'
      BY <1>2, <3>1, <3>2 DEF Locked
    <3>5. ASSUME txn[t].phase = "lock", NEW m \in Eligible(t, txn[t])'
          PROVE  Gone(t, m)' \/ Held(t, m)' \/ m \in txn'[t].pend \/ ~txn'[t].ret
      <4>1. m \in Eligible(t, txn[t])
        BY <3>2, <3>5
      <4>2. Gone(t, m) \/ Held(t, m) \/ m \in txn[t].pend \/ ~txn[t].ret
        BY <3>5, <4>1 DEF Locked
      <4> QED BY <1>2, <3>1, <4>1, <4>2
    <3> QED BY <3>3, <3>4, <3>5 DEF Locked
  <2> QED BY <2>1, <2>2
<1> QED BY <1>3, <1>5, <1>6

LEMMA UnwoundRec ==
  ASSUME NEW x \in TxnRec, NEW m
  PROVE  /\ Unwound(x, m) \in TxnRec
         /\ Unwound(x, m).phase = x.phase /\ Unwound(x, m).gen = x.gen
         /\ Unwound(x, m).pend = x.pend \ {m}
         /\ Unwound(x, m).ret => x.ret
<1> DEFINE q == x.pend \ {m}
           y == [x EXCEPT !.pend = q, !.ret = FALSE]
<1>1. q \in SUBSET Node
  BY DEF TxnRec
<1>2. y \in TxnRec /\ y.phase = x.phase /\ y.gen = x.gen /\ y.pend = q /\ y.ret = FALSE
  <2> HIDE DEF q
  <2> QED BY <1>1 DEF TxnRec
<1>3. m \in x.pend => Unwound(x, m) = y
  BY DEF Unwound
<1>4. m \notin x.pend => Unwound(x, m) = x /\ q = x.pend
  BY DEF Unwound
<1> HIDE DEF y
<1> QED BY <1>2, <1>3, <1>4

LEMMA BreakCommitInv ==
  ASSUME CommitInv, NEW n \in Node, NEW m \in Node, Break(n, m)
  PROVE  TxnInv'
<1> DEFINE T == {t \in Txn : origin[t] = n /\ Running(t)}
<1>1. /\ TxnTypes /\ \A u \in Txn : Waits(u) /\ Asked(u) /\ Locked(u)
      /\ \A u \in Txn : origin[u] \in Node /\ txn[u] \in TxnRec /\ txn[u].gen \in Nat
  BY TxnAssumption DEF CommitInv, TxnTypes, TxnRec
<1>2. /\ n # m /\ conn[n][m] = "up" /\ conn' = [conn EXCEPT ![n][m] = "broken"]
      /\ txn' = [t \in Txn |-> IF t \in T THEN Unwound(txn[t], m) ELSE txn[t]]
      /\ lost' = lost \cup (T \X {m}) /\ req' \subseteq req
      /\ gen' = gen /\ UNCHANGED locks
  BY DEF Break
<1>3. \A u \in Txn : /\ txn'[u] \in TxnRec /\ txn'[u].phase = txn[u].phase
                     /\ txn'[u].gen = txn[u].gen
                     /\ u \in T => txn'[u].pend = txn[u].pend \ {m}
                     /\ u \notin T => txn'[u].pend = txn[u].pend
                     /\ txn'[u].ret => txn[u].ret
  <2> TAKE u \in Txn
  <2>1. CASE u \in T
    <3>1. txn'[u] = Unwound(txn[u], m)
      BY <1>2, <2>1
    <3> QED BY <1>1, <2>1, <3>1, UnwoundRec, SMT
  <2>2. CASE u \notin T
    <3>1. txn'[u] = txn[u]
      BY <1>2, <2>2
    <3> QED BY <1>1, <2>2, <3>1
  <2> QED BY <2>1, <2>2
<1>4. TxnTypes'
  BY <1>1, <1>2, <1>3 DEF TxnTypes
<1>5. ASSUME NEW u \in Txn PROVE (Waits(u) /\ Asked(u) /\ Locked(u))'
  <2>1. \A k \in Node : Held(u, k) => Held(u, k)'
    BY <1>2, HeldUnchanged
  <2>2. Eligible(u, txn[u])' = Eligible(u, txn[u])
    BY <1>1, <1>2, <1>3 DEF Eligible, TxnTypes
  <2>3. \A k \in txn[u].pend \ txn'[u].pend : Gone(u, k)'
    BY <1>2, <1>3 DEF Gone
  <2>4. txn'[u].pend \subseteq txn[u].pend
    BY <1>3
  <2>5. ASSUME NEW k \in txn'[u].pend
        PROVE  k \in Eligible(u, txn[u])' /\ conn'[origin[u]][k] = "up"
    <3>1. /\ k \in txn[u].pend /\ k \in Eligible(u, txn[u])
          /\ conn[origin[u]][k] = "up" /\ Running(u)
      <4>1. k \in txn[u].pend
        BY <2>5, <2>4
      <4> QED BY <1>1, <4>1 DEF Waits
    <3>2. origin[u] # n \/ k # m
      BY <1>3, <2>5, <3>1
    <3> QED BY <1>1, <1>2, <2>2, <3>1, <3>2, SMTT(30) DEF TxnTypes
  <2>6. txn[u].gen <= gen'[origin[u]][origin[u]]
    BY <1>1, <1>2 DEF Waits
  <2>7. lost \subseteq lost' /\ req' \subseteq req
    BY <1>2
  <2> QED BY <1>1, <1>3, <2>1, <2>2, <2>3, <2>4, <2>5, <2>6, <2>7, Shrinks
<1> QED BY <1>4, <1>5 DEF TxnInv

LEMMA DisconnectCommitInv ==
  ASSUME CommitInv, NEW n \in Node, NEW m \in Node, Disconnect(n, m)
  PROVE  TxnInv'
<1>1. /\ TxnTypes /\ \A u \in Txn : Waits(u) /\ Asked(u) /\ Locked(u)
      /\ \A u \in Txn : origin[u] \in Node /\ txn[u] \in TxnRec /\ txn[u].gen \in Nat
      /\ LockTypes
  BY TxnAssumption DEF CommitInv, TxnTypes, TxnRec, TimerInv
<1>2. /\ conn[n][m] = "broken" /\ conn' = [conn EXCEPT ![n][m] = "down"]
      /\ Unlock(n, Owned(n, VolKey, m))
      /\ lost' = lost \cup {<<timer[n][k], n>> : k \in Owned(n, VolKey, m)}
      /\ gen' = gen /\ txn' = txn /\ req' = req
  BY DEF Disconnect
<1>3. TxnTypes'
  BY <1>1, <1>2 DEF TxnTypes
<1>4. ASSUME NEW u \in Txn PROVE (Waits(u) /\ Asked(u) /\ Locked(u))'
  <2>1. ASSUME NEW b \in Node, Held(u, b) PROVE Held(u, b)' \/ Gone(u, b)'
    <3>1. CASE b = n /\ \E k \in keys[u] : k \in Owned(n, VolKey, m)
      BY <1>2, <2>1, <3>1 DEF Held, Gone
    <3>2. CASE b # n \/ \A k \in keys[u] : k \notin Owned(n, VolKey, m)
      <4>1. keys[u] \subseteq Key
        BY TxnAssumption
      <4>2. ASSUME NEW k \in keys[u]
            PROVE  mgmt_v3_lock'[b][k] = mgmt_v3_lock[b][k] /\ timer'[b][k] = timer[b][k]
        BY <1>1, <1>2, <3>2, <4>1 DEF Unlock, LockTypes
      <4> QED BY <2>1, <4>2 DEF Held
    <3> QED BY <3>1, <3>2
  <2>2. Eligible(u, txn[u])' \subseteq Eligible(u, txn[u])
    BY <1>1, <1>2 DEF Eligible, TxnTypes
  <2>3. ASSUME NEW k \in txn'[u].pend
        PROVE  k \in Eligible(u, txn[u])' /\ conn'[origin[u]][k] = "up"
    <3>1. k \in Eligible(u, txn[u]) /\ conn[origin[u]][k] = "up"
      BY <1>1, <1>2, <2>3 DEF Waits
    <3>2. conn'[origin[u]][k] = "up"
      BY <1>1, <1>2, <3>1 DEF TxnTypes, Eligible
    <3> QED BY <1>2, <3>1, <3>2 DEF Eligible
  <2>4. txn[u].gen <= gen'[origin[u]][origin[u]]
    BY <1>1, <1>2 DEF Waits
  <2>5. lost \subseteq lost' /\ req' \subseteq req
    BY <1>2
  <2> QED BY <1>1, <1>2, <2>1, <2>2, <2>3, <2>4, <2>5, Shrinks
<1> QED BY <1>3, <1>4 DEF TxnInv

(* A peer that connects gets a generation above that of every transaction  *)
(* begun before.                                                           *)
LEMMA ConnectCommitInv ==
  ASSUME CommitInv, NEW n \in Node, NEW m \in Node, Connect(n, m)
  PROVE  TxnInv'
<1>1. /\ TxnTypes /\ \A u \in Txn : Waits(u) /\ Asked(u) /\ Locked(u)
      /\ \A u \in Txn : origin[u] \in Node /\ txn[u] \in TxnRec /\ txn[u].gen \in Nat
  BY TxnAssumption DEF CommitInv, TxnTypes, TxnRec
<1>2. /\ conn[n][m] = "down" /\ conn' = [conn EXCEPT ![n][m] = "up"]
      /\ gen' = [gen EXCEPT ![n][n] = @ + 1, ![n][m] = gen[n][n] + 1]
      /\ txn' = txn /\ req' = req /\ lost' = lost /\ UNCHANGED locks
  BY DEF Connect
<1>3. /\ gen' \in [Node -> [Node -> Nat]]
      /\ gen'[n][m] = gen[n][n] + 1 /\ gen'[n][n] = gen[n][n] + 1
      /\ \A a, b \in Node : a # n \/ (b # m /\ b # n) => gen'[a][b] = gen[a][b]
  <2> DEFINE g == [gen EXCEPT ![n][n] = @ + 1]
             c == gen[n][n] + 1
  <2>1. g \in [Node -> [Node -> Nat]] /\ g[n][n] = c /\ c \in Nat
        /\ \A a, b \in Node : a # n \/ b # n => g[a][b] = gen[a][b]
    BY <1>1, SMT DEF TxnTypes
  <2>2. gen' = [g EXCEPT ![n][m] = c]
    BY <1>2
  <2> HIDE DEF g, c
  <2>3. /\ gen' \in [Node -> [Node -> Nat]] /\ gen'[n][m] = c /\ gen'[n][n] = c
        /\ \A a, b \in Node : a # n \/ (b # m /\ b # n) => gen'[a][b] = gen[a][b]
    BY <2>1, <2>2, ZenonT(60)
  <2> QED BY <2>3 DEF c
<1>4. TxnTypes'
  BY <1>1, <1>2, <1>3 DEF TxnTypes
<1>5. ASSUME NEW u \in Txn PROVE (Waits(u) /\ Asked(u) /\ Locked(u))'
  <2>1. \A k \in Node : Held(u, k) => Held(u, k)'
    BY <1>2, HeldUnchanged
  <2>2. txn[u].gen <= gen[origin[u]][origin[u]] /\ gen[origin[u]][origin[u]] \in Nat
    BY <1>1, SMT DEF Waits, TxnTypes
  <2>3. Eligible(u, txn[u])' \subseteq Eligible(u, txn[u])
    <3>1. ASSUME NEW k \in Eligible(u, txn[u])' PROVE k \in Eligible(u, txn[u])
      <4>1. k \in Node \ {origin[u]} /\ gen'[origin[u]][k] <= txn[u].gen
            /\ conn'[origin[u]][k] # "down"
        BY <1>2, <3>1 DEF Eligible
      <4>2. ~(origin[u] = n /\ k = m)
        <5>1. SUFFICES ASSUME origin[u] = n, k = m PROVE FALSE
          OBVIOUS
        <5>2. gen[n][n] + 1 <= txn[u].gen
          BY <1>3, <4>1, <5>1
        <5>3. txn[u].gen <= gen[n][n] /\ gen[n][n] \in Nat /\ txn[u].gen \in Nat
          BY <1>1, <2>2, <5>1
        <5> QED BY <5>2, <5>3, SMTT(30)
      <4>3. gen'[origin[u]][k] = gen[origin[u]][k]
        BY <1>1, <1>3, <4>1, <4>2, ZenonT(60)
      <4>4. conn'[origin[u]][k] = conn[origin[u]][k]
        BY <1>1, <1>2, <4>1, <4>2 DEF TxnTypes
      <4> QED BY <4>1, <4>3, <4>4 DEF Eligible
    <3> QED BY <3>1, ZenonT(60)
  <2>4. ASSUME NEW k \in txn'[u].pend
        PROVE  k \in Eligible(u, txn[u])' /\ conn'[origin[u]][k] = "up"
    <3>1. k \in Eligible(u, txn[u]) /\ conn[origin[u]][k] = "up"
      BY <1>1, <1>2, <2>4 DEF Waits
    <3>2. k \in Node \ {origin[u]} /\ gen[origin[u]][k] <= txn[u].gen
      BY <3>1 DEF Eligible
    <3>3. ~(origin[u] = n /\ k = m)
      BY <1>2, <3>1
    <3>4. gen'[origin[u]][k] = gen[origin[u]][k]
      BY <1>1, <1>3, <3>2, <3>3, ZenonT(60)
    <3>5. conn'[origin[u]][k] = "up"
      BY <1>1, <1>2, <3>1, <3>2 DEF TxnTypes
    <3> QED BY <1>2, <3>2, <3>4, <3>5 DEF Eligible
  <2>5. txn[u].gen <= gen'[origin[u]][origin[u]]
    <3>1. CASE origin[u] = n
      BY <1>1, <1>3, <2>2, <3>1, SMTT(30)
    <3>2. CASE origin[u] # n
      BY <1>1, <1>3, <2>2, <3>2
    <3> QED BY <3>1, <3>2, ZenonT(60)
  <2> QED BY <1>1, <1>2, <1>3, <2>1, <2>3, <2>4, <2>5, Shrinks
<1> QED BY <1>4, <1>5 DEF TxnInv

LEMMA RestartCommitInv ==
  ASSUME CommitInv, NEW n \in Node, Restart(n)
  PROVE  TxnInv'
<1>1. /\ TxnTypes /\ \A u \in Txn : Waits(u) /\ Asked(u) /\ Locked(u)
      /\ \A u \in Txn : origin[u] \in Node /\ txn[u] \in TxnRec /\ txn[u].gen \in Nat
      /\ LockTypes
  BY TxnAssumption DEF CommitInv, TxnTypes, TxnRec, TimerInv
<1> DEFINE Dies(u) == origin[u] = n /\ Running(u)
           dead(u) == [txn[u] EXCEPT !.phase = "dead", !.pend = {}]
<1>2. /\ mgmt_v3_lock' = [mgmt_v3_lock EXCEPT ![n] = [k \in Key |-> NoNode]]
      /\ timer' = [timer EXCEPT ![n] = [k \in Key |-> NoTxn]]
      /\ txn' = [u \in Txn |-> IF Dies(u) THEN dead(u) ELSE Unwound(txn[u], n)]
      /\ req' \subseteq req /\ gen' = gen
      /\ lost' = lost \cup ({u \in Txn : Running(u)} \X {n})
  BY DEF Restart
<1>3. conn' = [a \in Node |-> [b \in Node |->
         IF a = b THEN "up" ELSE IF a = n THEN "down"
         ELSE IF b = n /\ conn[a][b] = "up" THEN "broken" ELSE conn[a][b]]]
  BY DEF Restart
<1>4. /\ conn' \in [Node -> [Node -> {"up", "broken", "down"}]]
      /\ \A a, b \in Node : a # n /\ b # a =>
           /\ b # n => conn'[a][b] = conn[a][b]
           /\ conn'[a][b] = "down" <=> conn[a][b] = "down"
  BY <1>1, <1>3 DEF TxnTypes
<1>5. ASSUME NEW u \in Txn
      PROVE  dead(u) \in TxnRec /\ dead(u).phase = "dead" /\ dead(u).pend = {}
             /\ dead(u).gen = txn[u].gen
  BY <1>1, ZenonT(60) DEF TxnRec, Phases
<1> HIDE DEF dead
<1>6. ASSUME NEW u \in Txn
      PROVE  /\ txn'[u] \in TxnRec
             /\ Dies(u) => txn'[u] = dead(u)
             /\ ~Dies(u) => /\ txn'[u].phase = txn[u].phase
                            /\ txn'[u].gen = txn[u].gen
                            /\ txn'[u].pend = txn[u].pend \ {n}
                            /\ txn'[u].ret => txn[u].ret
  <2>1. CASE Dies(u)
    <3>1. txn'[u] = dead(u)
      BY <1>2, <2>1, ZenonT(60)
    <3> QED BY <1>5, <2>1, <3>1
  <2>2. CASE ~Dies(u)
    <3>1. txn'[u] = Unwound(txn[u], n)
      BY <1>2, <2>2
    <3> QED BY <1>1, <2>2, <3>1, UnwoundRec, SMTT(30)
  <2> QED BY <2>1, <2>2
<1>7. TxnTypes'
  <2>1. txn' \in [Txn -> TxnRec]
    BY <1>2, <1>6
  <2>2. \A u \in Txn : txn'[u].phase \in {txn[u].phase, "dead"}
    BY <1>5, <1>6
  <2> QED BY <1>1, <1>2, <1>4, <2>1, <2>2 DEF TxnTypes
<1>8. ASSUME NEW u \in Txn, Dies(u) PROVE (Waits(u) /\ Asked(u) /\ Locked(u))'
  <2>1. txn'[u].phase = "dead" /\ txn'[u].pend = {} /\ txn'[u].gen = txn[u].gen
    BY <1>5, <1>6, <1>8
  <2>2. Waits(u)'
    BY <1>1, <1>2, <2>1 DEF Waits
  <2>3. <<u, origin[u]>> \in lost'
    BY <1>2, <1>8
  <2>4. Asked(u)'
    BY <2>3 DEF Asked, Gone
  <2>5. Locked(u)'
    BY <2>1 DEF Locked, After
  <2> QED BY <2>2, <2>4, <2>5
<1>9. ASSUME NEW u \in Txn, ~Dies(u) PROVE (Waits(u) /\ Asked(u) /\ Locked(u))'
  <2>1. /\ txn'[u].phase = txn[u].phase /\ txn'[u].gen = txn[u].gen
        /\ txn'[u].pend = txn[u].pend \ {n} /\ (txn'[u].ret => txn[u].ret)
    BY <1>6, <1>9
  <2>2. Running(u) => \A k \in txn[u].pend \ txn'[u].pend : Gone(u, k)'
    BY <1>2, <2>1 DEF Gone
  <2>3. ~Running(u) => txn[u].pend = {}
    BY <1>1 DEF Waits
  <2>4. Running(u) => origin[u] # n
    BY <1>9
  <2>5. ASSUME Running(u), NEW b \in Node, Held(u, b) PROVE Held(u, b)' \/ Gone(u, b)'
    <3>1. CASE b = n
      BY <1>2, <2>5, <3>1 DEF Gone
    <3>2. CASE b # n
      BY <1>1, <1>2, <2>5, <3>2 DEF Held, LockTypes
    <3> QED BY <3>1, <3>2, ZenonT(60)
  <2>6. Running(u) => Eligible(u, txn[u])' = Eligible(u, txn[u])
    BY <1>1, <1>2, <1>4, <2>1, <2>4, ZenonT(60) DEF Eligible
  <2>7. ASSUME NEW k \in txn'[u].pend
        PROVE  k \in Eligible(u, txn[u])' /\ conn'[origin[u]][k] = "up"
    <3>1. k \in txn[u].pend /\ k # n
      BY <2>1, <2>7
    <3>2. Running(u) /\ k \in Eligible(u, txn[u]) /\ conn[origin[u]][k] = "up"
      BY <1>1, <3>1 DEF Waits
    <3>3. k \in Node \ {origin[u]}
      BY <3>2 DEF Eligible
    <3> QED BY <1>1, <1>4, <2>4, <2>6, <3>1, <3>2, <3>3
  <2>8. \A k \in txn[u].pend \ txn'[u].pend : Gone(u, k)'
    BY <2>2, <2>3
  <2>9. txn[u].gen <= gen'[origin[u]][origin[u]]
    BY <1>1, <1>2 DEF Waits
  <2>10. lost \subseteq lost' /\ req' \subseteq req
    BY <1>2
  <2>11. txn'[u].pend \subseteq txn[u].pend
    BY <2>1
  <2> QED BY <1>1, <2>1, <2>5, <2>6, <2>7, <2>8, <2>9, <2>10, <2>11, Shrinks
<1> QED BY <1>7, <1>8, <1>9 DEF TxnInv

(* A timer step changes nothing but locks.                                 *)
LEMMA TimerCommitInv ==
  ASSUME CommitInv, UNCHANGED <<txn, req, net>>, lost \subseteq lost',
         \A u \in Txn, m \in Node : Held(u, m) => Held(u, m)' \/ Gone(u, m)'
  PROVE  TxnInv'
<1>1. /\ TxnTypes /\ \A u \in Txn : Waits(u) /\ Asked(u) /\ Locked(u)
      /\ \A u \in Txn : origin[u] \in Node /\ txn[u].gen \in Nat
  BY TxnAssumption DEF CommitInv, TxnTypes, TxnRec
<1>2. txn' = txn /\ req' = req /\ gen' = gen /\ conn' = conn
  BY DEF net
<1>3. TxnTypes'
  BY <1>1, <1>2 DEF TxnTypes
<1>4. ASSUME NEW u \in Txn PROVE (Waits(u) /\ Asked(u) /\ Locked(u))'
  <2>1. Eligible(u, txn[u])' = Eligible(u, txn[u])
    BY <1>2 DEF Eligible
  <2>2. \A k \in txn'[u].pend :
          k \in Eligible(u, txn[u])' /\ conn'[origin[u]][k] = "up"
    BY <1>1, <1>2, <2>1 DEF Waits
  <2>3. txn[u].gen <= gen'[origin[u]][origin[u]]
    BY <1>1, <1>2 DEF Waits
  <2> QED BY <1>1, <1>2, <2>1, <2>2, <2>3, Shrinks
<1> QED BY <1>3, <1>4 DEF TxnInv

LEMMA ExpireCommitInv ==
  ASSUME CommitInv, NEW n \in Node, NEW k \in Key, NEW t \in Txn, Expire(n, k, t)
  PROVE  TxnInv'
<1>1. \A u \in Txn, m \in Node : Held(u, m) => Held(u, m)'
  BY DEF Expire, Held
<1>2. UNCHANGED <<txn, req, net>> /\ lost' = lost
  BY DEF Expire
<1> QED BY <1>1, <1>2, TimerCommitInv

LEMMA TimerCbkLockCommitInv ==
  ASSUME CommitInv, NEW n \in Node, NEW k \in Key, NEW t \in Txn,
         TimerCbkLock(n, k, t)
  PROVE  TxnInv'
<1>1. LockTypes
  BY DEF CommitInv, TimerInv
<1>2. ASSUME NEW u \in Txn, NEW m \in Node, Held(u, m)
      PROVE  Held(u, m)' \/ Gone(u, m)'
  <2>1. keys[u] \subseteq Key /\ origin[u] # NoNode
    BY TxnAssumption
  <2>2. CASE m = n /\ k \in keys[u]
    BY <1>2, <2>1, <2>2 DEF TimerCbkLock, Held, Gone
  <2>3. CASE ~(m = n /\ k \in keys[u])
    BY <1>1, <1>2, <2>1, <2>3 DEF TimerCbkLock, Held, LockTypes
  <2> QED BY <2>2, <2>3
<1>3. UNCHANGED <<txn, req, net>> /\ lost \subseteq lost'
  BY DEF TimerCbkLock
<1> QED BY <1>2, <1>3, TimerCommitInv

LEMMA TimerCbkTimerCommitInv ==
  ASSUME CommitInv, NEW n \in Node, NEW k \in Key, NEW t \in Txn,
         TimerCbkTimer(n, k, t)
  PROVE  TxnInv'
<1>1. LockTypes /\ mgmt_v3_lock[n][k] = NoNode
  BY DEF CommitInv, TimerInv, CbkUnlocked, TimerCbkTimer
<1>2. ASSUME NEW u \in Txn, NEW m \in Node, Held(u, m)
      PROVE  Held(u, m)'
  <2>1. keys[u] \subseteq Key /\ origin[u] # NoNode
    BY TxnAssumption
  <2>2. ~(m = n /\ k \in keys[u])
    BY <1>1, <1>2, <2>1, SMT DEF Held
  <2> QED BY <1>1, <1>2, <2>1, <2>2 DEF TimerCbkTimer, Held, LockTypes
<1>3. UNCHANGED <<txn, req, net>> /\ lost' = lost
  BY ZenonT(60) DEF TimerCbkTimer
<1> QED BY <1>2, <1>3, TimerCommitInv

----------------------------------------------------------------------------
LEMMA PerformDone ==
  ASSUME DoneTypes, NEW n \in Node, NEW t \in Txn, NEW p, NEW ok \in BOOLEAN,
         Perform(n, t, p, ok)
  PROVE  /\ DoneTypes'
         /\ \A u \in Txn, m \in Node : u \in done'[m] \ done[m] =>
              u = t /\ m = n /\ p = "commit" /\ UNCHANGED locks
<1>1. CASE p = "commit" /\ UNCHANGED locks
           /\ done' \in Maybe(ok, done, [done EXCEPT ![n] = @ \cup {t}])
  BY <1>1 DEF DoneTypes, Maybe
<1>2. CASE done' \in Maybe(ok, done, [done EXCEPT ![n] = @ \ {t}])
  BY <1>2 DEF DoneTypes, Maybe
<1>3. CASE done' = done
  BY <1>3 DEF DoneTypes
<1> QED BY <1>1, <1>2, <1>3 DEF Perform, data

(* What a step may commit: only Advance, on the originator, and Handle, on *)
(* a peer, change done.                                                    *)
LEMMA NextDone ==
  ASSUME CommitInv, Next
  PROVE  /\ DoneTypes'
         /\ \A u \in Txn, m \in Node : u \in done'[m] \ done[m] =>
              Gone(u, m) \/ Held(u, m)
<1>1. /\ DoneTypes /\ TxnTypes
      /\ \A u \in Txn : origin[u] \in Node /\ Waits(u) /\ Asked(u) /\ Locked(u)
  BY TxnAssumption DEF CommitInv
<1> DEFINE Goal == /\ DoneTypes'
                   /\ \A u \in Txn, m \in Node : u \in done'[m] \ done[m] =>
                        Gone(u, m) \/ Held(u, m)
<1>2. CASE done' = done
  BY <1>1, <1>2 DEF DoneTypes
<1>3. ASSUME NEW t \in Txn, Advance(t) PROVE Goal
  <2>1. PICK x \in IF flow[t] = "all" THEN AllPhases(txn[t]) ELSE SnapPhases(txn[t]) :
          IF x.phase = "unlock" THEN Send(t, x) /\ UNCHANGED <<locks, data>>
                                ELSE Enter(t, x)
    BY <1>3 DEF Advance
  <2>2. CASE x.phase = "unlock"
    BY <1>2, <2>1, <2>2 DEF data
  <2>3. CASE x.phase # "unlock"
    <3>1. PICK ok \in BOOLEAN : Perform(origin[t], t, x.phase, ok)
      BY <2>1, <2>3 DEF Enter
    <3>2. txn[t].phase \in After \cup {"lock"}
      BY <1>1, <1>3 DEF Advance, Running, TxnTypes, TxnRec, Phases, After
    <3>3. Gone(t, origin[t]) \/ Held(t, origin[t])
      BY <1>1, <3>2 DEF Locked
    <3> QED BY <1>1, <3>1, <3>3, PerformDone, SMT
  <2> QED BY <2>2, <2>3
<1>4. ASSUME NEW t \in Txn, NEW n \in Node, NEW p \in Phases, Handle(t, n, p)
      PROVE  Goal
  <2>1. PICK ok \in BOOLEAN : Perform(n, t, p, ok)
    BY <1>4 DEF Handle
  <2>2. Gone(t, n) \/ (txn[t].phase = p /\ n \in txn[t].pend)
    BY <1>1, <1>4 DEF Handle, Asked
  <2>3. p = "commit" => Gone(t, n) \/ Held(t, n)
    <3>1. n \in txn[t].pend => n \in Eligible(t, txn[t])
      BY <1>1 DEF Waits
    <3>2. txn[t].phase = "commit" /\ n \in Eligible(t, txn[t]) =>
            Gone(t, n) \/ Held(t, n)
      BY <1>1 DEF Locked, After
    <3> QED BY <2>2, <3>1, <3>2
  <2>4. DoneTypes'
    BY <1>1, <2>1, PerformDone
  <2>5. ASSUME NEW u \in Txn, NEW m \in Node, u \in done'[m] \ done[m]
        PROVE  u = t /\ m = n /\ p = "commit"
    BY <1>1, <2>1, <2>5, PerformDone, SMT
  <2> QED BY <2>3, <2>4, <2>5
<1> QED BY <1>2, <1>3, <1>4, ZenonT(60)
        DEF Next, Start, Finish, Break, Disconnect, Connect, Restart, Expire,
            TimerCbkLock, TimerCbkTimer, data

LEMMA NextCommitInv ==
  ASSUME OneTxnPerNode, CommitInv, [Next /\ CallbackWhole]_vars
  PROVE  CommitInv'
<1>1. TimerInv'
  BY NextTimerInv DEF CommitInv
<1>2. CASE UNCHANGED vars
  <2>1. \A u \in Txn, m \in Node : Held(u, m) => Held(u, m)'
    BY <1>2, HeldUnchanged DEF vars
  <2>2. TxnInv' /\ DoneTypes'
    BY <1>2, <2>1, TimerCommitInv DEF vars, data, CommitInv, DoneTypes
  <2> QED BY <1>1, <2>2 DEF CommitInv, TxnInv
<1>3. CASE Next
  <2>1. TxnInv'
    BY <1>3, StartCommitInv, AdvanceCommitInv, FinishCommitInv, HandleCommitInv,
       BreakCommitInv, DisconnectCommitInv, ConnectCommitInv, RestartCommitInv,
       ExpireCommitInv, TimerCbkLockCommitInv, TimerCbkTimerCommitInv DEF Next
  <2>2. DoneTypes'
    BY <1>3, NextDone
  <2> QED BY <1>1, <2>1, <2>2 DEF CommitInv, TxnInv
<1> QED BY <1>2, <1>3

(* Where no glusterd originates two transactions, none commits one whose   *)
(* own locks it does not hold, unless a timer, a disconnect or a restart   *)
(* took them: in clusters of any size, with any names and any number of    *)
(* broken connections, restarts and expired timers.  txn_generation keeps  *)
(* the peers that missed the lockdown out of every later phase, and the    *)
(* owner check of glusterd_mgmt_v3_unlock keeps a refused transaction from *)
(* releasing the locks of another.                                         *)
THEOREM CommitsAreLocked ==
  ASSUME OneTxnPerNode
  PROVE  FairSpec => CommitUnderLock
<1>1. CommitInv /\ [Next /\ CallbackWhole]_vars =>
        [\A t \in Txn, n \in Node :
           /\ t \in done'[n] \ done[n]
           /\ <<t, n>> \notin lost /\ <<t, origin[t]>> \notin lost
           => \A k \in keys[t] : /\ mgmt_v3_lock[n][k] = origin[t]
                                 /\ timer[n][k] = t]_vars
  BY NextDone DEF Gone, Held
<1> QED BY <1>1, InitCommitInv, NextCommitInv, PTL DEF FairSpec, CommitUnderLock

----------------------------------------------------------------------------
(* What the CLI is told                                                    *)

Types ==
  /\ txn \in [Txn -> TxnRec]
  /\ \A t \in Txn : flow[t] = "all" =>
       txn[t].phase \notin {"brick_pre", "brick_post", "cleanup"}
  /\ conn \in [Node -> [Node -> {"up", "broken", "down"}]]
  /\ gen \in [Node -> [Node -> Nat]]
  /\ done \in [Node -> SUBSET Txn]

(* conf->generation is the latest of a glusterd's generations.             *)
Latest == \A n, m \in Node : gen[n][m] <= gen[n][n]

(* The locals say how far the command has come.                            *)
Flags(x) ==
  /\ x.phase \in {"new", "lock", "prevalidate", "brick_pre", "commit"} =>
       ~x.success
  /\ x.phase \in {"new", "lock", "prevalidate", "brick_pre", "commit",
                  "brick_post"} => ~x.failed /\ ~x.cleaned /\ ~x.unbarriered
  /\ x.phase = "post" => ~x.failed /\ ~x.cleaned
  /\ x.phase = "cleanup" => x.failed /\ ~x.cleaned

(* The lockdown has failed, or will.                                       *)
Doomed(x) ==
  \/ x.phase = "lock" /\ ~x.ret
  \/ x.phase \in {"unlock", "end"} /\ x.failed /\ ~x.cleaned /\ ~x.unbarriered

(* A glusterd that has committed (c) or not, and has its bricks barriered  *)
(* (b) or not, as the earlier phases were to leave it ...                  *)
Settled(x, c, b) ==
  /\ x.phase = "brick_post" => (x.success => c)
  /\ x.phase = "post" => c
  /\ x.phase \in {"unlock", "end"} => (x.failed \/ c) /\ (x.cleaned => ~c)
  /\ x.phase \in {"post", "cleanup", "unlock", "end"} => (x.unbarriered => ~b)

(* ... and as the present one is.                                          *)
Reached(x, c, b) ==
  /\ x.phase = "commit" => c
  /\ x.phase = "brick_post" => ~b
  /\ x.phase = "cleanup" => ~c

(* The same of n: it has done the present phase, is still to answer, or    *)
(* the phase has failed.                                                   *)
Part(x, n, c, b) ==
  /\ Settled(x, c, b)
  /\ Reached(x, c, b) \/ n \in x.pend \/ ~x.ret

Committed(t, n) == t \in done[n]
Barriered(t, n) == <<n, t>> \in barrier

(* The phases of t are sent to n.                                          *)
Reachable(t, n) ==
  n # origin[t] => /\ gen[origin[t]][n] <= txn[t].gen
                   /\ conn[origin[t]][n] = "up"

Takes(t, n) ==
  /\ Running(t) => Reachable(t, n)
  /\ Part(txn[t], n, Committed(t, n), Barriered(t, n))

(* Whoever was connected at the start takes part until the connection      *)
(* breaks; a connection that was broken then makes the lockdown fail.      *)
Outcome(t) ==
  \/ txn[t].phase \in {"new", "dead"} \/ Doomed(txn[t])
  \/ \A n \in txn[t].with : <<t, n>> \in lost \/ Takes(t, n)

(* A request on its way is waited for, or nothing depends on it.           *)
Awaited(t) ==
  \A n \in Node, p \in Phases : <<t, n, p>> \in req =>
    \/ <<t, n>> \in lost \/ txn[t].phase = "dead"
    \/ txn[t].phase = p /\ n \in txn[t].pend

TxnOutcome(t) == Flags(txn[t]) /\ Awaited(t) /\ Outcome(t)

OutcomeInv == Types /\ Latest /\ \A t \in Txn : TxnOutcome(t)

LEMMA InitOutcome == Init => OutcomeInv
<1> SUFFICES ASSUME Init PROVE OutcomeInv
  OBVIOUS
<1>1. /\ Idle \in TxnRec /\ Idle.phase = "new" /\ ~Idle.success /\ ~Idle.failed
      /\ ~Idle.cleaned /\ ~Idle.unbarriered
  BY DEF Idle, TxnRec
<1>2. \A t \in Txn : txn[t] = Idle
  BY DEF Init
<1>3. Types
  BY <1>1, <1>2 DEF Init, Types
<1>4. Latest
  BY SMT DEF Init, Latest
<1>5. \A t \in Txn : TxnOutcome(t)
  BY <1>1, <1>2 DEF Init, TxnOutcome, Flags, Awaited, Outcome
<1> QED BY <1>3, <1>4, <1>5 DEF OutcomeInv

LEMMA OutcomeAllOrNothing == ASSUME OutcomeInv PROVE AllOrNothing
<1> SUFFICES ASSUME NEW t \in Txn, txn[t].phase = "end",
                    NEW n \in txn[t].with, <<t, n>> \notin lost
             PROVE  /\ ~txn[t].failed => t \in done[n]
                    /\ txn[t].cleaned => t \notin done[n]
                    /\ txn[t].unbarriered => <<n, t>> \notin barrier
  BY DEF AllOrNothing
<1>1. Outcome(t)
  BY DEF OutcomeInv, TxnOutcome
<1>2. CASE Doomed(txn[t])
  BY <1>2 DEF Doomed
<1>3. CASE Takes(t, n)
  BY <1>3 DEF Takes, Part, Settled, Committed, Barriered
<1> QED BY <1>1, <1>2, <1>3 DEF Outcome

----------------------------------------------------------------------------
(* What a phase leaves on a glusterd                                       *)

LEMMA PerformEffect ==
  ASSUME Types, NEW n \in Node, NEW t \in Txn, NEW p \in Phases,
         NEW ok \in BOOLEAN, Perform(n, t, p, ok)
  PROVE  /\ done' \in [Node -> SUBSET Txn]
         /\ \A u \in Txn, m \in Node : u # t \/ m # n =>
              /\ Committed(u, m)' = Committed(u, m)
              /\ Barriered(u, m)' = Barriered(u, m)
         /\ p \notin {"commit", "cleanup"} => Committed(t, n)' = Committed(t, n)
         /\ p \notin {"brick_pre", "brick_post"} => Barriered(t, n)' = Barriered(t, n)
         /\ ok /\ p = "commit" => Committed(t, n)'
         /\ ok /\ p = "cleanup" => ~Committed(t, n)'
         /\ ok /\ p = "brick_post" => ~Barriered(t, n)'
<1> USE DEF Committed, Barriered
<1>1. done \in [Node -> SUBSET Txn]
  BY DEF Types
<1>2. CASE p \in {"lock", "unlock", "prevalidate", "post"}
  <2>1. done' = done /\ barrier' = barrier
    BY <1>2 DEF Perform, data
  <2> QED BY <1>1, <1>2, <2>1
<1>3. CASE p \in {"brick_pre", "brick_post"}
  <2>1. /\ done' = done
        /\ \/ barrier' = barrier /\ ~ok
           \/ p = "brick_pre" /\ barrier' = barrier \cup {<<n, t>>}
           \/ p = "brick_post" /\ barrier' = barrier \ {<<n, t>>}
    BY <1>3 DEF Perform, Maybe
  <2> QED BY <1>1, <1>3, <2>1, SMT
<1>4. CASE p \in {"commit", "cleanup"}
  <2>1. /\ barrier' = barrier
        /\ \/ done' = done /\ ~ok
           \/ p = "commit" /\ done' = [done EXCEPT ![n] = @ \cup {t}]
           \/ p = "cleanup" /\ done' = [done EXCEPT ![n] = @ \ {t}]
    BY <1>4 DEF Perform, Maybe
  <2> QED BY <1>1, <1>4, <2>1, SMT
<1> QED BY <1>2, <1>3, <1>4 DEF Phases

----------------------------------------------------------------------------
(* The phases of a transaction, as records                                 *)

LEMMA GoRec ==
  ASSUME NEW x \in TxnRec, NEW p \in Phases
  PROVE  /\ Go(x, p) \in TxnRec /\ Go(x, p).phase = p
         /\ Go(x, p).gen = x.gen /\ Go(x, p).with = x.with
         /\ Go(x, p).failed = x.failed /\ Go(x, p).success = x.success
         /\ Go(x, p).unbarriered = x.unbarriered /\ Go(x, p).cleaned = x.cleaned
  BY DEF Go, TxnRec

LEMMA FailRec ==
  ASSUME NEW x \in TxnRec, NEW p \in Phases
  PROVE  /\ Fail(x, p) \in TxnRec /\ Fail(x, p).phase = p
         /\ Fail(x, p).gen = x.gen /\ Fail(x, p).with = x.with
         /\ Fail(x, p).failed = TRUE /\ Fail(x, p).success = x.success
         /\ Fail(x, p).unbarriered = x.unbarriered /\ Fail(x, p).cleaned = x.cleaned
  BY DEF Fail, TxnRec

(* What is carried from a phase that has returned, z, into the next, x.    *)
Carried(z, x) ==
  /\ x \in TxnRec /\ x.phase \in Phases \ {"lock"} /\ Flags(x)
  /\ x.gen = z.gen /\ x.with = z.with
  /\ Doomed(z) => Doomed(x) /\ x.phase = "unlock"
  /\ \A c, b \in BOOLEAN :
       Settled(z, c, b) /\ (Reached(z, c, b) \/ ~z.ret) => Settled(x, c, b)

LEMMA PhaseCarries ==
  ASSUME Types, NEW t \in Txn, Running(t), txn[t].phase # "unlock",
         Flags(txn[t]),
         NEW x \in IF flow[t] = "all" THEN AllPhases(txn[t])
                                     ELSE SnapPhases(txn[t])
  PROVE  /\ Carried(txn[t], x)
         /\ flow[t] = "all" => x.phase \notin {"brick_pre", "brick_post", "cleanup"}
<1> DEFINE z == txn[t]
<1>1. z \in TxnRec
  BY DEF Types
<1>2. z.phase \in {"lock", "prevalidate", "brick_pre", "commit", "brick_post",
                   "post", "cleanup"}
  BY <1>1 DEF Running, TxnRec, Phases
<1>3. {"prevalidate", "brick_pre", "commit", "brick_post", "post", "cleanup",
       "unlock"} = Phases \ {"lock"}
  BY DEF Phases
<1>4. CASE flow[t] = "all"
  <2>1. z.phase \in {"lock", "prevalidate", "commit", "post"}
    BY <1>2, <1>4 DEF Types
  <2>2. \/ x = Fail(z, "unlock") /\ (z.phase = "lock" \/ ~z.ret)
        \/ z.ret /\ z.phase = "lock" /\ x = Go(z, "prevalidate")
        \/ z.ret /\ z.phase = "prevalidate" /\ x = Go(z, "commit")
        \/ z.ret /\ z.phase = "commit" /\ x = Go(z, "post")
        \/ z.ret /\ z.phase = "post" /\ x = Go(z, "unlock")
    BY <1>4, <2>1, SMTT(30) DEF AllPhases
  <2> HIDE DEF z
  <2>3. Flags(z)
    BY DEF z
  <2>4. ASSUME x = Fail(z, "unlock"), z.phase = "lock" \/ ~z.ret
        PROVE  Carried(z, x) /\ x.phase = "unlock"
    <3>1. "unlock" \in Phases \ {"lock"}
      BY DEF Phases
    <3>2. /\ x \in TxnRec /\ x.phase = "unlock" /\ x.gen = z.gen /\ x.with = z.with
          /\ x.failed /\ x.unbarriered = z.unbarriered /\ x.cleaned = z.cleaned
      BY <1>1, <2>4, <3>1, FailRec
    <3> QED BY <2>1, <2>3, <2>4, <3>1, <3>2 DEF Carried, Flags, Doomed, Settled, Reached
  <2>5. ASSUME z.ret, z.phase = "lock", x = Go(z, "prevalidate")
        PROVE  Carried(z, x) /\ x.phase = "prevalidate"
    BY <1>1, <1>3, <2>3, <2>5, GoRec, SMT DEF Carried, Flags, Doomed, Settled,
       Reached
  <2>6. ASSUME z.ret, z.phase = "prevalidate", x = Go(z, "commit")
        PROVE  Carried(z, x) /\ x.phase = "commit"
    BY <1>1, <1>3, <2>3, <2>6, GoRec, SMT DEF Carried, Flags, Doomed, Settled,
       Reached
  <2>7. ASSUME z.ret, z.phase = "commit", x = Go(z, "post")
        PROVE  Carried(z, x) /\ x.phase = "post"
    BY <1>1, <1>3, <2>3, <2>7, GoRec, SMT DEF Carried, Flags, Doomed, Settled,
       Reached
  <2>8. ASSUME z.ret, z.phase = "post", x = Go(z, "unlock")
        PROVE  Carried(z, x) /\ x.phase = "unlock"
    BY <1>1, <1>3, <2>3, <2>8, GoRec, SMT DEF Carried, Flags, Doomed, Settled,
       Reached
  <2> QED BY <2>2, <2>4, <2>5, <2>6, <2>7, <2>8 DEF z
<1>5. CASE flow[t] # "all"
  <2>1. Flags(z)
    OBVIOUS
  <2>2. CASE z.phase = "lock"
    <3>1. x = Fail(z, "unlock") \/ (z.ret /\ x = Go(z, "prevalidate"))
      BY <1>5, <2>2 DEF SnapPhases
    <3> HIDE DEF z
    <3>2. ASSUME x = Fail(z, "unlock") PROVE Carried(z, x)
      <4>1. "unlock" \in Phases \ {"lock"}
        BY DEF Phases
      <4>2. /\ x \in TxnRec /\ x.phase = "unlock" /\ x.gen = z.gen /\ x.with = z.with
            /\ x.failed /\ x.unbarriered = z.unbarriered /\ x.cleaned = z.cleaned
        BY <1>1, <3>2, <4>1, FailRec
      <4> QED BY <2>1, <2>2, <4>1, <4>2 DEF Carried, Flags, Doomed, Settled, Reached
    <3>3. z.ret /\ x = Go(z, "prevalidate") => Carried(z, x)
      BY <1>1, <1>3, <2>1, <2>2, GoRec, SMT DEF Carried, Flags, Doomed,
         Settled, Reached
    <3> QED BY <1>5, <3>1, <3>2, <3>3 DEF z
  <2>3. CASE z.phase = "prevalidate"
    <3>1. x = Fail(z, "cleanup") \/ (z.ret /\ x = Go(z, "brick_pre"))
      BY <1>5, <2>3 DEF SnapPhases, PostValidate
    <3> HIDE DEF z
    <3>2. ASSUME x = Fail(z, "cleanup") PROVE Carried(z, x)
      <4>1. "cleanup" \in Phases \ {"lock"}
        BY DEF Phases
      <4>2. /\ x \in TxnRec /\ x.phase = "cleanup" /\ x.gen = z.gen /\ x.with = z.with
            /\ x.failed /\ x.unbarriered = z.unbarriered /\ x.cleaned = z.cleaned
        BY <1>1, <3>2, <4>1, FailRec
      <4> QED BY <2>1, <2>3, <4>1, <4>2 DEF Carried, Flags, Doomed, Settled, Reached
    <3>3. z.ret /\ x = Go(z, "brick_pre") => Carried(z, x)
      BY <1>1, <1>3, <2>1, <2>3, GoRec, SMT DEF Carried, Flags, Doomed,
         Settled, Reached
    <3> QED BY <1>5, <3>1, <3>2, <3>3 DEF z
  <2>4. CASE z.phase = "brick_pre"
    <3>1. x = Go(z, "commit") \/ x = Go(z, "brick_post")
      BY <1>5, <2>4 DEF SnapPhases
    <3> HIDE DEF z
    <3> QED BY <1>1, <1>3, <1>5, <2>1, <2>4, <3>1, GoRec, SMT
            DEF Carried, Flags, Doomed, Settled, Reached, z
  <2>5. CASE z.phase = "commit"
    <3> DEFINE g == Go(z, "brick_post")
    <3>1. x = [g EXCEPT !.success = z.ret]
      BY <1>5, <2>5 DEF SnapPhases
    <3>2. /\ g \in TxnRec /\ g.phase = "brick_post"
          /\ g.gen = z.gen /\ g.with = z.with
          /\ g.failed = z.failed
          /\ g.unbarriered = z.unbarriered /\ g.cleaned = z.cleaned
      BY <1>1, <1>3, GoRec
    <3>3. z.ret \in BOOLEAN
      BY <1>1 DEF TxnRec
    <3> HIDE DEF g, z
    <3>4. /\ x \in TxnRec /\ x.phase = g.phase
          /\ x.gen = g.gen /\ x.with = g.with
          /\ x.failed = g.failed /\ x.success = z.ret
          /\ x.unbarriered = g.unbarriered /\ x.cleaned = g.cleaned
      BY <3>1, <3>2, <3>3 DEF TxnRec
    <3> QED BY <1>3, <1>5, <2>1, <2>5, <3>2, <3>4
            DEF Carried, Flags, Doomed, Settled, Reached, z
  <2>6. CASE z.phase = "brick_post"
    <3> DEFINE y == [z EXCEPT !.unbarriered = z.ret]
    <3>1. x = Fail(y, "cleanup") \/ (z.ret /\ z.success /\ x = Go(y, "post"))
      BY <1>5, <2>6 DEF SnapPhases, PostValidate
    <3>2. z.ret \in BOOLEAN
      BY <1>1 DEF TxnRec
    <3> HIDE DEF z
    <3>3. /\ y \in TxnRec /\ y.gen = z.gen /\ y.with = z.with
          /\ y.failed = z.failed /\ y.success = z.success
          /\ y.unbarriered = z.ret /\ y.cleaned = z.cleaned
      BY <1>1, <3>2 DEF TxnRec
    <3> HIDE DEF y
    <3>4. "post" \in Phases /\ "cleanup" \in Phases
      BY DEF Phases
    <3>5. /\ Go(y, "post") \in TxnRec /\ Go(y, "post").phase = "post"
          /\ Go(y, "post").gen = y.gen /\ Go(y, "post").with = y.with
          /\ Go(y, "post").failed = y.failed
          /\ Go(y, "post").unbarriered = y.unbarriered
          /\ Go(y, "post").cleaned = y.cleaned
      BY <3>3, <3>4, GoRec
    <3>6. /\ Fail(y, "cleanup") \in TxnRec /\ Fail(y, "cleanup").phase = "cleanup"
          /\ Fail(y, "cleanup").gen = y.gen /\ Fail(y, "cleanup").with = y.with
          /\ Fail(y, "cleanup").failed = TRUE
          /\ Fail(y, "cleanup").unbarriered = y.unbarriered
          /\ Fail(y, "cleanup").cleaned = y.cleaned
      BY <3>3, <3>4, FailRec
    <3>7. /\ x \in TxnRec /\ x.phase \in {"post", "cleanup"}
          /\ x.gen = z.gen /\ x.with = z.with
          /\ x.unbarriered = z.ret /\ x.cleaned = z.cleaned
          /\ x.phase = "post" => z.ret /\ z.success /\ x.failed = z.failed
          /\ x.phase = "cleanup" => x.failed
      BY <3>1, <3>3, <3>5, <3>6
    <3>8. Flags(x)
      BY <2>1, <2>6, <3>7 DEF Flags
    <3>9. \A c, b \in BOOLEAN :
            Settled(z, c, b) /\ (Reached(z, c, b) \/ ~z.ret) => Settled(x, c, b)
      BY <2>6, <3>7 DEF Settled, Reached
    <3> QED BY <1>3, <1>5, <2>6, <3>7, <3>8, <3>9 DEF Carried, Doomed, z
  <2>7. CASE z.phase \in {"post", "cleanup"}
    <3> DEFINE r == z.failed /\ z.ret
               y == [z EXCEPT !.cleaned = r]
    <3>1. (z.ret /\ x = Go(y, "unlock")) \/ (~z.ret /\ x = Fail(y, "unlock"))
      BY <1>5, <2>7 DEF SnapPhases
    <3>2. r \in BOOLEAN /\ (r <=> z.failed /\ z.ret)
      OBVIOUS
    <3> HIDE DEF z, r
    <3>3. /\ y \in TxnRec /\ y.gen = z.gen /\ y.with = z.with
          /\ y.failed = z.failed /\ y.success = z.success
          /\ y.unbarriered = z.unbarriered /\ y.cleaned = r
      BY <1>1, <3>2 DEF TxnRec
    <3> HIDE DEF y
    <3>4. "unlock" \in Phases
      BY DEF Phases
    <3>5. /\ Go(y, "unlock") \in TxnRec /\ Go(y, "unlock").phase = "unlock"
          /\ Go(y, "unlock").gen = y.gen /\ Go(y, "unlock").with = y.with
          /\ Go(y, "unlock").failed = y.failed
          /\ Go(y, "unlock").unbarriered = y.unbarriered
          /\ Go(y, "unlock").cleaned = y.cleaned
      BY <3>3, <3>4, GoRec
    <3>6. /\ Fail(y, "unlock") \in TxnRec /\ Fail(y, "unlock").phase = "unlock"
          /\ Fail(y, "unlock").gen = y.gen /\ Fail(y, "unlock").with = y.with
          /\ Fail(y, "unlock").failed = TRUE
          /\ Fail(y, "unlock").unbarriered = y.unbarriered
          /\ Fail(y, "unlock").cleaned = y.cleaned
      BY <3>3, <3>4, FailRec
    <3>7. /\ x \in TxnRec /\ x.phase = "unlock"
          /\ x.gen = z.gen /\ x.with = z.with
          /\ x.unbarriered = z.unbarriered /\ x.cleaned = r
          /\ x.failed = z.failed \/ (x.failed /\ ~z.ret)
      BY <3>1, <3>3, <3>5, <3>6
    <3>8. \A c, b \in BOOLEAN :
            Settled(z, c, b) /\ (Reached(z, c, b) \/ ~z.ret) => Settled(x, c, b)
      BY <2>1, <2>7, <3>2, <3>7 DEF Settled, Reached, Flags
    <3> QED BY <1>3, <1>5, <2>7, <3>7, <3>8 DEF Carried, Doomed, Flags, z
  <2> QED BY <1>2, <2>2, <2>3, <2>4, <2>5, <2>6, <2>7
<1> QED BY <1>4, <1>5

----------------------------------------------------------------------------
(* A transaction that does not move on                                     *)

Same(x, y) ==
  /\ y.phase = x.phase /\ y.gen = x.gen /\ y.with = x.with
  /\ y.failed = x.failed /\ y.success = x.success
  /\ y.unbarriered = x.unbarriered /\ y.cleaned = x.cleaned

LEMMA PartKept ==
  ASSUME NEW x, NEW y, NEW n, NEW c, NEW b, Part(x, n, c, b), Same(x, y),
         y.ret => x.ret, n \in x.pend => n \in y.pend \/ ~y.ret
  PROVE  Part(y, n, c, b)
<1>1. Settled(y, c, b)
  BY DEF Part, Settled, Same
<1>2. Reached(x, c, b) => Reached(y, c, b)
  BY DEF Reached, Same
<1> QED BY <1>1, <1>2 DEF Part

LEMMA StillAwaited ==
  ASSUME NEW t \in Txn, Awaited(t), txn'[t].phase = txn[t].phase,
         lost \subseteq lost',
         \A n \in Node, p \in Phases : <<t, n, p>> \in req' =>
           /\ <<t, n, p>> \in req
           /\ n \in txn[t].pend => n \in txn'[t].pend \/ <<t, n>> \in lost'
  PROVE  Awaited(t)'
  BY DEF Awaited

(* It goes on waiting, for fewer answers perhaps, and those who take part  *)
(* and are not lost stay as they are.                                      *)
LEMMA Waiting ==
  ASSUME NEW t \in Txn, TxnOutcome(t), Same(txn[t], txn'[t]), Awaited(t)',
         txn'[t].ret => txn[t].ret, lost \subseteq lost',
         \A n \in txn[t].pend : \/ n \in txn'[t].pend \/ <<t, n>> \in lost'
                                \/ ~txn'[t].ret,
         \A n \in txn[t].with : <<t, n>> \notin lost' =>
           /\ Committed(t, n)' = Committed(t, n)
           /\ Barriered(t, n)' = Barriered(t, n)
           /\ Running(t) /\ Reachable(t, n) => Reachable(t, n)'
  PROVE  TxnOutcome(t)'
<1>1. Flags(txn[t])'
  BY DEF TxnOutcome, Flags, Same
<1>2. Doomed(txn[t]) => Doomed(txn[t])'
  BY DEF Doomed, Same
<1>3. ASSUME NEW n \in txn[t].with, <<t, n>> \notin lost', Takes(t, n)
      PROVE  Takes(t, n)'
  <2>1. Part(txn[t], n, Committed(t, n), Barriered(t, n))
    BY <1>3 DEF Takes
  <2>2. Part(txn'[t], n, Committed(t, n), Barriered(t, n))
    BY <1>3, <2>1, PartKept
  <2>3. Running(t)' => Running(t)
    BY DEF Running, Same
  <2> QED BY <1>3, <2>2, <2>3 DEF Takes
<1>4. txn'[t].with = txn[t].with /\ txn'[t].phase = txn[t].phase
  BY DEF Same
<1>5. Outcome(t)'
  BY <1>2, <1>3, <1>4 DEF TxnOutcome, Outcome
<1> QED BY <1>1, <1>5 DEF TxnOutcome

(* A step of another transaction.                                          *)
LEMMA OutcomeStays ==
  ASSUME NEW t \in Txn, TxnOutcome(t), txn'[t] = txn[t], UNCHANGED <<net, lost>>,
         txn[t].with \subseteq Node,
         \A n \in Node : /\ Committed(t, n)' = Committed(t, n)
                         /\ Barriered(t, n)' = Barriered(t, n),
         \A n \in Node, p \in Phases : <<t, n, p>> \in req' => <<t, n, p>> \in req
  PROVE  TxnOutcome(t)'
<1>1. Same(txn[t], txn'[t]) /\ lost' = lost /\ conn' = conn /\ gen' = gen
  BY DEF Same, net
<1>2. Awaited(t)'
  BY <1>1, StillAwaited DEF TxnOutcome
<1>3. \A n \in Node : Reachable(t, n)' <=> Reachable(t, n)
  BY <1>1 DEF Reachable
<1> QED BY <1>1, <1>2, <1>3, Waiting

----------------------------------------------------------------------------
(* Steps of a transaction                                                  *)

LEMMA SentSame ==
  ASSUME Types, NEW t \in Txn, NEW x \in TxnRec, Send(t, x)
  PROVE  /\ txn' \in [Txn -> TxnRec]
         /\ \A u \in Txn \ {t} : txn'[u] = txn[u]
         /\ Same(x, txn'[t])
         /\ txn'[t].pend = {m \in Eligible(t, x) : conn[origin[t]][m] = "up"}
         /\ txn'[t].ret <=> Eligible(t, x) = txn'[t].pend
<1> DEFINE P == Eligible(t, x)
           up == {m \in P : conn[origin[t]][m] = "up"}
           y == [x EXCEPT !.pend = up, !.ret = P = up]
<1>1. up \in SUBSET Node /\ (P = up) \in BOOLEAN
  BY DEF Eligible
<1>2. y \in TxnRec /\ Same(x, y) /\ y.pend = up /\ y.ret = (P = up)
  <2> HIDE DEF P, up
  <2> QED BY <1>1 DEF TxnRec, Same
<1>3. txn' = [txn EXCEPT ![t] = y]
  BY DEF Send
<1> HIDE DEF y
<1> QED BY <1>2, <1>3 DEF Types

(* The requests that go out are waited for.                                *)
LEMMA SendAwaited ==
  ASSUME Types, NEW t \in Txn, NEW x \in TxnRec, Send(t, x), lost' = lost,
         \A n \in Node, p \in Phases : <<t, n, p>> \in req => <<t, n>> \in lost
  PROVE  Awaited(t)'
<1>1. /\ Same(x, txn'[t])
      /\ txn'[t].pend = {m \in Eligible(t, x) : conn[origin[t]][m] = "up"}
  BY SentSame
<1>2. req' = req \cup {<<t, m, x.phase>> : m \in txn'[t].pend}
  BY <1>1 DEF Send
<1>3. ASSUME NEW n \in Node, NEW p \in Phases, <<t, n, p>> \in req'
      PROVE  <<t, n>> \in lost \/ (p = x.phase /\ n \in txn'[t].pend)
  BY <1>2, <1>3
<1> QED BY <1>1, <1>3 DEF Awaited, Same

LEMMA StartOutcome ==
  ASSUME OutcomeInv, NEW t \in Txn, Start(t)
  PROVE  OutcomeInv'
<1> DEFINE n == origin[t]
           W == {n} \cup {m \in Node : conn[n][m] # "down"}
           x == [txn[t] EXCEPT !.gen = gen[n][n], !.phase = "lock", !.with = W]
           y == [x EXCEPT !.phase = "end", !.failed = TRUE]
<1>1. Types /\ Latest /\ n \in Node /\ \A u \in Txn : TxnOutcome(u)
  BY TxnAssumption DEF OutcomeInv
<1>2. PICK ok \in BOOLEAN :
        IF ok THEN Send(t, x) ELSE txn' = [txn EXCEPT ![t] = y] /\ UNCHANGED req
  BY DEF Start
<1>3. /\ txn[t] \in TxnRec /\ gen[n][n] \in Nat /\ W \in SUBSET Node
      /\ txn[t].phase = "new"
  BY <1>1 DEF Start, Types
<1>4. /\ UNCHANGED <<net, lost>> /\ conn' = conn /\ gen' = gen /\ lost' = lost
      /\ done' = done /\ barrier' = barrier
  BY DEF Start, net, data
<1>5. /\ x \in TxnRec /\ x.phase = "lock" /\ x.gen = gen[n][n] /\ x.with = W
      /\ x.failed = txn[t].failed /\ x.success = txn[t].success
      /\ x.unbarriered = txn[t].unbarriered /\ x.cleaned = txn[t].cleaned
  <2> HIDE DEF W
  <2> QED BY <1>3 DEF TxnRec, Phases
<1> HIDE DEF x
<1>6. /\ y \in TxnRec /\ y.phase = "end" /\ y.failed = TRUE
      /\ y.unbarriered = x.unbarriered /\ y.cleaned = x.cleaned
  BY <1>5 DEF TxnRec
<1> HIDE DEF y
<1>7. ~txn[t].failed /\ ~txn[t].success /\ ~txn[t].unbarriered /\ ~txn[t].cleaned
  BY <1>1, <1>3 DEF TxnOutcome, Flags
<1>8. \A m \in Node, p \in Phases : <<t, m, p>> \in req => <<t, m>> \in lost
  BY <1>1, <1>3 DEF TxnOutcome, Awaited, Phases
<1>9. /\ txn' \in [Txn -> TxnRec] /\ txn'[t].phase \in {"lock", "end"}
      /\ \A u \in Txn \ {t} : txn'[u] = txn[u]
  BY <1>1, <1>2, <1>5, <1>6, SentSame DEF Types, Same
<1>10. Types' /\ Latest'
  BY <1>1, <1>4, <1>9 DEF Types, Latest
<1>11. ASSUME NEW u \in Txn, u # t PROVE TxnOutcome(u)'
  <2>1. \A m \in Node, p \in Phases : <<u, m, p>> \in req' => <<u, m, p>> \in req
    BY <1>2, <1>11, SMT DEF Send
  <2>2. txn[u].with \subseteq Node
    BY <1>1 DEF Types, TxnRec
  <2> QED BY <1>1, <1>4, <1>9, <1>11, <2>1, <2>2, OutcomeStays DEF Committed, Barriered
<1>12. CASE ok
  <2>1. Send(t, x)
    BY <1>2, <1>12
  <2>2. /\ Same(x, txn'[t])
        /\ txn'[t].pend = {m \in Eligible(t, x) : conn[n][m] = "up"}
        /\ txn'[t].ret <=> Eligible(t, x) = txn'[t].pend
    BY <1>1, <1>5, <2>1, SentSame
  <2>3. Awaited(t)'
    BY <1>1, <1>4, <1>5, <1>8, <2>1, SendAwaited
  <2>4. Flags(txn[t])'
    BY <1>5, <1>7, <2>2 DEF Flags, Same
  <2>5. CASE \A m \in W : conn[n][m] = "up" \/ m = n
    <3>1. ASSUME NEW m \in W PROVE Takes(t, m)'
      <4>1. gen[n][m] <= gen[n][n] /\ txn'[t].gen = gen[n][n]
        BY <1>1, <1>5, <2>2, <3>1 DEF Latest, Same
      <4>2. Reachable(t, m)'
        BY <1>4, <2>5, <3>1, <4>1 DEF Reachable
      <4>3. Part(txn[t], m, Committed(t, m), Barriered(t, m))'
        BY <1>5, <2>2 DEF Part, Settled, Reached, Same
      <4> QED BY <4>2, <4>3 DEF Takes
    <3> QED BY <1>5, <1>10, <1>11, <2>2, <2>3, <2>4, <3>1, SMT
            DEF OutcomeInv, TxnOutcome, Outcome, Same
  <2>6. CASE ~\A m \in W : conn[n][m] = "up" \/ m = n
    <3>1. PICK m \in Node \ {n} : conn[n][m] # "up" /\ conn[n][m] # "down"
      BY <2>6
    <3>2. gen[n][m] <= x.gen
      BY <1>1, <1>5, <3>1 DEF Latest
    <3>3. m \in Eligible(t, x) /\ m \notin txn'[t].pend
      BY <2>2, <3>1, <3>2 DEF Eligible
    <3>4. Doomed(txn[t])'
      BY <1>5, <2>2, <3>3 DEF Doomed, Same
    <3> QED BY <1>10, <1>11, <2>3, <2>4, <3>4 DEF OutcomeInv, TxnOutcome, Outcome
  <2> QED BY <2>5, <2>6
<1>13. CASE ~ok
  <2>1. txn'[t] = y /\ req' = req
    BY <1>1, <1>2, <1>13 DEF Types
  <2>2. Awaited(t)'
    BY <1>4, <1>8, <2>1 DEF Awaited
  <2>3. Doomed(txn[t])' /\ Flags(txn[t])'
    BY <1>5, <1>6, <1>7, <2>1 DEF Doomed, Flags
  <2> QED BY <1>10, <1>11, <2>2, <2>3 DEF OutcomeInv, TxnOutcome, Outcome
<1> QED BY <1>12, <1>13

LEMMA AdvanceOutcome ==
  ASSUME OutcomeInv, NEW t \in Txn, Advance(t)
  PROVE  OutcomeInv'
<1> DEFINE n == origin[t]
           z == txn[t]
<1>1. Types /\ Latest /\ n \in Node /\ z \in TxnRec /\ \A u \in Txn : TxnOutcome(u)
  BY TxnAssumption DEF OutcomeInv, Types
<1>2. /\ Running(t) /\ z.phase # "unlock" /\ z.pend = {}
      /\ UNCHANGED <<net, lost>> /\ conn' = conn /\ gen' = gen /\ lost' = lost
  BY DEF Advance, net
<1>3. PICK x \in IF flow[t] = "all" THEN AllPhases(txn[t]) ELSE SnapPhases(txn[t]) :
        IF x.phase = "unlock" THEN Send(t, x) /\ UNCHANGED <<locks, data>>
                              ELSE Enter(t, x)
  BY DEF Advance
<1>4. /\ Carried(z, x)
      /\ flow[t] = "all" => x.phase \notin {"brick_pre", "brick_post", "cleanup"}
  BY <1>1, <1>2, PhaseCarries DEF TxnOutcome
<1>5. x \in TxnRec /\ x.phase \in Phases /\ x.gen = z.gen /\ x.with = z.with
  BY <1>4 DEF Carried
<1> DEFINE y == [x EXCEPT !.ret = FALSE]
<1>6. \/ x.phase = "unlock" /\ Send(t, x) /\ done' = done /\ barrier' = barrier
      \/ x.phase # "unlock" /\ Perform(n, t, x.phase, TRUE) /\ Send(t, x)
      \/ /\ x.phase # "unlock" /\ Perform(n, t, x.phase, FALSE)
         /\ txn' = [txn EXCEPT ![t] = y] /\ req' = req
  BY <1>3 DEF Enter, data
<1>7. y \in TxnRec /\ Same(x, y) /\ y.ret = FALSE
  BY <1>5 DEF TxnRec, Same
<1> HIDE DEF y
<1>8. /\ txn' \in [Txn -> TxnRec] /\ Same(x, txn'[t])
      /\ \A u \in Txn \ {t} : txn'[u] = txn[u]
  BY <1>1, <1>5, <1>6, <1>7, SentSame DEF Types
<1>9. /\ done' \in [Node -> SUBSET Txn]
      /\ \A u \in Txn, m \in Node : u # t \/ m # n =>
           Committed(u, m)' = Committed(u, m) /\ Barriered(u, m)' = Barriered(u, m)
  <2>1. CASE done' = done /\ barrier' = barrier
    BY <1>1, <2>1 DEF Types, Committed, Barriered
  <2>2. ASSUME NEW ok \in BOOLEAN, Perform(n, t, x.phase, ok)
        PROVE  /\ done' \in [Node -> SUBSET Txn]
               /\ \A u \in Txn, m \in Node : u # t \/ m # n =>
                    /\ Committed(u, m)' = Committed(u, m)
                    /\ Barriered(u, m)' = Barriered(u, m)
    BY <1>1, <1>5, <2>2, PerformEffect, SMT
  <2> QED BY <1>6, <2>1, <2>2
<1>10. Types' /\ Latest'
  BY <1>1, <1>2, <1>4, <1>8, <1>9 DEF Types, Latest, Same
<1>11. ASSUME NEW u \in Txn, u # t PROVE TxnOutcome(u)'
  <2>1. \A m \in Node, p \in Phases : <<u, m, p>> \in req' => <<u, m, p>> \in req
    <3>1. CASE Send(t, x)
      BY <1>11, <3>1 DEF Send
    <3> QED BY <1>6, <3>1
  <2>2. txn[u].with \subseteq Node
    BY <1>1 DEF Types, TxnRec
  <2> QED BY <1>1, <1>2, <1>8, <1>9, <1>11, <2>1, <2>2, OutcomeStays
<1>12. Flags(txn[t])'
  BY <1>4, <1>8 DEF Carried, Flags, Same
<1>13. \A m \in Node, p \in Phases : <<t, m, p>> \in req => <<t, m>> \in lost
  BY <1>1, <1>2 DEF TxnOutcome, Awaited, Running
<1>14. Awaited(t)'
  <2>1. CASE Send(t, x)
    BY <1>1, <1>2, <1>5, <1>13, <2>1, SendAwaited
  <2>2. CASE req' = req
    BY <1>2, <1>13, <2>2 DEF Awaited
  <2> QED BY <1>6, <2>1, <2>2
<1>15. Outcome(t)'
  <2>1. CASE Doomed(z)
    <3>1. Doomed(txn'[t])
      BY <1>4, <1>8, <2>1 DEF Carried, Doomed, Same
    <3> QED BY <3>1 DEF Outcome
  <2>2. CASE ~Doomed(z)
    <3>1. ASSUME NEW m \in z.with, <<t, m>> \notin lost
          PROVE  Takes(t, m)'
      <4>1. Takes(t, m) /\ m \in Node
        BY <1>1, <1>2, <2>2, <3>1 DEF TxnOutcome, Outcome, Running, TxnRec
      <4>2. Reachable(t, m)
        BY <1>2, <4>1 DEF Takes
      <4>3. Reachable(t, m)'
        BY <1>2, <1>5, <1>8, <4>2 DEF Reachable, Same
      <4> DEFINE c == Committed(t, m)
                 b == Barriered(t, m)
      <4>4. c \in BOOLEAN /\ b \in BOOLEAN
        BY SMT DEF Committed, Barriered
      <4>5. Settled(z, c, b) /\ (Reached(z, c, b) \/ ~z.ret)
        BY <1>2, <4>1 DEF Takes, Part
      <4>6. Settled(x, c, b)
        BY <1>4, <4>4, <4>5 DEF Carried
      <4> DEFINE d == Committed(t, m)'
                 e == Barriered(t, m)'
      <4>7. /\ Settled(x, d, e)
            /\ Reached(x, d, e) \/ m \in txn'[t].pend \/ ~txn'[t].ret
        <5>1. CASE x.phase = "unlock" /\ done' = done /\ barrier' = barrier
          <6>1. c = d /\ b = e
            BY <5>1 DEF Committed, Barriered
          <6> QED BY <4>6, <5>1, <6>1 DEF Settled, Reached
        <5>2. CASE Perform(n, t, x.phase, TRUE) /\ Send(t, x)
          <6>1. CASE m = n
            <7>1. /\ x.phase \notin {"commit", "cleanup"} => d = c
                  /\ x.phase \notin {"brick_pre", "brick_post"} => e = b
                  /\ x.phase = "commit" => d
                  /\ x.phase = "cleanup" => ~d
                  /\ x.phase = "brick_post" => ~e
              BY <1>1, <1>5, <5>2, <6>1, PerformEffect
            <7> HIDE DEF c, b, d, e
            <7> QED BY <4>6, <7>1, SMT DEF Settled, Reached
          <6>2. CASE m # n
            <7>1. d = c /\ e = b
              BY <1>9, <4>1, <6>2
            <7>2. m \in Eligible(t, x) /\ conn[origin[t]][m] = "up"
              BY <1>5, <4>1, <4>2, <6>2 DEF Reachable, Eligible
            <7>3. m \in txn'[t].pend
              BY <1>1, <1>5, <5>2, <7>2, SentSame
            <7> QED BY <4>6, <7>1, <7>3
          <6> QED BY <6>1, <6>2
        <5>3. CASE Perform(n, t, x.phase, FALSE) /\ txn' = [txn EXCEPT ![t] = y]
          <6>1. txn'[t] = y
            BY <1>1, <5>3 DEF Types
          <6>2. CASE m = n
            <7>1. /\ x.phase \notin {"commit", "cleanup"} => d = c
                  /\ x.phase \notin {"brick_pre", "brick_post"} => e = b
              BY <1>1, <1>5, <5>3, <6>2, PerformEffect
            <7> HIDE DEF c, b, d, e
            <7> QED BY <1>7, <4>6, <6>1, <7>1, SMT DEF Settled
          <6>3. CASE m # n
            <7>1. d = c /\ e = b
              BY <1>9, <4>1, <6>3
            <7> QED BY <1>7, <4>6, <6>1, <7>1
          <6> QED BY <6>2, <6>3
        <5> QED BY <1>6, <5>1, <5>2, <5>3
      <4> HIDE DEF d, e
      <4>8. Part(txn'[t], m, d, e)
        BY <1>8, <4>7 DEF Part, Settled, Reached, Same
      <4> QED BY <4>3, <4>8 DEF Takes, d, e
    <3>2. txn'[t].with = z.with
      BY <1>5, <1>8 DEF Same
    <3> QED BY <1>2, <3>1, <3>2 DEF Outcome
  <2> QED BY <2>1, <2>2
<1> QED BY <1>10, <1>11, <1>12, <1>14, <1>15 DEF OutcomeInv, TxnOutcome

LEMMA FinishOutcome ==
  ASSUME OutcomeInv, NEW t \in Txn, Finish(t)
  PROVE  OutcomeInv'
<1> DEFINE z == txn[t]
<1>1. Types /\ Latest /\ z \in TxnRec /\ \A u \in Txn : TxnOutcome(u)
  BY DEF OutcomeInv, Types
<1>2. /\ z.phase = "unlock" /\ z.pend = {} /\ req' = req
      /\ UNCHANGED <<net, lost>> /\ conn' = conn /\ gen' = gen /\ lost' = lost
      /\ done' = done /\ barrier' = barrier
  BY DEF Finish, net, data
<1>3. PICK ok \in BOOLEAN :
        txn' = [txn EXCEPT ![t].phase = "end", ![t].failed = @ \/ ~ok]
  BY DEF Finish
<1> DEFINE f == z.failed \/ ~ok
           y == [z EXCEPT !.phase = "end", !.failed = f]
<1>4. txn' = [txn EXCEPT ![t] = y]
  BY <1>1, <1>3 DEF Types, TxnRec
<1>5. f \in BOOLEAN /\ (z.failed => f)
  OBVIOUS
<1> HIDE DEF f
<1>6. /\ y \in TxnRec /\ y.phase = "end" /\ y.failed = f
      /\ y.with = z.with /\ y.cleaned = z.cleaned /\ y.unbarriered = z.unbarriered
  BY <1>1, <1>5 DEF TxnRec
<1> HIDE DEF y
<1>7. /\ txn' \in [Txn -> TxnRec] /\ txn'[t] = y
      /\ \A u \in Txn \ {t} : txn'[u] = txn[u]
  BY <1>1, <1>4, <1>6 DEF Types
<1>8. Types' /\ Latest'
  BY <1>1, <1>2, <1>6, <1>7 DEF Types, Latest
<1>9. ASSUME NEW u \in Txn, u # t PROVE TxnOutcome(u)'
  <2>1. txn[u].with \subseteq Node
    BY <1>1 DEF Types, TxnRec
  <2> QED BY <1>1, <1>2, <1>7, <1>9, <2>1, OutcomeStays DEF Committed, Barriered
<1>10. Flags(txn[t])'
  BY <1>6, <1>7 DEF Flags
<1>11. Awaited(t)'
  BY <1>1, <1>2, <1>7 DEF TxnOutcome, Awaited
<1>12. CASE Doomed(z)
  <2>1. Doomed(txn'[t])
    BY <1>2, <1>5, <1>6, <1>7, <1>12 DEF Doomed
  <2> QED BY <1>8, <1>9, <1>10, <1>11, <2>1 DEF OutcomeInv, TxnOutcome, Outcome
<1>13. CASE ~Doomed(z)
  <2>1. ASSUME NEW m \in z.with, <<t, m>> \notin lost
        PROVE  Takes(t, m)'
    <3>1. Part(z, m, Committed(t, m), Barriered(t, m))
      BY <1>1, <1>2, <1>13, <2>1 DEF TxnOutcome, Outcome, Takes
    <3>2. Part(y, m, Committed(t, m), Barriered(t, m))
      BY <1>2, <1>5, <1>6, <3>1 DEF Part, Settled, Reached
    <3>3. Committed(t, m)' = Committed(t, m) /\ Barriered(t, m)' = Barriered(t, m)
      BY <1>2 DEF Committed, Barriered
    <3> QED BY <1>6, <1>7, <3>2, <3>3 DEF Takes, Running
  <2> QED BY <1>2, <1>6, <1>7, <1>8, <1>9, <1>10, <1>11, <2>1
          DEF OutcomeInv, TxnOutcome, Outcome
<1> QED BY <1>12, <1>13

----------------------------------------------------------------------------
(* Steps of the peers, the network and the timers                          *)

LEMMA HandleOutcome ==
  ASSUME OutcomeInv, NEW t \in Txn, NEW n \in Node, NEW p \in Phases,
         Handle(t, n, p)
  PROVE  OutcomeInv'
<1> DEFINE z == txn[t]
           Waited == Running(t) /\ z.phase = p /\ n \in z.pend
<1>1. Types /\ Latest /\ z \in TxnRec /\ \A u \in Txn : TxnOutcome(u)
  BY DEF OutcomeInv, Types
<1>2. /\ <<t, n, p>> \in req /\ req' = req \ {<<t, n, p>>}
      /\ UNCHANGED <<net, lost>> /\ conn' = conn /\ gen' = gen /\ lost' = lost
  BY DEF Handle, net
<1>3. PICK ok \in BOOLEAN :
        /\ Perform(n, t, p, ok)
        /\ txn' = IF Waited
                    THEN [txn EXCEPT ![t].pend = @ \ {n}, ![t].ret = @ /\ ok]
                    ELSE txn
  BY DEF Handle
<1>4. <<t, n>> \in lost \/ z.phase = "dead" \/ Waited
  BY <1>1, <1>2 DEF TxnOutcome, Awaited, Running, Phases
<1>5. /\ done' \in [Node -> SUBSET Txn]
      /\ \A u \in Txn, m \in Node : u # t \/ m # n =>
           Committed(u, m)' = Committed(u, m) /\ Barriered(u, m)' = Barriered(u, m)
  BY <1>1, <1>3, PerformEffect, SMT
<1>6. /\ txn' \in [Txn -> TxnRec] /\ Same(z, txn'[t])
      /\ \A u \in Txn \ {t} : txn'[u] = txn[u]
      /\ ~Waited => txn'[t] = z
      /\ Waited => txn'[t].pend = z.pend \ {n} /\ (txn'[t].ret <=> z.ret /\ ok)
  <2>1. CASE Waited
    <3> DEFINE q == z.pend \ {n}
               r == z.ret /\ ok
               y == [z EXCEPT !.pend = q, !.ret = r]
    <3>1. txn' = [txn EXCEPT ![t] = y]
      BY <1>1, <1>3, <2>1 DEF Types, TxnRec
    <3>2. r \in BOOLEAN /\ q \in SUBSET Node
      BY <1>1 DEF TxnRec
    <3> HIDE DEF r, q
    <3>3. y \in TxnRec /\ Same(z, y) /\ y.pend = q /\ y.ret = r
      BY <1>1, <3>2 DEF TxnRec, Same
    <3> HIDE DEF y
    <3>4. txn'[t] = y /\ txn' \in [Txn -> TxnRec] /\ \A u \in Txn \ {t} : txn'[u] = txn[u]
      BY <1>1, <3>1, <3>3 DEF Types
    <3> QED BY <2>1, <3>3, <3>4 DEF r, q
  <2>2. CASE ~Waited
    BY <1>1, <1>3, <2>2 DEF Types, Same
  <2> QED BY <2>1, <2>2
<1>7. Types' /\ Latest'
  BY <1>1, <1>2, <1>5, <1>6 DEF Types, Latest, Same
<1>8. ASSUME NEW u \in Txn, u # t PROVE TxnOutcome(u)'
  <2>1. txn[u].with \subseteq Node
    BY <1>1 DEF Types, TxnRec
  <2> QED BY <1>1, <1>2, <1>5, <1>6, <1>8, <2>1, OutcomeStays
<1>9. Awaited(t)'
  <2>1. ASSUME NEW m \in Node, NEW q \in Phases, <<t, m, q>> \in req'
        PROVE  \/ <<t, m>> \in lost \/ z.phase = "dead"
               \/ z.phase = q /\ m \in txn'[t].pend
    <3>1. <<t, m, q>> \in req /\ (m # n \/ q # p)
      BY <1>2, <2>1
    <3>2. <<t, m>> \in lost \/ z.phase = "dead" \/ (z.phase = q /\ m \in z.pend)
      BY <1>1, <3>1 DEF TxnOutcome, Awaited
    <3> QED BY <1>6, <3>1, <3>2
  <2> QED BY <1>2, <1>6, <2>1 DEF Awaited, Same
<1>10. TxnOutcome(t)'
  <2>1. Flags(txn[t])'
    BY <1>1, <1>6 DEF TxnOutcome, Flags, Same
  <2>2. CASE z.phase \in {"new", "dead"}
    BY <1>6, <1>9, <2>1, <2>2 DEF TxnOutcome, Outcome, Same
  <2>3. CASE Doomed(z)
    <3>1. Doomed(txn'[t])
      BY <1>6, <2>3 DEF Doomed, Same
    <3> QED BY <1>9, <2>1, <3>1 DEF TxnOutcome, Outcome
  <2>4. CASE z.phase \notin {"new", "dead"} /\ ~Doomed(z)
    <3>1. ASSUME NEW m \in z.with, <<t, m>> \notin lost
          PROVE  Takes(t, m)'
      <4>1. Takes(t, m) /\ m \in Node
        BY <1>1, <2>4, <3>1 DEF TxnOutcome, Outcome, TxnRec
      <4>2. Running(t)' => Reachable(t, m)'
        BY <1>2, <1>6, <4>1 DEF Takes, Reachable, Running, Same
      <4> DEFINE c == Committed(t, m)
                 b == Barriered(t, m)
                 d == Committed(t, m)'
                 e == Barriered(t, m)'
      <4>3. Part(z, m, c, b)
        BY <4>1 DEF Takes
      <4>4. CASE m # n
        <5>1. d = c /\ e = b
          BY <1>5, <4>1, <4>4
        <5>2. Part(txn'[t], m, c, b)
          BY <1>6, <4>3, <4>4, PartKept
        <5> QED BY <4>2, <5>1, <5>2 DEF Takes
      <4>5. CASE m = n
        <5>1. Waited
          BY <1>4, <2>4, <3>1, <4>5
        <5>2. /\ p \notin {"commit", "cleanup"} => d = c
              /\ p \notin {"brick_pre", "brick_post"} => e = b
              /\ ok /\ p = "commit" => d
              /\ ok /\ p = "cleanup" => ~d
              /\ ok /\ p = "brick_post" => ~e
          BY <1>1, <1>3, <4>5, PerformEffect
        <5> HIDE DEF c, b, d, e
        <5>3. Settled(txn'[t], d, e)
          BY <1>6, <4>3, <5>1, <5>2, SMT DEF Part, Settled, Same
        <5>4. Reached(txn'[t], d, e) \/ ~txn'[t].ret
          BY <1>6, <5>1, <5>2 DEF Reached, Same
        <5> QED BY <4>2, <5>3, <5>4 DEF Takes, Part, d, e
      <4> QED BY <4>4, <4>5
    <3>2. txn'[t].with = z.with
      BY <1>6 DEF Same
    <3> QED BY <1>2, <1>9, <2>1, <3>1, <3>2 DEF TxnOutcome, Outcome
  <2> QED BY <2>2, <2>3, <2>4
<1> QED BY <1>7, <1>8, <1>10 DEF OutcomeInv

LEMMA UnwoundSame ==
  ASSUME NEW x \in TxnRec, NEW m
  PROVE  /\ Unwound(x, m) \in TxnRec /\ Same(x, Unwound(x, m))
         /\ Unwound(x, m).pend = x.pend \ {m}
         /\ Unwound(x, m).ret => x.ret
         /\ m \in x.pend => ~Unwound(x, m).ret
<1> DEFINE q == x.pend \ {m}
           y == [x EXCEPT !.pend = q, !.ret = FALSE]
<1>1. q \in SUBSET Node
  BY DEF TxnRec
<1>2. y \in TxnRec /\ Same(x, y) /\ y.pend = q /\ y.ret = FALSE
  <2> HIDE DEF q
  <2> QED BY <1>1 DEF TxnRec, Same
<1>3. m \in x.pend => Unwound(x, m) = y
  BY DEF Unwound
<1>4. m \notin x.pend => Unwound(x, m) = x /\ q = x.pend /\ Same(x, x)
  BY DEF Unwound, Same
<1> HIDE DEF y
<1> QED BY <1>2, <1>3, <1>4

LEMMA BreakOutcome ==
  ASSUME OutcomeInv, NEW n \in Node, NEW m \in Node, Break(n, m)
  PROVE  OutcomeInv'
<1> DEFINE T == {t \in Txn : origin[t] = n /\ Running(t)}
<1>1. /\ Types /\ Latest /\ \A u \in Txn : TxnOutcome(u)
      /\ \A u \in Txn : origin[u] \in Node /\ txn[u] \in TxnRec
                        /\ txn[u].with \subseteq Node
  BY TxnAssumption DEF OutcomeInv, Types, TxnRec
<1>2. /\ conn' = [conn EXCEPT ![n][m] = "broken"]
      /\ txn' = [t \in Txn |-> IF t \in T THEN Unwound(txn[t], m) ELSE txn[t]]
      /\ lost' = lost \cup (T \X {m}) /\ req' \subseteq req
      /\ gen' = gen /\ done' = done /\ barrier' = barrier
  BY DEF Break, data
<1>3. \A u \in Txn : /\ txn'[u] \in TxnRec /\ Same(txn[u], txn'[u])
                     /\ u \in T => txn'[u].pend = txn[u].pend \ {m}
                     /\ u \notin T => txn'[u].pend = txn[u].pend
                     /\ txn'[u].ret => txn[u].ret
  <2> TAKE u \in Txn
  <2>1. CASE u \in T
    <3>1. txn'[u] = Unwound(txn[u], m)
      BY <1>2, <2>1
    <3> QED BY <1>1, <2>1, <3>1, UnwoundSame, SMT
  <2>2. CASE u \notin T
    <3>1. txn'[u] = txn[u]
      BY <1>2, <2>2
    <3> QED BY <1>1, <2>2, <3>1 DEF Same
  <2> QED BY <2>1, <2>2
<1>4. Types' /\ Latest'
  BY <1>1, <1>2, <1>3 DEF Types, Latest, Same
<1>5. ASSUME NEW u \in Txn PROVE TxnOutcome(u)'
  <2>1. lost \subseteq lost' /\ \A k \in txn[u].pend :
                                  k \in txn'[u].pend \/ <<u, k>> \in lost'
    BY <1>2, <1>3
  <2>2. Awaited(u)'
    BY <1>1, <1>2, <1>3, <2>1, StillAwaited DEF TxnOutcome, Same
  <2>3. ASSUME NEW k \in txn[u].with, <<u, k>> \notin lost', Running(u),
               Reachable(u, k)
        PROVE  Reachable(u, k)'
    <3>1. k \in Node /\ txn'[u].gen = txn[u].gen
      BY <1>1, <1>3, <2>3 DEF Same
    <3>2. ~(origin[u] = n /\ k = m)
      BY <1>2, <2>3
    <3> QED BY <1>1, <1>2, <2>3, <3>1, <3>2 DEF Reachable, Types
  <2>4. \A k \in Node : /\ Committed(u, k)' = Committed(u, k)
                        /\ Barriered(u, k)' = Barriered(u, k)
    BY <1>2 DEF Committed, Barriered
  <2> QED BY <1>1, <1>3, <2>1, <2>2, <2>3, <2>4, Waiting
<1> QED BY <1>4, <1>5 DEF OutcomeInv

(* Steps of the network and of the timers that no transaction notices.     *)
LEMMA Unnoticed ==
  ASSUME OutcomeInv, Types', Latest', UNCHANGED <<txn, req, data>>,
         lost \subseteq lost',
         \A a, b \in Node : a # b /\ conn[a][b] = "up" =>
           conn'[a][b] = "up" /\ gen'[a][b] = gen[a][b]
  PROVE  OutcomeInv'
<1> SUFFICES ASSUME NEW u \in Txn PROVE TxnOutcome(u)'
  BY DEF OutcomeInv
<1>1. /\ TxnOutcome(u) /\ txn' = txn /\ req' = req /\ done' = done /\ barrier' = barrier
      /\ txn[u].with \subseteq Node /\ origin[u] \in Node /\ Same(txn[u], txn'[u])
  BY TxnAssumption DEF OutcomeInv, Types, TxnRec, data, Same
<1>2. Awaited(u)'
  BY <1>1, StillAwaited DEF TxnOutcome
<1>3. \A k \in Node : Reachable(u, k) => Reachable(u, k)'
  BY <1>1 DEF Reachable
<1>4. \A k \in Node : /\ Committed(u, k)' = Committed(u, k)
                      /\ Barriered(u, k)' = Barriered(u, k)
  BY <1>1 DEF Committed, Barriered
<1> QED BY <1>1, <1>2, <1>3, <1>4, Waiting

LEMMA DisconnectOutcome ==
  ASSUME OutcomeInv, NEW n \in Node, NEW m \in Node, Disconnect(n, m)
  PROVE  OutcomeInv'
<1>1. /\ conn[n][m] = "broken" /\ conn' = [conn EXCEPT ![n][m] = "down"]
      /\ lost \subseteq lost' /\ gen' = gen /\ UNCHANGED <<txn, req, data>>
      /\ done' = done
  BY DEF Disconnect, data
<1>2. Types' /\ Latest'
  BY <1>1 DEF OutcomeInv, Types, Latest
<1>3. \A a, b \in Node : conn[a][b] = "up" => conn'[a][b] = "up"
  BY <1>1 DEF OutcomeInv, Types
<1> QED BY <1>1, <1>2, <1>3, Unnoticed

LEMMA ConnectOutcome ==
  ASSUME OutcomeInv, NEW n \in Node, NEW m \in Node, Connect(n, m)
  PROVE  OutcomeInv'
<1>1. /\ conn[n][m] = "down" /\ conn' = [conn EXCEPT ![n][m] = "up"]
      /\ gen' = [gen EXCEPT ![n][n] = @ + 1, ![n][m] = gen[n][n] + 1]
      /\ lost' = lost /\ UNCHANGED <<txn, req, data>> /\ done' = done
      /\ gen \in [Node -> [Node -> Nat]]
      /\ conn \in [Node -> [Node -> {"up", "broken", "down"}]]
  BY DEF Connect, data, OutcomeInv, Types
<1>2. /\ gen' \in [Node -> [Node -> Nat]]
      /\ gen'[n][m] = gen[n][n] + 1 /\ gen'[n][n] = gen[n][n] + 1
      /\ \A a, b \in Node : a # n \/ (b # m /\ b # n) => gen'[a][b] = gen[a][b]
  <2> DEFINE g == [gen EXCEPT ![n][n] = @ + 1]
             c == gen[n][n] + 1
  <2>1. g \in [Node -> [Node -> Nat]] /\ g[n][n] = c /\ c \in Nat
        /\ \A a, b \in Node : a # n \/ b # n => g[a][b] = gen[a][b]
    BY <1>1, SMT
  <2>2. gen' = [g EXCEPT ![n][m] = c]
    BY <1>1
  <2> HIDE DEF g, c
  <2>3. /\ gen' \in [Node -> [Node -> Nat]] /\ gen'[n][m] = c /\ gen'[n][n] = c
        /\ \A a, b \in Node : a # n \/ (b # m /\ b # n) => gen'[a][b] = gen[a][b]
    BY <2>1, <2>2, ZenonT(60)
  <2> QED BY <2>3 DEF c
<1>3. Types'
  BY <1>1, <1>2 DEF OutcomeInv, Types
<1>4. Latest'
  <2>1. ASSUME NEW a \in Node, NEW b \in Node PROVE gen'[a][b] <= gen'[a][a]
    <3>1. gen[a][b] <= gen[a][a] /\ gen[a][b] \in Nat /\ gen[a][a] \in Nat
      BY <1>1 DEF OutcomeInv, Latest
    <3>2. gen'[a][a] = gen[a][a] \/ gen'[a][a] = gen[a][a] + 1
      BY <1>2
    <3>3. gen'[a][b] = gen[a][b] \/ gen'[a][b] = gen'[a][a]
      BY <1>2
    <3> QED BY <3>1, <3>2, <3>3, SMT
  <2> QED BY <2>1 DEF Latest
<1>5. \A a, b \in Node : a # b /\ conn[a][b] = "up" =>
        conn'[a][b] = "up" /\ gen'[a][b] = gen[a][b]
  <2> TAKE a, b \in Node
  <2> HAVE a # b /\ conn[a][b] = "up"
  <2>1. a # n \/ (b # m /\ b # n)
    BY <1>1
  <2> QED BY <1>1, <1>2, <2>1, SMT
<1> QED BY <1>1, <1>3, <1>4, <1>5, Unnoticed

LEMMA TimerOutcome ==
  ASSUME OutcomeInv, NEW n \in Node, NEW k \in Key, NEW t \in Txn,
         Expire(n, k, t) \/ TimerCbkLock(n, k, t) \/ TimerCbkTimer(n, k, t)
  PROVE  OutcomeInv'
<1>1. /\ lost \subseteq lost' /\ conn' = conn /\ gen' = gen
      /\ UNCHANGED <<txn, req, data>> /\ done' = done
  BY DEF Expire, TimerCbkLock, TimerCbkTimer, net, data
<1>2. Types' /\ Latest'
  BY <1>1 DEF OutcomeInv, Types, Latest
<1> QED BY <1>1, <1>2, Unnoticed

(* A glusterd that is killed takes its own transactions with it, and is    *)
(* lost to the others.                                                     *)
LEMMA RestartOutcome ==
  ASSUME OutcomeInv, NEW n \in Node, Restart(n)
  PROVE  OutcomeInv'
<1> DEFINE T == {t \in Txn : origin[t] = n /\ Running(t)}
<1>1. /\ Types /\ Latest /\ \A u \in Txn : TxnOutcome(u)
      /\ \A u \in Txn : origin[u] \in Node /\ txn[u] \in TxnRec
                        /\ txn[u].with \subseteq Node
  BY TxnAssumption DEF OutcomeInv, Types, TxnRec
<1>2. /\ conn' = [a \in Node |-> [b \in Node |->
           IF a = b THEN "up" ELSE IF a = n THEN "down"
           ELSE IF b = n /\ conn[a][b] = "up" THEN "broken" ELSE conn[a][b]]]
      /\ txn' = [t \in Txn |-> IF t \in T
                                 THEN [txn[t] EXCEPT !.phase = "dead", !.pend = {}]
                                 ELSE Unwound(txn[t], n)]
      /\ req' = {r \in req : r[2] # n}
      /\ lost' = lost \cup ({t \in Txn : Running(t)} \X {n})
      /\ gen' = gen /\ done' = done /\ barrier' = barrier
  BY DEF Restart, data
<1>3. \A u \in T : txn'[u] \in TxnRec /\ txn'[u].phase = "dead"
  <2> TAKE u \in T
  <2>1. txn'[u] = [txn[u] EXCEPT !.phase = "dead", !.pend = {}]
    BY <1>2
  <2> QED BY <1>1, <2>1 DEF TxnRec
<1>4. \A u \in Txn \ T : /\ txn'[u] \in TxnRec /\ Same(txn[u], txn'[u])
                         /\ txn'[u].pend = txn[u].pend \ {n}
                         /\ txn'[u].ret => txn[u].ret
                         /\ n \in txn[u].pend => ~txn'[u].ret
  <2> TAKE u \in Txn \ T
  <2>1. txn'[u] = Unwound(txn[u], n)
    BY <1>2
  <2> QED BY <1>1, <2>1, UnwoundSame, SMT
<1>5. conn' \in [Node -> [Node -> {"up", "broken", "down"}]]
  BY <1>1, <1>2 DEF Types
<1>6. Types' /\ Latest'
  BY <1>1, <1>2, <1>3, <1>4, <1>5 DEF Types, Latest, Same
<1>7. ASSUME NEW u \in T PROVE TxnOutcome(u)'
  BY <1>3, <1>7 DEF TxnOutcome, Flags, Awaited, Outcome
<1>8. ASSUME NEW u \in Txn \ T PROVE TxnOutcome(u)'
  <2>1. /\ lost \subseteq lost'
        /\ \A k \in txn[u].pend : k \in txn'[u].pend \/ ~txn'[u].ret
    BY <1>2, <1>4, <1>8
  <2>2. \A k \in Node, p \in Phases : <<u, k, p>> \in req' =>
          <<u, k, p>> \in req /\ (k \in txn[u].pend => k \in txn'[u].pend)
    BY <1>2, <1>4, <1>8
  <2>3. Awaited(u)'
    BY <1>1, <1>4, <1>8, <2>1, <2>2, StillAwaited DEF TxnOutcome, Same
  <2>4. ASSUME NEW k \in txn[u].with, <<u, k>> \notin lost', Running(u),
               Reachable(u, k)
        PROVE  Reachable(u, k)'
    <3>1. k \in Node /\ txn'[u].gen = txn[u].gen /\ origin[u] # n /\ k # n
      BY <1>1, <1>2, <1>4, <1>8, <2>4 DEF Same
    <3>2. k # origin[u] => conn'[origin[u]][k] = conn[origin[u]][k]
      BY <1>1, <1>2, <3>1
    <3> QED BY <1>2, <2>4, <3>1, <3>2 DEF Reachable
  <2>5. \A k \in Node : /\ Committed(u, k)' = Committed(u, k)
                        /\ Barriered(u, k)' = Barriered(u, k)
    BY <1>2 DEF Committed, Barriered
  <2> QED BY <1>1, <1>4, <1>8, <2>1, <2>3, <2>4, <2>5, Waiting
<1> QED BY <1>6, <1>7, <1>8 DEF OutcomeInv

LEMMA NextOutcome ==
  ASSUME OutcomeInv, [Next]_vars
  PROVE  OutcomeInv'
<1>1. CASE UNCHANGED vars
  <2>1. /\ lost' = lost /\ conn' = conn /\ gen' = gen
        /\ UNCHANGED <<txn, req, data>> /\ done' = done
    BY <1>1 DEF vars, net, data
  <2>2. Types' /\ Latest'
    BY <2>1 DEF OutcomeInv, Types, Latest
  <2> QED BY <2>1, <2>2, Unnoticed
<1>2. ASSUME NEW t \in Txn, Start(t) \/ Advance(t) \/ Finish(t)
      PROVE  OutcomeInv'
  BY <1>2, StartOutcome, AdvanceOutcome, FinishOutcome
<1>3. ASSUME NEW t \in Txn, NEW n \in Node, NEW p \in Phases, Handle(t, n, p)
      PROVE  OutcomeInv'
  BY <1>3, HandleOutcome
<1>4. ASSUME NEW n \in Node, NEW m \in Node,
             Break(n, m) \/ Disconnect(n, m) \/ Connect(n, m)
      PROVE  OutcomeInv'
  BY <1>4, BreakOutcome, DisconnectOutcome, ConnectOutcome
<1>5. ASSUME NEW n \in Node, Restart(n) PROVE OutcomeInv'
  BY <1>5, RestartOutcome
<1>6. ASSUME NEW n \in Node, NEW k \in Key, NEW t \in Txn,
             Expire(n, k, t) \/ TimerCbkLock(n, k, t) \/ TimerCbkTimer(n, k, t)
      PROVE  OutcomeInv'
  BY <1>6, TimerOutcome
<1> QED BY <1>1, <1>2, <1>3, <1>4, <1>5, <1>6 DEF Next

(* What glusterd_mgmt_v3_initiate_*_phases reports to the CLI agrees with  *)
(* what the glusterds have done, in clusters of any size, with any number  *)
(* of transactions at a time and whatever connections break, glusterds     *)
(* restart and lock timers expire: success means that everyone that was to *)
(* take part and stayed connected has committed, and a failed snapshot     *)
(* leaves neither a snapshot nor a barrier where its cleanup worked.       *)
THEOREM ResponsesAreTrue == Spec => []AllOrNothing
<1>1. Init => OutcomeInv
  BY InitOutcome
<1>2. OutcomeInv /\ [Next]_vars => OutcomeInv'
  BY NextOutcome
<1>3. OutcomeInv => AllOrNothing
  BY OutcomeAllOrNothing
<1> QED BY <1>1, <1>2, <1>3, PTL DEF Spec
============================================================================
