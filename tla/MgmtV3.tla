------------------------------- MODULE MgmtV3 -------------------------------
(* The synctask transactions of glusterd (glusterd-mgmt.c) and the         *)
(* mgmt_v3 locks they run under (glusterd-locks.c): an originator locks    *)
(* the volume and snapshot names on itself and on its peers, takes them    *)
(* through validation, brick op, commit and post-validation, and unlocks.  *)
(*                                                                         *)
(* Every handler, callback and notification runs under the big lock of its *)
(* glusterd, and so does a transaction except while it waits for answers:  *)
(* each of them is one step.  Only the lock timer runs beside them.        *)
EXTENDS FiniteSets, Integers

CONSTANTS Node,       \* glusterds, all befriended
          Key,        \* name_type keys of the mgmt_v3_lock dict
          VolKey,     \* those of type vol, of volumes in conf->volumes
          Txn,        \* transactions
          origin,     \* the glusterd a transaction starts on
          flow,       \* "all" or "snap": which initiate_*_phases runs it
          keys,       \* the locks it asks for
          MaxFault,   \* broken connections, restarts and expiring timers
          NoNode, NoTxn

ASSUME TxnAssumption ==
  /\ origin \in [Txn -> Node]
  /\ flow \in [Txn -> {"all", "snap"}]
  /\ keys \in [Txn -> SUBSET Key]
  /\ VolKey \subseteq Key
  /\ MaxFault \in Nat
  /\ NoNode \notin Node /\ NoTxn \notin Txn

VARIABLES
  mgmt_v3_lock,  \* per glusterd, key: uuid of the owner
  timer,         \* per glusterd, key: transaction whose timer is in the dict
  armed,         \* timers in the registry, as <<glusterd, key, transaction>>
  fired,         \* taken from the registry, callback not begun
  cbk,           \* callback has deleted the lock, not yet seen to its timer
  conn,          \* connection of a glusterd to a peer; "broken": its frames
                 \* are unwound, the disconnect is not yet notified
  gen,           \* peerinfo->generation, and conf->generation for oneself
  txn,           \* locals of the transactions, and who was asked to lock
  req,           \* requests that reached a peer: <<transaction, peer, phase>>
  done,          \* transactions committed on a glusterd
  barrier,       \* <<glusterd, transaction>>: bricks barriered on its behalf
  lost,          \* <<transaction, glusterd>>: a lock of it was taken away
                 \* there, or the connection to it broke
  faults

locks == <<mgmt_v3_lock, timer, armed>>
timers == <<fired, cbk>>
net == <<conn, gen>>
data == <<done, barrier>>
vars == <<locks, timers, net, txn, req, data, lost, faults>>

Running(t) == txn[t].phase \notin {"new", "end", "dead"}

Fault == faults < MaxFault /\ faults' = faults + 1
----------------------------------------------------------------------------
(* glusterd-locks.c                                                        *)

(* glusterd_multiple_mgmt_v3_lock: all of the keys or none; each gets an   *)
(* owner and a timer.                                                      *)
MultipleLock(n, t, ok) ==
  /\ ok <=> \A k \in keys[t] : mgmt_v3_lock[n][k] = NoNode
  /\ LET K == IF ok THEN keys[t] ELSE {} IN
     /\ mgmt_v3_lock' = [mgmt_v3_lock EXCEPT ![n] =
          [k \in Key |-> IF k \in K THEN origin[t] ELSE @[k]]]
     /\ timer' = [timer EXCEPT ![n] =
          [k \in Key |-> IF k \in K THEN t ELSE @[k]]]
     /\ armed' = armed \cup ({n} \X K \X {t})

(* glusterd_mgmt_v3_unlock of the keys K: the lock and its timer go.       *)
Unlock(n, K) ==
  /\ mgmt_v3_lock' = [mgmt_v3_lock EXCEPT ![n] =
       [k \in Key |-> IF k \in K THEN NoNode ELSE @[k]]]
  /\ timer' = [timer EXCEPT ![n] =
       [k \in Key |-> IF k \in K THEN NoTxn ELSE @[k]]]
  /\ armed' = armed \ {<<n, k, timer[n][k]>> : k \in K}

(* The keys that are held, and held by the caller.                         *)
Owned(n, K, uuid) == {k \in K : mgmt_v3_lock[n][k] = uuid}

(* Mutant: the timers of the keys are cancelled before the owner is        *)
(* looked at.                                                              *)
MultipleUnlock_TimerFirst(n, t, ok) ==
  LET K == Owned(n, keys[t], origin[t]) IN
  /\ ok <=> K = keys[t]
  /\ mgmt_v3_lock' = [mgmt_v3_lock EXCEPT ![n] =
       [k \in Key |-> IF k \in K THEN NoNode ELSE @[k]]]
  /\ timer' = [timer EXCEPT ![n] =
       [k \in Key |-> IF k \in keys[t] THEN NoTxn ELSE @[k]]]
  /\ armed' = armed \ {<<n, k, timer[n][k]>> : k \in keys[t]}

(* glusterd_multiple_mgmt_v3_unlock: as many of the keys as it can.        *)
MultipleUnlock(n, t, ok) ==
  /\ ok <=> Owned(n, keys[t], origin[t]) = keys[t]
  /\ Unlock(n, Owned(n, keys[t], origin[t]))

(* gf_timer_proc, one thread in a glusterd, takes an expired event from    *)
(* the registry.                                                           *)
Expire(n, k, t) ==
  /\ <<n, k, t>> \in armed /\ Fault
  /\ \A e \in fired \cup cbk : e[1] # n
  /\ armed' = armed \ {<<n, k, t>>}
  /\ fired' = fired \cup {<<n, k, t>>}
  /\ UNCHANGED <<mgmt_v3_lock, timer, cbk, net, txn, req, data, lost>>

(* gd_mgmt_v3_unlock_timer_cbk, without the big lock: whatever lock the    *)
(* key has is deleted ...                                                  *)
TimerCbkLock(n, k, t) ==
  /\ <<n, k, t>> \in fired
  /\ fired' = fired \ {<<n, k, t>>}
  /\ cbk' = cbk \cup {<<n, k, t>>}
  /\ mgmt_v3_lock' = [mgmt_v3_lock EXCEPT ![n][k] = NoNode]
  /\ lost' = IF mgmt_v3_lock[n][k] = NoNode THEN lost
             ELSE lost \cup {<<timer[n][k], n>>}
  /\ UNCHANGED <<timer, armed, net, txn, req, data, faults>>

(* ... and the timer the dict has for the key is cancelled.                *)
TimerCbkTimer(n, k, t) ==
  /\ <<n, k, t>> \in cbk
  /\ cbk' = cbk \ {<<n, k, t>>}
  /\ armed' = armed \ {<<n, k, timer[n][k]>>}
  /\ timer' = [timer EXCEPT ![n][k] = NoTxn]
  /\ UNCHANGED <<mgmt_v3_lock, fired, net, txn, req, data, lost, faults>>
----------------------------------------------------------------------------
(* What a phase does on a glusterd, the originator itself or a peer.       *)

(* A part that fails may have been done or not.                            *)
Maybe(ok, old, new) == IF ok THEN {new} ELSE {old, new}

(* The handlers of glusterd-mgmt-handler.c and the local part of a phase.  *)
(* "post" and "cleanup" are post-validation with op_ret 0 and -1.          *)
Perform(n, t, phase, ok) ==
  \/ phase = "lock" /\ MultipleLock(n, t, ok) /\ UNCHANGED data
  \/ phase = "unlock" /\ MultipleUnlock(n, t, ok) /\ UNCHANGED data
  \/ phase \in {"prevalidate", "post"} /\ UNCHANGED <<locks, data>>
  \/ /\ phase = "brick_pre"
     /\ barrier' \in Maybe(ok, barrier, barrier \cup {<<n, t>>})
     /\ UNCHANGED <<locks, done>>
  \/ /\ phase = "brick_post"
     /\ barrier' \in Maybe(ok, barrier, barrier \ {<<n, t>>})
     /\ UNCHANGED <<locks, done>>
  \/ /\ phase = "commit"
     /\ done' \in Maybe(ok, done, [done EXCEPT ![n] = @ \cup {t}])
     /\ UNCHANGED <<locks, barrier>>
  \/ /\ phase = "cleanup"
     /\ done' \in Maybe(ok, done, [done EXCEPT ![n] = @ \ {t}])
     /\ UNCHANGED <<locks, barrier>>
----------------------------------------------------------------------------
(* The originator                                                          *)

(* Mutant: a peer that connected after the transaction began gets its      *)
(* requests.                                                               *)
Eligible_Connected(t, x) ==
  {m \in Node \ {origin[t]} : conn[origin[t]][m] # "down"}

(* The peers a phase is sent to: known before the transaction started and  *)
(* connected.                                                              *)
Eligible(t, x) ==
  {m \in Node \ {origin[t]} : /\ gen[origin[t]][m] <= x.gen
                              /\ conn[origin[t]][m] # "down"}

(* The requests go out; one submitted to a broken connection fails at      *)
(* once, the others are waited for.                                        *)
Send(t, x) ==
  LET P == Eligible(t, x)
      up == {m \in P : conn[origin[t]][m] = "up"}
  IN
  /\ txn' = [txn EXCEPT ![t] = [x EXCEPT !.pend = up, !.ret = P = up]]
  /\ req' = req \cup {<<t, m, x.phase>> : m \in up}

(* The local part of a phase, then the peers; no peer hears of it when the *)
(* local part fails.                                                       *)
Enter(t, x) ==
  \E ok \in BOOLEAN :
    /\ Perform(origin[t], t, x.phase, ok)
    /\ IF ok THEN Send(t, x)
       ELSE /\ txn' = [txn EXCEPT ![t] = [x EXCEPT !.ret = FALSE]]
            /\ UNCHANGED req

(* txn_generation is saved and the originator locks itself.  If it cannot, *)
(* is_acquired is not set and there is nothing to unlock.                  *)
Start(t) ==
  LET n == origin[t]
      x == [txn[t] EXCEPT !.gen = gen[n][n], !.phase = "lock",
              !.with = {n} \cup {m \in Node : conn[n][m] # "down"}]
  IN
  /\ txn[t].phase = "new"
  /\ \E ok \in BOOLEAN :
       /\ MultipleLock(n, t, ok)
       /\ IF ok THEN Send(t, x)
          ELSE /\ txn' = [txn EXCEPT ![t] =
                            [x EXCEPT !.phase = "end", !.failed = TRUE]]
               /\ UNCHANGED req
  /\ UNCHANGED <<timers, net, data, lost, faults>>

Go(x, phase) == [x EXCEPT !.phase = phase]
Fail(x, phase) == [x EXCEPT !.phase = phase, !.failed = TRUE]

(* glusterd_mgmt_v3_initiate_all_phases: what follows a phase that has     *)
(* returned.  After the lockdown the payload may fail to be built.         *)
AllPhases(x) ==
  LET next == [lock |-> "prevalidate", prevalidate |-> "commit",
               commit |-> "post", post |-> "unlock"] IN
  IF ~x.ret THEN {Fail(x, "unlock")}
  ELSE {Go(x, next[x.phase])}
       \cup IF x.phase = "lock" THEN {Fail(x, "unlock")} ELSE {}

(* Mutant: post-validation is told of success, as in the other function.   *)
PostValidate_Zero(x, op_ret) ==
  IF op_ret THEN Go(x, "post") ELSE Fail(x, "post")

(* Post-validation gets the op_ret of the command.                         *)
PostValidate(x, op_ret) ==
  IF op_ret THEN Go(x, "post") ELSE Fail(x, "cleanup")

(* glusterd_mgmt_v3_initiate_snap_phases: once a barrier may be up the     *)
(* phases go through unbarrier, and all but a failed lockdown (req_dict    *)
(* NULL) through post-validation.  The quorum checks may fail.             *)
SnapPhases(x) ==
  CASE x.phase = "lock" ->
         {Fail(x, "unlock")} \cup IF x.ret THEN {Go(x, "prevalidate")} ELSE {}
    [] x.phase = "prevalidate" ->
         {PostValidate(x, FALSE)}
         \cup IF x.ret THEN {Go(x, "brick_pre")} ELSE {}
    [] x.phase = "brick_pre" ->
         {Go(x, IF x.ret THEN "commit" ELSE "brick_post")}
    [] x.phase = "commit" ->
         {[Go(x, "brick_post") EXCEPT !.success = x.ret]}
    [] x.phase = "brick_post" ->
         LET y == [x EXCEPT !.unbarriered = x.ret] IN
         {PostValidate(y, FALSE)}
         \cup IF x.ret /\ x.success THEN {PostValidate(y, TRUE)} ELSE {}
    [] x.phase \in {"post", "cleanup"} ->
         LET y == [x EXCEPT !.cleaned = x.failed /\ x.ret] IN
         {IF x.ret THEN Go(y, "unlock") ELSE Fail(y, "unlock")}

(* The answers of a phase are in: on to the next one.  The peers are       *)
(* unlocked before the originator.                                         *)
Advance(t) ==
  /\ Running(t) /\ txn[t].phase # "unlock" /\ txn[t].pend = {}
  /\ \E x \in IF flow[t] = "all" THEN AllPhases(txn[t]) ELSE SnapPhases(txn[t]) :
       IF x.phase = "unlock"
         THEN Send(t, x) /\ UNCHANGED <<locks, data>>
         ELSE Enter(t, x)
  /\ UNCHANGED <<timers, net, lost, faults>>

(* The local unlock and the response to the CLI.                           *)
Finish(t) ==
  /\ txn[t].phase = "unlock" /\ txn[t].pend = {}
  /\ \E ok \in BOOLEAN :
       /\ MultipleUnlock(origin[t], t, ok)
       /\ txn' = [txn EXCEPT ![t].phase = "end", ![t].failed = @ \/ ~ok]
  /\ UNCHANGED <<timers, net, req, data, lost, faults>>
----------------------------------------------------------------------------
(* The peers and the network                                               *)

(* Mutant: the big lock is kept while waiting for the answers.             *)
BigLockFree_Waiting(n) == \A t \in Txn : origin[t] = n => txn[t].pend = {}

(* gd_synctask_barrier_wait gives the big lock up for the wait, so that    *)
(* handlers and callbacks of this glusterd can run.                        *)
BigLockFree(n) == TRUE

(* A peer executes a request and answers; the callback collates the        *)
(* result, unless the connection has been given up meanwhile.              *)
Handle(t, n, phase) ==
  /\ <<t, n, phase>> \in req /\ BigLockFree(n)
  /\ req' = req \ {<<t, n, phase>>}
  /\ \E ok \in BOOLEAN :
       /\ Perform(n, t, phase, ok)
       /\ txn' = IF Running(t) /\ txn[t].phase = phase /\ n \in txn[t].pend
                   THEN [txn EXCEPT ![t].pend = @ \ {n}, ![t].ret = @ /\ ok]
                   ELSE txn
  /\ UNCHANGED <<timers, net, lost, faults>>

(* What transactions of n wait for from m is answered with ENOTCONN.       *)
Unwound(x, m) ==
  IF m \in x.pend THEN [x EXCEPT !.pend = @ \ {m}, !.ret = FALSE] ELSE x

(* The connection of n to m breaks; a request on its way is lost or will   *)
(* still be executed.                                                      *)
Break(n, m) ==
  /\ n # m /\ conn[n][m] = "up" /\ Fault
  /\ conn' = [conn EXCEPT ![n][m] = "broken"]
  /\ LET T == {t \in Txn : origin[t] = n /\ Running(t)} IN
     /\ txn' = [t \in Txn |-> IF t \in T THEN Unwound(txn[t], m) ELSE txn[t]]
     /\ lost' = lost \cup (T \X {m})
     /\ \E gone \in SUBSET {r \in req : r[1] \in T /\ r[2] = m} :
          req' = req \ gone
  /\ UNCHANGED <<locks, timers, gen, data>>

(* RPC_CLNT_DISCONNECT: the volume locks of the peer are released.         *)
Disconnect(n, m) ==
  /\ conn[n][m] = "broken"
  /\ conn' = [conn EXCEPT ![n][m] = "down"]
  /\ Unlock(n, Owned(n, VolKey, m))
  /\ lost' = lost \cup {<<timer[n][k], n>> : k \in Owned(n, VolKey, m)}
  /\ UNCHANGED <<timers, gen, txn, req, data, faults>>

(* RPC_CLNT_CONNECT: the peer gets a new generation.                       *)
Connect(n, m) ==
  /\ conn[n][m] = "down"
  /\ conn' = [conn EXCEPT ![n][m] = "up"]
  /\ gen' = [gen EXCEPT ![n][n] = @ + 1, ![n][m] = gen[n][n] + 1]
  /\ UNCHANGED <<locks, timers, txn, req, data, lost, faults>>

(* A glusterd is killed and started: its locks, timers, queued requests    *)
(* and transactions are gone, its connections and those to it are down.    *)
Restart(n) ==
  /\ Fault
  /\ mgmt_v3_lock' = [mgmt_v3_lock EXCEPT ![n] = [k \in Key |-> NoNode]]
  /\ timer' = [timer EXCEPT ![n] = [k \in Key |-> NoTxn]]
  /\ armed' = {e \in armed : e[1] # n}
  /\ fired' = {e \in fired : e[1] # n}
  /\ cbk' = {e \in cbk : e[1] # n}
  /\ conn' = [a \in Node |-> [b \in Node |->
       IF a = b THEN "up" ELSE IF a = n THEN "down"
       ELSE IF b = n /\ conn[a][b] = "up" THEN "broken" ELSE conn[a][b]]]
  /\ txn' = [t \in Txn |->
       IF origin[t] = n /\ Running(t)
         THEN [txn[t] EXCEPT !.phase = "dead", !.pend = {}]
         ELSE Unwound(txn[t], n)]
  /\ req' = {r \in req : r[2] # n}
  /\ lost' = lost \cup ({t \in Txn : Running(t)} \X {n})
  /\ UNCHANGED <<gen, data>>
----------------------------------------------------------------------------
(* The locals of an initiate_*_phases that has not begun.  with: itself    *)
(* and the peers connected at the start; cleaned: the command had failed   *)
(* and its post-validation worked.                                         *)
Idle == [phase |-> "new", gen |-> 0, with |-> {}, pend |-> {}, ret |-> TRUE,
         failed |-> FALSE, success |-> FALSE, unbarriered |-> FALSE,
         cleaned |-> FALSE]

Init ==
  /\ mgmt_v3_lock = [n \in Node |-> [k \in Key |-> NoNode]]
  /\ timer = [n \in Node |-> [k \in Key |-> NoTxn]]
  /\ armed = {} /\ fired = {} /\ cbk = {}
  /\ conn = [n \in Node |-> [m \in Node |-> "up"]]
  /\ gen = [n \in Node |-> [m \in Node |-> 0]]
  /\ txn = [t \in Txn |-> Idle]
  /\ req = {} /\ done = [n \in Node |-> {}] /\ barrier = {}
  /\ lost = {} /\ faults = 0

Phases == {"lock", "prevalidate", "brick_pre", "commit", "brick_post", "post",
           "cleanup", "unlock"}

Next ==
  \/ \E t \in Txn : Start(t) \/ Advance(t) \/ Finish(t)
  \/ \E t \in Txn, n \in Node, p \in Phases : Handle(t, n, p)
  \/ \E n, m \in Node : Break(n, m) \/ Disconnect(n, m) \/ Connect(n, m)
  \/ \E n \in Node : Restart(n)
  \/ \E n \in Node, k \in Key, t \in Txn :
       Expire(n, k, t) \/ TimerCbkLock(n, k, t) \/ TimerCbkTimer(n, k, t)

Spec == Init /\ [][Next]_vars

(* No key is locked while the timer callback of that key is between its    *)
(* two halves: they run without the big lock, and a lock taken there loses *)
(* its timer.                                                              *)
CallbackWhole ==
  \A e \in cbk : mgmt_v3_lock'[e[1]][e[2]] = mgmt_v3_lock[e[1]][e[2]]

FairSpec ==
  /\ Init /\ [][Next /\ CallbackWhole]_vars
  /\ \A t \in Txn : WF_vars(Advance(t) \/ Finish(t))
  /\ \A n \in Node :
       /\ WF_vars(\E t \in Txn, p \in Phases : Handle(t, n, p))
       /\ WF_vars(\E k \in Key, t \in Txn : TimerCbkTimer(n, k, t))
----------------------------------------------------------------------------
(* Properties                                                              *)

(* No glusterd commits a transaction unless it holds that transaction's    *)
(* own locks, as long as none was taken away on it or on the originator by *)
(* a timer, a disconnect or a restart: not a peer that came back after the *)
(* lockdown (txn_generation), not after the unlock of a transaction whose  *)
(* lockdown was refused (glusterd_mgmt_v3_unlock compares the owner).      *)
CommitUnderLock ==
  [][\A t \in Txn, n \in Node :
       /\ t \in done'[n] \ done[n]
       /\ <<t, n>> \notin lost /\ <<t, origin[t]>> \notin lost
       => \A k \in keys[t] : /\ mgmt_v3_lock[n][k] = origin[t]
                             /\ timer[n][k] = t]_vars

(* Every lock has a timer that will release it "in case we hit a situation *)
(* where unlocking failed and stale lock exist".                           *)
TimerCovers ==
  \A n \in Node, k \in Key : mgmt_v3_lock[n][k] # NoNode =>
    \E t \in Txn : <<n, k, t>> \in fired \cup (armed \cap {<<n, k, timer[n][k]>>})

(* When the CLI is told of success every glusterd that was to take part    *)
(* and stayed connected has committed.  When a snapshot is reported as     *)
(* failed and its post-validation worked, none of them keeps it; and none  *)
(* is left with its bricks barriered if unbarrier worked.                  *)
AllOrNothing ==
  \A t \in Txn : txn[t].phase = "end" =>
    \A n \in txn[t].with : <<t, n>> \notin lost =>
      /\ ~txn[t].failed => t \in done[n]
      /\ flow[t] = "snap" =>
           /\ txn[t].cleaned => t \notin done[n]
           /\ txn[t].unbarriered => <<n, t>> \notin barrier

(* Whatever happens, there comes a time when every transaction begun has   *)
(* had its response: also when two originators wait for each other's       *)
(* answers (gd_synctask_barrier_wait gives up big_lock).                   *)
EveryoneAnswered == []<>(\A t \in Txn : ~Running(t))
============================================================================
