------------------------------ MODULE AfrTxn ------------------------------
(***************************************************************************)
(* The write transaction of the replicate translator (cluster/afr): how a  *)
(* client writes to one file on ChildCount bricks.  A transaction locks    *)
(* the range on every brick it reaches, raises the dirty count there       *)
(* (pre-op), winds the write, records in the changelog which bricks missed *)
(* it and lowers the dirty count (post-op), and unlocks.                   *)
(*                                                                         *)
(* Each phase is one fan-out of calls: it starts when the previous one has *)
(* collected its last reply, and one step of the model takes it from the   *)
(* first wind to the last reply.  What the network and the bricks do to    *)
(* the calls is the step's nondeterminism (Outcome).  The file is one      *)
(* block and every write a value of its own, so a brick's data is the set  *)
(* of writes it has; two writers of the block conflict for their lock.     *)
(***************************************************************************)
EXTENDS AfrChangelog

CONSTANTS
    Client,       \* the mounts that write
    Shd,          \* the self-heal daemons
    Write,        \* the writes
    Writer,       \* Writer[w] is the client that issues w
    MaxFaults,    \* bound: faults of the network and the bricks
    Free          \* no lock owner

Proc == Client \cup Shd

ASSUME WriterAssumption == Writer \in [Write -> Client]
ASSUME ProcAssumption == Client \cap Shd = {} /\ Free \notin Proc
ASSUME MaxFaultsAssumption == MaxFaults \in Nat

VARIABLES
    data,            \* data[b]: the writes brick b has
    dirty, pending,  \* the changelog on the bricks
    lock,            \* lock[b]: who holds the file's data lock on b
    child_up,        \* child_up[p]: the bricks p is connected to
    faults,          \* faults so far
    pc,              \* the phase of the client's transaction
    cur,             \* the write it carries
    pre_op,          \* transaction.pre_op; local->child_up before the lock
    failed_subvols,  \* transaction.failed_subvols
    op_ret,          \* local->op_ret >= 0
    in_flight_sb,    \* transaction.in_flight_sb
    read_subvol,     \* the data map of the inode context
    fresh,           \* its event generation is the current one
    issued, acked    \* writes that have begun; writes unwound with success

disk == <<data, dirty, pending>>
net == <<lock, child_up, faults>>
txn == <<pc, cur, pre_op, failed_subvols, op_ret, in_flight_sb, read_subvol,
         fresh, issued, acked>>
vars == <<disk, net, txn>>

Phase == {"idle", "lock", "preop", "fop", "fsync", "postop", "unlock"}

(* One type invariant: the state of the transaction, the bricks and the    *)
(* connections (afr_local_t, afr_inode_ctx_t, the xattrs).                 *)
TxnTypeOK ==
    /\ data \in [Brick -> SUBSET Write]
    /\ dirty \in [Brick -> Int]
    /\ pending \in [Brick -> [Brick -> Int]]
    /\ lock \in [Brick -> Proc \cup {Free}]
    /\ child_up \in [Proc -> SUBSET Brick]
    /\ faults \in 0..MaxFaults
    /\ pc \in [Client -> Phase]
    /\ cur \in [Client -> Write \cup {Free}]
    /\ pre_op \in [Client -> SUBSET Brick]
    /\ failed_subvols \in [Client -> SUBSET Brick]
    /\ op_ret \in [Client -> BOOLEAN]
    /\ in_flight_sb \in [Client -> BOOLEAN]
    /\ read_subvol \in [Client -> SUBSET Brick]
    /\ fresh \in [Client -> BOOLEAN]
    /\ issued \subseteq Write /\ acked \subseteq issued

TxnInit ==
    /\ data = [b \in Brick |-> {}]
    /\ dirty = NoDirty /\ pending = NoPending
    /\ lock = [b \in Brick |-> Free]
    /\ child_up = [p \in Proc |-> Brick]
    /\ faults = 0
    /\ pc = [c \in Client |-> "idle"]
    /\ cur = [c \in Client |-> Free]
    /\ pre_op = [c \in Client |-> {}]
    /\ failed_subvols = [c \in Client |-> {}]
    /\ op_ret = [c \in Client |-> FALSE]
    /\ in_flight_sb = [c \in Client |-> FALSE]
    /\ read_subvol = [c \in Client |-> {}]
    /\ fresh = [c \in Client |-> FALSE]
    /\ issued = {} /\ acked = {}

----------------------------------------------------------------------------
(* The faults in a fan-out: one event breaks any number of connections,    *)
(* another makes bricks refuse.                                            *)
Cost(f) ==
    Cardinality({kind \in {{"lost", "late"}, {"err"}} :
                    \E b \in DOMAIN f : f[b] \in kind})

(***************************************************************************)
(* What can become of the calls p winds to the bricks of T.  ack: served   *)
(* and answered; err: refused with an errno, the same on each of them, not *)
(* performed; lost: the connection broke, or was down, and the call comes  *)
(* back with ENOTCONN.  done: the bricks that performed it, some of the    *)
(* ones that broke off included.                                           *)
(***************************************************************************)
Outcome(p, T) ==
    LET up == T \cap child_up[p]
        fates == {f \in [up -> {"ack", "err", "lost", "late"}] :
                     faults + Cost(f) <= MaxFaults}
        on(f, fate) == {b \in up : f[b] = fate}
    IN  {[ack |-> on(f, "ack"), err |-> on(f, "err"),
          lost |-> (T \ up) \cup on(f, "lost") \cup on(f, "late"),
          done |-> on(f, "ack") \cup on(f, "late"),
          cost |-> Cost(f)] : f \in fates}

(* A connection that breaks takes the client's locks on the brick with it. *)
Break(p, bs) ==
    /\ child_up' = [child_up EXCEPT ![p] = @ \ bs]
    /\ lock' = [b \in Brick |->
                   IF b \in bs /\ lock[b] = p THEN Free ELSE lock[b]]

Suffer(p, o) == Break(p, o.lost) /\ faults' = faults + o.cost

(* afr_set_pending_dict and GF_XATTROP_ADD_ARRAY on the bricks bs.         *)
Xattrop_NoAccuse(bs, d, accuse) ==
    /\ dirty' = [b \in Brick |-> IF b \in bs THEN dirty[b] + d ELSE dirty[b]]
    /\ UNCHANGED pending
Xattrop(bs, d, accuse) ==
    /\ dirty' = [b \in Brick |-> IF b \in bs THEN dirty[b] + d ELSE dirty[b]]
    /\ pending' = [b \in Brick |-> [j \in Brick |->
          IF b \in bs /\ j \in accuse THEN pending[b][j] + 1
          ELSE pending[b][j]]]

(* Only the event generation of a client that loses or gains a brick moves. *)
Stale(p) == fresh' = [c \in Client |-> IF c = p THEN FALSE ELSE fresh[c]]

(* The application is answered.                                            *)
Unwind(c, ok) == acked' = IF ok THEN acked \cup {cur[c]} ELSE acked
Goto(c, phase) == pc' = [pc EXCEPT ![c] = phase]

----------------------------------------------------------------------------
(* afr_inode_get_readable and afr_inode_refresh: the bricks c may read; a  *)
(* cached map that is stale or empty is replaced.                          *)
Readable(c) ==
    IF fresh[c] /\ read_subvol[c] # {} THEN read_subvol[c]
    ELSE afr_replies_interpret(pending, child_up[c])

(***************************************************************************)
(* afr_transaction and afr_write_txn_refresh_done: with no brick up, or    *)
(* none that is readable, the write fails at once.                         *)
(***************************************************************************)
afr_transaction(c, w) ==
    /\ pc[c] = "idle"
    /\ Writer[w] = c /\ w \notin issued
    /\ issued' = issued \cup {w}
    /\ \/ /\ child_up[c] = {}
          /\ UNCHANGED <<pc, cur, pre_op, read_subvol, fresh>>
       \/ /\ child_up[c] # {}
          /\ read_subvol' = [read_subvol EXCEPT ![c] = Readable(c)]
          /\ fresh' = [fresh EXCEPT ![c] = TRUE]
          /\ \/ Readable(c) = {} /\ UNCHANGED <<pc, cur, pre_op>>
             \/ /\ Readable(c) # {}
                /\ Goto(c, "lock")
                /\ cur' = [cur EXCEPT ![c] = w]
                /\ pre_op' = [pre_op EXCEPT ![c] = child_up[c]]
    /\ UNCHANGED <<disk, net, failed_subvols, op_ret, in_flight_sb, acked>>

(***************************************************************************)
(* afr_lock up to the lock callback, and the first half of                 *)
(* afr_changelog_pre_op.  The lock is taken on the bricks that were up     *)
(* when the transaction began and still are; non-blocking calls followed   *)
(* by serial blocking ones end when each of those is free for c.           *)
(***************************************************************************)
afr_lock(c) ==
    LET locked == pre_op[c] \cap child_up[c]
    IN  /\ pc[c] = "lock"
        /\ \A b \in locked : lock[b] = Free
        /\ lock' = [b \in Brick |-> IF b \in locked THEN c ELSE lock[b]]
        /\ pre_op' = [pre_op EXCEPT ![c] = locked]
        /\ failed_subvols' = [failed_subvols EXCEPT ![c] = Brick \ locked]
        /\ op_ret' = [op_ret EXCEPT ![c] = FALSE]
        /\ in_flight_sb' = [in_flight_sb EXCEPT ![c] = FALSE]
        /\ Goto(c, IF locked = {} \/ (QuorumCount # 0
                                        /\ ~afr_has_quorum(locked))
                     THEN "unlock" ELSE "preop")
        /\ UNCHANGED <<disk, child_up, faults, cur, read_subvol, fresh,
                       issued, acked>>

(* The xattrop of afr_changelog_pre_op, and afr_changelog_cbk.             *)
afr_changelog_pre_op(c) ==
    /\ pc[c] = "preop"
    /\ \E o \in Outcome(c, pre_op[c]) :
          /\ Suffer(c, o)
          /\ Xattrop(o.done, 1, {})
          /\ failed_subvols' = [failed_subvols EXCEPT
                                  ![c] = @ \cup o.err \cup o.lost]
          /\ IF o.lost = {} THEN UNCHANGED fresh ELSE Stale(c)
    /\ Goto(c, "fop")
    /\ UNCHANGED <<data, cur, pre_op, op_ret, in_flight_sb, read_subvol,
                   issued, acked>>

(* afr_is_symmetric_error: no reply is a success or an ENOTCONN.           *)
afr_is_symmetric_error(o) == o.ack = {} /\ o.lost = {}

(* __afr_set_in_flight_sb_status: the one good brick is among the failed.  *)
InFlightSplitBrain(write_subvol, failed) ==
    Cardinality(write_subvol) = 1 /\ write_subvol \subseteq failed

(* afr_txn_nothing_failed looks only at bricks that took part.             *)
afr_txn_nothing_failed(c, failed) == pre_op[c] \cap failed = {}

(***************************************************************************)
(* afr_transaction_perform_fop, __afr_txn_write_fop, afr_writev_wind_cbk   *)
(* and afr_transaction_resume.  The application is answered here when no   *)
(* brick that has done the pre-op has failed.  With nothing to wind to the *)
(* transaction resumes at once: afr_local_init's op_ret is -1, and no      *)
(* reply is valid.                                                         *)
(***************************************************************************)
afr_transaction_fop(c) ==
    LET T == pre_op[c] \ failed_subvols[c]
        write_subvol == read_subvol[c]
    IN  /\ pc[c] = "fop"
        /\ \E o \in Outcome(c, T) :
             LET failed == failed_subvols[c] \cup o.err \cup o.lost
                 checked == T # {} /\ ~afr_is_symmetric_error(o)
                 sb == checked /\ InFlightSplitBrain(write_subvol, failed)
                 map == IF checked /\ ~sb THEN write_subvol \ failed
                        ELSE write_subvol
             IN  /\ Suffer(c, o)
                 /\ data' = [b \in Brick |->
                       IF b \in o.done THEN data[b] \cup {cur[c]} ELSE data[b]]
                 /\ op_ret' = [op_ret EXCEPT ![c] = o.ack # {}]
                 /\ in_flight_sb' = [in_flight_sb EXCEPT ![c] = sb]
                 /\ read_subvol' = [read_subvol EXCEPT ![c] = map]
                 /\ fresh' = [fresh EXCEPT ![c] =
                                 @ /\ map = write_subvol /\ o.lost = {}]
                 /\ failed_subvols' = [failed_subvols EXCEPT
                       ![c] = IF afr_is_symmetric_error(o) THEN {} ELSE failed]
                 /\ Unwind(c, T # {} /\ afr_txn_nothing_failed(c, failed))
        /\ Goto(c, "fsync")
        /\ UNCHANGED <<dirty, pending, cur, pre_op, issued>>

(***************************************************************************)
(* afr_changelog_fsync: every write is unstable.  A brick that does not    *)
(* answer its fsync counts as one that failed the write.                   *)
(***************************************************************************)
afr_changelog_fsync(c) ==
    /\ pc[c] = "fsync"
    /\ \E o \in Outcome(c, pre_op[c]) :
          /\ Suffer(c, o)
          /\ o.done = o.ack
          /\ failed_subvols' = [failed_subvols EXCEPT
                                  ![c] = @ \cup o.err \cup o.lost]
          /\ IF o.lost = {} THEN UNCHANGED fresh ELSE Stale(c)
    /\ Goto(c, "postop")
    /\ UNCHANGED <<disk, cur, pre_op, op_ret, in_flight_sb, read_subvol,
                   issued, acked>>

(* afr_handle_quorum: a write that succeeded on too few bricks failed.     *)
QuorumLost_Never(c) == FALSE
QuorumLost(c) ==
    /\ QuorumCount # 0 /\ op_ret[c]
    /\ ~afr_has_quorum(pre_op[c] \ failed_subvols[c])

(***************************************************************************)
(* afr_changelog_post_op_now: a write that failed after it may have been   *)
(* performed leaves the dirty counts up; so does one that would make its   *)
(* only source stale.  Otherwise the bricks that took part accuse those    *)
(* that missed the write and lower their dirty count.                      *)
(***************************************************************************)
afr_changelog_post_op_now(c) ==
    LET failed == failed_subvols[c] \cup IF QuorumLost(c) THEN pre_op[c] ELSE {}
        ok == op_ret[c] /\ ~QuorumLost(c)
        nothing_failed == afr_txn_nothing_failed(c, failed)
    IN  /\ pc[c] = "postop"
        /\ failed_subvols' = [failed_subvols EXCEPT ![c] = failed]
        /\ \/ /\ (~ok /\ ~nothing_failed) \/ in_flight_sb[c]
              /\ op_ret' = [op_ret EXCEPT ![c] = FALSE]
              /\ UNCHANGED <<dirty, pending, net, fresh>>
           \/ /\ (ok \/ nothing_failed) /\ ~in_flight_sb[c]
              /\ op_ret' = [op_ret EXCEPT ![c] = ok]
              /\ \E o \in Outcome(c, pre_op[c] \ failed) :
                    /\ Suffer(c, o)
                    /\ Xattrop(o.done, -1, failed)
                    /\ IF o.lost = {} THEN UNCHANGED fresh ELSE Stale(c)
        /\ Goto(c, "unlock")
        /\ UNCHANGED <<data, cur, pre_op, in_flight_sb, read_subvol, issued,
                       acked>>

(* afr_unlock and transaction.done (__afr_txn_write_done).                 *)
afr_unlock(c) ==
    /\ pc[c] = "unlock"
    /\ lock' = [b \in Brick |-> IF lock[b] = c THEN Free ELSE lock[b]]
    /\ Unwind(c, op_ret[c])
    /\ Goto(c, "idle")
    /\ cur' = [cur EXCEPT ![c] = Free]
    /\ pre_op' = [pre_op EXCEPT ![c] = {}]
    /\ failed_subvols' = [failed_subvols EXCEPT ![c] = {}]
    /\ op_ret' = [op_ret EXCEPT ![c] = FALSE]
    /\ in_flight_sb' = [in_flight_sb EXCEPT ![c] = FALSE]
    /\ UNCHANGED <<disk, child_up, faults, read_subvol, fresh, issued>>
----------------------------------------------------------------------------
(***************************************************************************)
(* The environment.  afr_notify moves the event generation when a child    *)
(* goes down or comes up.                                                  *)
(***************************************************************************)
Disconnect(p, b) ==
    /\ faults < MaxFaults /\ faults' = faults + 1
    /\ b \in child_up[p]
    /\ Break(p, {b})
    /\ Stale(p)
    /\ UNCHANGED <<disk, pc, cur, pre_op, failed_subvols, op_ret,
                   in_flight_sb, read_subvol, issued, acked>>

Reconnect(p, b) ==
    /\ b \notin child_up[p]
    /\ child_up' = [child_up EXCEPT ![p] = @ \cup {b}]
    /\ Stale(p)
    /\ UNCHANGED <<disk, lock, faults, pc, cur, pre_op, failed_subvols, op_ret,
                   in_flight_sb, read_subvol, issued, acked>>

(* A brick process restarts: every connection to it breaks, its locks are  *)
(* gone, its disk stays.                                                   *)
BrickRestart(b) ==
    /\ faults < MaxFaults /\ faults' = faults + 1
    /\ \E p \in Proc : b \in child_up[p]
    /\ child_up' = [p \in Proc |-> child_up[p] \ {b}]
    /\ lock' = [lock EXCEPT ![b] = Free]
    /\ fresh' = [c \in Client |-> fresh[c] /\ b \notin child_up[c]]
    /\ UNCHANGED <<disk, pc, cur, pre_op, failed_subvols, op_ret,
                   in_flight_sb, read_subvol, issued, acked>>

(* A client dies in any phase: its locks go with its connections, what it  *)
(* has done to the bricks stays.  Its next mount has an empty inode table. *)
Crash(c) ==
    /\ faults < MaxFaults /\ faults' = faults + 1
    /\ pc[c] # "idle"
    /\ lock' = [b \in Brick |-> IF lock[b] = c THEN Free ELSE lock[b]]
    /\ child_up' = [child_up EXCEPT ![c] = Brick]
    /\ Goto(c, "idle")
    /\ cur' = [cur EXCEPT ![c] = Free]
    /\ pre_op' = [pre_op EXCEPT ![c] = {}]
    /\ failed_subvols' = [failed_subvols EXCEPT ![c] = {}]
    /\ op_ret' = [op_ret EXCEPT ![c] = FALSE]
    /\ in_flight_sb' = [in_flight_sb EXCEPT ![c] = FALSE]
    /\ read_subvol' = [read_subvol EXCEPT ![c] = {}]
    /\ fresh' = [fresh EXCEPT ![c] = FALSE]
    /\ UNCHANGED <<disk, issued, acked>>
=============================================================================
