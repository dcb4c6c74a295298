---------------------------- MODULE AfrReplica ----------------------------
(***************************************************************************)
(* A replicated file: the writing clients of AfrTxn together with the data *)
(* self-heal (afr-self-heal-data.c) of a self-heal daemon.  The daemon     *)
(* locks the file to read the changelog and choose a source, unlocks,      *)
(* copies the file block by block under range locks, and locks the file    *)
(* again to take back what it read from the changelog: writers run between *)
(* its steps.  The self-heal domain lock that keeps two heals of one file  *)
(* apart is held throughout.                                               *)
(***************************************************************************)
EXTENDS AfrTxn

VARIABLES
    hpc,           \* the phase of the daemon's heal
    source,        \* the brick it copies from
    sinks,         \* afr_selfheal_find_direction's sinks[]
    healed_sinks,  \* the bricks copied to without a failure so far
    input_dirty, input_matrix  \* the changelog it read (locked_replies)

heal == <<hpc, source, sinks, healed_sinks, input_dirty, input_matrix>>
allVars == <<vars, heal>>

HealPhase == {"idle", "data", "undo"}

(* One type invariant: AfrTxn's and the locals of __afr_selfheal_data.     *)
TypeOK ==
    /\ TxnTypeOK
    /\ hpc \in [Shd -> HealPhase]
    /\ source \in [Shd -> Brick]
    /\ sinks \in [Shd -> SUBSET Brick]
    /\ healed_sinks \in [Shd -> SUBSET Brick]
    /\ input_dirty \in [Shd -> [Brick -> Int]]
    /\ input_matrix \in [Shd -> [Brick -> [Brick -> Int]]]

HealInit ==
    /\ hpc = [s \in Shd |-> "idle"]
    /\ source = [s \in Shd |-> 1]
    /\ sinks = [s \in Shd |-> {}]
    /\ healed_sinks = [s \in Shd |-> {}]
    /\ input_dirty = [s \in Shd |-> NoDirty]
    /\ input_matrix = [s \in Shd |-> NoPending]

Init == TxnInit /\ HealInit

(* afr_selfheal_inodelk over locked_on, held for the length of a step: no  *)
(* lock is held by another there.                                          *)
Lockable(locked_on) == \A b \in locked_on : lock[b] = Free

HealReset(s) ==
    /\ hpc' = [hpc EXCEPT ![s] = "idle"]
    /\ source' = [source EXCEPT ![s] = 1]
    /\ sinks' = [sinks EXCEPT ![s] = {}]
    /\ healed_sinks' = [healed_sinks EXCEPT ![s] = {}]
    /\ input_dirty' = [input_dirty EXCEPT ![s] = NoDirty]
    /\ input_matrix' = [input_matrix EXCEPT ![s] = NoPending]

AFR_SH_MIN_PARTICIPANTS == 2

(***************************************************************************)
(* __afr_selfheal_data up to the first unlock: __afr_selfheal_data_prepare *)
(* on the locked bricks, then __afr_selfheal_truncate_sinks, which drops a *)
(* sink that fails it.  A file that needs no heal, or is in split-brain,   *)
(* is left alone.                                                          *)
(***************************************************************************)
__afr_selfheal_data_prepare(s) ==
    LET locked_on == child_up[s]
        m == afr_selfheal_extract_matrix(pending, locked_on)
        d == afr_selfheal_extract_dirty(dirty, locked_on)
    IN  /\ hpc[s] = "idle"
        /\ Cardinality(locked_on) >= AFR_SH_MIN_PARTICIPANTS
        /\ Lockable(locked_on)
        /\ \E sources \in FinalSources(m, d, locked_on) :
             LET active == afr_mark_active_sinks(sources, locked_on)
             IN  /\ active # {}
                 /\ source' \in {[source EXCEPT ![s] = b] : b \in sources}
                 /\ \E o \in Outcome(s, active) :
                       /\ o.done = o.ack
                       /\ Suffer(s, o)
                       /\ healed_sinks' = [healed_sinks EXCEPT ![s] = o.ack]
        /\ sinks' = [sinks EXCEPT ![s] = Sinks(m, locked_on)]
        /\ input_dirty' = [input_dirty EXCEPT ![s] = d]
        /\ input_matrix' = [input_matrix EXCEPT ![s] = m]
        /\ hpc' = [hpc EXCEPT ![s] = "data"]
        /\ UNCHANGED <<disk, txn>>

(***************************************************************************)
(* afr_selfheal_data_do on a file of one block: afr_selfheal_data_block,   *)
(* __afr_selfheal_data_read_write and afr_selfheal_data_fsync.  The heal   *)
(* is given up when too few locks are taken, no sink is left, the source   *)
(* cannot be read, or the write to the last of the sinks fails (the loop   *)
(* returns that one's result); not when only the fsync of the last fails.  *)
(***************************************************************************)
afr_selfheal_data_do(s) ==
    LET locked_on == child_up[s]
        healed == healed_sinks[s]
        abort == \/ healed = {} \/ source[s] \notin locked_on
                 \/ Cardinality(locked_on) < Cardinality(healed)
    IN  /\ hpc[s] = "data"
        /\ Lockable(locked_on)
        /\ \/ abort /\ HealReset(s) /\ UNCHANGED <<data, net>>
           \/ /\ ~abort
              /\ \E o \in Outcome(s, healed) :
                   /\ Suffer(s, o)
                   /\ data' = [b \in Brick |->
                         IF b \in o.done THEN data[source[s]] ELSE data[b]]
                   /\ \/ Max(healed) \notin o.ack /\ HealReset(s)
                      \/ /\ Max(healed) \in o.done
                         /\ healed_sinks' = [healed_sinks EXCEPT ![s] = o.ack]
                         /\ hpc' = [hpc EXCEPT ![s] = "undo"]
                         /\ UNCHANGED <<source, sinks, input_dirty,
                                        input_matrix>>
        /\ UNCHANGED <<dirty, pending, txn>>

(***************************************************************************)
(* The second locked section: afr_selfheal_undo_pending adds its output to *)
(* the changelog of the bricks it could lock, one after the other.         *)
(***************************************************************************)
afr_selfheal_undo_pending(s) ==
    LET locked_on == child_up[s]
        om == UndoMatrix(input_matrix[s], sinks[s], healed_sinks[s], locked_on)
        od == UndoDirty(input_dirty[s], sinks[s], healed_sinks[s])
    IN  /\ hpc[s] = "undo"
        /\ Lockable(locked_on)
        /\ IF Cardinality(locked_on) < AFR_SH_MIN_PARTICIPANTS
             THEN UNCHANGED <<dirty, pending, net>>
             ELSE \E o \in Outcome(s, locked_on) :
                    /\ Suffer(s, o)
                    /\ dirty' = [i \in Brick |->
                          IF i \in o.done THEN dirty[i] + od[i] ELSE dirty[i]]
                    /\ pending' = [i \in Brick |-> [j \in Brick |->
                          IF i \in o.done THEN pending[i][j] + om[i][j]
                          ELSE pending[i][j]]]
        /\ HealReset(s)
        /\ UNCHANGED <<data, txn>>

----------------------------------------------------------------------------
ClientStep(c) ==
    \/ \E w \in Write : afr_transaction(c, w)
    \/ afr_lock(c)
    \/ afr_changelog_pre_op(c)
    \/ afr_transaction_fop(c)
    \/ afr_changelog_fsync(c)
    \/ afr_changelog_post_op_now(c)
    \/ afr_unlock(c)

HealStep(s) ==
    \/ __afr_selfheal_data_prepare(s)
    \/ afr_selfheal_data_do(s)
    \/ afr_selfheal_undo_pending(s)

Environment ==
    \/ \E p \in Proc, b \in Brick : Disconnect(p, b) \/ Reconnect(p, b)
    \/ \E b \in Brick : BrickRestart(b)
    \/ \E c \in Client : Crash(c)

Next ==
    \/ (\E c \in Client : ClientStep(c)) /\ UNCHANGED heal
    \/ \E s \in Shd : HealStep(s)
    \/ Environment /\ UNCHANGED heal

Spec == Init /\ [][Next]_allVars

(***************************************************************************)
(* Fairness: a phase of a transaction or of a heal ends (its callbacks     *)
(* come back, with ENOTCONN if need be), the daemon's crawl comes back to  *)
(* a file that is in the index, and a broken connection is tried again     *)
(* every few seconds (rpc_clnt_reconnect).  Faults are not fair.           *)
(***************************************************************************)
Fairness ==
    /\ \A c \in Client : WF_allVars(ClientStep(c) /\ UNCHANGED heal)
    /\ \A s \in Shd : WF_allVars(HealStep(s))
    /\ \A p \in Proc, b \in Brick :
          WF_allVars(Reconnect(p, b) /\ UNCHANGED heal)

FairSpec == Spec /\ Fairness

----------------------------------------------------------------------------
(***************************************************************************)
(* What the properties need of the network and the bricks.  Each of these  *)
(* is an assumption about faults only.                                     *)
(***************************************************************************)

(* Client c goes from phase a to phase b of its transaction.               *)
Moves(c, a, b) == pc[c] = a /\ pc'[c] = b
Busy(c) == pc[c] # "idle" /\ pc'[c] # "idle"

(* A connection that breaks during a transaction stays down until its end. *)
NoReturn == \A c \in Client : Busy(c) => child_up'[c] \subseteq child_up[c]

(* Bricks refuse a write only when no brick has failed its pre-op.         *)
NoRefusal == \A c \in Client :
    ~(/\ Moves(c, "fop", "fsync")
      /\ failed_subvols[c] \cap pre_op[c] # {} /\ failed_subvols'[c] = {})

(* What is answered is recorded: a write that has been acknowledged keeps  *)
(* a quorum through its fsync, a client that has answered for a write some *)
(* brick missed lives to wind the post-op, and the post-op reaches the     *)
(* bricks it is wound to.                                                  *)
Recorded == \A c \in Client :
    /\ Moves(c, "fsync", "postop") /\ cur[c] \in acked =>
         afr_has_quorum(pre_op[c] \ failed_subvols'[c])
    /\ Moves(c, "postop", "unlock") =>
         faults' = faults /\ pre_op[c] \ failed_subvols'[c] \subseteq child_up[c]
    /\ cur[c] \in acked /\ failed_subvols[c] # {} /\ pc'[c] = "idle" =>
         pc[c] = "unlock"

(* The source of a heal misses no write while the heal runs.               *)
SourceStays == \A s \in Shd, c \in Client :
    hpc[s] = "data" => source[s] \notin failed_subvols'[c]

EnvOK == NoReturn /\ NoRefusal /\ Recorded /\ SourceStays
EnvSpec == Init /\ [][Next /\ EnvOK]_allVars

(* Connections break in the calls of a transaction and do not come back,   *)
(* and no client dies: the partition of afr_handle_quorum's comment.       *)
Partition ==
    /\ pc' = pc => child_up' = child_up
    /\ \A c \in Client : pc'[c] = "idle" => pc[c] \in {"idle", "unlock"}
PartitionSpec == Init /\ [][Next /\ Partition]_allVars

----------------------------------------------------------------------------
(* No transaction and no heal is under way.                                *)
Quiet == (\A c \in Client : pc[c] = "idle") /\ (\A s \in Shd : hpc[s] = "idle")
Clean == dirty = NoDirty /\ pending = NoPending

(* The changelog counts what it says it counts: whatever transactions      *)
(* (afr_changelog_post_op_now) and heals (afr_selfheal_undo_pending) take  *)
(* back was put there, so no count is negative.                            *)
CountsNonNegative ==
    /\ \A b \in Brick : dirty[b] >= 0
    /\ \A i, j \in Brick : pending[i][j] >= 0

(* Whichever brick afr_selfheal_find_direction and                         *)
(* __afr_selfheal_data_finalize_source could make the source of a heal of  *)
(* all bricks has every write the application was told is done.            *)
SourcesHaveAcked ==
    Quiet => \A src \in FinalSources(pending, dirty, Brick) :
                \A b \in src : acked \subseteq data[b]

(* An acknowledged write is never lost from every brick: afr_writev_unwind *)
(* has told the application, and no self-heal overwrites the last copy.    *)
AckedSurvives == \A w \in acked : \E b \in Brick : w \in data[b]

(* Bricks that the changelog says are in sync are: a brick that missed a   *)
(* write stays dirty or accused until it has been healed, and a sink that  *)
(* a heal has not healed (afr_selfheal_data_fsync,                         *)
(* __afr_selfheal_truncate_sinks, __afr_selfheal_data_read_write) stays    *)
(* marked.                                                                 *)
CleanIsEqual ==
    (Quiet /\ Clean) => \A i, j \in Brick : data[i] = data[j]

(* The file is never in split-brain: afr_handle_quorum keeps a client that *)
(* has lost its quorum from accusing the bricks it cannot see.             *)
NoSplitBrain == FinalSources(pending, dirty, Brick) # {}

(* Once faults stop, self-heal brings the changelog of every brick back to *)
(* zero, whatever state the faults left it in (afr_selfheal_undo_pending). *)
HealDrains == <>[]Clean
=============================================================================
