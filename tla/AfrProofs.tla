----------------------------- MODULE AfrProofs -----------------------------
(***************************************************************************)
(* The replicate translator (AfrReplica).  For any number of bricks,       *)
(* clients and writes: types, and the counts of the changelog.  For two    *)
(* bricks with automatic quorum: what the transactions of the clients do   *)
(* to acknowledged writes.                                                 *)
(***************************************************************************)
EXTENDS AfrReplica, TLAPS

(* Leaves are first-order reasoning unless they cite SMT.                  *)
USE Zenon

----------------------------------------------------------------------------
(* What a step of the network and the bricks may be                        *)

(* Of the calls that are wound, those on a live connection come back or    *)
(* break it, and a brick that performs one was connected.                  *)
LEMMA OutcomeIs ==
    ASSUME NEW p, NEW T, NEW o \in Outcome(p, T)
    PROVE  /\ o.ack \subseteq o.done /\ o.done \subseteq T \cap child_up[p]
           /\ o.err \subseteq T \cap child_up[p] /\ o.err \cap o.done = {}
           /\ o.lost = T \ (o.ack \cup o.err) /\ o.ack \cap o.err = {}
<1>. DEFINE up == T \cap child_up[p]
            on(f, fate) == {b \in up : f[b] = fate}
<1>1. PICK f \in [up -> {"ack", "err", "lost", "late"}] :
         o = [ack |-> on(f, "ack"), err |-> on(f, "err"),
              lost |-> (T \ up) \cup on(f, "lost") \cup on(f, "late"),
              done |-> on(f, "ack") \cup on(f, "late"),
              cost |-> Cost(f)]
    BY DEF Outcome
<1>2. /\ o.ack = on(f, "ack") /\ o.err = on(f, "err")
      /\ o.lost = (T \ up) \cup on(f, "lost") \cup on(f, "late")
      /\ o.done = on(f, "ack") \cup on(f, "late")
    BY <1>1
<1>3. \A b \in up : f[b] \in {"ack", "err", "lost", "late"}
    OBVIOUS
<1>. QED  BY <1>2, <1>3, SMT

Types ==
    /\ data \in [Brick -> SUBSET Write]
    /\ dirty \in [Brick -> Int] /\ pending \in [Brick -> [Brick -> Int]]
    /\ lock \in [Brick -> Proc \cup {Free}]
    /\ child_up \in [Proc -> SUBSET Brick]
    /\ pc \in [Client -> Phase] /\ cur \in [Client -> Write \cup {Free}]
    /\ pre_op \in [Client -> SUBSET Brick]
    /\ failed_subvols \in [Client -> SUBSET Brick]
    /\ op_ret \in [Client -> BOOLEAN] /\ in_flight_sb \in [Client -> BOOLEAN]
    /\ read_subvol \in [Client -> SUBSET Brick] /\ fresh \in [Client -> BOOLEAN]
    /\ issued \subseteq Write /\ acked \subseteq issued
    /\ hpc \in [Shd -> HealPhase] /\ source \in [Shd -> Brick]
    /\ sinks \in [Shd -> SUBSET Brick] /\ healed_sinks \in [Shd -> SUBSET Brick]
    /\ input_dirty \in [Shd -> [Brick -> Int]]
    /\ input_matrix \in [Shd -> [Brick -> [Brick -> Int]]]

(* A client in a transaction carries a write of its own.                   *)
CurOK(c) == pc[c] # "idle" => cur[c] \in issued /\ Writer[cur[c]] = c

TypeInv == Types /\ \A c \in Client : CurOK(c)

LEMMA Put ==
    ASSUME NEW S, NEW V, NEW f \in [S -> V], NEW x, NEW v \in V
    PROVE  [f EXCEPT ![x] = v] \in [S -> V]
OBVIOUS

LEMMA OneBrick == 1 \in Brick
BY ChildCountAssumption, SMT DEF Brick

LEMMA ClientTypes ==
    ASSUME Types, NEW c \in Client
    PROVE  /\ c \in Proc /\ child_up[c] \subseteq Brick
           /\ pre_op[c] \subseteq Brick /\ failed_subvols[c] \subseteq Brick
           /\ read_subvol[c] \subseteq Brick
BY DEF Types, Proc

LEMMA OutcomeTypes ==
    ASSUME NEW p, NEW T, T \subseteq Brick, NEW o \in Outcome(p, T)
    PROVE  /\ o.ack \subseteq Brick /\ o.err \subseteq Brick
           /\ o.lost \subseteq Brick /\ o.done \subseteq Brick
BY OutcomeIs, SMT

LEMMA InitTypeInv == Init => TypeInv
<1>. SUFFICES ASSUME Init PROVE TypeInv
    OBVIOUS
<1>1. NoDirty \in [Brick -> Int] /\ NoPending \in [Brick -> [Brick -> Int]]
    BY SMT DEF NoDirty, NoPending
<1>2. Types
    BY <1>1, OneBrick, SMT DEF Init, TxnInit, HealInit, Types, Phase, HealPhase
<1>3. \A c \in Client : CurOK(c)
    BY DEF Init, TxnInit, CurOK
<1>. QED  BY <1>2, <1>3 DEF TypeInv

(* A fan-out of calls breaks connections of its process alone.             *)
LEMMA BreakIs ==
    ASSUME Types, NEW p \in Proc, NEW bs, Break(p, bs)
    PROVE  /\ lock' \in [Brick -> Proc \cup {Free}]
           /\ child_up' \in [Proc -> SUBSET Brick]
           /\ \A q \in Proc : child_up'[q] = IF q = p THEN child_up[q] \ bs
                                                      ELSE child_up[q]
           /\ \A b \in Brick : lock'[b] = IF b \in bs /\ lock[b] = p THEN Free
                                                              ELSE lock[b]
<1>1. /\ lock \in [Brick -> Proc \cup {Free}]
      /\ child_up \in [Proc -> SUBSET Brick]
    BY DEF Types
<1>2. /\ child_up' = [child_up EXCEPT ![p] = @ \ bs]
      /\ lock' = [b \in Brick |->
                     IF b \in bs /\ lock[b] = p THEN Free ELSE lock[b]]
    BY DEF Break
<1>3. lock' \in [Brick -> Proc \cup {Free}]
    BY <1>1, <1>2
<1>4. child_up' \in [Proc -> SUBSET Brick]
    BY <1>1, <1>2
<1>. QED  BY <1>1, <1>2, <1>3, <1>4

(* The types under each step                                               *)
LEMMA TransactionTypes ==
    ASSUME TypeInv, NEW c \in Client, NEW w \in Write, afr_transaction(c, w),
           UNCHANGED heal
    PROVE  TypeInv'
<1>1. Readable(c) \in SUBSET Brick
    <2>1. child_up[c] \subseteq Brick /\ read_subvol[c] \subseteq Brick
        BY DEF TypeInv, Types, Proc
    <2>. QED  BY <2>1 DEF Readable, afr_replies_interpret
<1>2. /\ issued' = issued \cup {w} /\ Writer[w] = c
      /\ UNCHANGED <<disk, net, failed_subvols, op_ret, in_flight_sb, acked>>
      /\ \/ UNCHANGED <<read_subvol, fresh>>
         \/ /\ read_subvol' = [read_subvol EXCEPT ![c] = Readable(c)]
            /\ fresh' = [fresh EXCEPT ![c] = TRUE]
      /\ \/ UNCHANGED <<pc, cur, pre_op>>
         \/ /\ pc' = [pc EXCEPT ![c] = "lock"] /\ cur' = [cur EXCEPT ![c] = w]
            /\ pre_op' = [pre_op EXCEPT ![c] = child_up[c]]
    BY DEF afr_transaction, Goto
<1>3. Types'
    <2>0. /\ read_subvol \in [Client -> SUBSET Brick]
          /\ fresh \in [Client -> BOOLEAN] /\ pc \in [Client -> Phase]
          /\ cur \in [Client -> Write \cup {Free}]
          /\ pre_op \in [Client -> SUBSET Brick]
          /\ child_up[c] \in SUBSET Brick /\ "lock" \in Phase
        BY DEF TypeInv, Types, Phase, Proc
    <2>1. read_subvol' \in [Client -> SUBSET Brick]
        BY <1>1, <1>2, <2>0, Put, SMT
    <2>2. fresh' \in [Client -> BOOLEAN]
        <3>1. fresh' = fresh \/ fresh' = [fresh EXCEPT ![c] = TRUE]
            BY <1>2
        <3>. QED  BY <2>0, <3>1, Put
    <2>3. pc' \in [Client -> Phase]
        BY <1>2, <2>0, Put, SMT
    <2>4. cur' \in [Client -> Write \cup {Free}]
        BY <1>2, <2>0, Put, SMT
    <2>5. pre_op' \in [Client -> SUBSET Brick]
        BY <1>2, <2>0, Put, SMT
    <2>. QED  BY <1>2, <2>1, <2>2, <2>3, <2>4, <2>5
              DEF TypeInv, Types, heal, disk, net
<1>4. ASSUME NEW d \in Client PROVE CurOK(d)'
    <2>1. CASE UNCHANGED <<pc, cur, pre_op>>
        BY <1>2, <2>1 DEF TypeInv, CurOK
    <2>2. CASE /\ pc' = [pc EXCEPT ![c] = "lock"]
               /\ cur' = [cur EXCEPT ![c] = w]
        BY <1>2, <2>2 DEF TypeInv, Types, CurOK
    <2>. QED  BY <1>2, <2>1, <2>2
<1>. QED  BY <1>3, <1>4 DEF TypeInv

LEMMA LockTypes ==
    ASSUME TypeInv, NEW c \in Client, afr_lock(c) \/ afr_unlock(c),
           UNCHANGED heal
    PROVE  TypeInv'
<1>1. CASE afr_lock(c)
    <2>1. Types'
        BY <1>1, SMTT(20) DEF TypeInv, Types, afr_lock, Goto, Phase, heal, disk, Proc
    <2>2. \A d \in Client : CurOK(d)'
        BY <1>1, SMT DEF TypeInv, Types, CurOK, afr_lock, Goto
    <2>. QED  BY <2>1, <2>2 DEF TypeInv
<1>2. CASE afr_unlock(c)
    <2>1. acked' \subseteq issued
        BY <1>2 DEF TypeInv, Types, CurOK, afr_unlock, Unwind
    <2>2. Types'
        BY <1>2, <2>1, SMT DEF TypeInv, Types, afr_unlock, Goto, Phase, heal,
           disk, Proc
    <2>3. \A d \in Client : CurOK(d)'
        BY <1>2, SMT DEF TypeInv, Types, CurOK, afr_unlock, Goto
    <2>. QED  BY <2>2, <2>3 DEF TypeInv
<1>. QED  BY <1>1, <1>2

LEMMA FanoutTypes ==
    ASSUME TypeInv, NEW c \in Client, UNCHANGED heal,
           \/ afr_changelog_pre_op(c) \/ afr_changelog_fsync(c)
           \/ afr_changelog_post_op_now(c)
    PROVE  TypeInv'
<1>0. c \in Proc
    BY DEF Proc
<1>1. \A p \in Client : Stale(p) => fresh' \in [Client -> BOOLEAN]
    BY DEF Stale, TypeInv, Types
<1>2. ASSUME NEW bs, NEW d \in {1, -1}, NEW accuse, Xattrop(bs, d, accuse)
      PROVE  dirty' \in [Brick -> Int] /\ pending' \in [Brick -> [Brick -> Int]]
    BY <1>2, SMT DEF Xattrop, TypeInv, Types
<1>3. CASE afr_changelog_pre_op(c)
    <2>1. PICK o \in Outcome(c, pre_op[c]) :
             /\ Suffer(c, o) /\ Xattrop(o.done, 1, {})
             /\ failed_subvols' = [failed_subvols EXCEPT
                                      ![c] = @ \cup o.err \cup o.lost]
             /\ IF o.lost = {} THEN UNCHANGED fresh ELSE Stale(c)
        BY <1>3 DEF afr_changelog_pre_op
    <2>2. o.err \subseteq Brick /\ o.lost \subseteq Brick
        BY ClientTypes, OutcomeTypes DEF TypeInv
    <2>3. /\ lock' \in [Brick -> Proc \cup {Free}]
          /\ child_up' \in [Proc -> SUBSET Brick]
        BY <1>0, <2>1, BreakIs DEF Suffer, TypeInv
    <2>4. dirty' \in [Brick -> Int] /\ pending' \in [Brick -> [Brick -> Int]]
        BY <1>2, <2>1
    <2>5. fresh' \in [Client -> BOOLEAN]
        BY <1>1, <2>1 DEF TypeInv, Types
    <2>6. failed_subvols' \in [Client -> SUBSET Brick]
        <3>1. failed_subvols \in [Client -> SUBSET Brick]
            BY DEF TypeInv, Types
        <3>2. failed_subvols[c] \cup o.err \cup o.lost \in SUBSET Brick
            BY <2>2, <3>1
        <3>. QED  BY <2>1, <3>1, <3>2, Put
    <2>7. pc' \in [Client -> Phase]
        BY <1>3 DEF TypeInv, Types, afr_changelog_pre_op, Goto, Phase
    <2>8. Types'
        BY <1>3, <2>3, <2>4, <2>5, <2>6, <2>7
        DEF TypeInv, Types, afr_changelog_pre_op, heal
    <2>9. \A d \in Client : CurOK(d)'
        BY <1>3 DEF TypeInv, Types, CurOK, afr_changelog_pre_op, Goto
    <2>. QED  BY <2>8, <2>9 DEF TypeInv
<1>4. CASE afr_changelog_fsync(c)
    <2>1. PICK o \in Outcome(c, pre_op[c]) :
             /\ Suffer(c, o)
             /\ failed_subvols' = [failed_subvols EXCEPT
                                      ![c] = @ \cup o.err \cup o.lost]
             /\ IF o.lost = {} THEN UNCHANGED fresh ELSE Stale(c)
        BY <1>4 DEF afr_changelog_fsync
    <2>2. o.err \subseteq Brick /\ o.lost \subseteq Brick
        BY ClientTypes, OutcomeTypes DEF TypeInv
    <2>3. /\ lock' \in [Brick -> Proc \cup {Free}]
          /\ child_up' \in [Proc -> SUBSET Brick]
        BY <1>0, <2>1, BreakIs DEF Suffer, TypeInv
    <2>5. fresh' \in [Client -> BOOLEAN]
        BY <1>1, <2>1 DEF TypeInv, Types
    <2>6. failed_subvols' \in [Client -> SUBSET Brick]
        <3>1. failed_subvols \in [Client -> SUBSET Brick]
            BY DEF TypeInv, Types
        <3>2. failed_subvols[c] \cup o.err \cup o.lost \in SUBSET Brick
            BY <2>2, <3>1
        <3>. QED  BY <2>1, <3>1, <3>2, Put
    <2>7. pc' \in [Client -> Phase]
        BY <1>4 DEF TypeInv, Types, afr_changelog_fsync, Goto, Phase
    <2>8. Types'
        BY <1>4, <2>3, <2>5, <2>6, <2>7
        DEF TypeInv, Types, afr_changelog_fsync, heal, disk
    <2>9. \A d \in Client : CurOK(d)'
        BY <1>4 DEF TypeInv, Types, CurOK, afr_changelog_fsync, Goto
    <2>. QED  BY <2>8, <2>9 DEF TypeInv
<1>5. CASE afr_changelog_post_op_now(c)
    <2>. DEFINE failed == failed_subvols[c]
                          \cup IF QuorumLost(c) THEN pre_op[c] ELSE {}
    <2>1. \/ UNCHANGED <<dirty, pending, net, fresh>>
          \/ \E o \in Outcome(c, pre_op[c] \ failed) :
                /\ Suffer(c, o) /\ Xattrop(o.done, -1, failed)
                /\ IF o.lost = {} THEN UNCHANGED fresh ELSE Stale(c)
        BY <1>5 DEF afr_changelog_post_op_now
    <2>2. failed \subseteq Brick
        BY DEF TypeInv, Types
    <2>3. \E v \in BOOLEAN : op_ret' = [op_ret EXCEPT ![c] = v]
        <3>1. (op_ret[c] /\ ~QuorumLost(c)) \in BOOLEAN
            OBVIOUS
        <3>. QED  BY <1>5, <3>1 DEF afr_changelog_post_op_now
    <2>4. /\ lock' \in [Brick -> Proc \cup {Free}]
          /\ child_up' \in [Proc -> SUBSET Brick]
        BY <1>0, <2>1, BreakIs DEF Suffer, TypeInv, Types, net
    <2>5. dirty' \in [Brick -> Int] /\ pending' \in [Brick -> [Brick -> Int]]
        BY <1>2, <2>1 DEF TypeInv, Types
    <2>6. fresh' \in [Client -> BOOLEAN]
        BY <1>1, <2>1 DEF TypeInv, Types
    <2>7. failed_subvols' \in [Client -> SUBSET Brick]
        BY <1>5, <2>2 DEF TypeInv, Types, afr_changelog_post_op_now
    <2>8. op_ret' \in [Client -> BOOLEAN]
        BY <2>3 DEF TypeInv, Types
    <2>9. pc' \in [Client -> Phase]
        BY <1>5 DEF TypeInv, Types, afr_changelog_post_op_now, Goto, Phase
    <2>10. Types'
        BY <1>5, <2>4, <2>5, <2>6, <2>7, <2>8, <2>9
        DEF TypeInv, Types, afr_changelog_post_op_now, heal
    <2>11. \A d \in Client : CurOK(d)'
        BY <1>5 DEF TypeInv, Types, CurOK, afr_changelog_post_op_now, Goto
    <2>. QED  BY <2>10, <2>11 DEF TypeInv
<1>. QED  BY <1>3, <1>4, <1>5

(* What becomes of the map of readable bricks                              *)
Checked(c, o) ==
    pre_op[c] \ failed_subvols[c] # {} /\ ~afr_is_symmetric_error(o)
SplitInFlight(c, o) ==
    Checked(c, o) /\ InFlightSplitBrain(read_subvol[c],
                        failed_subvols[c] \cup o.err \cup o.lost)
FopMap(c, o) ==
    IF Checked(c, o) /\ ~SplitInFlight(c, o)
      THEN read_subvol[c] \ (failed_subvols[c] \cup o.err \cup o.lost)
      ELSE read_subvol[c]

FopStep(c, o) ==
    /\ Suffer(c, o)
    /\ data' = [b \in Brick |->
          IF b \in o.done THEN data[b] \cup {cur[c]} ELSE data[b]]
    /\ op_ret' = [op_ret EXCEPT ![c] = o.ack # {}]
    /\ in_flight_sb' = [in_flight_sb EXCEPT ![c] = SplitInFlight(c, o)]
    /\ read_subvol' = [read_subvol EXCEPT ![c] = FopMap(c, o)]
    /\ fresh' = [fresh EXCEPT ![c] =
          fresh[c] /\ FopMap(c, o) = read_subvol[c] /\ o.lost = {}]
    /\ failed_subvols' = [failed_subvols EXCEPT
          ![c] = IF afr_is_symmetric_error(o) THEN {}
                 ELSE failed_subvols[c] \cup o.err \cup o.lost]
    /\ acked' = IF /\ pre_op[c] \ failed_subvols[c] # {}
                   /\ pre_op[c] \cap (failed_subvols[c] \cup o.err \cup o.lost)
                        = {}
                  THEN acked \cup {cur[c]} ELSE acked

LEMMA FopIs ==
    ASSUME NEW c \in Client, afr_transaction_fop(c)
    PROVE  \E o \in Outcome(c, pre_op[c] \ failed_subvols[c]) : FopStep(c, o)
BY DEF afr_transaction_fop, Checked, SplitInFlight, FopMap, Unwind, FopStep,
   afr_txn_nothing_failed

LEMMA FopTypes ==
    ASSUME TypeInv, NEW c \in Client, UNCHANGED heal, afr_transaction_fop(c)
    PROVE  TypeInv'
<1>. DEFINE T == pre_op[c] \ failed_subvols[c]
<1>0. Types
    BY DEF TypeInv
<1>1. PICK o \in Outcome(c, T) : FopStep(c, o)
    BY FopIs
<1>2. T \subseteq Brick
    BY <1>0, ClientTypes
<1>3. cur[c] \in issued /\ cur[c] \in Write
    BY DEF afr_transaction_fop, TypeInv, CurOK, Types
<1>4. /\ lock' \in [Brick -> Proc \cup {Free}]
      /\ child_up' \in [Proc -> SUBSET Brick]
    BY <1>0, <1>1, ClientTypes, BreakIs DEF Suffer, FopStep
<1>5. data' \in [Brick -> SUBSET Write]
    <2>1. data \in [Brick -> SUBSET Write]
        BY DEF TypeInv, Types
    <2>. QED  BY <1>1, <1>3, <2>1 DEF FopStep
<1>6. /\ op_ret' \in [Client -> BOOLEAN]
      /\ in_flight_sb' \in [Client -> BOOLEAN] /\ fresh' \in [Client -> BOOLEAN]
    <2>1. /\ op_ret \in [Client -> BOOLEAN]
          /\ in_flight_sb \in [Client -> BOOLEAN] /\ fresh \in [Client -> BOOLEAN]
        BY DEF TypeInv, Types
    <2>2. /\ (o.ack # {}) \in BOOLEAN /\ SplitInFlight(c, o) \in BOOLEAN
          /\ (fresh[c] /\ FopMap(c, o) = read_subvol[c] /\ o.lost = {})
               \in BOOLEAN
        BY DEF SplitInFlight
    <2>. QED  BY <1>1, <2>1, <2>2, Put DEF FopStep
<1>7. read_subvol' \in [Client -> SUBSET Brick]
    <2>1. read_subvol \in [Client -> SUBSET Brick]
        BY DEF TypeInv, Types
    <2>2. FopMap(c, o) \in SUBSET Brick
        BY <2>1 DEF FopMap
    <2>. QED  BY <1>1, <2>1, <2>2, Put DEF FopStep
<1>8. failed_subvols' \in [Client -> SUBSET Brick]
    <2>1. failed_subvols \in [Client -> SUBSET Brick]
        BY DEF TypeInv, Types
    <2>2. o.err \subseteq Brick /\ o.lost \subseteq Brick
        BY <1>2, OutcomeTypes
    <2>3. (IF afr_is_symmetric_error(o) THEN {}
           ELSE failed_subvols[c] \cup o.err \cup o.lost) \in SUBSET Brick
        BY <2>1, <2>2
    <2>. QED  BY <1>1, <2>1, <2>3, Put DEF FopStep
<1>9. acked' \subseteq issued
    <2>1. acked \subseteq issued
        BY DEF TypeInv, Types
    <2>. QED  BY <1>1, <1>3, <2>1 DEF FopStep
<1>10. pc' \in [Client -> Phase]
    BY DEF TypeInv, Types, afr_transaction_fop, Goto, Phase
<1>11. Types'
    BY <1>4, <1>5, <1>6, <1>7, <1>8, <1>9, <1>10
    DEF TypeInv, Types, afr_transaction_fop, heal
<1>12. \A d \in Client : CurOK(d)'
    BY DEF TypeInv, Types, CurOK, afr_transaction_fop, Goto
<1>. QED  BY <1>11, <1>12 DEF TypeInv

LEMMA EnvironmentTypes ==
    ASSUME TypeInv, UNCHANGED heal, Environment
    PROVE  TypeInv'
<1>0. Types
    BY DEF TypeInv
<1>1. ASSUME NEW p \in Proc, NEW b \in Brick, Disconnect(p, b) \/ Reconnect(p, b)
      PROVE  TypeInv'
    <2>1. /\ lock' \in [Brick -> Proc \cup {Free}]
          /\ child_up' \in [Proc -> SUBSET Brick]
        <3>1. CASE Disconnect(p, b)
            BY <1>0, <3>1, BreakIs DEF Disconnect
        <3>2. CASE Reconnect(p, b)
            BY <3>2, SMT DEF Reconnect, TypeInv, Types
        <3>. QED  BY <1>1, <3>1, <3>2
    <2>2. fresh' \in [Client -> BOOLEAN]
        BY <1>1 DEF Disconnect, Reconnect, Stale, TypeInv, Types
    <2>3. Types'
        BY <1>1, <2>1, <2>2
        DEF Disconnect, Reconnect, TypeInv, Types, disk, heal
    <2>4. \A d \in Client : CurOK(d)'
        BY <1>1 DEF Disconnect, Reconnect, TypeInv, CurOK
    <2>. QED  BY <2>3, <2>4 DEF TypeInv
<1>2. ASSUME NEW b \in Brick, BrickRestart(b) PROVE TypeInv'
    <2>1. /\ lock' \in [Brick -> Proc \cup {Free}]
          /\ child_up' \in [Proc -> SUBSET Brick]
        BY <1>2, SMT DEF BrickRestart, TypeInv, Types
    <2>2. fresh' \in [Client -> BOOLEAN]
        BY <1>2 DEF BrickRestart
    <2>3. Types'
        BY <1>2, <2>1, <2>2 DEF BrickRestart, TypeInv, Types, disk, heal
    <2>4. \A d \in Client : CurOK(d)'
        BY <1>2 DEF BrickRestart, TypeInv, CurOK
    <2>. QED  BY <2>3, <2>4 DEF TypeInv
<1>3. ASSUME NEW c \in Client, Crash(c) PROVE TypeInv'
    <2>1. Types'
        BY <1>3, SMT DEF Crash, TypeInv, Types, Goto, Phase, disk, heal, Proc
    <2>2. \A d \in Client : CurOK(d)'
        BY <1>3, SMT DEF Crash, TypeInv, Types, CurOK, Goto
    <2>. QED  BY <2>1, <2>2 DEF TypeInv
<1>. QED  BY <1>1, <1>2, <1>3 DEF Environment

LEMMA NoCounts ==
    /\ NoDirty \in [Brick -> Int] /\ NoPending \in [Brick -> [Brick -> Int]]
    /\ \A i \in Brick : NoDirty[i] = 0 /\ \A j \in Brick : NoPending[i][j] = 0
BY SMT DEF NoDirty, NoPending

LEMMA ResetTypes ==
    ASSUME Types, NEW s \in Shd, HealReset(s)
    PROVE  /\ hpc' \in [Shd -> HealPhase] /\ source' \in [Shd -> Brick]
           /\ sinks' \in [Shd -> SUBSET Brick]
           /\ healed_sinks' \in [Shd -> SUBSET Brick]
           /\ input_dirty' \in [Shd -> [Brick -> Int]]
           /\ input_matrix' \in [Shd -> [Brick -> [Brick -> Int]]]
<1>1. /\ hpc \in [Shd -> HealPhase] /\ source \in [Shd -> Brick]
      /\ sinks \in [Shd -> SUBSET Brick] /\ healed_sinks \in [Shd -> SUBSET Brick]
      /\ input_dirty \in [Shd -> [Brick -> Int]]
      /\ input_matrix \in [Shd -> [Brick -> [Brick -> Int]]]
    BY DEF Types
<1>2. "idle" \in HealPhase /\ 1 \in Brick /\ {} \in SUBSET Brick
    BY OneBrick DEF HealPhase
<1>3. /\ hpc' = [hpc EXCEPT ![s] = "idle"] /\ source' = [source EXCEPT ![s] = 1]
      /\ sinks' = [sinks EXCEPT ![s] = {}]
      /\ healed_sinks' = [healed_sinks EXCEPT ![s] = {}]
      /\ input_dirty' = [input_dirty EXCEPT ![s] = NoDirty]
      /\ input_matrix' = [input_matrix EXCEPT ![s] = NoPending]
    BY DEF HealReset
<1>4. hpc' \in [Shd -> HealPhase] /\ source' \in [Shd -> Brick]
    BY <1>1, <1>2, <1>3, Put
<1>5. /\ sinks' \in [Shd -> SUBSET Brick]
      /\ healed_sinks' \in [Shd -> SUBSET Brick]
    BY <1>1, <1>2, <1>3, Put
<1>6. input_dirty' \in [Shd -> [Brick -> Int]]
    BY <1>1, <1>3, NoCounts, Put
<1>7. input_matrix' \in [Shd -> [Brick -> [Brick -> Int]]]
    BY <1>1, <1>3, NoCounts, Put
<1>. QED  BY <1>4, <1>5, <1>6, <1>7

(* What the replies say is a changelog; the sinks are bricks.              *)
LEMMA ExtractTypes ==
    ASSUME Types, NEW R
    PROVE  /\ afr_selfheal_extract_dirty(dirty, R) \in [Brick -> Int]
           /\ afr_selfheal_extract_matrix(pending, R)
                \in [Brick -> [Brick -> Int]]
<1>1. dirty \in [Brick -> Int] /\ pending \in [Brick -> [Brick -> Int]]
    BY DEF Types
<1>. QED  BY <1>1, SMT DEF afr_selfheal_extract_dirty,
          afr_selfheal_extract_matrix

LEMMA PrepareTypes ==
    ASSUME TypeInv, NEW s \in Shd, __afr_selfheal_data_prepare(s)
    PROVE  TypeInv'
<1>. DEFINE R == child_up[s]
            m == afr_selfheal_extract_matrix(pending, R)
            d == afr_selfheal_extract_dirty(dirty, R)
<1>0. Types /\ s \in Proc /\ R \subseteq Brick
    BY DEF TypeInv, Types, Proc
<1>1. PICK sources \in FinalSources(m, d, R) :
        /\ source' \in {[source EXCEPT ![s] = b] : b \in sources}
        /\ \E o \in Outcome(s, R \ sources) :
              /\ Suffer(s, o)
              /\ healed_sinks' = [healed_sinks EXCEPT ![s] = o.ack]
    BY DEF __afr_selfheal_data_prepare, afr_mark_active_sinks
<1>2. sources \subseteq Brick
    BY <1>0 DEF FinalSources, Sources
<1>3. PICK o \in Outcome(s, R \ sources) :
        Suffer(s, o) /\ healed_sinks' = [healed_sinks EXCEPT ![s] = o.ack]
    BY <1>1
<1>4. /\ lock' \in [Brick -> Proc \cup {Free}]
      /\ child_up' \in [Proc -> SUBSET Brick]
    BY <1>0, <1>3, BreakIs DEF Suffer
<1>5. healed_sinks' \in [Shd -> SUBSET Brick]
    <2>1. R \ sources \subseteq Brick
        BY <1>0
    <2>2. o.ack \in SUBSET Brick
        BY <2>1, OutcomeTypes
    <2>3. healed_sinks \in [Shd -> SUBSET Brick]
        BY DEF TypeInv, Types
    <2>. QED  BY <1>3, <2>2, <2>3, Put
<1>6. source' \in [Shd -> Brick]
    <2>1. source \in [Shd -> Brick]
        BY DEF TypeInv, Types
    <2>2. PICK b \in sources : source' = [source EXCEPT ![s] = b]
        BY <1>1
    <2>. QED  BY <1>2, <2>1, <2>2, Put
<1>7. sinks' \in [Shd -> SUBSET Brick]
    <2>1. sinks' = [sinks EXCEPT ![s] = Sinks(m, R)]
        BY DEF __afr_selfheal_data_prepare
    <2>2. Sinks(m, R) \in SUBSET Brick
        BY <1>0 DEF Sinks
    <2>3. sinks \in [Shd -> SUBSET Brick]
        BY DEF TypeInv, Types
    <2>. QED  BY <2>1, <2>2, <2>3, Put
<1>8. /\ input_dirty' \in [Shd -> [Brick -> Int]]
      /\ input_matrix' \in [Shd -> [Brick -> [Brick -> Int]]]
      /\ hpc' \in [Shd -> HealPhase]
    <2>1. /\ input_dirty' = [input_dirty EXCEPT ![s] = d]
          /\ input_matrix' = [input_matrix EXCEPT ![s] = m]
          /\ hpc' = [hpc EXCEPT ![s] = "data"] /\ "data" \in HealPhase
        BY DEF __afr_selfheal_data_prepare, HealPhase
    <2>2. /\ input_dirty \in [Shd -> [Brick -> Int]]
          /\ input_matrix \in [Shd -> [Brick -> [Brick -> Int]]]
          /\ hpc \in [Shd -> HealPhase]
        BY DEF TypeInv, Types
    <2>3. d \in [Brick -> Int] /\ m \in [Brick -> [Brick -> Int]]
        BY <1>0, ExtractTypes
    <2>. HIDE DEF d, m
    <2>. QED  BY <2>1, <2>2, <2>3, Put
<1>9. UNCHANGED <<disk, txn>>
    BY DEF __afr_selfheal_data_prepare
<1>10. Types'
    BY <1>4, <1>5, <1>6, <1>7, <1>8, <1>9 DEF TypeInv, Types, disk, txn
<1>11. \A c \in Client : CurOK(c)'
    BY <1>9 DEF TypeInv, CurOK, txn
<1>. QED  BY <1>10, <1>11 DEF TypeInv

LEMMA CopyTypes ==
    ASSUME TypeInv, NEW s \in Shd, afr_selfheal_data_do(s)
    PROVE  TypeInv'
<1>0. Types /\ s \in Proc /\ healed_sinks[s] \subseteq Brick
    BY DEF TypeInv, Types, Proc
<1>1. UNCHANGED <<dirty, pending, txn>>
    BY DEF afr_selfheal_data_do
<1>2. ASSUME HealReset(s), UNCHANGED <<data, net>> PROVE TypeInv'
    <2>1. Types'
        BY <1>0, <1>1, <1>2, ResetTypes DEF Types, net, txn
    <2>2. \A c \in Client : CurOK(c)'
        BY <1>1 DEF TypeInv, CurOK, txn
    <2>. QED  BY <2>1, <2>2 DEF TypeInv
<1>3. ASSUME NEW o \in Outcome(s, healed_sinks[s]), Suffer(s, o),
             data' = [b \in Brick |->
                IF b \in o.done THEN data[source[s]] ELSE data[b]],
             \/ HealReset(s)
             \/ /\ healed_sinks' = [healed_sinks EXCEPT ![s] = o.ack]
                /\ hpc' = [hpc EXCEPT ![s] = "undo"]
                /\ UNCHANGED <<source, sinks, input_dirty, input_matrix>>
      PROVE  TypeInv'
    <2>1. /\ lock' \in [Brick -> Proc \cup {Free}]
          /\ child_up' \in [Proc -> SUBSET Brick]
        BY <1>0, <1>3, BreakIs DEF Suffer
    <2>2. data' \in [Brick -> SUBSET Write]
        <3>1. data \in [Brick -> SUBSET Write] /\ source[s] \in Brick
            BY <1>0 DEF Types
        <3>. QED  BY <1>3, <3>1
    <2>3. /\ hpc' \in [Shd -> HealPhase] /\ source' \in [Shd -> Brick]
          /\ sinks' \in [Shd -> SUBSET Brick]
          /\ healed_sinks' \in [Shd -> SUBSET Brick]
          /\ input_dirty' \in [Shd -> [Brick -> Int]]
          /\ input_matrix' \in [Shd -> [Brick -> [Brick -> Int]]]
        <3>1. CASE HealReset(s)
            BY <1>0, <3>1, ResetTypes
        <3>2. CASE /\ healed_sinks' = [healed_sinks EXCEPT ![s] = o.ack]
                   /\ hpc' = [hpc EXCEPT ![s] = "undo"]
                   /\ UNCHANGED <<source, sinks, input_dirty, input_matrix>>
            <4>1. o.ack \in SUBSET Brick /\ "undo" \in HealPhase
                BY <1>0, OutcomeTypes DEF HealPhase
            <4>2. /\ healed_sinks \in [Shd -> SUBSET Brick]
                  /\ hpc \in [Shd -> HealPhase]
                BY <1>0 DEF Types
            <4>3. /\ healed_sinks' \in [Shd -> SUBSET Brick]
                  /\ hpc' \in [Shd -> HealPhase]
                BY <3>2, <4>1, <4>2, Put
            <4>. QED  BY <1>0, <3>2, <4>3 DEF Types
        <3>. QED  BY <1>3, <3>1, <3>2
    <2>4. Types'
        BY <1>0, <1>1, <2>1, <2>2, <2>3 DEF Types, txn
    <2>5. \A c \in Client : CurOK(c)'
        BY <1>1 DEF TypeInv, CurOK, txn
    <2>. QED  BY <2>4, <2>5 DEF TypeInv
<1>. QED  BY <1>2, <1>3 DEF afr_selfheal_data_do

(* What a finished heal adds to the counts of the bricks it reaches        *)
LEMMA UndoIs ==
    ASSUME Types, NEW s \in Shd, afr_selfheal_undo_pending(s)
    PROVE  \E done \in SUBSET child_up[s] :
             /\ \A i \in Brick : dirty'[i] =
                  IF i \in done /\ i \notin sinks[s] \ healed_sinks[s]
                    THEN dirty[i] - input_dirty[s][i] ELSE dirty[i]
             /\ \A i, j \in Brick : pending'[i][j] =
                  IF i \notin done THEN pending[i][j]
                  ELSE IF j \in sinks[s] \ healed_sinks[s]
                    THEN pending[i][j] + 1
                  ELSE IF j \in child_up[s]
                    THEN pending[i][j] - input_matrix[s][i][j]
                  ELSE pending[i][j]
             /\ dirty' \in [Brick -> Int] /\ pending' \in [Brick -> [Brick -> Int]]
             /\ UNCHANGED net \/ \E o \in Outcome(s, child_up[s]) : Suffer(s, o)
<1>. DEFINE om == UndoMatrix(input_matrix[s], sinks[s], healed_sinks[s],
                             child_up[s])
            od == UndoDirty(input_dirty[s], sinks[s], healed_sinks[s])
<1>1. /\ dirty \in [Brick -> Int] /\ pending \in [Brick -> [Brick -> Int]]
      /\ input_dirty[s] \in [Brick -> Int]
      /\ input_matrix[s] \in [Brick -> [Brick -> Int]]
    BY DEF Types
<1>2. CASE UNCHANGED <<dirty, pending, net>>
    <2>1. {} \in SUBSET child_up[s]
        OBVIOUS
    <2>. QED  BY <1>1, <1>2, <2>1
<1>3. ASSUME NEW o \in Outcome(s, child_up[s]), Suffer(s, o),
             dirty' = [i \in Brick |->
                 IF i \in o.done THEN dirty[i] + od[i] ELSE dirty[i]],
             pending' = [i \in Brick |-> [j \in Brick |->
                 IF i \in o.done THEN pending[i][j] + om[i][j]
                 ELSE pending[i][j]]]
      PROVE  \E done \in SUBSET child_up[s] :
               /\ \A i \in Brick : dirty'[i] =
                    IF i \in done /\ i \notin sinks[s] \ healed_sinks[s]
                      THEN dirty[i] - input_dirty[s][i] ELSE dirty[i]
               /\ \A i, j \in Brick : pending'[i][j] =
                    IF i \notin done THEN pending[i][j]
                    ELSE IF j \in sinks[s] \ healed_sinks[s]
                      THEN pending[i][j] + 1
                    ELSE IF j \in child_up[s]
                      THEN pending[i][j] - input_matrix[s][i][j]
                    ELSE pending[i][j]
               /\ dirty' \in [Brick -> Int]
               /\ pending' \in [Brick -> [Brick -> Int]]
    <2>1. o.done \in SUBSET child_up[s]
        BY OutcomeIs
    <2>2. \A i \in Brick : od[i] = IF i \in sinks[s] \ healed_sinks[s] THEN 0
                                   ELSE -input_dirty[s][i]
        BY DEF UndoDirty
    <2>3. \A i, j \in Brick : om[i][j] =
            IF j \in sinks[s] \ healed_sinks[s] THEN 1
            ELSE IF j \in child_up[s] THEN -input_matrix[s][i][j] ELSE 0
        BY DEF UndoMatrix
    <2>. HIDE DEF od, om
    <2>4. \A i \in Brick : dirty'[i] =
            IF i \in o.done /\ i \notin sinks[s] \ healed_sinks[s]
              THEN dirty[i] - input_dirty[s][i] ELSE dirty[i]
        BY <1>1, <1>3, <2>2, SMT
    <2>5. \A i, j \in Brick : pending'[i][j] =
            IF i \notin o.done THEN pending[i][j]
            ELSE IF j \in sinks[s] \ healed_sinks[s] THEN pending[i][j] + 1
            ELSE IF j \in child_up[s] THEN pending[i][j] - input_matrix[s][i][j]
            ELSE pending[i][j]
        BY <1>1, <1>3, <2>3, SMT
    <2>6. \A i \in Brick : od[i] \in Int /\ \A j \in Brick : om[i][j] \in Int
        BY <1>1, <2>2, <2>3, SMTT(20)
    <2>7. dirty' \in [Brick -> Int] /\ pending' \in [Brick -> [Brick -> Int]]
        BY <1>1, <1>3, <2>6, SMT
    <2>. QED  BY <2>1, <2>4, <2>5, <2>7
<1>4. \/ UNCHANGED <<dirty, pending, net>>
      \/ \E o \in Outcome(s, child_up[s]) :
            /\ Suffer(s, o)
            /\ dirty' = [i \in Brick |->
                  IF i \in o.done THEN dirty[i] + od[i] ELSE dirty[i]]
            /\ pending' = [i \in Brick |-> [j \in Brick |->
                  IF i \in o.done THEN pending[i][j] + om[i][j]
                  ELSE pending[i][j]]]
    BY DEF afr_selfheal_undo_pending
<1>. HIDE DEF od, om
<1>. QED  BY <1>2, <1>3, <1>4

(* What it takes from a count, at most, is what it has read.               *)
LEMMA UndoEach ==
    ASSUME Types, NEW s \in Shd, afr_selfheal_undo_pending(s),
           NEW i \in Brick, NEW j \in Brick
    PROVE  /\ dirty'[i] \in {dirty[i], dirty[i] - input_dirty[s][i]}
           /\ pending'[i][j] \in {pending[i][j], pending[i][j] + 1,
                                  pending[i][j] - input_matrix[s][i][j]}
           /\ j \notin sinks[s] => pending'[i][j] \in
                {pending[i][j], pending[i][j] - input_matrix[s][i][j]}
<1>1. PICK done \in SUBSET child_up[s] :
        /\ \A k \in Brick : dirty'[k] =
             IF k \in done /\ k \notin sinks[s] \ healed_sinks[s]
               THEN dirty[k] - input_dirty[s][k] ELSE dirty[k]
        /\ \A k, l \in Brick : pending'[k][l] =
             IF k \notin done THEN pending[k][l]
             ELSE IF l \in sinks[s] \ healed_sinks[s]
               THEN pending[k][l] + 1
             ELSE IF l \in child_up[s]
               THEN pending[k][l] - input_matrix[s][k][l]
             ELSE pending[k][l]
    BY UndoIs
<1>. QED  BY <1>1

LEMMA UndoTypes ==
    ASSUME TypeInv, NEW s \in Shd, afr_selfheal_undo_pending(s)
    PROVE  TypeInv'
<1>0. Types /\ s \in Proc
    BY DEF TypeInv, Proc
<1>1. /\ dirty' \in [Brick -> Int] /\ pending' \in [Brick -> [Brick -> Int]]
      /\ UNCHANGED net \/ \E o \in Outcome(s, child_up[s]) : Suffer(s, o)
    BY <1>0, UndoIs
<1>2. UNCHANGED <<data, txn>> /\ HealReset(s)
    BY DEF afr_selfheal_undo_pending
<1>3. /\ lock' \in [Brick -> Proc \cup {Free}]
      /\ child_up' \in [Proc -> SUBSET Brick]
    BY <1>0, <1>1, BreakIs DEF Suffer, net, Types
<1>4. Types'
    BY <1>0, <1>1, <1>2, <1>3, ResetTypes DEF Types, txn
<1>5. \A c \in Client : CurOK(c)'
    BY <1>2 DEF TypeInv, CurOK, txn
<1>. QED  BY <1>4, <1>5 DEF TypeInv

LEMMA NextTypeInv ==
    ASSUME TypeInv, [Next]_allVars
    PROVE  TypeInv'
<1>1. CASE (\E c \in Client : ClientStep(c)) /\ UNCHANGED heal
    BY <1>1, TransactionTypes, LockTypes, FanoutTypes, FopTypes DEF ClientStep
<1>2. CASE \E s \in Shd : HealStep(s)
    BY <1>2, PrepareTypes, CopyTypes, UndoTypes DEF HealStep
<1>3. CASE Environment /\ UNCHANGED heal
    BY <1>3, EnvironmentTypes
<1>4. CASE UNCHANGED allVars
    BY <1>4 DEF TypeInv, Types, CurOK, allVars, vars, disk, net, txn, heal
<1>. QED  BY <1>1, <1>2, <1>3, <1>4 DEF Next

----------------------------------------------------------------------------
(* What a step leaves alone                                                *)

(* The transaction of client d does not move.                              *)
SameTxn(d) ==
    /\ pc'[d] = pc[d] /\ cur'[d] = cur[d] /\ pre_op'[d] = pre_op[d]
    /\ failed_subvols'[d] = failed_subvols[d] /\ op_ret'[d] = op_ret[d]
    /\ in_flight_sb'[d] = in_flight_sb[d] /\ read_subvol'[d] = read_subvol[d]

(* It has no more connections, and the locks it had over those it has.     *)
Fewer(d) ==
    /\ child_up'[d] \subseteq child_up[d]
    /\ \A b \in Brick \cap child_up'[d] : lock[b] = d => lock'[b] = d

LEMMA BreakFewer ==
    ASSUME Types, NEW p \in Proc, NEW bs, Break(p, bs), NEW d \in Client
    PROVE  Fewer(d)
<1>1. d \in Proc
    BY DEF Proc
<1>2. child_up'[d] = IF d = p THEN child_up[d] \ bs ELSE child_up[d]
    BY <1>1, BreakIs
<1>3. \A b \in Brick : lock'[b] = IF b \in bs /\ lock[b] = p THEN Free
                                                           ELSE lock[b]
    BY BreakIs
<1>. QED  BY <1>2, <1>3 DEF Fewer

LEMMA OthersSame ==
    ASSUME Types, NEW c \in Client, ClientStep(c), NEW d \in Client, d # c
    PROVE  /\ SameTxn(d) /\ Fewer(d)
           /\ child_up'[d] = child_up[d] /\ fresh'[d] = fresh[d]
<1>0. c \in Proc /\ d \in Proc
    BY DEF Proc
<1>1. ASSUME NEW o, Suffer(c, o) PROVE Fewer(d) /\ child_up'[d] = child_up[d]
    BY <1>0, <1>1, BreakFewer, BreakIs DEF Suffer
<1>2. Stale(c) => fresh'[d] = fresh[d]
    BY DEF Stale
<1>3. ASSUME NEW w \in Write, afr_transaction(c, w)
      PROVE  /\ SameTxn(d) /\ Fewer(d)
             /\ child_up'[d] = child_up[d] /\ fresh'[d] = fresh[d]
    <2>1. UNCHANGED net
        BY <1>3 DEF afr_transaction
    <2>2. SameTxn(d) /\ fresh'[d] = fresh[d]
        BY <1>3 DEF afr_transaction, SameTxn, Goto, Types
    <2>. QED  BY <2>1, <2>2 DEF Fewer, net
<1>4. CASE afr_lock(c)
    <2>1. SameTxn(d) /\ fresh'[d] = fresh[d]
        BY <1>4 DEF afr_lock, SameTxn, Goto, Types
    <2>2. \A b \in Brick : lock[b] = d => lock'[b] = d
        BY <1>0, <1>4, ProcAssumption DEF afr_lock
    <2>. QED  BY <1>4, <2>1, <2>2 DEF afr_lock, Fewer
<1>5. CASE afr_changelog_pre_op(c)
    BY <1>1, <1>2, <1>5 DEF afr_changelog_pre_op, SameTxn, Goto, Types
<1>6. CASE afr_transaction_fop(c)
    <2>1. /\ pc' = [pc EXCEPT ![c] = "fsync"] /\ UNCHANGED <<cur, pre_op>>
        BY <1>6 DEF afr_transaction_fop, Goto
    <2>2. PICK o \in Outcome(c, pre_op[c] \ failed_subvols[c]) : FopStep(c, o)
        BY <1>6, FopIs
    <2>3. SameTxn(d) /\ fresh'[d] = fresh[d]
        BY <2>1, <2>2 DEF SameTxn, Types, FopStep
    <2>4. Suffer(c, o)
        BY <2>2 DEF FopStep
    <2>. QED  BY <1>1, <2>3, <2>4
<1>7. CASE afr_changelog_fsync(c)
    BY <1>1, <1>2, <1>7 DEF afr_changelog_fsync, SameTxn, Goto, Types
<1>8. CASE afr_changelog_post_op_now(c)
    <2>1. Fewer(d) /\ child_up'[d] = child_up[d]
        BY <1>1, <1>8 DEF afr_changelog_post_op_now, net, Fewer
    <2>2. SameTxn(d)
        BY <1>8 DEF afr_changelog_post_op_now, SameTxn, Goto, Types
    <2>3. fresh'[d] = fresh[d]
        BY <1>2, <1>8 DEF afr_changelog_post_op_now
    <2>. QED  BY <2>1, <2>2, <2>3
<1>9. CASE afr_unlock(c)
    <2>1. SameTxn(d) /\ fresh'[d] = fresh[d]
        BY <1>9 DEF afr_unlock, SameTxn, Goto, Types
    <2>. QED  BY <1>9, <2>1 DEF afr_unlock, Fewer
<1>. QED  BY <1>3, <1>4, <1>5, <1>6, <1>7, <1>8, <1>9 DEF ClientStep

(* A heal leaves the clients alone.                                        *)
LEMMA HealFrame ==
    ASSUME Types, NEW s \in Shd, HealStep(s), NEW d \in Client
    PROVE  /\ SameTxn(d) /\ Fewer(d) /\ UNCHANGED txn
           /\ child_up'[d] = child_up[d]
<1>0. s \in Proc /\ d \in Proc /\ s # d
    BY ProcAssumption DEF Proc
<1>1. ASSUME NEW o, Suffer(s, o) PROVE Fewer(d) /\ child_up'[d] = child_up[d]
    BY <1>0, <1>1, BreakFewer, BreakIs DEF Suffer
<1>2. UNCHANGED net => Fewer(d) /\ child_up'[d] = child_up[d]
    BY DEF net, Fewer
<1>3. UNCHANGED txn
    BY DEF HealStep, __afr_selfheal_data_prepare, afr_selfheal_data_do,
       afr_selfheal_undo_pending
<1>4. Fewer(d) /\ child_up'[d] = child_up[d]
    <2>1. CASE __afr_selfheal_data_prepare(s)
        BY <1>1, <2>1 DEF __afr_selfheal_data_prepare
    <2>2. CASE afr_selfheal_data_do(s)
        BY <1>1, <1>2, <2>2 DEF afr_selfheal_data_do
    <2>3. CASE afr_selfheal_undo_pending(s)
        BY <1>1, <1>2, <2>3, UndoIs
    <2>. QED  BY <2>1, <2>2, <2>3 DEF HealStep
<1>. QED  BY <1>3, <1>4 DEF SameTxn, txn

(* With NoReturn a fault only takes connections and locks from the client  *)
(* of a transaction, or ends it.                                           *)
LEMMA FaultFrame ==
    ASSUME Types, Environment, NoReturn, NEW d \in Client
    PROVE  \/ Crash(d)
           \/ /\ SameTxn(d)
              /\ pc[d] # "idle" => Fewer(d)
<1>0. d \in Proc
    BY DEF Proc
<1>1. ASSUME NEW p \in Proc, NEW b \in Brick, Disconnect(p, b)
      PROVE  SameTxn(d) /\ Fewer(d)
    BY <1>1, BreakFewer DEF Disconnect, SameTxn
<1>2. ASSUME NEW p \in Proc, NEW b \in Brick, Reconnect(p, b)
      PROVE  SameTxn(d) /\ (pc[d] # "idle" => Fewer(d))
    BY <1>2 DEF Reconnect, SameTxn, NoReturn, Busy, Fewer
<1>3. ASSUME NEW b \in Brick, BrickRestart(b) PROVE SameTxn(d) /\ Fewer(d)
    <2>1. child_up'[d] = child_up[d] \ {b} /\ lock' = [lock EXCEPT ![b] = Free]
        BY <1>0, <1>3 DEF BrickRestart
    <2>2. \A i \in Brick : i # b => lock'[i] = lock[i]
        <3>1. lock \in [Brick -> Proc \cup {Free}]
            BY DEF Types
        <3>. QED  BY <2>1, <3>1
    <2>. QED  BY <1>3, <2>1, <2>2 DEF BrickRestart, SameTxn, Fewer
<1>4. ASSUME NEW c \in Client, Crash(c), c # d PROVE SameTxn(d) /\ Fewer(d)
    <2>1. SameTxn(d)
        BY <1>4 DEF Crash, SameTxn, Goto, Types
    <2>2. child_up'[d] = child_up[d]
        BY <1>0, <1>4 DEF Crash, Types
    <2>. QED  BY <1>4, <2>1, <2>2 DEF Crash, Fewer
<1>. QED  BY <1>1, <1>2, <1>3, <1>4 DEF Environment

----------------------------------------------------------------------------
(* The counts of the changelog                                             *)

(* A client has the lock of the bricks of its transaction it still sees.   *)
Holds(c) ==
    pc[c] \in {"preop", "fop", "fsync", "postop", "unlock"} =>
      \A b \in pre_op[c] \cap child_up[c] : lock[b] = c

(* Client c has raised dirty on b and may lower it.                        *)
Owed(c, b) ==
    /\ pc[c] \in {"fop", "fsync", "postop"}
    /\ b \in pre_op[c] \ failed_subvols[c] /\ b \in child_up[c]

Owing(b) == IF \E c \in Client : Owed(c, b) THEN 1 ELSE 0

(* A count covers what a client and the heal will take from it.            *)
DirtyOK(b) ==
    /\ dirty[b] >= Owing(b)
    /\ \A s \in Shd : /\ input_dirty[s][b] >= 0
                      /\ dirty[b] >= input_dirty[s][b] + Owing(b)
PendingOK(i, j) ==
    /\ pending[i][j] >= 0
    /\ \A s \in Shd : /\ input_matrix[s][i][j] >= 0
                      /\ pending[i][j] >= input_matrix[s][i][j]

CountInv ==
    /\ TypeInv
    /\ \A c \in Client : Holds(c)
    /\ \A b \in Brick : DirtyOK(b)
    /\ \A i, j \in Brick : PendingOK(i, j)

(* The lock of the self-heal domain keeps the heals of a file apart.       *)
OneHealer == \A s, u \in Shd : s = u

LEMMA InitCountInv == Init => CountInv
<1>. SUFFICES ASSUME Init PROVE CountInv
    OBVIOUS
<1>1. TypeInv
    BY InitTypeInv
<1>2. \A c \in Client : Holds(c) /\ \A b \in Brick : ~Owed(c, b)
    BY DEF Init, TxnInit, Holds, Owed
<1>3. \A b \in Brick : Owing(b) = 0
    BY <1>2 DEF Owing
<1>4. /\ dirty = NoDirty /\ pending = NoPending
      /\ \A s \in Shd : input_dirty[s] = NoDirty /\ input_matrix[s] = NoPending
    BY DEF Init, TxnInit, HealInit
<1>5. \A b \in Brick : DirtyOK(b)
    BY <1>3, <1>4, NoCounts, SMT DEF DirtyOK
<1>6. \A i, j \in Brick : PendingOK(i, j)
    BY <1>4, NoCounts, SMT DEF PendingOK
<1>. QED  BY <1>1, <1>2, <1>5, <1>6 DEF CountInv

(* A client whose transaction stands still keeps its locks.                *)
LEMMA StillHolds ==
    ASSUME Types, NEW d \in Client, SameTxn(d), pc[d] # "idle" => Fewer(d),
           Holds(d)
    PROVE  Holds(d)' /\ \A b \in Brick : Owed(d, b)' => Owed(d, b)
<1>1. pre_op[d] \subseteq Brick
    BY ClientTypes
<1>2. CASE pc[d] = "idle"
    BY <1>2 DEF SameTxn, Holds, Owed
<1>3. CASE Fewer(d)
    BY <1>1, <1>3 DEF SameTxn, Fewer, Holds, Owed
<1>. QED  BY <1>2, <1>3

(* The client of a fan-out keeps the locks of the connections it keeps.    *)
LEMMA FanoutHolds ==
    ASSUME Types, NEW c \in Client, NEW T \in SUBSET Brick,
           NEW o \in Outcome(c, T), Suffer(c, o), pre_op'[c] = pre_op[c],
           pc[c] \in {"preop", "fop", "fsync", "postop"}, Holds(c)
    PROVE  Holds(c)' /\ child_up'[c] \subseteq child_up[c] \ o.lost
<1>1. c \in Proc /\ pre_op[c] \subseteq Brick
    BY ClientTypes
<1>2. Fewer(c)
    BY <1>1, BreakFewer DEF Suffer
<1>3. child_up'[c] = child_up[c] \ o.lost
    BY <1>1, BreakIs DEF Suffer
<1>. QED  BY <1>1, <1>2, <1>3 DEF Holds, Fewer

(* What a client does to the bricks in a fan-out, and what it then owes    *)
LEMMA ClientHolds ==
    ASSUME TypeInv, NEW c \in Client, Holds(c), NoReturn, NoRefusal,
           ClientStep(c)
    PROVE  /\ Holds(c)'
           /\ ~afr_changelog_pre_op(c) =>
                \A b \in Brick : Owed(c, b)' => Owed(c, b)
<1>0. /\ Types /\ c \in Proc /\ pc \in [Client -> Phase]
      /\ pre_op[c] \subseteq Brick /\ pre_op \in [Client -> SUBSET Brick]
      /\ failed_subvols \in [Client -> SUBSET Brick]
    BY ClientTypes DEF TypeInv, Types
<1>1. ASSUME NEW w \in Write, afr_transaction(c, w)
      PROVE  Holds(c)' /\ \A b \in Brick : Owed(c, b)' => Owed(c, b)
    <2>1. pc'[c] \in {"idle", "lock"}
        BY <1>0, <1>1 DEF afr_transaction, Goto
    <2>. QED  BY <2>1 DEF Holds, Owed
<1>2. CASE afr_lock(c)
    <2>1. pc'[c] \in {"preop", "unlock"}
        BY <1>0, <1>2 DEF afr_lock, Goto
    <2>2. /\ pre_op'[c] = pre_op[c] \cap child_up[c] /\ child_up' = child_up
          /\ \A b \in Brick : b \in pre_op[c] \cap child_up[c] => lock'[b] = c
        BY <1>0, <1>2 DEF afr_lock
    <2>. QED  BY <1>0, <2>1, <2>2 DEF Holds, Owed
<1>3. CASE afr_changelog_pre_op(c)
    <2>1. PICK o \in Outcome(c, pre_op[c]) : Suffer(c, o)
        BY <1>3 DEF afr_changelog_pre_op
    <2>2. pc[c] = "preop" /\ pre_op' = pre_op
        BY <1>3 DEF afr_changelog_pre_op
    <2>. QED  BY <1>0, <1>3, <2>1, <2>2, FanoutHolds
<1>4. CASE afr_transaction_fop(c)
    <2>1. PICK o \in Outcome(c, pre_op[c] \ failed_subvols[c]) : FopStep(c, o)
        BY <1>4, FopIs
    <2>2. /\ pc[c] = "fop" /\ pre_op' = pre_op /\ pc'[c] = "fsync"
        BY <1>0, <1>4 DEF afr_transaction_fop, Goto
    <2>3. Suffer(c, o) /\ pre_op[c] \ failed_subvols[c] \in SUBSET Brick
        BY <1>0, <2>1 DEF FopStep
    <2>4. Holds(c)' /\ child_up'[c] \subseteq child_up[c] \ o.lost
        BY <1>0, <2>2, <2>3, FanoutHolds
    <2>5. failed_subvols'[c] = IF afr_is_symmetric_error(o) THEN {}
            ELSE failed_subvols[c] \cup o.err \cup o.lost
        BY <1>0, <2>1 DEF FopStep
    <2>6. pre_op[c] \cap failed_subvols[c] = {} \/ failed_subvols'[c] # {}
        BY <2>2 DEF NoRefusal, Moves
    <2>7. \A b \in Brick : Owed(c, b)' => Owed(c, b)
        BY <2>2, <2>4, <2>5, <2>6 DEF Owed
    <2>. QED  BY <2>4, <2>7
<1>5. CASE afr_changelog_fsync(c)
    <2>1. PICK o \in Outcome(c, pre_op[c]) :
             /\ Suffer(c, o)
             /\ failed_subvols' = [failed_subvols EXCEPT
                                      ![c] = @ \cup o.err \cup o.lost]
        BY <1>5 DEF afr_changelog_fsync
    <2>2. pc[c] = "fsync" /\ pre_op' = pre_op
        BY <1>5 DEF afr_changelog_fsync
    <2>3. Holds(c)' /\ child_up'[c] \subseteq child_up[c] \ o.lost
        BY <1>0, <2>1, <2>2, FanoutHolds
    <2>4. failed_subvols'[c] = failed_subvols[c] \cup o.err \cup o.lost
        BY <1>0, <2>1
    <2>5. \A b \in Brick : Owed(c, b)' => Owed(c, b)
        BY <2>2, <2>3, <2>4 DEF Owed
    <2>. QED  BY <2>3, <2>5
<1>6. CASE afr_changelog_post_op_now(c)
    <2>1. pc[c] = "postop" /\ pre_op' = pre_op /\ pc'[c] = "unlock"
        BY <1>0, <1>6 DEF afr_changelog_post_op_now, Goto
    <2>2. \/ UNCHANGED net
          \/ \E T \in SUBSET Brick : \E o \in Outcome(c, T) : Suffer(c, o)
        BY <1>0, <1>6 DEF afr_changelog_post_op_now
    <2>3. Holds(c)'
        BY <1>0, <2>1, <2>2, FanoutHolds DEF Holds, net
    <2>. QED  BY <2>1, <2>3 DEF Owed
<1>7. CASE afr_unlock(c)
    <2>1. pc'[c] = "idle"
        BY <1>0, <1>7 DEF afr_unlock, Goto
    <2>. QED  BY <2>1 DEF Holds, Owed
<1>. QED  BY <1>1, <1>2, <1>3, <1>4, <1>5, <1>6, <1>7 DEF ClientStep

(* Who owes has the lock, so one client does at most.                      *)
LEMMA OwedLock ==
    ASSUME NEW c \in Client, NEW b \in Brick, Holds(c), Owed(c, b)
    PROVE  lock[b] = c
BY DEF Holds, Owed

(* What a brick's dirty count holds beyond what a client will take from it. *)
SlackUp(b) == dirty'[b] - Owing(b)' >= dirty[b] - Owing(b)

LEMMA OwingIs ==
    ASSUME NEW b, \A d \in Client : Owed(d, b)' => Owed(d, b)
    PROVE  /\ Owing(b) \in {0, 1} /\ Owing(b)' \in {0, 1}
           /\ Owing(b)' = 1 => Owing(b) = 1
BY SMT DEF Owing

LEMMA SlackKeep ==
    ASSUME Types, Types', NEW b \in Brick, dirty'[b] >= dirty[b],
           \A d \in Client : Owed(d, b)' => Owed(d, b)
    PROVE  SlackUp(b)
<1>1. dirty[b] \in Int /\ dirty'[b] \in Int
    BY DEF Types
<1>. QED  BY <1>1, OwingIs, SMT DEF SlackUp

LEMMA DirtyKeep ==
    ASSUME Types, Types', NEW b \in Brick, DirtyOK(b), SlackUp(b),
           \A s \in Shd : input_dirty'[s][b] \in {input_dirty[s][b], 0}
    PROVE  DirtyOK(b)'
<1>1. /\ dirty[b] \in Int /\ dirty'[b] \in Int
      /\ \A s \in Shd : input_dirty[s][b] \in Int
    BY DEF Types
<1>2. Owing(b) \in {0, 1} /\ Owing(b)' \in {0, 1}
    BY DEF Owing
<1>. QED  BY <1>1, <1>2, SMT DEF DirtyOK, SlackUp

LEMMA OthersHold ==
    ASSUME CountInv, NEW c \in Client, ClientStep(c), NEW d \in Client, d # c
    PROVE  Holds(d)' /\ \A b \in Brick : Owed(d, b)' => Owed(d, b)
BY OthersSame, StillHolds DEF CountInv, TypeInv

LEMMA PreOpSlack ==
    ASSUME CountInv, Types', NEW c \in Client, afr_changelog_pre_op(c),
           NEW b \in Brick
    PROVE  SlackUp(b)
<1>0. /\ Types /\ pc[c] = "preop" /\ ClientStep(c)
      /\ \A d \in Client : Holds(d)
    BY DEF CountInv, TypeInv, afr_changelog_pre_op, ClientStep
<1>1. PICK o \in Outcome(c, pre_op[c]) :
        /\ Suffer(c, o) /\ Xattrop(o.done, 1, {})
        /\ failed_subvols' = [failed_subvols EXCEPT
                                 ![c] = @ \cup o.err \cup o.lost]
    BY DEF afr_changelog_pre_op
<1>2. /\ pre_op' = pre_op
      /\ dirty'[b] = IF b \in o.done THEN dirty[b] + 1 ELSE dirty[b]
    BY <1>1 DEF afr_changelog_pre_op, Xattrop
<1>3. dirty[b] \in Int
    BY <1>0 DEF Types
<1>4. CASE b \in o.done
    <2>1. b \in pre_op[c] \cap child_up[c]
        BY <1>4, OutcomeIs
    <2>2. lock[b] = c
        BY <1>0, <2>1 DEF Holds
    <2>3. \A d \in Client : ~Owed(d, b)
        BY <1>0, <2>2, OwedLock DEF Owed
    <2>4. Owing(b) = 0 /\ Owing(b)' \in {0, 1}
        BY <2>3 DEF Owing
    <2>. QED  BY <1>2, <1>3, <1>4, <2>4, SMTT(20) DEF SlackUp
<1>5. CASE b \notin o.done
    <2>1. failed_subvols'[c] = failed_subvols[c] \cup o.err \cup o.lost
        BY <1>0, <1>1 DEF Types
    <2>2. b \in pre_op[c] => b \in o.err \cup o.lost
        <3>1. /\ o.ack \subseteq o.done
              /\ o.lost = pre_op[c] \ (o.ack \cup o.err)
            BY OutcomeIs
        <3>. QED  BY <1>5, <3>1
    <2>3. ~Owed(c, b)'
        BY <1>2, <2>1, <2>2 DEF Owed
    <2>4. \A d \in Client : Owed(d, b)' => Owed(d, b)
        BY <1>0, <2>3, OthersHold
    <2>5. dirty'[b] >= dirty[b]
        BY <1>2, <1>3, <1>5, SMT
    <2>. QED  BY <1>0, <2>4, <2>5, SlackKeep
<1>. QED  BY <1>4, <1>5

LEMMA PostOpIs ==
    ASSUME Types, NEW c \in Client, afr_changelog_post_op_now(c)
    PROVE  \/ UNCHANGED <<dirty, pending, net>>
           \/ \E failed \in SUBSET Brick :
                /\ failed_subvols[c] \subseteq failed
                /\ failed_subvols'[c] = failed
                /\ \E o \in Outcome(c, pre_op[c] \ failed) :
                      Suffer(c, o) /\ Xattrop(o.done, -1, failed)
<1>. DEFINE failed == failed_subvols[c]
                      \cup IF QuorumLost(c) THEN pre_op[c] ELSE {}
<1>1. failed \in SUBSET Brick /\ failed_subvols[c] \subseteq failed
    BY ClientTypes
<1>2. failed_subvols'[c] = failed
    BY DEF afr_changelog_post_op_now, Types
<1>3. \/ UNCHANGED <<dirty, pending, net>>
      \/ \E o \in Outcome(c, pre_op[c] \ failed) :
            Suffer(c, o) /\ Xattrop(o.done, -1, failed)
    BY DEF afr_changelog_post_op_now
<1>. HIDE DEF failed
<1>. QED  BY <1>1, <1>2, <1>3

LEMMA PostOpSlack ==
    ASSUME CountInv, Types', NEW c \in Client, afr_changelog_post_op_now(c),
           NEW b \in Brick
    PROVE  SlackUp(b)
<1>0. /\ Types /\ pc[c] = "postop" /\ ClientStep(c)
      /\ \A d \in Client : Holds(d)
    BY DEF CountInv, TypeInv, afr_changelog_post_op_now, ClientStep
<1>1. pc'[c] = "unlock"
    BY <1>0 DEF afr_changelog_post_op_now, Goto, Types
<1>2. \A d \in Client : Owed(d, b)' => Owed(d, b) /\ d # c
    BY <1>0, <1>1, OthersHold DEF Owed
<1>3. dirty[b] \in Int
    BY <1>0 DEF Types
<1>4. CASE dirty'[b] = dirty[b]
    <2>1. dirty'[b] >= dirty[b]
        BY <1>3, <1>4, SMT
    <2>. QED  BY <1>0, <1>2, <2>1, SlackKeep
<1>5. CASE dirty'[b] # dirty[b]
    <2>1. PICK failed \in SUBSET Brick :
            /\ failed_subvols[c] \subseteq failed
            /\ \E o \in Outcome(c, pre_op[c] \ failed) : Xattrop(o.done, -1, failed)
        BY <1>0, <1>5, PostOpIs
    <2>2. PICK o \in Outcome(c, pre_op[c] \ failed) : Xattrop(o.done, -1, failed)
        BY <2>1
    <2>3. dirty'[b] = dirty[b] - 1 /\ b \in o.done
        BY <1>3, <1>5, <2>2, SMT DEF Xattrop
    <2>4. b \in pre_op[c] \ failed /\ b \in child_up[c]
        <3>1. o.done \subseteq (pre_op[c] \ failed) \cap child_up[c]
            BY <2>2, OutcomeIs, SMT
        <3>. QED  BY <2>3, <3>1
    <2>5. Owed(c, b)
        BY <1>0, <2>1, <2>4 DEF Owed
    <2>6. \A d \in Client : ~Owed(d, b)'
        BY <1>0, <1>2, <2>5, OwedLock
    <2>7. Owing(b) = 1 /\ Owing(b)' = 0
        BY <2>5, <2>6 DEF Owing
    <2>. QED  BY <1>3, <2>3, <2>7, SMT DEF SlackUp
<1>. QED  BY <1>4, <1>5

LEMMA ClientSlack ==
    ASSUME CountInv, Types', NEW c \in Client, ClientStep(c), NoReturn,
           NoRefusal, NEW b \in Brick
    PROVE  SlackUp(b)
<1>1. CASE afr_changelog_pre_op(c)
    BY <1>1, PreOpSlack
<1>2. CASE afr_changelog_post_op_now(c)
    BY <1>2, PostOpSlack
<1>3. CASE ~afr_changelog_pre_op(c) /\ ~afr_changelog_post_op_now(c)
    <2>0. TypeInv /\ Types /\ \A d \in Client : Holds(d)
        BY DEF CountInv, TypeInv
    <2>1. dirty' = dirty
        BY <1>3 DEF ClientStep, afr_transaction, afr_lock,
           afr_transaction_fop, afr_changelog_fsync, afr_unlock, disk
    <2>2. \A d \in Client : Owed(d, b)' => Owed(d, b)
        BY <1>3, <2>0, ClientHolds, OthersHold
    <2>3. dirty'[b] >= dirty[b]
        BY <2>0, <2>1, SMT DEF Types
    <2>. QED  BY <2>0, <2>2, <2>3, SlackKeep
<1>. QED  BY <1>1, <1>2, <1>3

LEMMA ClientCount ==
    ASSUME CountInv, NEW c \in Client, ClientStep(c), UNCHANGED heal,
           NoReturn, NoRefusal
    PROVE  CountInv'
<1>0. TypeInv /\ Types /\ \A d \in Client : Holds(d)
    BY DEF CountInv, TypeInv
<1>1. TypeInv' /\ Types'
    BY <1>0, TransactionTypes, LockTypes, FanoutTypes, FopTypes
    DEF ClientStep, TypeInv
<1>2. \A d \in Client : Holds(d)'
    BY <1>0, ClientHolds, OthersHold
<1>3. UNCHANGED <<input_dirty, input_matrix>>
    BY DEF heal
<1>4. ASSUME NEW b \in Brick PROVE DirtyOK(b)'
    BY <1>0, <1>1, <1>3, ClientSlack, DirtyKeep DEF CountInv
<1>5. ASSUME NEW i \in Brick, NEW j \in Brick PROVE PendingOK(i, j)'
    <2>1. pending'[i][j] \in {pending[i][j], pending[i][j] + 1}
        <3>1. CASE afr_changelog_pre_op(c)
            BY <3>1, SMT DEF afr_changelog_pre_op, Xattrop
        <3>2. CASE afr_changelog_post_op_now(c)
            <4>1. CASE UNCHANGED <<dirty, pending, net>>
                BY <4>1
            <4>2. CASE \E bs, failed : Xattrop(bs, -1, failed)
                BY <4>2, SMT DEF Xattrop
            <4>. QED  BY <1>0, <3>2, <4>1, <4>2, PostOpIs
        <3>3. CASE ~afr_changelog_pre_op(c) /\ ~afr_changelog_post_op_now(c)
            BY <3>3 DEF ClientStep, afr_transaction, afr_lock,
               afr_transaction_fop, afr_changelog_fsync, afr_unlock, disk
        <3>. QED  BY <3>1, <3>2, <3>3
    <2>2. /\ PendingOK(i, j) /\ pending[i][j] \in Int
          /\ \A s \in Shd : input_matrix[s][i][j] \in Int
        <3>1. /\ pending \in [Brick -> [Brick -> Int]]
              /\ input_matrix \in [Shd -> [Brick -> [Brick -> Int]]]
            BY <1>0 DEF Types
        <3>. QED  BY <3>1, SMT DEF CountInv
    <2>. QED  BY <1>3, <2>1, <2>2, SMT DEF PendingOK
<1>. QED  BY <1>1, <1>2, <1>4, <1>5 DEF CountInv

(* A heal leaves the transactions alone.                                   *)
LEMMA HealHolds ==
    ASSUME CountInv, NEW s \in Shd, HealStep(s), NEW d \in Client
    PROVE  Holds(d)' /\ \A b \in Brick : Owed(d, b)' => Owed(d, b)
BY HealFrame, StillHolds DEF CountInv, TypeInv

(* The matrices a heal holds are gone, or as they were.                    *)
LEMMA ResetIs ==
    ASSUME Types, OneHealer, NEW s \in Shd, HealReset(s), NEW u \in Shd
    PROVE  /\ \A b \in Brick : input_dirty'[u][b] = 0
           /\ \A i, j \in Brick : input_matrix'[u][i][j] = 0
<1>1. u = s
    BY DEF OneHealer
<1>2. input_dirty'[s] = NoDirty /\ input_matrix'[s] = NoPending
    BY DEF HealReset, Types
<1>. QED  BY <1>1, <1>2 DEF NoDirty, NoPending

LEMMA PrepareCount ==
    ASSUME CountInv, OneHealer, TypeInv', NEW s \in Shd,
           __afr_selfheal_data_prepare(s)
    PROVE  CountInv'
<1>. DEFINE R == child_up[s]
<1>0. /\ Types /\ Types' /\ s \in Proc /\ R \subseteq Brick /\ HealStep(s)
    BY DEF CountInv, TypeInv, Types, Proc, HealStep
<1>1. /\ dirty' = dirty /\ pending' = pending
      /\ \A b \in R : lock[b] = Free
    BY DEF __afr_selfheal_data_prepare, Lockable, disk
<1>2. /\ input_dirty'[s] = afr_selfheal_extract_dirty(dirty, R)
      /\ input_matrix'[s] = afr_selfheal_extract_matrix(pending, R)
    <2>1. /\ input_dirty \in [Shd -> [Brick -> Int]]
          /\ input_matrix \in [Shd -> [Brick -> [Brick -> Int]]]
        BY <1>0 DEF Types
    <2>. QED  BY <2>1 DEF __afr_selfheal_data_prepare
<1>3. \A d \in Client : Holds(d) /\ Holds(d)'
    BY <1>0, HealHolds DEF CountInv
<1>4. ASSUME NEW b \in Brick PROVE DirtyOK(b)'
    <2>1. /\ dirty[b] \in Int /\ DirtyOK(b)
        BY <1>0 DEF Types, CountInv
    <2>2. \A u \in Shd : input_dirty'[u][b] = IF b \in R THEN dirty[b] ELSE 0
        BY <1>2 DEF OneHealer, afr_selfheal_extract_dirty
    <2>3. b \in R => \A d \in Client : ~Owed(d, b)
        BY <1>1, <1>3, OwedLock, ProcAssumption DEF Proc
    <2>4. \A d \in Client : Owed(d, b)' => Owed(d, b)
        BY <1>0, HealHolds
    <2>5. /\ Owing(b) \in {0, 1} /\ Owing(b)' \in {0, 1}
          /\ Owing(b)' = 1 => Owing(b) = 1
          /\ b \in R => Owing(b)' = 0
        BY <2>3, <2>4, SMTT(20) DEF Owing
    <2>. QED  BY <1>1, <2>1, <2>2, <2>5, SMT DEF DirtyOK
<1>5. ASSUME NEW i \in Brick, NEW j \in Brick PROVE PendingOK(i, j)'
    <2>1. pending[i][j] \in Int /\ PendingOK(i, j)
        BY <1>0 DEF Types, CountInv
    <2>2. \A u \in Shd : input_matrix'[u][i][j] \in {pending[i][j], 0}
        <3>1. \A u \in Shd : u = s
            BY DEF OneHealer
        <3>2. input_matrix'[s][i][j] \in {pending[i][j], 0}
            BY <1>2, SMT DEF afr_selfheal_extract_matrix
        <3>. QED  BY <3>1, <3>2
    <2>. QED  BY <1>1, <2>1, <2>2, SMT DEF PendingOK
<1>. QED  BY <1>3, <1>4, <1>5 DEF CountInv

LEMMA CopyCount ==
    ASSUME CountInv, OneHealer, TypeInv', NEW s \in Shd, afr_selfheal_data_do(s)
    PROVE  CountInv'
<1>0. Types /\ Types' /\ HealStep(s) /\ dirty' = dirty /\ pending' = pending
    BY DEF CountInv, TypeInv, HealStep, afr_selfheal_data_do
<1>1. HealReset(s) \/ UNCHANGED <<input_dirty, input_matrix>>
    BY DEF afr_selfheal_data_do
<1>2. \A d \in Client : Holds(d)'
    BY <1>0, HealHolds
<1>3. ASSUME NEW b \in Brick PROVE DirtyOK(b)'
    <2>1. \A u \in Shd : input_dirty'[u][b] \in {input_dirty[u][b], 0}
        BY <1>0, <1>1, ResetIs
    <2>2. dirty'[b] >= dirty[b]
        BY <1>0, SMT DEF Types
    <2>3. DirtyOK(b) /\ \A d \in Client : Owed(d, b)' => Owed(d, b)
        BY <1>0, HealHolds DEF CountInv
    <2>. QED  BY <1>0, <2>1, <2>2, <2>3, SlackKeep, DirtyKeep
<1>4. ASSUME NEW i \in Brick, NEW j \in Brick PROVE PendingOK(i, j)'
    <2>1. \A u \in Shd : input_matrix'[u][i][j] \in {input_matrix[u][i][j], 0}
        BY <1>0, <1>1, ResetIs
    <2>2. pending[i][j] \in Int /\ PendingOK(i, j)
        BY <1>0 DEF Types, CountInv
    <2>. QED  BY <1>0, <2>1, <2>2, SMT DEF PendingOK
<1>. QED  BY <1>2, <1>3, <1>4 DEF CountInv

LEMMA UndoCount ==
    ASSUME CountInv, OneHealer, TypeInv', NEW s \in Shd,
           afr_selfheal_undo_pending(s)
    PROVE  CountInv'
<1>0. Types /\ Types' /\ HealStep(s) /\ HealReset(s)
    BY DEF CountInv, TypeInv, HealStep, afr_selfheal_undo_pending
<1>1. \A d \in Client : Holds(d)'
    BY <1>0, HealHolds
<1>2. ASSUME NEW b \in Brick PROVE DirtyOK(b)'
    <2>1. \A u \in Shd : input_dirty'[u][b] = 0
        BY <1>0, ResetIs
    <2>2. dirty'[b] \in {dirty[b], dirty[b] - input_dirty[s][b]}
        BY <1>0, UndoEach
    <2>3. DirtyOK(b) /\ \A d \in Client : Owed(d, b)' => Owed(d, b)
        BY <1>0, HealHolds DEF CountInv
    <2>4. dirty[b] \in Int /\ input_dirty[s][b] \in Int
        BY <1>0 DEF Types
    <2>5. /\ Owing(b) \in {0, 1} /\ Owing(b)' \in {0, 1}
          /\ Owing(b)' = 1 => Owing(b) = 1
        BY <2>3, SMT DEF Owing
    <2>. QED  BY <2>1, <2>2, <2>3, <2>4, <2>5, SMT DEF DirtyOK
<1>3. ASSUME NEW i \in Brick, NEW j \in Brick PROVE PendingOK(i, j)'
    <2>1. \A u \in Shd : input_matrix'[u][i][j] = 0
        BY <1>0, ResetIs
    <2>2. pending'[i][j] \in {pending[i][j], pending[i][j] + 1,
                              pending[i][j] - input_matrix[s][i][j]}
        BY <1>0, UndoEach
    <2>3. PendingOK(i, j) /\ pending[i][j] \in Int
          /\ input_matrix[s][i][j] \in Int
        <3>1. /\ pending \in [Brick -> [Brick -> Int]]
              /\ input_matrix \in [Shd -> [Brick -> [Brick -> Int]]]
            BY <1>0 DEF Types
        <3>. QED  BY <3>1, SMT DEF CountInv
    <2>. QED  BY <2>1, <2>2, <2>3, SMT DEF PendingOK
<1>. QED  BY <1>1, <1>2, <1>3 DEF CountInv

LEMMA FaultSlack ==
    ASSUME CountInv, Types', Environment, NoReturn
    PROVE  /\ \A d \in Client : Holds(d)' /\ \A b \in Brick : Owed(d, b)' => Owed(d, b)
           /\ \A b \in Brick : SlackUp(b) /\ dirty'[b] = dirty[b]
<1>0. Types
    BY DEF CountInv, TypeInv
<1>1. dirty' = dirty
    BY DEF Environment, Disconnect, Reconnect, BrickRestart, Crash, disk
<1>2. ASSUME NEW d \in Client
      PROVE  Holds(d)' /\ \A b \in Brick : Owed(d, b)' => Owed(d, b)
    <2>1. CASE Crash(d)
        <3>1. pc'[d] = "idle"
            BY <1>0, <2>1 DEF Crash, Goto, Types
        <3>. QED  BY <3>1 DEF Holds, Owed
    <2>. QED  BY <1>0, <2>1, FaultFrame, StillHolds DEF CountInv
<1>3. ASSUME NEW b \in Brick PROVE SlackUp(b)
    <2>1. dirty'[b] >= dirty[b]
        BY <1>0, <1>1, SMT DEF Types
    <2>. QED  BY <1>0, <1>2, <2>1, SlackKeep
<1>. QED  BY <1>1, <1>2, <1>3

LEMMA FaultCount ==
    ASSUME CountInv, Environment, UNCHANGED heal, NoReturn
    PROVE  CountInv'
<1>0. TypeInv /\ Types /\ TypeInv' /\ Types'
    BY EnvironmentTypes DEF CountInv, TypeInv
<1>1. UNCHANGED <<pending, input_dirty, input_matrix>>
    BY DEF Environment, Disconnect, Reconnect, BrickRestart, Crash, disk, heal
<1>2. ASSUME NEW b \in Brick PROVE DirtyOK(b)'
    BY <1>0, <1>1, FaultSlack, DirtyKeep DEF CountInv
<1>3. \A i, j \in Brick : PendingOK(i, j)'
    BY <1>1 DEF CountInv, PendingOK
<1>. QED  BY <1>0, <1>2, <1>3, FaultSlack DEF CountInv

LEMMA NextCountInv ==
    ASSUME CountInv, OneHealer, [Next /\ NoReturn /\ NoRefusal]_allVars
    PROVE  CountInv'
<1>0. TypeInv'
    BY NextTypeInv DEF CountInv
<1>1. CASE (\E c \in Client : ClientStep(c)) /\ UNCHANGED heal
           /\ NoReturn /\ NoRefusal
    BY <1>1, ClientCount
<1>2. CASE \E s \in Shd : HealStep(s)
    BY <1>0, <1>2, PrepareCount, CopyCount, UndoCount DEF HealStep
<1>3. CASE Environment /\ UNCHANGED heal /\ NoReturn
    BY <1>3, FaultCount
<1>4. CASE UNCHANGED allVars
    BY <1>0, <1>4 DEF CountInv, Holds, DirtyOK, Owing, Owed, PendingOK,
       allVars, vars, disk, net, txn, heal
<1>. QED  BY <1>1, <1>2, <1>3, <1>4 DEF Next

(***************************************************************************)
(* Whatever the number of bricks, clients, writes and faults, no count of  *)
(* the changelog is ever negative: afr_changelog_post_op_now takes back    *)
(* what that transaction's pre-op raised, on bricks where the lock has     *)
(* kept the others from counting, and afr_selfheal_undo_pending takes back *)
(* what a heal read while nobody owed anything there.  The heals of a file *)
(* exclude each other, a connection that broke does not come back before   *)
(* the end of the transaction, and a write is not refused everywhere after *)
(* a failed pre-op.                                                        *)
(***************************************************************************)
THEOREM CountsStayNonNegative ==
    ASSUME OneHealer
    PROVE  Init /\ [][Next /\ NoReturn /\ NoRefusal]_allVars => []CountsNonNegative
<1>1. CountInv => CountsNonNegative
    <2>1. ASSUME CountInv, NEW b \in Brick PROVE dirty[b] >= 0
        <3>1. DirtyOK(b) /\ dirty[b] \in Int
            BY <2>1 DEF CountInv, TypeInv, Types
        <3>2. Owing(b) \in {0, 1}
            BY DEF Owing
        <3>. QED  BY <3>1, <3>2, SMT DEF DirtyOK
    <2>2. ASSUME CountInv PROVE \A i, j \in Brick : pending[i][j] >= 0
        BY <2>2 DEF CountInv, PendingOK
    <2>. QED  BY <2>1, <2>2 DEF CountsNonNegative
<1>2. CountInv /\ [Next /\ NoReturn /\ NoRefusal]_allVars => CountInv'
    BY NextCountInv
<1>. QED  BY InitCountInv, <1>1, <1>2, PTL

----------------------------------------------------------------------------
(***************************************************************************)
(* Two bricks with automatic quorum.  The first brick is in every quorum,  *)
(* so it takes part in every write that succeeds and is never accused; a   *)
(* heal copies from the second one only while the first does not accuse    *)
(* it.  What the proofs need of counting (TwoBricksQuorum):                *)
(***************************************************************************)
TwoBricks ==
    /\ Brick = {1, 2} /\ 1 # 2 /\ QuorumCount # 0
    /\ \A S \in SUBSET Brick : afr_has_quorum(S) <=> 1 \in S
    /\ \A S \in SUBSET Brick : Cardinality(S) >= 2 => S = Brick
    /\ \A S \in SUBSET {{"lost", "late"}, {"err"}} :
          Cardinality(S) \in Nat /\ (Cardinality(S) = 0 => S = {})

Wound == {"fsync", "postop"}

(* A map of readable bricks that is current has the first brick.           *)
MapOK(c) == fresh[c] /\ 1 \in child_up[c] => 1 \in read_subvol[c]

(* The first brick takes part, a brick that does not take part counts as   *)
(* failed, and after the write the bricks that have not failed have it.    *)
TxnOK(c) ==
    /\ pc[c] \in {"preop", "fop"} \cup Wound => 1 \in pre_op[c]
    /\ pc[c] \in {"preop", "fop"} \/ (pc[c] \in Wound /\ op_ret[c])
         => Brick \ pre_op[c] \subseteq failed_subvols[c]
    /\ pc[c] \in {"lock", "preop", "fop"} =>
         cur[c] \notin acked /\ (1 \in pre_op[c] => 1 \in read_subvol[c])
    /\ pc[c] \in Wound =>
         /\ in_flight_sb[c] => 1 \in failed_subvols[c]
         /\ op_ret[c] => \A b \in pre_op[c] \ failed_subvols[c] :
                             b \in child_up[c] => cur[c] \in data[b]
         /\ cur[c] \in acked => op_ret[c]
    /\ pc[c] = "postop" /\ cur[c] \in acked => 1 \notin failed_subvols[c]

(* The application has been, or is about to be, told that w is done.       *)
Told(w) ==
    \/ w \in acked
    \/ \E c \in Client : pc[c] = "unlock" /\ op_ret[c] /\ cur[c] = w
(* A client is to record that the second brick has missed w.               *)
Missing(w) ==
    \E c \in Client : cur[c] = w /\ pc[c] \in Wound /\ 2 \in failed_subvols[c]
(* The first brick accuses the second, and will when the heal is over.     *)
Noted ==
    /\ pending[1][2] > 0
    /\ \A s \in Shd : hpc[s] = "undo" =>
                          pending[1][2] > input_matrix[s][1][2]

Kept(w) == Told(w) => w \in data[2] \/ Missing(w)
ToldOK(w) == Told(w) => /\ w \in data[1]
                        /\ w \in data[2] \/ Missing(w) \/ Noted

(* A heal that takes back an accusation of the second brick copies to it;  *)
(* one that copies from it has found no accusation.                        *)
HealOK(s) == hpc[s] # "idle" =>
    /\ sinks[s] \subseteq {2}
    /\ input_matrix[s][1][2] # 0 => 2 \in sinks[s] /\ source[s] = 1
    /\ hpc[s] = "data" => source[s] \notin healed_sinks[s]
    /\ hpc[s] = "data" /\ source[s] = 2 => \A w \in Write : Kept(w)

SafeInv ==
    /\ CountInv /\ faults \in Nat
    /\ \A c \in Client : TxnOK(c) /\ MapOK(c)
    /\ \A w \in Write : ToldOK(w)
    /\ \A s \in Shd : HealOK(s)
    /\ \A i \in Brick : pending[i][1] = 0

LEMMA QuorumIs ==
    ASSUME TwoBricks, NEW S \in SUBSET Brick
    PROVE  QuorumCount # 0 /\ (afr_has_quorum(S) <=> 1 \in S)
BY DEF TwoBricks

LEMMA OutcomeAll ==
    ASSUME TwoBricks, NEW p, NEW T, NEW o \in Outcome(p, T)
    PROVE  o.cost \in Nat /\ (o.cost = 0 => o.ack = T \cap child_up[p])
<1>. DEFINE up == T \cap child_up[p]
            on(f, fate) == {b \in up : f[b] = fate}
            kinds(f) == {kind \in {{"lost", "late"}, {"err"}} :
                            \E b \in DOMAIN f : f[b] \in kind}
<1>1. PICK f \in [up -> {"ack", "err", "lost", "late"}] :
         o = [ack |-> on(f, "ack"), err |-> on(f, "err"),
              lost |-> (T \ up) \cup on(f, "lost") \cup on(f, "late"),
              done |-> on(f, "ack") \cup on(f, "late"),
              cost |-> Cost(f)]
    BY DEF Outcome
<1>2. o.ack = on(f, "ack") /\ o.cost = Cardinality(kinds(f))
    BY <1>1 DEF Cost
<1>3. kinds(f) \in SUBSET {{"lost", "late"}, {"err"}}
    OBVIOUS
<1>4. o.cost \in Nat /\ (o.cost = 0 => kinds(f) = {})
    <2>1. \A S \in SUBSET {{"lost", "late"}, {"err"}} :
             Cardinality(S) \in Nat /\ (Cardinality(S) = 0 => S = {})
        BY DEF TwoBricks
    <2>2. /\ Cardinality(kinds(f)) \in Nat
          /\ Cardinality(kinds(f)) = 0 => kinds(f) = {}
        BY <1>3, <2>1
    <2>. QED  BY <1>2, <2>2
<1>5. kinds(f) = {} => \A b \in up : f[b] = "ack"
    <2>1. ASSUME NEW b \in up, f[b] # "ack" PROVE kinds(f) # {}
        <3>1. f[b] \in {"lost", "late"} \/ f[b] \in {"err"}
            BY <2>1
        <3>2. {"lost", "late"} \in kinds(f) \/ {"err"} \in kinds(f)
            BY <3>1
        <3>. QED  BY <3>2
    <2>. QED  BY <2>1
<1>. QED  BY <1>2, <1>4, <1>5

LEMMA NextFaults ==
    ASSUME TwoBricks, faults \in Nat, Next
    PROVE  faults' \in Nat
<1>1. ASSUME NEW p, NEW T, NEW o \in Outcome(p, T), Suffer(p, o)
      PROVE  faults' \in Nat
    <2>1. o.cost \in Nat /\ faults' = faults + o.cost
        BY <1>1, OutcomeAll DEF Suffer
    <2>. QED  BY <2>1, SMT
<1>2. ASSUME NEW c \in Client, ClientStep(c)
      PROVE  faults' = faults \/ \E T : \E o \in Outcome(c, T) : Suffer(c, o)
    BY <1>2 DEF ClientStep, afr_transaction, afr_lock, afr_changelog_pre_op,
       afr_transaction_fop, afr_changelog_fsync, afr_changelog_post_op_now,
       afr_unlock, net
<1>3. ASSUME NEW s \in Shd, HealStep(s)
      PROVE  faults' = faults \/ \E T : \E o \in Outcome(s, T) : Suffer(s, o)
    BY <1>3 DEF HealStep, __afr_selfheal_data_prepare, afr_selfheal_data_do,
       afr_selfheal_undo_pending, net
<1>4. Environment => faults' = faults \/ faults' = faults + 1
    BY DEF Environment, Disconnect, Reconnect, BrickRestart, Crash
<1>5. faults + 1 \in Nat
    BY SMT
<1>. QED  BY <1>1, <1>2, <1>3, <1>4, <1>5 DEF Next

LEMMA CurUnique ==
    ASSUME TypeInv, NEW c \in Client, NEW d \in Client, pc[c] # "idle",
           pc[d] # "idle", cur[c] = cur[d]
    PROVE  c = d
BY DEF TypeInv, CurOK

(* A transaction that does not move, while nothing touches its write.      *)
LEMMA TxnKeep ==
    ASSUME NEW d \in Client, TxnOK(d), SameTxn(d), pc[d] # "idle" => Fewer(d),
           pc[d] # "idle" /\ cur[d] \in acked' => cur[d] \in acked,
           pc[d] \in Wound => \A b \in pre_op[d] \cap child_up[d] :
                                 cur[d] \in data[b] => cur[d] \in data'[b]
    PROVE  TxnOK(d)'
<1>1. CASE pc[d] = "idle"
    BY <1>1 DEF TxnOK, SameTxn, Wound
<1>2. CASE pc[d] # "idle"
    BY <1>2 DEF TxnOK, SameTxn, Wound, Fewer
<1>. QED  BY <1>1, <1>2

(* The bricks a client reads include the first when it is connected to it. *)
LEMMA ReadableIs ==
    ASSUME TwoBricks, NEW c \in Client, MapOK(c), 1 \in child_up[c], Types,
           \A i \in Brick : pending[i][1] = 0
    PROVE  1 \in Readable(c)
<1>1. child_up[c] \subseteq Brick
    BY ClientTypes
<1>. QED  BY <1>1 DEF MapOK, Readable, afr_replies_interpret

LEMMA TransactionTxn ==
    ASSUME SafeInv, TwoBricks, NEW c \in Client, NEW w \in Write,
           afr_transaction(c, w)
    PROVE  TxnOK(c)' /\ MapOK(c)'
<1>0. /\ Types /\ pc[c] = "idle" /\ MapOK(c) /\ w \notin acked
      /\ 1 \in child_up[c] => 1 \in Readable(c)
    BY ReadableIs DEF SafeInv, CountInv, TypeInv, Types, afr_transaction
<1>1. /\ pc \in [Client -> Phase] /\ cur \in [Client -> Write \cup {Free}]
      /\ pre_op \in [Client -> SUBSET Brick] /\ fresh \in [Client -> BOOLEAN]
      /\ read_subvol \in [Client -> SUBSET Brick]
    BY <1>0 DEF Types
<1>2. acked' = acked /\ child_up' = child_up
    BY DEF afr_transaction, net
<1>3. CASE UNCHANGED <<read_subvol, fresh, pc>>
    BY <1>0, <1>2, <1>3 DEF TxnOK, MapOK, Wound
<1>4. CASE /\ read_subvol' = [read_subvol EXCEPT ![c] = Readable(c)]
           /\ UNCHANGED pc
    BY <1>0, <1>1, <1>2, <1>4 DEF TxnOK, MapOK, Wound
<1>5. CASE /\ read_subvol' = [read_subvol EXCEPT ![c] = Readable(c)]
           /\ pc' = [pc EXCEPT ![c] = "lock"] /\ cur' = [cur EXCEPT ![c] = w]
           /\ pre_op' = [pre_op EXCEPT ![c] = child_up[c]]
    <2>1. /\ read_subvol'[c] = Readable(c) /\ pc'[c] = "lock" /\ cur'[c] = w
          /\ pre_op'[c] = child_up[c]
        BY <1>1, <1>5
    <2>. QED  BY <1>0, <1>2, <2>1 DEF TxnOK, MapOK, Wound
<1>. QED  BY <1>3, <1>4, <1>5 DEF afr_transaction, Goto

LEMMA LockTxn ==
    ASSUME SafeInv, TwoBricks, NEW c \in Client, afr_lock(c)
    PROVE  TxnOK(c)' /\ MapOK(c)' /\ ~(pc'[c] = "unlock" /\ op_ret'[c])
<1>. DEFINE locked == pre_op[c] \cap child_up[c]
<1>0. /\ Types /\ pc[c] = "lock" /\ MapOK(c) /\ TxnOK(c) /\ locked \in SUBSET Brick
    BY ClientTypes DEF SafeInv, CountInv, TypeInv, afr_lock
<1>1. /\ pc \in [Client -> Phase] /\ pre_op \in [Client -> SUBSET Brick]
      /\ failed_subvols \in [Client -> SUBSET Brick]
      /\ op_ret \in [Client -> BOOLEAN]
    BY <1>0 DEF Types
<1>2. /\ pc'[c] \in {"unlock", "preop"}
      /\ pc'[c] = "preop" => 1 \in locked
    <2>1. QuorumCount # 0 /\ (afr_has_quorum(locked) <=> 1 \in locked)
        BY <1>0, QuorumIs
    <2>2. pc'[c] = IF locked = {} \/ (QuorumCount # 0 /\ ~afr_has_quorum(locked))
                     THEN "unlock" ELSE "preop"
        BY <1>1 DEF afr_lock, Goto
    <2>. QED  BY <2>1, <2>2
<1>3. /\ pre_op'[c] = locked /\ failed_subvols'[c] = Brick \ locked
      /\ op_ret'[c] = FALSE /\ cur' = cur /\ acked' = acked
      /\ UNCHANGED <<read_subvol, fresh, child_up>>
    BY <1>1 DEF afr_lock
<1>. QED  BY <1>0, <1>2, <1>3 DEF TxnOK, MapOK, Wound

(* The fan-outs that wind no write.                                        *)
LEMMA SyncTxn ==
    ASSUME SafeInv, TwoBricks, NEW c \in Client, Recorded,
           afr_changelog_pre_op(c) \/ afr_changelog_fsync(c)
    PROVE  TxnOK(c)' /\ MapOK(c)' /\ failed_subvols[c] \subseteq failed_subvols'[c]
<1>0. /\ Types /\ MapOK(c) /\ TxnOK(c) /\ pre_op[c] \subseteq Brick
      /\ c \in Proc
    BY ClientTypes DEF SafeInv, CountInv, TypeInv
<1>1. /\ pc \in [Client -> Phase] /\ fresh \in [Client -> BOOLEAN]
      /\ failed_subvols \in [Client -> SUBSET Brick]
    BY <1>0 DEF Types
<1>2. PICK o \in Outcome(c, pre_op[c]) :
        /\ Suffer(c, o)
        /\ failed_subvols' = [failed_subvols EXCEPT
                                 ![c] = @ \cup o.err \cup o.lost]
        /\ IF o.lost = {} THEN UNCHANGED fresh ELSE Stale(c)
    BY DEF afr_changelog_pre_op, afr_changelog_fsync
<1>3. /\ UNCHANGED <<data, cur, pre_op, op_ret, in_flight_sb, read_subvol, acked>>
      /\ \/ pc[c] = "preop" /\ pc'[c] = "fop"
         \/ pc[c] = "fsync" /\ pc'[c] = "postop"
    BY <1>1 DEF afr_changelog_pre_op, afr_changelog_fsync, Goto, disk
<1>4. failed_subvols'[c] = failed_subvols[c] \cup o.err \cup o.lost
    BY <1>1, <1>2
<1>5. child_up'[c] \subseteq child_up[c] /\ (fresh'[c] => fresh[c])
    <2>1. child_up'[c] = child_up[c] \ o.lost
        BY <1>0, <1>2, BreakIs DEF Suffer
    <2>2. fresh' = fresh \/ Stale(c)
        BY <1>2
    <2>. QED  BY <2>1, <2>2 DEF Stale
<1>6. pc[c] = "fsync" /\ cur[c] \in acked => 1 \notin failed_subvols'[c]
    <2>1. pre_op[c] \ failed_subvols'[c] \in SUBSET Brick
        BY <1>0
    <2>2. afr_has_quorum(pre_op[c] \ failed_subvols'[c])
             => 1 \in pre_op[c] \ failed_subvols'[c]
        BY <2>1, QuorumIs
    <2>. QED  BY <1>3, <2>2 DEF Recorded, Moves
<1>7. CASE pc[c] = "preop" /\ pc'[c] = "fop"
    BY <1>0, <1>3, <1>4, <1>5, <1>7 DEF TxnOK, MapOK, Wound
<1>8. CASE pc[c] = "fsync" /\ pc'[c] = "postop"
    BY <1>0, <1>3, <1>4, <1>5, <1>6, <1>8 DEF TxnOK, MapOK, Wound
<1>. QED  BY <1>3, <1>4, <1>7, <1>8

LEMMA FopTxn ==
    ASSUME SafeInv, TwoBricks, NEW c \in Client, afr_transaction_fop(c)
    PROVE  /\ TxnOK(c)' /\ MapOK(c)' /\ acked' \subseteq acked \cup {cur[c]}
           /\ \A b \in Brick : data[b] \subseteq data'[b]
           /\ cur[c] \in acked' =>
                /\ cur[c] \in data'[1]
                /\ cur[c] \in data'[2] \/ 2 \in failed_subvols'[c]
<1>. DEFINE T == pre_op[c] \ failed_subvols[c]
<1>0. /\ Types /\ MapOK(c) /\ TxnOK(c) /\ pre_op[c] \subseteq Brick
      /\ pc[c] = "fop" /\ c \in Proc
    BY ClientTypes DEF SafeInv, CountInv, TypeInv, afr_transaction_fop
<1>1. PICK o \in Outcome(c, T) : FopStep(c, o)
    BY FopIs
<1>. DEFINE failed == failed_subvols[c] \cup o.err \cup o.lost
<1>2. /\ pc \in [Client -> Phase] /\ fresh \in [Client -> BOOLEAN]
      /\ failed_subvols \in [Client -> SUBSET Brick]
      /\ op_ret \in [Client -> BOOLEAN] /\ in_flight_sb \in [Client -> BOOLEAN]
      /\ read_subvol \in [Client -> SUBSET Brick]
      /\ data \in [Brick -> SUBSET Write]
    BY <1>0 DEF Types
<1>3. /\ pc'[c] = "fsync" /\ UNCHANGED <<cur, pre_op>>
      /\ op_ret'[c] = (o.ack # {}) /\ in_flight_sb'[c] = SplitInFlight(c, o)
      /\ read_subvol'[c] = FopMap(c, o)
      /\ fresh'[c] = (fresh[c] /\ FopMap(c, o) = read_subvol[c] /\ o.lost = {})
      /\ failed_subvols'[c] = IF afr_is_symmetric_error(o) THEN {} ELSE failed
    BY <1>1, <1>2 DEF FopStep, Goto, afr_transaction_fop
<1>4. /\ o.ack \subseteq o.done /\ o.lost = T \ (o.ack \cup o.err)
      /\ o.ack \cap o.err = {} /\ o.done \subseteq T
    BY <1>1, OutcomeIs, SMTT(20)
<1>5. /\ \A b \in Brick : data[b] \subseteq data'[b]
      /\ \A b \in Brick \cap o.done : cur[c] \in data'[b]
    BY <1>1 DEF FopStep
<1>6. child_up'[c] \subseteq child_up[c]
    BY <1>0, <1>1, BreakIs DEF FopStep, Suffer
<1>7. acked' = IF T # {} /\ pre_op[c] \cap failed = {} THEN acked \cup {cur[c]}
               ELSE acked
    BY <1>1 DEF FopStep
<1>8. MapOK(c)'
    BY <1>0, <1>3, <1>6 DEF MapOK
<1>9. /\ 1 \in pre_op[c] /\ Brick \ pre_op[c] \subseteq failed_subvols[c]
      /\ cur[c] \notin acked /\ 1 \in read_subvol[c]
    BY <1>0 DEF TxnOK
<1>10. cur[c] \in acked' => o.ack = pre_op[c]
    BY <1>4, <1>7, <1>9, SMTT(20)
<1>11. o.ack # {} => failed_subvols'[c] = failed
    BY <1>3 DEF afr_is_symmetric_error
<1>12. in_flight_sb'[c] => 1 \in failed_subvols'[c]
    <2>1. in_flight_sb'[c] => /\ read_subvol[c] \subseteq failed
                              /\ ~afr_is_symmetric_error(o)
        BY <1>3 DEF SplitInFlight, Checked, InFlightSplitBrain
    <2>. QED  BY <1>3, <1>9, <2>1
<1>13. op_ret'[c] => \A b \in pre_op[c] \ failed_subvols'[c] : cur[c] \in data'[b]
    <2>1. ASSUME op_ret'[c], NEW b \in pre_op[c] \ failed_subvols'[c]
          PROVE  b \in Brick \cap o.done
        BY <1>0, <1>3, <1>4, <1>11, <2>1
    <2>. QED  BY <1>5, <2>1
<1>14. cur[c] \in acked' => op_ret'[c] /\ cur[c] \in data'[1]
    BY <1>0, <1>3, <1>4, <1>5, <1>9, <1>10
<1>15. TxnOK(c)'
    BY <1>3, <1>9, <1>11, <1>12, <1>13, <1>14 DEF TxnOK, Wound
<1>16. cur[c] \in acked' => cur[c] \in data'[2] \/ 2 \in failed_subvols'[c]
    <2>1. CASE 2 \in pre_op[c]
        BY <1>0, <1>4, <1>5, <1>10, <2>1
    <2>2. CASE 2 \notin pre_op[c]
        <3>1. 2 \in failed_subvols[c]
            BY <1>9, <2>2 DEF TwoBricks
        <3>2. cur[c] \in acked' => 2 \in failed_subvols'[c]
            BY <1>3, <1>11, <1>14, <3>1
        <3>. QED  BY <3>2
    <2>. QED  BY <2>1, <2>2
<1>. QED  BY <1>5, <1>7, <1>8, <1>14, <1>15, <1>16

(* A post-op that reaches the bricks it is wound to: the first brick is    *)
(* one of them, is not accused, and accuses the second if that has failed. *)
LEMMA PostOpWound ==
    ASSUME SafeInv, TwoBricks, NEW c \in Client, Recorded, pc[c] = "postop",
           pc'[c] = "unlock", NEW failed \in SUBSET Brick,
           failed_subvols'[c] = failed, 1 \notin failed,
           NEW o \in Outcome(c, pre_op[c] \ failed), Suffer(c, o),
           Xattrop(o.done, -1, failed)
    PROVE  /\ pre_op[c] \ failed \subseteq child_up[c]
           /\ o.done = pre_op[c] \ failed
           /\ \A i \in Brick : pending'[i][1] = pending[i][1]
           /\ pending'[1][2] = IF 2 \in failed THEN pending[1][2] + 1
                                              ELSE pending[1][2]
<1>. DEFINE P == pre_op[c] \ failed
<1>1. P \subseteq child_up[c] /\ faults' = faults
    BY DEF Recorded, Moves
<1>2. o.cost = 0
    <2>1. o.cost \in Nat /\ faults \in Nat /\ faults' = faults + o.cost
        BY OutcomeAll DEF Suffer, SafeInv
    <2>. QED  BY <1>1, <2>1, SMT
<1>3. o.ack = P \cap child_up[c]
    BY <1>2, OutcomeAll
<1>4. o.done = P
    <2>1. o.ack \subseteq o.done /\ o.done \subseteq P \cap child_up[c]
        BY OutcomeIs, SMT
    <2>. QED  BY <1>1, <1>3, <2>1, SMTT(20)
<1>5. 1 \in P /\ 1 \in Brick /\ 2 \in Brick
    BY DEF SafeInv, TxnOK, Wound, TwoBricks
<1>6. \A i, j \in Brick : pending'[i][j] =
        IF i \in P /\ j \in failed THEN pending[i][j] + 1 ELSE pending[i][j]
    BY <1>4 DEF Xattrop
<1>. QED  BY <1>1, <1>4, <1>5, <1>6

LEMMA PostOpTxn ==
    ASSUME SafeInv, TwoBricks, NEW c \in Client, Recorded,
           afr_changelog_post_op_now(c)
    PROVE  /\ TxnOK(c)' /\ MapOK(c)' /\ UNCHANGED <<data, acked, cur>>
           /\ pc'[c] = "unlock" /\ failed_subvols[c] \subseteq failed_subvols'[c]
           /\ \A i \in Brick : pending'[i][1] = 0
           /\ pending'[1][2] \in {pending[1][2], pending[1][2] + 1}
           /\ cur[c] \in acked => op_ret'[c]
           /\ op_ret'[c] => /\ cur[c] \in data[1]
                            /\ \/ cur[c] \in data[2]
                               \/ /\ 2 \in failed_subvols'[c]
                                  /\ pending'[1][2] = pending[1][2] + 1
<1>. DEFINE failed == failed_subvols[c]
                      \cup IF QuorumLost(c) THEN pre_op[c] ELSE {}
            ok == op_ret[c] /\ ~QuorumLost(c)
<1>0. /\ Types /\ MapOK(c) /\ TxnOK(c) /\ pre_op[c] \subseteq Brick
      /\ pc[c] = "postop" /\ c \in Proc /\ failed_subvols[c] \subseteq Brick
      /\ \A i \in Brick : pending[i][1] = 0
    BY ClientTypes DEF SafeInv, CountInv, TypeInv, afr_changelog_post_op_now
<1>1. /\ pc \in [Client -> Phase] /\ op_ret \in [Client -> BOOLEAN]
      /\ failed_subvols \in [Client -> SUBSET Brick]
      /\ fresh \in [Client -> BOOLEAN]
    BY <1>0 DEF Types
<1>2. /\ pc'[c] = "unlock" /\ failed_subvols'[c] = failed
      /\ UNCHANGED <<data, cur, pre_op, read_subvol, acked>>
    BY <1>1 DEF afr_changelog_post_op_now, Goto
<1>3. QuorumLost(c) <=> op_ret[c] /\ 1 \notin pre_op[c] \ failed_subvols[c]
    <2>1. pre_op[c] \ failed_subvols[c] \in SUBSET Brick
        BY <1>0
    <2>. QED  BY <2>1, QuorumIs DEF QuorumLost
<1>4. /\ 1 \in pre_op[c]
      /\ op_ret[c] => Brick \ pre_op[c] \subseteq failed_subvols[c]
      /\ in_flight_sb[c] => 1 \in failed_subvols[c]
      /\ cur[c] \in acked => op_ret[c] /\ 1 \notin failed_subvols[c]
      /\ op_ret[c] => \A b \in pre_op[c] \ failed_subvols[c] :
                         b \in child_up[c] => cur[c] \in data[b]
    BY <1>0 DEF TxnOK, Wound
<1>5. TxnOK(c)'
    BY <1>2 DEF TxnOK, Wound
<1>6. cur[c] \in acked => ok /\ ~in_flight_sb[c]
    BY <1>3, <1>4
<1>7. CASE /\ (~ok /\ ~afr_txn_nothing_failed(c, failed)) \/ in_flight_sb[c]
           /\ op_ret' = [op_ret EXCEPT ![c] = FALSE]
           /\ UNCHANGED <<dirty, pending, net, fresh>>
    <2>1. op_ret'[c] = FALSE
        BY <1>1, <1>7
    <2>2. MapOK(c)'
        BY <1>0, <1>2, <1>7 DEF MapOK, net
    <2>. QED  BY <1>0, <1>2, <1>5, <1>6, <1>7, <2>1, <2>2
<1>8. CASE /\ (ok \/ afr_txn_nothing_failed(c, failed)) /\ ~in_flight_sb[c]
           /\ op_ret' = [op_ret EXCEPT ![c] = ok]
           /\ \E o \in Outcome(c, pre_op[c] \ failed) :
                 /\ Suffer(c, o) /\ Xattrop(o.done, -1, failed)
                 /\ IF o.lost = {} THEN UNCHANGED fresh ELSE Stale(c)
    <2>0. op_ret'[c] = ok
        BY <1>1, <1>8
    <2>1. PICK o \in Outcome(c, pre_op[c] \ failed) :
            /\ Suffer(c, o) /\ Xattrop(o.done, -1, failed)
            /\ IF o.lost = {} THEN UNCHANGED fresh ELSE Stale(c)
        BY <1>8
    <2>2. MapOK(c)'
        <3>1. child_up'[c] = child_up[c] \ o.lost
            BY <1>0, <2>1, BreakIs DEF Suffer
        <3>2. fresh' = fresh \/ Stale(c)
            BY <2>1
        <3>. QED  BY <1>0, <1>2, <3>1, <3>2 DEF Stale, MapOK
    <2>3. 1 \notin failed /\ failed \in SUBSET Brick
        <3>1. failed \in SUBSET Brick
            BY <1>0
        <3>2. CASE ok
            BY <1>3, <1>4, <3>1, <3>2
        <3>3. CASE pre_op[c] \cap failed = {}
            BY <1>4, <3>1, <3>3
        <3>. QED  BY <1>8, <3>2, <3>3 DEF afr_txn_nothing_failed
    <2>. HIDE DEF failed
    <2>4. /\ pre_op[c] \ failed \subseteq child_up[c]
          /\ \A i \in Brick : pending'[i][1] = pending[i][1]
          /\ pending'[1][2] = IF 2 \in failed THEN pending[1][2] + 1
                                             ELSE pending[1][2]
        BY <1>0, <1>2, <2>1, <2>3, PostOpWound
    <2>5. ASSUME ok, NEW b \in Brick, b \notin failed PROVE cur[c] \in data[b]
        <3>1. b \notin failed_subvols[c]
            BY <2>5 DEF failed
        <3>2. b \in pre_op[c] \ failed_subvols[c] /\ b \in child_up[c]
            BY <1>4, <2>4, <2>5, <3>1
        <3>. QED  BY <1>4, <2>5, <3>2
    <2>6. 1 \in Brick /\ 2 \in Brick
        BY DEF TwoBricks
    <2>7. failed_subvols[c] \subseteq failed
        BY DEF failed
    <2>. QED  BY <1>0, <1>2, <1>5, <1>6, <2>0, <2>2, <2>3, <2>4, <2>5, <2>6, <2>7
<1>. QED  BY <1>7, <1>8 DEF afr_changelog_post_op_now

LEMMA UnlockTxn ==
    ASSUME SafeInv, NEW c \in Client, afr_unlock(c)
    PROVE  /\ TxnOK(c)' /\ MapOK(c)' /\ pc[c] = "unlock" /\ pc'[c] = "idle"
           /\ UNCHANGED data
           /\ acked' = IF op_ret[c] THEN acked \cup {cur[c]} ELSE acked
<1>1. MapOK(c) /\ pc \in [Client -> Phase]
    BY DEF SafeInv, CountInv, TypeInv, Types
<1>2. pc[c] = "unlock" /\ pc'[c] = "idle"
    BY <1>1 DEF afr_unlock, Goto
<1>. QED  BY <1>1, <1>2 DEF afr_unlock, disk, Unwind, TxnOK, MapOK, Wound

(* What the step of a client may do to the writes of the others.           *)
LEMMA ClientData ==
    ASSUME SafeInv, TwoBricks, NEW c \in Client, ClientStep(c)
    PROVE  /\ \A b \in Brick : data[b] \subseteq data'[b]
           /\ acked' \subseteq acked \cup {cur[c]}
           /\ acked' = acked \/ pc[c] # "idle"
<1>1. CASE afr_transaction_fop(c)
    BY <1>1, FopTxn DEF afr_transaction_fop
<1>2. CASE afr_unlock(c)
    BY <1>2, UnlockTxn
<1>3. CASE ~afr_transaction_fop(c) /\ ~afr_unlock(c)
    BY <1>3 DEF ClientStep, afr_transaction, afr_lock, afr_changelog_pre_op,
       afr_changelog_fsync, afr_changelog_post_op_now, disk
<1>. QED  BY <1>1, <1>2, <1>3

LEMMA OthersTxn ==
    ASSUME SafeInv, TwoBricks, NEW c \in Client, ClientStep(c),
           NEW d \in Client, d # c
    PROVE  TxnOK(d)' /\ MapOK(d)'
<1>1. /\ TypeInv /\ Types /\ TxnOK(d) /\ MapOK(d) /\ pre_op[d] \subseteq Brick
    BY ClientTypes DEF SafeInv, CountInv, TypeInv
<1>2. /\ SameTxn(d) /\ Fewer(d) /\ child_up'[d] = child_up[d]
      /\ fresh'[d] = fresh[d]
    BY <1>1, OthersSame
<1>3. pc[d] # "idle" /\ cur[d] \in acked' => cur[d] \in acked
    <2>1. ASSUME pc[d] # "idle", pc[c] # "idle" PROVE cur[d] # cur[c]
        BY <1>1, <2>1, CurUnique
    <2>. QED  BY <2>1, ClientData
<1>4. TxnOK(d)'
    BY <1>1, <1>2, <1>3, ClientData, TxnKeep
<1>5. MapOK(d)'
    BY <1>1, <1>2 DEF MapOK, SameTxn
<1>. QED  BY <1>4, <1>5

LEMMA ToldQuiet ==
    ASSUME NEW c \in Client, \A d \in Client : d # c => SameTxn(d),
           acked' = acked, ~(pc'[c] = "unlock" /\ op_ret'[c]),
           pc[c] \in Wound => /\ pc'[c] \in Wound /\ cur'[c] = cur[c]
                              /\ failed_subvols[c] \subseteq failed_subvols'[c],
           NEW w \in Write
    PROVE  (Told(w)' => Told(w)) /\ (Missing(w) => Missing(w)')
<1>1. ASSUME NEW d \in Client, pc'[d] = "unlock", op_ret'[d], cur'[d] = w
      PROVE  Told(w)
    BY <1>1 DEF SameTxn, Told
<1>2. ASSUME NEW d \in Client, cur[d] = w, pc[d] \in Wound,
             2 \in failed_subvols[d]
      PROVE  Missing(w)'
    BY <1>2 DEF SameTxn, Missing
<1>. QED  BY <1>1, <1>2 DEF Told, Missing

LEMMA ToldStep ==
    ASSUME NEW w \in Write, ToldOK(w), Told(w)' => Told(w),
           Told(w) /\ Missing(w) => Missing(w)', Noted => Noted',
           data[1] \subseteq data'[1], data[2] \subseteq data'[2]
    PROVE  ToldOK(w)' /\ (Kept(w) => Kept(w)')
BY DEF ToldOK, Kept

LEMMA NotedKeep ==
    ASSUME CountInv, TwoBricks, UNCHANGED heal,
           pending'[1][2] \in {pending[1][2], pending[1][2] + 1}
    PROVE  /\ Noted => Noted'
           /\ pending'[1][2] = pending[1][2] + 1 => Noted'
<1>1. /\ pending \in [Brick -> [Brick -> Int]]
      /\ input_matrix \in [Shd -> [Brick -> [Brick -> Int]]]
    BY DEF CountInv, TypeInv, Types
<1>2. 1 \in Brick /\ 2 \in Brick
    BY DEF TwoBricks
<1>3. /\ pending[1][2] \in Int /\ PendingOK(1, 2)
      /\ \A s \in Shd : input_matrix[s][1][2] \in Int
    BY <1>1, <1>2, SMT DEF CountInv
<1>4. UNCHANGED <<hpc, input_matrix>>
    BY DEF heal
<1>. QED  BY <1>3, <1>4, SMT DEF Noted, PendingOK

(* The second brick keeps what it has to keep, or a write has just been    *)
(* recorded that it missed.                                                *)
StillKept(w) == Kept(w) /\ (\A d \in Client : 2 \notin failed_subvols'[d])
                  => Kept(w)'

LEMMA QuietTold ==
    ASSUME SafeInv, TwoBricks, Recorded, NEW c \in Client, UNCHANGED heal,
           \/ \E v \in Write : afr_transaction(c, v)
           \/ afr_lock(c) \/ afr_changelog_pre_op(c) \/ afr_changelog_fsync(c),
           NEW w \in Write
    PROVE  ToldOK(w)' /\ StillKept(w)
<1>0. /\ Types /\ ClientStep(c) /\ pc \in [Client -> Phase] /\ CountInv
      /\ ToldOK(w)
    BY DEF SafeInv, CountInv, TypeInv, Types, ClientStep
<1>1. \A d \in Client : d # c => SameTxn(d)
    BY <1>0, OthersSame
<1>2. UNCHANGED <<data, pending, acked>>
    <2>1. ASSUME NEW T, Xattrop(T, 1, {}) PROVE pending' = pending
        <3>1. pending \in [Brick -> [Brick -> Int]]
            BY <1>0 DEF Types
        <3>2. pending' = [b \in Brick |-> [j \in Brick |-> pending[b][j]]]
            BY <2>1 DEF Xattrop
        <3>. QED  BY <3>1, <3>2
    <2>. QED  BY <2>1 DEF afr_transaction, afr_lock, afr_changelog_pre_op,
                      afr_changelog_fsync, disk
<1>3. /\ ~(pc'[c] = "unlock" /\ op_ret'[c])
      /\ pc[c] \in Wound => /\ pc'[c] \in Wound /\ cur'[c] = cur[c]
                            /\ failed_subvols[c] \subseteq failed_subvols'[c]
    <2>1. CASE \E v \in Write : afr_transaction(c, v)
        BY <1>0, <2>1 DEF afr_transaction, Goto, Wound
    <2>2. CASE afr_lock(c)
        BY <2>2, LockTxn DEF afr_lock, Wound
    <2>3. CASE afr_changelog_pre_op(c) \/ afr_changelog_fsync(c)
        <3>1. failed_subvols[c] \subseteq failed_subvols'[c]
            BY <2>3, SyncTxn
        <3>. QED  BY <1>0, <2>3, <3>1 DEF afr_changelog_pre_op,
                     afr_changelog_fsync, Goto, Wound
    <2>. QED  BY <2>1, <2>2, <2>3
<1>4. (Told(w)' => Told(w)) /\ (Missing(w) => Missing(w)')
    BY <1>1, <1>2, <1>3, ToldQuiet
<1>5. Noted => Noted'
    BY <1>0, <1>2, NotedKeep
<1>. QED  BY <1>0, <1>2, <1>4, <1>5, ToldStep DEF StillKept

LEMMA FopTold ==
    ASSUME SafeInv, TwoBricks, NEW c \in Client, UNCHANGED heal,
           afr_transaction_fop(c), NEW w \in Write
    PROVE  ToldOK(w)' /\ StillKept(w)
<1>0. /\ Types /\ ClientStep(c) /\ CountInv /\ ToldOK(w) /\ pc[c] = "fop"
      /\ pc'[c] = "fsync" /\ pending' = pending /\ cur' = cur
    BY DEF SafeInv, CountInv, TypeInv, Types, ClientStep, afr_transaction_fop,
       Goto
<1>1. \A d \in Client : d # c => SameTxn(d)
    BY <1>0, OthersSame
<1>2. Noted => Noted'
    BY <1>0, NotedKeep
<1>3. Missing(w) => Missing(w)'
    BY <1>0, <1>1 DEF Missing, SameTxn, Wound
<1>4. Told(w)' => Told(w) \/ (w = cur[c] /\ cur[c] \in acked')
    BY <1>0, <1>1, FopTxn DEF Told, SameTxn
<1>5. CASE Told(w)' => Told(w)
    <2>1. data[1] \subseteq data'[1] /\ data[2] \subseteq data'[2]
        <3>1. 1 \in Brick /\ 2 \in Brick
            BY DEF TwoBricks
        <3>. QED  BY <3>1, FopTxn
    <2>. QED  BY <1>0, <1>2, <1>3, <1>5, <2>1, ToldStep DEF StillKept
<1>6. CASE w = cur[c] /\ cur[c] \in acked'
    <2>1. w \in data'[1] /\ (w \in data'[2] \/ Missing(w)')
        BY <1>0, <1>6, FopTxn DEF Missing, Wound
    <2>. QED  BY <2>1 DEF ToldOK, StillKept, Kept
<1>. QED  BY <1>4, <1>5, <1>6

LEMMA PostOpTold ==
    ASSUME SafeInv, TwoBricks, Recorded, NEW c \in Client, UNCHANGED heal,
           afr_changelog_post_op_now(c), NEW w \in Write
    PROVE  ToldOK(w)' /\ StillKept(w)
<1>0. /\ TypeInv /\ Types /\ ClientStep(c) /\ CountInv /\ ToldOK(w)
      /\ pc[c] = "postop" /\ pc'[c] = "unlock" /\ UNCHANGED <<data, acked, cur>>
    BY PostOpTxn DEF SafeInv, CountInv, TypeInv, ClientStep,
       afr_changelog_post_op_now
<1>1. \A d \in Client : d # c => SameTxn(d)
    BY <1>0, OthersSame
<1>2. Noted => Noted'
    BY <1>0, PostOpTxn, NotedKeep
<1>3. CASE cur[c] # w
    <2>1. Missing(w) => Missing(w)'
        BY <1>1, <1>3 DEF Missing, SameTxn
    <2>2. Told(w)' => Told(w)
        BY <1>0, <1>1, <1>3 DEF Told, SameTxn
    <2>. QED  BY <1>0, <1>2, <2>1, <2>2, ToldStep DEF StillKept
<1>4. CASE cur[c] = w
    <2>1. Told(w)' => op_ret'[c]
        <3>1. w \in acked => op_ret'[c]
            BY <1>4, PostOpTxn
        <3>2. ASSUME NEW d \in Client, pc'[d] = "unlock", cur'[d] = w PROVE d = c
            <4>1. ASSUME d # c PROVE pc[d] = "unlock" /\ cur[d] = w
                BY <1>1, <3>2, <4>1 DEF SameTxn
            <4>. QED  BY <1>0, <1>4, <4>1, CurUnique
        <3>. QED  BY <1>0, <3>1, <3>2 DEF Told
    <2>2. op_ret'[c] =>
            w \in data[1] /\ (w \in data[2] \/ (2 \in failed_subvols'[c] /\ Noted'))
        BY <1>0, <1>4, PostOpTxn, NotedKeep
    <2>. QED  BY <1>0, <2>1, <2>2 DEF ToldOK, StillKept, Kept
<1>. QED  BY <1>3, <1>4

LEMMA UnlockTold ==
    ASSUME SafeInv, TwoBricks, NEW c \in Client, UNCHANGED heal,
           afr_unlock(c), NEW w \in Write
    PROVE  ToldOK(w)' /\ StillKept(w)
<1>0. /\ Types /\ ClientStep(c) /\ CountInv /\ ToldOK(w) /\ pending' = pending
    BY DEF SafeInv, CountInv, TypeInv, ClientStep, afr_unlock, disk
<1>1. \A d \in Client : d # c => SameTxn(d)
    BY <1>0, OthersSame
<1>2. Noted => Noted'
    BY <1>0, NotedKeep
<1>3. /\ pc[c] = "unlock" /\ pc'[c] = "idle" /\ UNCHANGED data
      /\ acked' = IF op_ret[c] THEN acked \cup {cur[c]} ELSE acked
    BY UnlockTxn
<1>4. Missing(w) => Missing(w)'
    BY <1>1, <1>3 DEF Missing, SameTxn, Wound
<1>5. Told(w)' => Told(w)
    BY <1>1, <1>3 DEF Told, SameTxn
<1>. QED  BY <1>0, <1>2, <1>3, <1>4, <1>5, ToldStep DEF StillKept

LEMMA ClientSafe ==
    ASSUME SafeInv, TwoBricks, EnvOK, Next, NEW c \in Client, ClientStep(c),
           UNCHANGED heal
    PROVE  SafeInv'
<1>0. NoReturn /\ NoRefusal /\ Recorded /\ SourceStays /\ Types
    BY DEF EnvOK, SafeInv, CountInv, TypeInv
<1>1. CountInv' /\ faults' \in Nat
    BY <1>0, ClientCount, NextFaults DEF SafeInv
<1>2. ASSUME NEW d \in Client PROVE TxnOK(d)' /\ MapOK(d)'
    <2>1. CASE d # c
        BY <2>1, OthersTxn
    <2>2. TxnOK(c)' /\ MapOK(c)'
        BY <1>0, TransactionTxn, LockTxn, SyncTxn, FopTxn, PostOpTxn,
           UnlockTxn DEF ClientStep
    <2>. QED  BY <2>1, <2>2
<1>3. ASSUME NEW w \in Write PROVE ToldOK(w)' /\ StillKept(w)
    BY <1>0, QuietTold, FopTold, PostOpTold, UnlockTold DEF ClientStep
<1>4. ASSUME NEW s \in Shd PROVE HealOK(s)'
    <2>1. HealOK(s) /\ UNCHANGED <<hpc, source, sinks, healed_sinks, input_matrix>>
        BY DEF SafeInv, heal
    <2>2. hpc[s] = "data" /\ source[s] = 2 => \A w \in Write : Kept(w)'
        BY <1>0, <1>3, <2>1 DEF HealOK, StillKept, SourceStays
    <2>. QED  BY <2>1, <2>2 DEF HealOK
<1>5. ASSUME NEW i \in Brick PROVE pending'[i][1] = 0
    <2>1. CASE afr_changelog_post_op_now(c)
        BY <1>0, <2>1, PostOpTxn
    <2>2. CASE afr_changelog_pre_op(c)
        <3>1. pending'[i][1] = pending[i][1]
            BY <2>2, OneBrick, SMTT(20) DEF afr_changelog_pre_op, Xattrop
        <3>. QED  BY <3>1 DEF SafeInv
    <2>3. CASE ~afr_changelog_pre_op(c) /\ ~afr_changelog_post_op_now(c)
        BY <2>3 DEF ClientStep, afr_transaction, afr_lock, SafeInv,
           afr_transaction_fop, afr_changelog_fsync, afr_unlock, disk
    <2>. QED  BY <2>1, <2>2, <2>3
<1>. QED  BY <1>1, <1>2, <1>3, <1>4, <1>5 DEF SafeInv

----------------------------------------------------------------------------
(* Heals and faults                                                        *)

(* The writes, while neither the bricks nor the transactions move.         *)
LEMMA HealTold ==
    ASSUME UNCHANGED txn, NEW w
    PROVE  (Told(w)' <=> Told(w)) /\ (Missing(w)' <=> Missing(w))
BY DEF txn, Told, Missing

LEMMA HealTxn ==
    ASSUME SafeInv, NEW s \in Shd, HealStep(s), NEW d \in Client,
           \A b \in Brick : lock[b] # Free => data'[b] = data[b]
    PROVE  TxnOK(d)' /\ MapOK(d)'
<1>1. /\ Types /\ TxnOK(d) /\ MapOK(d) /\ Holds(d) /\ d # Free
      /\ pre_op[d] \subseteq Brick
    BY ClientTypes, ProcAssumption DEF SafeInv, CountInv, TypeInv, Proc
<1>2. /\ SameTxn(d) /\ Fewer(d) /\ UNCHANGED txn /\ child_up'[d] = child_up[d]
    BY <1>1, HealFrame
<1>3. pc[d] \in Wound => \A b \in pre_op[d] \cap child_up[d] : data'[b] = data[b]
    BY <1>1 DEF Holds, Wound
<1>4. TxnOK(d)'
    BY <1>1, <1>2, <1>3, TxnKeep DEF txn
<1>5. MapOK(d)'
    BY <1>1, <1>2 DEF MapOK, txn
<1>. QED  BY <1>4, <1>5

(* What a heal finds when it locks both bricks.                            *)
LEMMA DirectionIs ==
    ASSUME SafeInv, TwoBricks, NEW m, NEW e, NEW src \in FinalSources(m, e, Brick),
           \A i \in Brick : m[i][1] = 0, NEW b \in src
    PROVE  /\ b \in Brick /\ (b = 2 => m[1][2] = 0)
           /\ Sinks(m, Brick) \subseteq {2}
           /\ m[1][2] # 0 => 2 \in Sinks(m, Brick) /\ b = 1
<1>1. 1 \in Brick /\ 2 \in Brick /\ \A i \in Brick : i = 1 \/ i = 2
    BY DEF TwoBricks
<1>2. 1 \notin Accused(m) /\ 1 \notin SelfAccused(m)
    BY <1>1 DEF Accused, SelfAccused
<1>3. 1 \in Sources(m, Brick) /\ src \subseteq Sources(m, Brick)
    BY <1>1, <1>2 DEF Sources, FinalSources
<1>4. Sinks(m, Brick) = {j \in Brick :
        \E i \in Sources(m, Brick) \ SelfAccused(m) : m[i][j] # 0}
    BY <1>3 DEF Sinks
<1>5. Sinks(m, Brick) \subseteq {2}
    <2>1. ASSUME NEW j \in Sinks(m, Brick) PROVE j = 2
        <3>1. PICK i \in Sources(m, Brick) : m[i][j] # 0 /\ j \in Brick
            BY <1>4
        <3>2. i \in Brick
            BY DEF Sources
        <3>. QED  BY <1>1, <3>1, <3>2
    <2>. QED  BY <2>1
<1>6. m[1][2] # 0 => 2 \in Sinks(m, Brick) /\ 2 \in Accused(m)
    BY <1>1, <1>2, <1>3, <1>4 DEF Accused
<1>7. b \in Brick /\ b \notin Accused(m)
    BY <1>3 DEF Sources
<1>. QED  BY <1>1, <1>5, <1>6, <1>7

LEMMA PrepareSafe ==
    ASSUME SafeInv, TwoBricks, OneHealer, Next, NEW s \in Shd,
           __afr_selfheal_data_prepare(s)
    PROVE  SafeInv'
<1>. DEFINE m == afr_selfheal_extract_matrix(pending, Brick)
            e == afr_selfheal_extract_dirty(dirty, Brick)
<1>0. /\ CountInv /\ TypeInv /\ Types /\ HealStep(s) /\ child_up[s] \in SUBSET Brick
      /\ faults \in Nat /\ TypeInv'
    BY PrepareTypes DEF SafeInv, CountInv, TypeInv, Types, Proc, HealStep
<1>1. CountInv' /\ faults' \in Nat
    BY <1>0, PrepareCount, NextFaults
<1>2. child_up[s] = Brick
    <2>1. Cardinality(child_up[s]) >= 2
        BY DEF __afr_selfheal_data_prepare, AFR_SH_MIN_PARTICIPANTS
    <2>. QED  BY <1>0, <2>1 DEF TwoBricks
<1>3. /\ UNCHANGED <<data, dirty, pending, txn>>
    BY DEF __afr_selfheal_data_prepare, disk
<1>4. /\ source \in [Shd -> Brick] /\ sinks \in [Shd -> SUBSET Brick]
      /\ healed_sinks \in [Shd -> SUBSET Brick] /\ hpc \in [Shd -> HealPhase]
      /\ input_matrix \in [Shd -> [Brick -> [Brick -> Int]]]
    BY <1>0 DEF Types
<1>5. PICK src \in FinalSources(m, e, Brick) :
        /\ source' \in {[source EXCEPT ![s] = b] : b \in src}
        /\ \E o \in Outcome(s, Brick \ src) :
              healed_sinks' = [healed_sinks EXCEPT ![s] = o.ack]
    BY <1>2 DEF __afr_selfheal_data_prepare, afr_mark_active_sinks
<1>6. PICK b \in src : source'[s] = b
    BY <1>4, <1>5
<1>7. b \notin healed_sinks'[s]
    <2>1. PICK o \in Outcome(s, Brick \ src) :
            healed_sinks' = [healed_sinks EXCEPT ![s] = o.ack]
        BY <1>5
    <2>2. o.ack \subseteq Brick \ src
        BY <2>1, OutcomeIs, SMTT(20)
    <2>. QED  BY <1>4, <1>6, <2>1, <2>2
<1>8. /\ sinks'[s] = Sinks(m, Brick) /\ input_matrix'[s] = m /\ hpc'[s] = "data"
    BY <1>2, <1>4 DEF __afr_selfheal_data_prepare
<1>9. 1 \in Brick /\ 2 \in Brick
    BY DEF TwoBricks
<1>10. /\ \A i, j \in Brick : m[i][j] = pending[i][j]
    BY DEF afr_selfheal_extract_matrix
<1>11. /\ b \in Brick /\ (b = 2 => m[1][2] = 0)
       /\ Sinks(m, Brick) \subseteq {2}
       /\ m[1][2] # 0 => 2 \in Sinks(m, Brick) /\ b = 1
    <2>1. \A i \in Brick : m[i][1] = 0
        BY <1>9, <1>10 DEF SafeInv
    <2>. HIDE DEF m, e
    <2>. QED  BY <2>1, DirectionIs
<1>. HIDE DEF m
<1>12. \A u \in Shd : u = s
    BY DEF OneHealer
<1>13. Noted => Noted'
    BY <1>3, <1>8, <1>12 DEF Noted
<1>14. ASSUME NEW w \in Write PROVE ToldOK(w)'
    BY <1>3, <1>13, HealTold DEF SafeInv, ToldOK
<1>15. b = 2 => \A w \in Write : Kept(w)'
    <2>1. pending[1][2] = 0 => ~Noted
        BY SMT DEF Noted
    <2>. QED  BY <1>3, <1>9, <1>10, <1>11, <2>1, HealTold DEF SafeInv, ToldOK, Kept
<1>16. HealOK(s)'
    BY <1>6, <1>7, <1>8, <1>11, <1>15 DEF HealOK
<1>17. \A d \in Client : TxnOK(d)' /\ MapOK(d)'
    BY <1>0, <1>3, HealTxn
<1>. QED  BY <1>1, <1>3, <1>12, <1>14, <1>16, <1>17 DEF SafeInv

(* A heal that is over.                                                    *)
LEMMA ResetSafe ==
    ASSUME Types, OneHealer, NEW s \in Shd, HealReset(s), NEW u \in Shd
    PROVE  hpc'[u] = "idle" /\ HealOK(u)'
<1>1. hpc \in [Shd -> HealPhase] /\ u = s
    BY DEF Types, OneHealer
<1>2. hpc'[u] = "idle"
    BY <1>1 DEF HealReset
<1>. QED  BY <1>2 DEF HealOK

LEMMA MaxOne == Max({2}) = 2
<1>1. \E x \in {2} : \A y \in {2} : x >= y
    BY SMT
<1>. QED  BY <1>1 DEF Max

LEMMA CopySafe ==
    ASSUME SafeInv, TwoBricks, OneHealer, Next, SourceStays, NEW s \in Shd,
           afr_selfheal_data_do(s)
    PROVE  SafeInv'
<1>. DEFINE healed == healed_sinks[s]
<1>0. /\ CountInv /\ TypeInv /\ Types /\ HealStep(s) /\ faults \in Nat /\ TypeInv'
      /\ HealOK(s) /\ healed \subseteq Brick /\ source[s] \in Brick
    BY CopyTypes DEF SafeInv, CountInv, TypeInv, Types, HealStep
<1>1. CountInv' /\ faults' \in Nat
    BY <1>0, CopyCount, NextFaults
<1>2. /\ UNCHANGED <<dirty, pending, txn>> /\ hpc[s] = "data"
      /\ \A b \in child_up[s] : lock[b] = Free
    BY DEF afr_selfheal_data_do, Lockable
<1>3. \A u \in Shd : u = s
    BY DEF OneHealer
<1>4. /\ 1 \in Brick /\ 2 \in Brick /\ (\A b \in Brick : b = 1 \/ b = 2) /\ 1 # 2
    BY DEF TwoBricks
<1>5. HealReset(s) => (Noted => Noted') /\ \A u \in Shd : HealOK(u)'
    BY <1>0, <1>2, ResetSafe DEF Noted
<1>6. CASE HealReset(s) /\ UNCHANGED <<data, net>>
    <2>1. \A d \in Client : TxnOK(d)' /\ MapOK(d)'
        BY <1>0, <1>6, HealTxn
    <2>2. \A w \in Write : ToldOK(w)'
        BY <1>2, <1>5, <1>6, HealTold DEF SafeInv, ToldOK
    <2>. QED  BY <1>1, <1>2, <1>5, <1>6, <2>1, <2>2 DEF SafeInv
<1>7. ASSUME NEW o \in Outcome(s, healed),
             data' = [b \in Brick |->
                        IF b \in o.done THEN data[source[s]] ELSE data[b]],
             \/ HealReset(s)
             \/ /\ Max(healed) \in o.done
                /\ hpc' = [hpc EXCEPT ![s] = "undo"]
                /\ UNCHANGED <<source, sinks, input_dirty, input_matrix>>
      PROVE  SafeInv'
    <2>1. o.done \subseteq healed /\ o.done \subseteq child_up[s]
        BY <1>7, OutcomeIs, SMT
    <2>2. \A b \in Brick : lock[b] # Free => data'[b] = data[b]
        BY <1>2, <1>7, <2>1
    <2>3. \A d \in Client : TxnOK(d)' /\ MapOK(d)'
        BY <1>0, <2>2, HealTxn
    <2>4. /\ source[s] \notin healed
          /\ input_matrix[s][1][2] # 0 => source[s] = 1
          /\ source[s] = 2 => \A w \in Write : Kept(w)
        BY <1>0, <1>2 DEF HealOK
    <2>5. source[s] = 2 => \A w : ~Missing(w)
        BY <1>2 DEF SourceStays, Missing, txn
    <2>6. Noted => Noted' \/ 2 \in o.done
        <3>1. CASE HealReset(s)
            BY <1>5, <3>1
        <3>2. CASE /\ Max(healed) \in o.done
                   /\ hpc' = [hpc EXCEPT ![s] = "undo"]
                   /\ UNCHANGED <<source, sinks, input_dirty, input_matrix>>
            <4>1. CASE input_matrix[s][1][2] = 0
                BY <1>2, <1>3, <3>2, <4>1 DEF Noted
            <4>2. CASE input_matrix[s][1][2] # 0
                <5>1. Max(healed) \in healed
                    BY <2>1, <3>2
                <5>2. healed = {2}
                    BY <1>0, <1>4, <2>4, <4>2, <5>1
                <5>. QED  BY <3>2, <5>2, MaxOne
            <4>. QED  BY <4>1, <4>2
        <3>. QED  BY <1>7, <3>1, <3>2
    <2>7. ASSUME NEW w \in Write PROVE ToldOK(w)'
        <3>1. (Told(w)' <=> Told(w)) /\ (Missing(w)' <=> Missing(w)) /\ ToldOK(w)
            BY <1>2, HealTold DEF SafeInv
        <3>2. Told(w) => w \in data'[1]
            <4>1. 1 \in o.done => source[s] = 2
                BY <1>0, <1>4, <2>1, <2>4
            <4>2. 1 \in o.done => (Told(w) => w \in data[2])
                BY <2>4, <2>5, <4>1 DEF Kept
            <4>. QED  BY <1>4, <1>7, <3>1, <4>1, <4>2 DEF ToldOK
        <3>3. Told(w) => w \in data'[2] \/ Missing(w) \/ Noted'
            <4>1. CASE 2 \in o.done
                <5>1. source[s] = 1
                    BY <1>0, <1>4, <2>1, <2>4, <4>1
                <5>. QED  BY <1>4, <1>7, <3>1, <4>1, <5>1 DEF ToldOK
            <4>2. CASE 2 \notin o.done
                <5>1. data'[2] = data[2]
                    BY <1>4, <1>7, <4>2
                <5>. QED  BY <2>6, <3>1, <4>2, <5>1 DEF ToldOK
            <4>. QED  BY <4>1, <4>2
        <3>. QED  BY <3>1, <3>2, <3>3 DEF ToldOK
    <2>8. ASSUME NEW u \in Shd PROVE HealOK(u)'
        <3>1. CASE HealReset(s)
            BY <1>5, <3>1
        <3>2. CASE /\ hpc' = [hpc EXCEPT ![s] = "undo"]
                   /\ UNCHANGED <<source, sinks, input_dirty, input_matrix>>
            <4>1. hpc'[u] = "undo" /\ u = s
                BY <1>0, <1>3, <3>2 DEF Types
            <4>. QED  BY <1>0, <1>2, <3>2, <4>1 DEF HealOK
        <3>. QED  BY <1>7, <3>1, <3>2
    <2>. QED  BY <1>1, <1>2, <2>3, <2>7, <2>8 DEF SafeInv
<1>. QED  BY <1>6, <1>7 DEF afr_selfheal_data_do

LEMMA UndoCounts ==
    ASSUME SafeInv, TwoBricks, OneHealer, NEW s \in Shd,
           afr_selfheal_undo_pending(s)
    PROVE  /\ Noted => Noted'
           /\ \A i \in Brick : pending'[i][1] = 0
<1>0. /\ CountInv /\ Types /\ HealOK(s) /\ HealReset(s) /\ hpc[s] = "undo"
    BY DEF SafeInv, CountInv, TypeInv, afr_selfheal_undo_pending
<1>1. 1 \in Brick /\ 2 \in Brick /\ 1 # 2
    BY DEF TwoBricks
<1>2. \A i, j \in Brick : /\ pending[i][j] \in Int /\ PendingOK(i, j)
                          /\ input_matrix[s][i][j] \in Int
    <2>1. /\ pending \in [Brick -> [Brick -> Int]]
          /\ input_matrix \in [Shd -> [Brick -> [Brick -> Int]]]
        BY <1>0 DEF Types
    <2>. QED  BY <1>0, <2>1, SMT DEF CountInv
<1>3. ASSUME NEW i \in Brick PROVE pending'[i][1] = 0
    <2>1. 1 \notin sinks[s] /\ pending[i][1] = 0
        BY <1>0, <1>1 DEF HealOK, SafeInv
    <2>2. pending'[i][1] \in {pending[i][1], pending[i][1] - input_matrix[s][i][1]}
        BY <1>0, <1>1, <2>1, UndoEach
    <2>. QED  BY <1>1, <1>2, <2>1, <2>2, SMTT(20) DEF PendingOK
<1>4. Noted => Noted'
    <2>1. pending'[1][2] \in {pending[1][2], pending[1][2] + 1,
                              pending[1][2] - input_matrix[s][1][2]}
        BY <1>0, <1>1, UndoEach
    <2>2. Noted => pending'[1][2] > 0
        BY <1>0, <1>1, <1>2, <2>1, SMTT(20) DEF Noted
    <2>3. \A u \in Shd : hpc'[u] # "undo"
        BY <1>0, ResetSafe
    <2>. QED  BY <2>2, <2>3 DEF Noted
<1>. QED  BY <1>3, <1>4

LEMMA UndoSafe ==
    ASSUME SafeInv, TwoBricks, OneHealer, Next, NEW s \in Shd,
           afr_selfheal_undo_pending(s)
    PROVE  SafeInv'
<1>0. /\ CountInv /\ TypeInv /\ Types /\ HealStep(s) /\ faults \in Nat /\ TypeInv'
      /\ HealReset(s) /\ UNCHANGED <<data, txn>>
    BY UndoTypes DEF SafeInv, CountInv, TypeInv, HealStep,
       afr_selfheal_undo_pending
<1>1. CountInv' /\ faults' \in Nat
    BY <1>0, UndoCount, NextFaults
<1>2. \A w \in Write : ToldOK(w)'
    BY <1>0, UndoCounts, HealTold DEF SafeInv, ToldOK
<1>3. \A u \in Shd : HealOK(u)'
    BY <1>0, ResetSafe
<1>4. \A d \in Client : TxnOK(d)' /\ MapOK(d)'
    BY <1>0, HealTxn
<1>. QED  BY <1>1, <1>2, <1>3, <1>4, UndoCounts DEF SafeInv

(* A client that may lose its connections knows that its map is stale.     *)
LEMMA FaultMap ==
    ASSUME Types, Environment, NEW d \in Client, MapOK(d)
    PROVE  MapOK(d)'
<1>0. /\ d \in Proc /\ child_up \in [Proc -> SUBSET Brick]
      /\ read_subvol \in [Client -> SUBSET Brick]
      /\ fresh \in [Client -> BOOLEAN]
    BY DEF Proc, Types
<1>1. ASSUME NEW p \in Proc, NEW b \in Brick,
             Disconnect(p, b) \/ Reconnect(p, b)
      PROVE  MapOK(d)'
    <2>1. Stale(p) /\ read_subvol' = read_subvol
        BY <1>1 DEF Disconnect, Reconnect
    <2>2. p # d => child_up'[d] = child_up[d]
        BY <1>0, <1>1 DEF Disconnect, Reconnect, Break
    <2>. QED  BY <2>1, <2>2 DEF Stale, MapOK
<1>2. ASSUME NEW b \in Brick, BrickRestart(b) PROVE MapOK(d)'
    BY <1>0, <1>2 DEF BrickRestart, MapOK
<1>3. ASSUME NEW c \in Client, Crash(c) PROVE MapOK(d)'
    <2>1. CASE c = d
        BY <1>0, <1>3, <2>1 DEF Crash, MapOK
    <2>2. CASE c # d
        BY <1>0, <1>3, <2>2 DEF Crash, MapOK
    <2>. QED  BY <2>1, <2>2
<1>. QED  BY <1>1, <1>2, <1>3 DEF Environment

LEMMA FaultSafe ==
    ASSUME SafeInv, TwoBricks, EnvOK, Next, Environment, UNCHANGED heal
    PROVE  SafeInv'
<1>0. NoReturn /\ Recorded /\ Types /\ TypeInv /\ CountInv /\ faults \in Nat
    BY DEF EnvOK, SafeInv, CountInv, TypeInv
<1>1. CountInv' /\ faults' \in Nat
    BY <1>0, FaultCount, NextFaults
<1>2. UNCHANGED <<data, dirty, pending, acked>>
    BY DEF Environment, Disconnect, Reconnect, BrickRestart, Crash, disk
<1>3. ASSUME NEW d \in Client
      PROVE  \/ pc[d] # "idle" /\ pc'[d] = "idle"
             \/ SameTxn(d) /\ (pc[d] # "idle" => Fewer(d))
    <2>1. CASE Crash(d)
        BY <1>0, <2>1 DEF Crash, Goto, Types
    <2>. QED  BY <1>0, <2>1, FaultFrame
<1>4. ASSUME NEW d \in Client PROVE TxnOK(d)' /\ MapOK(d)'
    <2>1. MapOK(d)'
        BY <1>0, FaultMap DEF SafeInv
    <2>2. CASE pc'[d] = "idle"
        BY <2>1, <2>2 DEF TxnOK, Wound
    <2>3. CASE SameTxn(d) /\ (pc[d] # "idle" => Fewer(d))
        <3>1. TxnOK(d)
            BY DEF SafeInv
        <3>. QED  BY <1>2, <2>1, <2>3, <3>1, TxnKeep
    <2>. QED  BY <1>3, <2>1, <2>2, <2>3
<1>5. Noted => Noted'
    BY <1>0, <1>2, NotedKeep
<1>6. ASSUME NEW w \in Write PROVE ToldOK(w)' /\ (Kept(w) => Kept(w)')
    <2>1. Told(w)' => Told(w)
        BY <1>2, <1>3 DEF Told, SameTxn
    <2>2. Told(w) /\ Missing(w) => Missing(w)'
        <3>1. ASSUME Told(w), NEW d \in Client, cur[d] = w, pc[d] \in Wound,
                     2 \in failed_subvols[d]
              PROVE  Missing(w)'
            <4>1. w \in acked
                BY <1>0, <3>1, CurUnique DEF Told, Wound
            <4>2. pc'[d] # "idle"
                BY <3>1, <4>1 DEF Recorded, Wound, EnvOK
            <4>3. SameTxn(d)
                BY <1>3, <4>2
            <4>. QED  BY <3>1, <4>3 DEF SameTxn, Missing
        <3>. QED  BY <3>1 DEF Missing
    <2>. QED  BY <1>2, <1>5, <2>1, <2>2, ToldStep DEF SafeInv
<1>7. ASSUME NEW s \in Shd PROVE HealOK(s)'
    <2>1. HealOK(s) /\ UNCHANGED <<hpc, source, sinks, healed_sinks, input_matrix>>
        BY DEF SafeInv, heal
    <2>. QED  BY <1>6, <2>1 DEF HealOK
<1>. QED  BY <1>1, <1>2, <1>4, <1>6, <1>7 DEF SafeInv

LEMMA InitSafeInv ==
    ASSUME TwoBricks, Init
    PROVE  SafeInv
<1>1. CountInv /\ faults \in Nat
    BY InitCountInv, SMT DEF Init, TxnInit
<1>2. \A c \in Client : pc[c] = "idle" /\ ~fresh[c]
    BY DEF Init, TxnInit
<1>3. \A w : ~Told(w)
    BY <1>2 DEF Told, Init, TxnInit
<1>4. \A s \in Shd : hpc[s] = "idle"
    BY DEF Init, HealInit
<1>5. \A i \in Brick : pending[i][1] = 0
    BY OneBrick DEF Init, TxnInit, NoPending
<1>. QED  BY <1>1, <1>2, <1>3, <1>4, <1>5
          DEF SafeInv, TxnOK, MapOK, ToldOK, HealOK, Wound

LEMMA NextSafeInv ==
    ASSUME TwoBricks, OneHealer, SafeInv, [Next /\ EnvOK]_allVars
    PROVE  SafeInv'
<1>1. CASE Next /\ EnvOK /\ (\E c \in Client : ClientStep(c)) /\ UNCHANGED heal
    BY <1>1, ClientSafe
<1>2. CASE Next /\ EnvOK /\ \E s \in Shd : HealStep(s)
    BY <1>2, PrepareSafe, CopySafe, UndoSafe DEF HealStep, EnvOK
<1>3. CASE Next /\ EnvOK /\ Environment /\ UNCHANGED heal
    BY <1>3, FaultSafe
<1>4. CASE UNCHANGED allVars
    <2>1. CountInv'
        BY <1>4, NextCountInv DEF SafeInv
    <2>2. /\ UNCHANGED <<data, pending, child_up, faults, pc, cur, pre_op>>
          /\ UNCHANGED <<failed_subvols, op_ret, in_flight_sb, read_subvol, fresh>>
          /\ UNCHANGED <<acked, hpc, source, sinks, healed_sinks, input_matrix>>
        BY <1>4 DEF allVars, vars, disk, net, txn, heal
    <2>3. \A c \in Client : TxnOK(c)' /\ MapOK(c)'
        BY <2>2 DEF SafeInv, TxnOK, MapOK
    <2>4. \A w \in Write : (Told(w)' <=> Told(w)) /\ (Missing(w)' <=> Missing(w))
        BY <2>2 DEF Told, Missing
    <2>5. Noted' <=> Noted
        BY <2>2 DEF Noted
    <2>6. \A w \in Write : ToldOK(w)' /\ (Kept(w)' <=> Kept(w))
        BY <2>2, <2>4, <2>5 DEF SafeInv, ToldOK, Kept
    <2>7. \A s \in Shd : HealOK(s)'
        BY <2>2, <2>6 DEF SafeInv, HealOK
    <2>. QED  BY <2>1, <2>2, <2>3, <2>6, <2>7 DEF SafeInv
<1>. QED  BY <1>1, <1>2, <1>3, <1>4 DEF Next

----------------------------------------------------------------------------
(* Bricks that differ                                                      *)

(* A dirty count on b that outlasts the transactions and the heal.         *)
Excess(b) ==
    /\ dirty[b] > Owing(b)
    /\ \A s \in Shd : hpc[s] = "undo" => dirty[b] > input_dirty[s][b] + Owing(b)

(* Client c is to record on b that the other brick has failed.             *)
Accuses(c, b) == Owed(c, b) /\ pc[c] \in Wound /\ failed_subvols[c] # {}

(* What keeps the file marked for a heal.                                  *)
Marked ==
    \/ \E b \in Brick : Excess(b)
    \/ Noted
    \/ \E c \in Client, b \in Brick : Accuses(c, b)

DiffInv == SafeInv /\ (data[1] # data[2] => Marked)

LEMMA ExcessKeep ==
    ASSUME CountInv, Types', UNCHANGED heal, NEW b \in Brick, SlackUp(b)
    PROVE  /\ Excess(b) => Excess(b)'
           /\ Owing(b) = 1 /\ Owing(b)' = 0 /\ dirty'[b] = dirty[b] => Excess(b)'
<1>1. /\ dirty[b] \in Int /\ dirty'[b] \in Int /\ DirtyOK(b)
      /\ \A s \in Shd : input_dirty[s][b] \in Int
    BY DEF CountInv, TypeInv, Types
<1>2. Owing(b) \in {0, 1} /\ Owing(b)' \in {0, 1}
    BY DEF Owing
<1>3. UNCHANGED <<hpc, input_dirty>>
    BY DEF heal
<1>. QED  BY <1>1, <1>2, <1>3, SMTT(20) DEF Excess, SlackUp, DirtyOK

(* A client that no longer owes b leaves its dirty count up.               *)
LEMMA ExcessNew ==
    ASSUME CountInv, Types', UNCHANGED heal, NEW b \in Brick, SlackUp(b),
           dirty'[b] = dirty[b], NEW c \in Client, Owed(c, b), ~Owed(c, b)',
           \A d \in Client : d # c => (Owed(d, b)' => Owed(d, b))
    PROVE  Excess(b)'
<1>1. lock[b] = c
    BY OwedLock DEF CountInv
<1>2. \A d \in Client : d # c => ~Owed(d, b)
    BY <1>1, OwedLock DEF CountInv
<1>3. Owing(b) = 1 /\ Owing(b)' = 0
    BY <1>2 DEF Owing
<1>. QED  BY <1>3, ExcessKeep

LEMMA PostOpMarked ==
    ASSUME SafeInv, TwoBricks, EnvOK, Types', NEW c \in Client, UNCHANGED heal,
           afr_changelog_post_op_now(c), NEW b \in Brick, Accuses(c, b)
    PROVE  Marked'
<1>. DEFINE failed == failed_subvols[c]
                      \cup IF QuorumLost(c) THEN pre_op[c] ELSE {}
            ok == op_ret[c] /\ ~QuorumLost(c)
<1>0. /\ CountInv /\ Types /\ ClientStep(c) /\ Recorded /\ NoReturn /\ NoRefusal
      /\ pc[c] = "postop" /\ pc'[c] = "unlock" /\ 1 \in pre_op[c]
      /\ failed_subvols'[c] = failed
    <2>1. Types /\ TxnOK(c) /\ CountInv
        BY DEF SafeInv, CountInv, TypeInv
    <2>2. /\ pc \in [Client -> Phase]
          /\ failed_subvols \in [Client -> SUBSET Brick]
        BY <2>1 DEF Types
    <2>3. /\ pc[c] = "postop" /\ pc'[c] = "unlock"
          /\ failed_subvols'[c] = failed
        BY <2>2 DEF afr_changelog_post_op_now, Goto
    <2>. QED  BY <2>1, <2>3 DEF ClientStep, TxnOK, EnvOK, Wound
<1>1. SlackUp(b)
    BY <1>0, ClientSlack
<1>2. CASE UNCHANGED <<dirty, pending, net, fresh>>
    <2>1. ~Owed(c, b)' /\ Owed(c, b)
        BY <1>0 DEF Owed, Accuses
    <2>2. \A d \in Client : d # c => (Owed(d, b)' => Owed(d, b))
        BY <1>0, OthersHold
    <2>3. Excess(b)'
        BY <1>0, <1>1, <1>2, <2>1, <2>2, ExcessNew
    <2>. QED  BY <2>3 DEF Marked
<1>3. CASE /\ (ok \/ afr_txn_nothing_failed(c, failed)) /\ ~in_flight_sb[c]
           /\ \E o \in Outcome(c, pre_op[c] \ failed) :
                 Suffer(c, o) /\ Xattrop(o.done, -1, failed)
    <2>1. failed \in SUBSET Brick
        BY <1>0, ClientTypes
    <2>2. 1 \notin failed
        <3>1. pre_op[c] \ failed_subvols[c] \in SUBSET Brick
            BY <1>0, ClientTypes
        <3>2. ok => 1 \in pre_op[c] \ failed_subvols[c] /\ failed = failed_subvols[c]
            BY <3>1, QuorumIs DEF QuorumLost
        <3>3. afr_txn_nothing_failed(c, failed) => 1 \notin failed
            BY <1>0 DEF afr_txn_nothing_failed
        <3>. QED  BY <1>3, <3>2, <3>3
    <2>3. 2 \in failed
        <3>1. failed_subvols[c] # {} /\ failed_subvols[c] \subseteq failed
            BY DEF Accuses
        <3>2. \A i \in Brick : i = 1 \/ i = 2
            BY DEF TwoBricks
        <3>. HIDE DEF failed
        <3>. QED  BY <2>1, <2>2, <3>1, <3>2
    <2>. HIDE DEF failed
    <2>4. pending'[1][2] = pending[1][2] + 1
        BY <1>0, <1>3, <2>1, <2>2, <2>3, PostOpWound
    <2>5. Noted'
        BY <1>0, <2>4, NotedKeep
    <2>. QED  BY <2>5 DEF Marked
<1>. QED  BY <1>2, <1>3 DEF afr_changelog_post_op_now

LEMMA ClientMarked ==
    ASSUME SafeInv, TwoBricks, EnvOK, Types', NEW c \in Client, ClientStep(c),
           UNCHANGED heal, Marked
    PROVE  Marked'
<1>0. /\ CountInv /\ TypeInv /\ Types /\ NoReturn /\ NoRefusal /\ Recorded
      /\ \A d \in Client : Holds(d)
    BY DEF SafeInv, CountInv, TypeInv, EnvOK
<1>1. CASE \E b \in Brick : Excess(b)
    BY <1>0, <1>1, ClientSlack, ExcessKeep DEF Marked
<1>2. CASE Noted
    <2>1. pending'[1][2] \in {pending[1][2], pending[1][2] + 1}
        <3>1. CASE afr_changelog_post_op_now(c)
            BY <1>0, <3>1, PostOpTxn
        <3>2. CASE afr_changelog_pre_op(c)
            BY <3>2, SMTT(20) DEF afr_changelog_pre_op, Xattrop, TwoBricks
        <3>3. CASE ~afr_changelog_pre_op(c) /\ ~afr_changelog_post_op_now(c)
            BY <3>3 DEF ClientStep, afr_transaction, afr_lock,
               afr_transaction_fop, afr_changelog_fsync, afr_unlock, disk
        <3>. QED  BY <3>1, <3>2, <3>3
    <2>. QED  BY <1>0, <1>2, <2>1, NotedKeep DEF Marked
<1>3. ASSUME NEW d \in Client, NEW b \in Brick, Accuses(d, b)
      PROVE  Marked'
    <2>1. CASE d # c
        <3>1. Accuses(d, b)'
            BY <1>0, <1>3, <2>1, OthersSame DEF SameTxn, Accuses, Owed
        <3>. QED  BY <3>1 DEF Marked
    <2>2. CASE d = c
        <3>1. afr_changelog_fsync(c) \/ afr_changelog_post_op_now(c)
            BY <1>3, <2>2 DEF Accuses, Wound, ClientStep, afr_transaction,
               afr_lock, afr_changelog_pre_op, afr_transaction_fop, afr_unlock
        <3>2. CASE afr_changelog_post_op_now(c)
            BY <1>3, <2>2, <3>2, PostOpMarked
        <3>3. CASE afr_changelog_fsync(c)
            <4>1. /\ dirty' = dirty /\ pc'[c] = "postop"
                  /\ failed_subvols'[c] # {}
                <5>1. failed_subvols'[c] # {}
                    BY <1>0, <1>3, <2>2, <3>3, SyncTxn DEF Accuses
                <5>. QED  BY <1>0, <3>3, <5>1 DEF afr_changelog_fsync, disk, Goto,
                             Types
            <4>2. CASE Owed(c, b)'
                BY <4>1, <4>2 DEF Accuses, Wound, Marked
            <4>3. CASE ~Owed(c, b)'
                <5>1. \A e \in Client : e # c => (Owed(e, b)' => Owed(e, b))
                    BY <1>0, OthersHold
                <5>2. Owed(c, b)
                    BY <1>3, <2>2 DEF Accuses
                <5>3. Excess(b)'
                    BY <1>0, <4>1, <4>3, <5>1, <5>2, ClientSlack, ExcessNew
                <5>. QED  BY <5>3 DEF Marked
            <4>. QED  BY <4>2, <4>3
        <3>. QED  BY <3>1, <3>2, <3>3
    <2>. QED  BY <2>1, <2>2
<1>. QED  BY <1>1, <1>2, <1>3 DEF Marked

(* A write that reaches one brick: the client will accuse the other, or    *)
(* leaves the dirty count up there.                                        *)
LEMMA FopMarked ==
    ASSUME SafeInv, TwoBricks, EnvOK, Types', NEW c \in Client, UNCHANGED heal,
           afr_transaction_fop(c), data[1] = data[2], data'[1] # data'[2]
    PROVE  Marked'
<1>. DEFINE T == pre_op[c] \ failed_subvols[c]
<1>0. /\ CountInv /\ Types /\ TxnOK(c) /\ ClientStep(c) /\ NoReturn /\ NoRefusal
      /\ pc[c] = "fop" /\ pc'[c] = "fsync" /\ c \in Proc
      /\ UNCHANGED <<dirty, pre_op>>
    <2>1. Types /\ CountInv /\ TxnOK(c) /\ c \in Proc
        BY DEF SafeInv, CountInv, TypeInv, Proc
    <2>2. pc[c] = "fop" /\ pc'[c] = "fsync" /\ UNCHANGED <<dirty, pre_op>>
        BY <2>1 DEF afr_transaction_fop, Goto, Types
    <2>. QED  BY <2>1, <2>2 DEF ClientStep, EnvOK
<1>1. PICK o \in Outcome(c, T) : FopStep(c, o)
    BY FopIs
<1>2. /\ o.ack \subseteq o.done /\ o.done \subseteq T /\ o.done \subseteq child_up[c]
      /\ o.lost = T \ (o.ack \cup o.err) /\ o.err \cap o.done = {}
    BY <1>1, OutcomeIs, SMTT(20)
<1>3. child_up'[c] = child_up[c] \ o.lost
    BY <1>0, <1>1, BreakIs DEF FopStep, Suffer
<1>4. PICK i \in Brick, j \in Brick : i \in o.done /\ j \notin o.done
    <2>1. \A b \in Brick : data'[b] = IF b \in o.done THEN data[b] \cup {cur[c]}
                                                     ELSE data[b]
        BY <1>1 DEF FopStep
    <2>2. 1 \in Brick /\ 2 \in Brick
        BY DEF TwoBricks
    <2>3. ~(1 \in o.done <=> 2 \in o.done)
        BY <2>1, <2>2
    <2>. QED  BY <2>2, <2>3
<1>5. i \in T /\ Owed(c, i)
    BY <1>0, <1>2, <1>4 DEF Owed
<1>6. CASE i \in o.ack
    <2>1. failed_subvols'[c] = failed_subvols[c] \cup o.err \cup o.lost
        <3>1. failed_subvols \in [Client -> SUBSET Brick]
            BY <1>0 DEF Types
        <3>. QED  BY <1>1, <1>6, <3>1 DEF FopStep, afr_is_symmetric_error
    <2>2. j \in failed_subvols'[c]
        <3>1. Brick \ pre_op[c] \subseteq failed_subvols[c]
            BY <1>0 DEF TxnOK
        <3>. QED  BY <1>2, <1>4, <2>1, <3>1
    <2>3. i \notin failed_subvols'[c] /\ i \in child_up'[c]
        BY <1>2, <1>3, <1>4, <1>5, <1>6, <2>1
    <2>4. Accuses(c, i)'
        BY <1>0, <1>5, <2>2, <2>3 DEF Accuses, Owed, Wound
    <2>. QED  BY <2>4 DEF Marked
<1>7. CASE i \notin o.ack
    <2>1. i \notin child_up'[c]
        BY <1>2, <1>3, <1>4, <1>5, <1>7
    <2>2. ~Owed(c, i)'
        BY <2>1 DEF Owed
    <2>3. \A d \in Client : d # c => (Owed(d, i)' => Owed(d, i))
        BY <1>0, OthersHold
    <2>4. Excess(i)'
        BY <1>0, <1>5, <2>2, <2>3, ClientSlack, ExcessNew
    <2>. QED  BY <2>4 DEF Marked
<1>. QED  BY <1>6, <1>7

LEMMA FaultMarked ==
    ASSUME SafeInv, TwoBricks, EnvOK, Types', Environment, UNCHANGED heal, Marked
    PROVE  Marked'
<1>0. CountInv /\ Types /\ NoReturn
    BY DEF SafeInv, CountInv, TypeInv, EnvOK
<1>1. pending' = pending
    BY DEF Environment, Disconnect, Reconnect, BrickRestart, Crash, disk
<1>2. CASE \E b \in Brick : Excess(b)
    BY <1>0, <1>2, FaultSlack, ExcessKeep DEF Marked
<1>3. CASE Noted
    BY <1>0, <1>1, <1>3, NotedKeep DEF Marked
<1>4. ASSUME NEW d \in Client, NEW b \in Brick, Accuses(d, b)
      PROVE  Marked'
    <2>1. CASE ~Owed(d, b)'
        <3>1. Excess(b)'
            BY <1>0, <1>4, <2>1, FaultSlack, ExcessNew DEF Accuses
        <3>. QED  BY <3>1 DEF Marked
    <2>2. CASE Owed(d, b)'
        <3>1. SameTxn(d)
            <4>1. Crash(d) => pc'[d] = "idle"
                BY <1>0 DEF Crash, Goto, Types
            <4>. QED  BY <1>0, <2>2, <4>1, FaultFrame DEF Owed
        <3>2. Accuses(d, b)'
            BY <1>4, <2>2, <3>1 DEF Accuses, SameTxn
        <3>. QED  BY <3>2 DEF Marked
    <2>. QED  BY <2>1, <2>2
<1>. QED  BY <1>2, <1>3, <1>4 DEF Marked

(* A heal that is not, or no longer, about to undo takes no mark away that *)
(* it has not allowed for.                                                 *)
LEMMA HealMarked ==
    ASSUME SafeInv, NEW s \in Shd, HealStep(s), Types', Marked, Noted => Noted',
           \A u \in Shd : hpc'[u] # "undo",
           \A b \in Brick : \/ dirty'[b] = dirty[b]
                           \/ /\ dirty'[b] = dirty[b] - input_dirty[s][b]
                              /\ hpc[s] = "undo"
    PROVE  Marked'
<1>0. CountInv /\ Types
    BY DEF SafeInv, CountInv, TypeInv
<1>1. ASSUME NEW b \in Brick, Excess(b) PROVE Excess(b)'
    <2>1. dirty[b] \in Int /\ input_dirty[s][b] \in Int
        BY <1>0 DEF Types
    <2>2. /\ Owing(b) \in {0, 1} /\ Owing(b)' \in {0, 1}
          /\ Owing(b)' = 1 => Owing(b) = 1
        BY <1>0, HealHolds, OwingIs
    <2>3. dirty'[b] > Owing(b)'
        BY <1>1, <2>1, <2>2, SMTT(20) DEF Excess
    <2>. QED  BY <2>3 DEF Excess
<1>2. ASSUME NEW d \in Client, NEW b \in Brick, Accuses(d, b)
      PROVE  Accuses(d, b)'
    BY <1>0, <1>2, HealFrame DEF Accuses, Owed, SameTxn
<1>. QED  BY <1>1, <1>2 DEF Marked

(* A copy that leaves the bricks different has not been made.              *)
LEMMA CopyDiff ==
    ASSUME SafeInv, TwoBricks, NEW s \in Shd, afr_selfheal_data_do(s),
           data'[1] # data'[2]
    PROVE  HealReset(s) /\ data[1] # data[2]
<1>. DEFINE healed == healed_sinks[s]
<1>0. /\ healed \subseteq Brick /\ source[s] \in Brick /\ source[s] \notin healed
    BY DEF SafeInv, CountInv, TypeInv, Types, HealOK, afr_selfheal_data_do
<1>1. CASE HealReset(s) /\ UNCHANGED <<data, net>>
    BY <1>1
<1>2. ASSUME NEW o \in Outcome(s, healed),
             data' = [b \in Brick |->
                        IF b \in o.done THEN data[source[s]] ELSE data[b]],
             HealReset(s) \/ Max(healed) \in o.done
      PROVE  HealReset(s) /\ data[1] # data[2]
    <2>1. o.done \subseteq healed
        BY <1>2, OutcomeIs, SMTT(20)
    <2>2. /\ 1 \in Brick /\ 2 \in Brick /\ \A b \in Brick : b = 1 \/ b = 2
        BY DEF TwoBricks
    <2>3. \A b \in Brick : data'[b] = IF b \in o.done THEN data[source[s]] ELSE data[b]
        BY <1>2
    <2>4. \A b \in Brick : b \notin o.done
        <3>1. ASSUME NEW b \in Brick, b \in o.done PROVE FALSE
            <4>1. /\ data'[b] = data[source[s]] /\ b # source[s]
                  /\ data'[source[s]] = data[source[s]]
                BY <1>0, <2>1, <2>3, <3>1
            <4>. QED  BY <1>0, <2>2, <4>1
        <3>. QED  BY <3>1
    <2>5. o.done \subseteq Brick
        BY <1>0, <2>1
    <2>. QED  BY <1>2, <2>2, <2>3, <2>4, <2>5
<1>. QED  BY <1>1, <1>2 DEF afr_selfheal_data_do

LEMMA HealDiff ==
    ASSUME DiffInv, TwoBricks, OneHealer, Types', NEW s \in Shd, HealStep(s),
           data'[1] # data'[2]
    PROVE  Marked'
<1>0. Types /\ SafeInv /\ \A u \in Shd : u = s
    BY DEF DiffInv, SafeInv, CountInv, TypeInv, OneHealer
<1>1. CASE __afr_selfheal_data_prepare(s)
    <2>1. UNCHANGED <<data, dirty, pending>> /\ hpc'[s] = "data"
        BY <1>0, <1>1 DEF __afr_selfheal_data_prepare, disk, Types
    <2>2. \A u \in Shd : hpc'[u] # "undo"
        BY <1>0, <2>1
    <2>3. Noted => Noted'
        BY <2>1, <2>2 DEF Noted
    <2>. QED  BY <1>0, <2>1, <2>2, <2>3, HealMarked DEF DiffInv
<1>2. CASE afr_selfheal_data_do(s)
    <2>1. HealReset(s) /\ data[1] # data[2] /\ UNCHANGED <<dirty, pending>>
        BY <1>0, <1>2, CopyDiff DEF afr_selfheal_data_do
    <2>2. \A u \in Shd : hpc'[u] # "undo"
        BY <1>0, <2>1, ResetSafe
    <2>3. Noted => Noted'
        BY <2>1, <2>2 DEF Noted
    <2>. QED  BY <1>0, <2>1, <2>2, <2>3, HealMarked DEF DiffInv
<1>3. CASE afr_selfheal_undo_pending(s)
    <2>1. HealReset(s) /\ data' = data /\ hpc[s] = "undo"
        BY <1>3 DEF afr_selfheal_undo_pending
    <2>2. \A b \in Brick : \/ dirty'[b] = dirty[b]
                          \/ dirty'[b] = dirty[b] - input_dirty[s][b]
        BY <1>0, <1>3, UndoEach
    <2>3. \A u \in Shd : hpc'[u] # "undo"
        BY <1>0, <2>1, ResetSafe
    <2>4. Noted => Noted'
        BY <1>0, <1>3, UndoCounts
    <2>. QED  BY <1>0, <2>1, <2>2, <2>3, <2>4, HealMarked DEF DiffInv
<1>. QED  BY <1>1, <1>2, <1>3 DEF HealStep

LEMMA NextDiffInv ==
    ASSUME TwoBricks, OneHealer, DiffInv, [Next /\ EnvOK]_allVars
    PROVE  DiffInv'
<1>0. SafeInv /\ SafeInv' /\ Types'
    <2>1. SafeInv'
        BY NextSafeInv DEF DiffInv
    <2>. QED  BY <2>1 DEF DiffInv, SafeInv, CountInv, TypeInv
<1>. SUFFICES ASSUME data'[1] # data'[2] PROVE Marked'
    BY <1>0 DEF DiffInv
<1>1. ASSUME EnvOK, NEW c \in Client, ClientStep(c), UNCHANGED heal
      PROVE  Marked'
    <2>1. CASE data[1] # data[2]
        BY <1>0, <1>1, <2>1, ClientMarked DEF DiffInv
    <2>2. CASE data[1] = data[2]
        <3>1. data' # data
            BY <2>2
        <3>2. afr_transaction_fop(c)
            BY <1>1, <3>1 DEF ClientStep, afr_transaction, afr_lock,
               afr_changelog_pre_op, afr_changelog_fsync,
               afr_changelog_post_op_now, afr_unlock, disk
        <3>. QED  BY <1>0, <1>1, <2>2, <3>2, FopMarked
    <2>. QED  BY <2>1, <2>2
<1>2. ASSUME NEW s \in Shd, HealStep(s) PROVE Marked'
    BY <1>0, <1>2, HealDiff
<1>3. ASSUME EnvOK, Environment, UNCHANGED heal PROVE Marked'
    <2>1. data' = data
        BY <1>3 DEF Environment, Disconnect, Reconnect, BrickRestart, Crash, disk
    <2>. QED  BY <1>0, <1>3, <2>1, FaultMarked DEF DiffInv
<1>4. CASE UNCHANGED allVars
    <2>1. UNCHANGED <<data, dirty, pending, child_up, pc, pre_op, failed_subvols,
                      hpc, input_dirty, input_matrix>>
        BY <1>4 DEF allVars, vars, disk, net, txn, heal
    <2>. QED  BY <2>1 DEF DiffInv, Marked, Excess, Owing, Owed, Noted, Accuses
<1>. QED  BY <1>1, <1>2, <1>3, <1>4 DEF Next

LEMMA InitDiffInv ==
    ASSUME TwoBricks, Init
    PROVE  DiffInv
<1>1. data[1] = data[2]
    BY DEF Init, TxnInit, TwoBricks
<1>. QED  BY <1>1, InitSafeInv DEF DiffInv

(* What the invariant says of the three properties.                        *)
LEMMA DiffAcked ==
    ASSUME TwoBricks, DiffInv
    PROVE  AckedSurvives
<1>1. acked \subseteq Write
    BY DEF DiffInv, SafeInv, CountInv, TypeInv, Types
<1>2. \A w \in acked : w \in data[1]
    BY <1>1 DEF DiffInv, SafeInv, ToldOK, Told
<1>. QED  BY <1>2 DEF AckedSurvives, TwoBricks

LEMMA DiffSources ==
    ASSUME TwoBricks, DiffInv
    PROVE  SourcesHaveAcked
<1>. SUFFICES ASSUME Quiet, NEW src \in FinalSources(pending, dirty, Brick),
                     NEW b \in src, NEW w \in acked
              PROVE  w \in data[b]
    BY DEF SourcesHaveAcked
<1>0. SafeInv /\ \A i \in Brick : pending[i][1] = 0
    BY DEF DiffInv, SafeInv
<1>1. b \in Brick /\ (b = 2 => pending[1][2] = 0)
    BY <1>0, DirectionIs
<1>2. w \in Write
    BY DEF DiffInv, SafeInv, CountInv, TypeInv, Types
<1>3. w \in data[1] /\ (w \in data[2] \/ Missing(w) \/ Noted)
    BY <1>0, <1>2 DEF SafeInv, ToldOK, Told
<1>4. ~Missing(w)
    BY DEF Quiet, Missing, Wound
<1>5. b = 2 => ~Noted
    <2>1. ~(0 > 0)
        BY SMT
    <2>. QED  BY <1>1, <2>1 DEF Noted
<1>6. b = 1 \/ b = 2
    BY <1>1 DEF TwoBricks
<1>. QED  BY <1>3, <1>4, <1>5, <1>6

LEMMA DiffClean ==
    ASSUME TwoBricks, DiffInv
    PROVE  CleanIsEqual
<1>. SUFFICES ASSUME Quiet, Clean PROVE data[1] = data[2]
    BY DEF CleanIsEqual, TwoBricks
<1>0. 1 \in Brick /\ 2 \in Brick /\ ~(0 > 0) /\ ~(0 > 1)
    <2>1. ~(0 > 0) /\ ~(0 > 1)
        BY SMT
    <2>. QED  BY <2>1 DEF TwoBricks
<1>1. \A i \in Brick : dirty[i] = 0
    BY DEF Clean, NoDirty
<1>2. pending[1][2] = 0
    BY <1>0 DEF Clean, NoPending
<1>3. \A i \in Brick : ~Excess(i)
    BY <1>0, <1>1 DEF Excess, Owing
<1>4. ~Noted
    BY <1>0, <1>2 DEF Noted
<1>5. \A c \in Client, i \in Brick : ~Accuses(c, i)
    BY DEF Quiet, Accuses, Wound
<1>. QED  BY <1>3, <1>4, <1>5 DEF DiffInv, Marked

(* The one other brick's entry is all that afr_selfheal_find_direction     *)
(* adds up for a brick of two.                                             *)
LEMMA SumOfOne ==
    ASSUME NEW m, NEW i, NEW j
    PROVE  MapThenSumSet(LAMBDA k : m[i][k], {j}) = m[i][j] + 0
<1>. DEFINE pick(s) == CHOOSE x \in s : TRUE
            F(g) == [s \in SUBSET {j} |->
                        IF s = {} THEN 0 ELSE m[i][pick(s)] + g[s \ {pick(s)}]]
            sum == [s \in SUBSET {j} |-> IF s = {} THEN 0 ELSE m[i][j] + 0]
            it == CHOOSE g : g = F(g)
<1>1. pick({j}) = j /\ {j} \ {pick({j})} = {}
    BY SMTT(20)
<1>2. sum = F(sum)
    <2>1. \A s \in SUBSET {j} :
             s # {} => pick(s) = j /\ s \ {pick(s)} = {} /\ {} \in SUBSET {j}
        BY SMT
    <2>. QED  BY <2>1, SMTT(20)
<1>3. it = F(it)
    <2>. HIDE DEF F, sum
    <2>. QED  BY <1>2, SMT
<1>4. it[{j}] = m[i][pick({j})] + it[{j} \ {pick({j})}] /\ it[{}] = 0
    <2>1. /\ F(it)[{j}] = m[i][pick({j})] + it[{j} \ {pick({j})}]
          /\ F(it)[{}] = 0
        <3>. HIDE DEF it, pick
        <3>. QED  BY SMT
    <2>. HIDE DEF F, it, pick
    <2>. QED  BY <1>3, <2>1
<1>5. it[{j}] = m[i][j] + 0
    <2>. HIDE DEF it, pick
    <2>. QED  BY <1>1, <1>4
<1>6. MapThenSumSet(LAMBDA k : m[i][k], {j}) = it[{j}]
    BY DEF MapThenSumSet, MapThenFoldSet
<1>. QED  BY <1>5, <1>6

LEMMA WitnessTypes ==
    ASSUME TwoBricks, NEW m \in [Brick -> [Brick -> Int]],
           NEW d \in [Brick -> Int], NEW i \in Brick
    PROVE  Witness(m, d)[i] \in Int
<1>. DEFINE sum == MapThenSumSet(LAMBDA k : m[i][k], Brick \ {i})
            self == IF HavePending(m) = {} \/ i \in HavePending(m)
                      THEN m[i][i] ELSE 0
<1>1. PICK j \in Brick : Brick \ {i} = {j}
    <2>1. Brick = {1, 2} /\ 1 # 2
        BY DEF TwoBricks
    <2>. QED  BY <2>1, SMTT(20)
<1>2. sum = m[i][j] + 0
    <2>1. MapThenSumSet(LAMBDA k : m[i][k], {j}) = m[i][j] + 0
        BY SumOfOne
    <2>. QED  BY <1>1, <2>1
<1>3. Witness(m, d)[i]
        = Unsigned(d[i] + (IF i \in SelfAccused(m) THEN self + sum ELSE 0))
    BY DEF Witness
<1>4. sum \in Int /\ self \in Int /\ d[i] \in Int
    <2>. HIDE DEF sum
    <2>. QED  BY <1>2, SMTT(20)
<1>. HIDE DEF sum, self
<1>. QED  BY <1>3, <1>4, SMTT(20) DEF Unsigned, UINT64_TOP

LEMMA SafeNoSplitBrain ==
    ASSUME TwoBricks, SafeInv
    PROVE  NoSplitBrain
<1>. DEFINE src == Sources(pending, Brick)
            wit == Witness(pending, dirty)
            most == {i \in src : \A j \in src : wit[j] <= wit[i]}
<1>1. 1 \in Brick /\ 2 \in Brick /\ 1 # 2 /\ \A i \in Brick : i = 1 \/ i = 2
    BY DEF TwoBricks
<1>2. \A i \in Brick : pending[i][1] = 0
    BY DEF SafeInv
<1>3. 1 \in src /\ src \subseteq Brick
    BY <1>1, <1>2 DEF Sources, Accused
<1>4. 1 \notin Sinks(pending, Brick)
    BY <1>2, <1>3 DEF Sinks
<1>5. wit[1] \in Int /\ wit[2] \in Int
    <2>1. /\ pending \in [Brick -> [Brick -> Int]]
          /\ dirty \in [Brick -> Int]
        BY DEF SafeInv, CountInv, TypeInv, Types
    <2>. QED  BY <1>1, <2>1, WitnessTypes
<1>6. most # {}
    <2>. HIDE DEF src, wit
    <2>1. 2 \notin src => 1 \in most
        BY <1>1, <1>3, <1>5, SMTT(20)
    <2>2. 2 \in src => 1 \in most \/ 2 \in most
        BY <1>1, <1>3, <1>5, SMTT(20)
    <2>. QED  BY <2>1, <2>2
<1>7. PICK i \in src : i \in most
    BY <1>6
<1>8. src # {} /\ Sinks(pending, Brick) \cap Brick # Brick
    BY <1>1, <1>3, <1>4
<1>9. FinalSources(pending, dirty, Brick)
        = IF \A k \in src : wit[k] = 0 THEN {src} ELSE {{k} : k \in most}
    BY <1>8 DEF FinalSources
<1>. HIDE DEF src, wit, most
<1>. QED  BY <1>7, <1>9 DEF NoSplitBrain

----------------------------------------------------------------------------
(* Counting bricks                                                         *)

LOCAL FT == INSTANCE FiniteSetTheorems

(* The finite sets of the library are those of the model.                  *)
LEMMA SameCount ==
    ASSUME NEW S
    PROVE  /\ FT!Cardinality(S) = Cardinality(S)
           /\ FT!IsFiniteSet(S) <=> IsFiniteSet(S)
BY DEF FT!Cardinality, FT!IsFiniteSet, Cardinality, IsFiniteSet

LEMMA BricksFinite == IsFiniteSet(Brick) /\ Cardinality(Brick) = ChildCount
<1>1. 1 \in Int /\ ChildCount \in Int /\ 1 <= ChildCount
    BY ChildCountAssumption, SMTT(20)
<1>2. /\ FT!IsFiniteSet(1..ChildCount)
      /\ FT!Cardinality(1..ChildCount)
           = IF 1 > ChildCount THEN 0 ELSE ChildCount - 1 + 1
    BY <1>1, FT!FS_Interval
<1>3. ~(1 > ChildCount) /\ ChildCount - 1 + 1 = ChildCount
    BY <1>1, SMTT(20)
<1>. QED  BY <1>2, <1>3, SameCount DEF Brick

(* A set of bricks has at most priv->child_count members, and two that are *)
(* disjoint have at most so many together.                                 *)
LEMMA BrickCount ==
    ASSUME NEW S \in SUBSET Brick, NEW T \in SUBSET Brick
    PROVE  /\ Cardinality(S) \in Nat /\ Cardinality(T) \in Nat
           /\ S \cap T = {} => Cardinality(S) + Cardinality(T) <= ChildCount
<1>2. IsFiniteSet(S) /\ IsFiniteSet(T)
    BY BricksFinite, FT!FS_Subset, SameCount
<1>3. Cardinality(S) \in Nat /\ Cardinality(T) \in Nat
    BY <1>2, FT!FS_CardinalityType, SameCount
<1>4. ASSUME S \cap T = {}
      PROVE  Cardinality(S) + Cardinality(T) <= ChildCount
    <2>1. Cardinality(S \cup T)
            = Cardinality(S) + Cardinality(T) - Cardinality(S \cap T)
        <3>1. FT!IsFiniteSet(S) /\ FT!IsFiniteSet(T)
            BY <1>2, SameCount
        <3>2. FT!Cardinality(S \cup T)
                = FT!Cardinality(S) + FT!Cardinality(T) - FT!Cardinality(S \cap T)
            BY <3>1, FT!FS_Union
        <3>. QED  BY <3>2, SameCount
    <2>2. Cardinality(S \cap T) = 0
        BY <1>4, FT!FS_EmptySet, SameCount
    <2>3. Cardinality(S \cup T) <= Cardinality(Brick)
        <3>1. S \cup T \in SUBSET Brick
            OBVIOUS
        <3>. QED  BY <3>1, BricksFinite, FT!FS_Subset, SameCount
    <2>. QED  BY <2>1, <2>2, <2>3, <1>3, BricksFinite, ChildCountAssumption, SMTT(20)
<1>. QED  BY <1>3, <1>4

(* With automatic quorum, two sets of bricks that afr_has_quorum accepts   *)
(* share a brick, also when a client counts exactly half of the bricks:    *)
(* the writes of two clients that a partition separates cannot both pass   *)
(* afr_handle_quorum without a brick that has seen both.                   *)
THEOREM QuorumsIntersect ==
    ASSUME QuorumCount = AFR_QUORUM_AUTO,
           NEW S \in SUBSET Brick, NEW T \in SUBSET Brick,
           afr_has_quorum(S), afr_has_quorum(T)
    PROVE  S \cap T # {}
<1>. SUFFICES ASSUME S \cap T = {} PROVE FALSE
    OBVIOUS
<1>. DEFINE s == Cardinality(S)  t == Cardinality(T)
<1>1. s \in Nat /\ t \in Nat /\ s + t <= ChildCount
    BY BrickCount
<1>2. IF 2 * s = ChildCount THEN 1 \in S ELSE s >= ChildCount \div 2 + 1
    BY DEF afr_has_quorum
<1>3. IF 2 * t = ChildCount THEN 1 \in T ELSE t >= ChildCount \div 2 + 1
    BY DEF afr_has_quorum
<1>4. CASE 2 * s = ChildCount /\ 2 * t = ChildCount
    BY <1>2, <1>3, <1>4
<1>5. CASE ~(2 * s = ChildCount /\ 2 * t = ChildCount)
    <2>. HIDE DEF s, t
    <2>1. 2 * s >= ChildCount /\ 2 * t >= ChildCount
        BY <1>1, <1>2, <1>3, ChildCountAssumption, SMTT(20)
    <2>. QED  BY <2>1, <1>1, <1>5, ChildCountAssumption, SMTT(20)
<1>. QED  BY <1>4, <1>5

LEMMA TwoBricksQuorum ==
    ASSUME ChildCount = 2, QuorumCount = AFR_QUORUM_AUTO
    PROVE  TwoBricks
<1>1. Brick = {1, 2} /\ 1 # 2
    BY SMTT(20) DEF Brick
<1>2. QuorumCount # 0
    BY SMTT(20) DEF AFR_QUORUM_AUTO
<1>3. Cardinality(Brick) = 2 /\ IsFiniteSet(Brick)
    BY BricksFinite
<1>4. ASSUME NEW S \in SUBSET Brick
      PROVE  /\ afr_has_quorum(S) <=> 1 \in S
             /\ Cardinality(S) >= 2 => S = Brick
    <2>1. S = {} \/ S = {1} \/ S = {2} \/ S = Brick
        BY <1>1
    <2>2. CASE S = {}
        <3>1. Cardinality(S) = 0
            BY <2>2, FT!FS_EmptySet, SameCount
        <3>. QED  BY <2>2, <3>1, SMTT(20) DEF afr_has_quorum
    <2>3. CASE S = {1} \/ S = {2}
        <3>1. Cardinality(S) = 1
            BY <2>3, FT!FS_Singleton, SameCount
        <3>. QED  BY <3>1, SMTT(20) DEF afr_has_quorum
    <2>4. CASE S = Brick
        BY <1>1, <1>3, <2>4, SMTT(20) DEF afr_has_quorum
    <2>. QED  BY <2>1, <2>2, <2>3, <2>4
<1>5. ASSUME NEW S \in SUBSET {{"lost", "late"}, {"err"}}
      PROVE  Cardinality(S) \in Nat /\ (Cardinality(S) = 0 => S = {})
    <2>. DEFINE A == {{"lost", "late"}}  B == {{"err"}}
    <2>1. FT!IsFiniteSet(A) /\ FT!IsFiniteSet(B)
        BY FT!FS_Singleton
    <2>2. FT!IsFiniteSet(A \cup B)
        <3>. HIDE DEF A, B
        <3>. QED  BY <2>1, FT!FS_Union
    <2>3. S \in SUBSET (A \cup B)
        OBVIOUS
    <2>4. FT!IsFiniteSet(S)
        <3>. HIDE DEF A, B
        <3>. QED  BY <2>2, <2>3, FT!FS_Subset
    <2>5. FT!Cardinality(S) \in Nat
        BY <2>4, FT!FS_CardinalityType
    <2>6. FT!Cardinality(S) = 0 => S = {}
        BY <2>4, FT!FS_EmptySet
    <2>. QED  BY <2>5, <2>6, SameCount
<1>. QED  BY <1>1, <1>2, <1>4, <1>5 DEF TwoBricks

----------------------------------------------------------------------------
(* A replica of two bricks                                                 *)

LEMMA ReplicaTwoInv ==
    ASSUME ChildCount = 2, QuorumCount = AFR_QUORUM_AUTO, OneHealer
    PROVE  EnvSpec => []DiffInv
<1>1. TwoBricks
    BY TwoBricksQuorum
<1>2. Init => DiffInv
    BY <1>1, InitDiffInv
<1>3. DiffInv /\ [Next /\ EnvOK]_allVars => DiffInv'
    BY <1>1, NextDiffInv
<1>. QED  BY <1>2, <1>3, PTL DEF EnvSpec

(* A write that afr_writev_unwind has acknowledged stays on a brick,       *)
(* however many clients write and whatever the self-heals copy.            *)
THEOREM ReplicaTwoKeepsAcked ==
    ASSUME ChildCount = 2, QuorumCount = AFR_QUORUM_AUTO, OneHealer
    PROVE  EnvSpec => []AckedSurvives
<1>1. DiffInv => AckedSurvives
    BY TwoBricksQuorum, DiffAcked
<1>. QED  BY <1>1, ReplicaTwoInv, PTL

(* Once nothing is under way, every brick that                             *)
(* __afr_selfheal_data_finalize_source may copy from has every             *)
(* acknowledged write: no heal takes a stale brick for a source.           *)
THEOREM ReplicaTwoSources ==
    ASSUME ChildCount = 2, QuorumCount = AFR_QUORUM_AUTO, OneHealer
    PROVE  EnvSpec => []SourcesHaveAcked
<1>1. DiffInv => SourcesHaveAcked
    BY TwoBricksQuorum, DiffSources
<1>. QED  BY <1>1, ReplicaTwoInv, PTL

(* Once nothing is under way and the changelog is zero, the bricks are     *)
(* equal: neither afr_changelog_post_op_now nor afr_selfheal_undo_pending  *)
(* takes back the last mark of a brick that differs.                       *)
THEOREM ReplicaTwoClean ==
    ASSUME ChildCount = 2, QuorumCount = AFR_QUORUM_AUTO, OneHealer
    PROVE  EnvSpec => []CleanIsEqual
<1>1. DiffInv => CleanIsEqual
    BY TwoBricksQuorum, DiffClean
<1>. QED  BY <1>1, ReplicaTwoInv, PTL

(* The file is never in split-brain: afr_handle_quorum and the lock of the *)
(* first brick leave nobody to accuse it, so                               *)
(* __afr_selfheal_data_finalize_source always finds a source.              *)
THEOREM ReplicaTwoNoSplitBrain ==
    ASSUME ChildCount = 2, QuorumCount = AFR_QUORUM_AUTO, OneHealer
    PROVE  EnvSpec => []NoSplitBrain
<1>1. DiffInv => NoSplitBrain
    BY TwoBricksQuorum, SafeNoSplitBrain DEF DiffInv
<1>. QED  BY <1>1, ReplicaTwoInv, PTL
============================================================================
