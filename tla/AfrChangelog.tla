--------------------------- MODULE AfrChangelog ---------------------------
(***************************************************************************)
(* The decisions the replicate translator (cluster/afr) takes from the     *)
(* changelog its bricks keep with every file: which bricks may be read,    *)
(* which are sources and sinks of a self-heal, what a finished heal takes  *)
(* back, and when a set of bricks is a quorum.                             *)
(*                                                                         *)
(* A changelog is the pair of trusted.afr.dirty and trusted.afr.<vol>-     *)
(* client-<j> on every brick: dirty[i] counts the transactions brick i has *)
(* seen start and not end, pending[i][j] the operations brick i knows that *)
(* brick j missed.  The operators take the part of it that replies from    *)
(* the bricks R have brought (afr_selfheal_extract_xattr leaves the rest   *)
(* zero).                                                                  *)
(***************************************************************************)
EXTENDS Integers, FiniteSets, FiniteSetsExt

CONSTANTS
    ChildCount,   \* priv->child_count, the number of bricks
    QuorumCount   \* priv->quorum_count: 0 (none), a count, or AFR_QUORUM_AUTO

AFR_QUORUM_AUTO == 2147483647

ASSUME ChildCountAssumption == ChildCount \in Nat \ {0}
ASSUME QuorumCountAssumption ==
    QuorumCount \in 0..ChildCount \cup {AFR_QUORUM_AUTO}

(* priv->children; brick 1 is the source's subvols[0].                     *)
Brick == 1..ChildCount

(***************************************************************************)
(* afr_has_quorum: automatic quorum is a majority, where exactly half      *)
(* counts if it has the first brick.                                       *)
(***************************************************************************)
afr_has_quorum(subvols) ==
    LET up == Cardinality(subvols)
        count == IF QuorumCount = AFR_QUORUM_AUTO
                   THEN ChildCount \div 2 + 1 ELSE QuorumCount
    IN  IF QuorumCount = AFR_QUORUM_AUTO /\ 2 * up = ChildCount
          THEN 1 \in subvols ELSE up >= count

(* The all-zero changelog of a new file.                                   *)
NoDirty == [i \in Brick |-> 0]
NoPending == [i \in Brick |-> [j \in Brick |-> 0]]

(* afr_selfheal_extract_xattr: what the replies from R say.                *)
afr_selfheal_extract_dirty(dirty, R) ==
    [i \in Brick |-> IF i \in R THEN dirty[i] ELSE 0]
afr_selfheal_extract_matrix(pending, R) ==
    [i \in Brick |-> [j \in Brick |-> IF i \in R THEN pending[i][j] ELSE 0]]

(***************************************************************************)
(* afr_replies_interpret: the bricks that answered and that no brick that  *)
(* answered accuses.  File sizes are equal (a write is in place), so       *)
(* afr_accuse_smallfiles adds nothing.                                     *)
(***************************************************************************)
afr_replies_interpret(pending, R) ==
    {b \in R : \A i \in R : pending[i][b] = 0}

----------------------------------------------------------------------------
(* afr_selfheal_find_direction, for a matrix m and dirty counts d.         *)
SelfAccused(m) == {i \in Brick : m[i][i] # 0}
Accused(m) == {j \in Brick : \E i \in Brick \ SelfAccused(m) : m[i][j] # 0}
HavePending(m) == {i \in Brick : \E j \in Brick \ {i} : m[i][j] # 0}

Sources(m, locked_on) == locked_on \ Accused(m)
Sinks(m, locked_on) ==
    LET sources == Sources(m, locked_on)
    IN  IF sources = {} THEN locked_on
        ELSE {j \in Brick :
                \E i \in sources \ SelfAccused(m) : m[i][j] # 0}

(* witness[] is an array of uint64_t: a negative sum wraps to the top of   *)
(* its range, above every count that is reached.                           *)
UINT64_TOP == 1000000
Unsigned(n) == IF n < 0 THEN UINT64_TOP + n ELSE n

Witness(m, d) ==
    LET self(i) == IF HavePending(m) = {} \/ i \in HavePending(m)
                     THEN m[i][i] ELSE 0
        others(i) == MapThenSumSet(LAMBDA j : m[i][j], Brick \ {i})
    IN  [i \in Brick |->
            Unsigned(d[i] + (IF i \in SelfAccused(m)
                               THEN self(i) + others(i) ELSE 0))]

(***************************************************************************)
(* __afr_selfheal_data_finalize_source: the sets of sources the heal may   *)
(* settle on.  None of them (split-brain) when every locked brick is a     *)
(* sink.  When a source has witnessed unfinished fops only the ones that   *)
(* witnessed most stay, and of those the one with the newest ctime, which  *)
(* can be any of them.                                                     *)
(***************************************************************************)
FinalSources(m, d, locked_on) ==
    LET sources == Sources(m, locked_on)
        witness == Witness(m, d)
        most == {i \in sources : \A j \in sources : witness[j] <= witness[i]}
    IN  IF sources = {} \/ Sinks(m, locked_on) \cap locked_on = locked_on
          THEN {}
        ELSE IF \A i \in sources : witness[i] = 0 THEN {sources}
        ELSE {{i} : i \in most}

(* afr_mark_active_sinks: everything locked that is not a source.          *)
afr_mark_active_sinks(sources, locked_on) == locked_on \ sources

(***************************************************************************)
(* afr_selfheal_undo_pending: what is added to the changelog of brick i    *)
(* after a heal that read the changelog (m, d), found the sinks given and  *)
(* healed healed_sinks of them, when locked_on is locked at its end.       *)
(***************************************************************************)
UndoMatrix(m, sinks, healed_sinks, locked_on) ==
    LET pending == sinks \ healed_sinks
    IN  [i \in Brick |-> [j \in Brick |->
            IF j \in pending THEN 1
            ELSE IF j \in locked_on THEN -m[i][j] ELSE 0]]
UndoDirty_One(d, sinks, healed_sinks) ==
    [i \in Brick |-> IF i \in sinks \ healed_sinks THEN 0 ELSE -1]
UndoDirty_Healed(d, sinks, healed_sinks) ==
    [i \in Brick |-> IF i \in healed_sinks THEN -d[i] ELSE 0]
UndoDirty(d, sinks, healed_sinks) ==
    [i \in Brick |-> IF i \in sinks \ healed_sinks THEN 0 ELSE -d[i]]
=============================================================================
