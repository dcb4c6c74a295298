------------------------------ MODULE Inodelk ------------------------------
(***************************************************************************)
(* features/locks: the internal inode locks (inodelk) that one brick keeps *)
(* for one inode, and the server threads that work on them.                *)
(*                                                                         *)
(* A lock object (pl_inode_lock_t) is created for each lock request; its   *)
(* fields never change afterwards, so the requests the clients may issue   *)
(* and their fields are the constant attr.  A lock object is linked into   *)
(* up to three lists: dom->inodelk_list (granted), dom->blocked_inodelks   *)
(* (waiting) and ctx->inodelk_lockers (all the locks of a client), and it  *)
(* lives while its reference count is positive.                            *)
(*                                                                         *)
(* pl_inode->mutex protects the lists and the counts, ctx->lock the list   *)
(* of a client.  A critical section is one step, except the loops over a   *)
(* list, which take one step per element with the mutex held.              *)
(***************************************************************************)
EXTENDS Integers, Sequences, FiniteSets

CONSTANTS
  Lock,         \* lock requests (and the pl_inode_lock_t each one allocates)
  attr,         \* the fields of each request, see Fields
  Client,       \* client_t
  Owner,        \* gf_lkowner_t
  Domain,       \* volume names (pl_dom_list_t)
  Thread,       \* io-threads and epoll threads of the brick
  ClearLocks,   \* the kinds of clear-locks commands the administrator issues
  Revocation,   \* TRUE: revocation-secs # 0
  ClearAll,     \* revocation-clear-all
  MaxBlocked    \* revocation-max-blocked, 0 means no limit

NoLock == "NoLock"
NoThread == "NoThread"

Fields == [client: Client, owner: Owner, volume: Domain,
           fl_type: {"F_RDLCK", "F_WRLCK"}, fl_start: Nat, fl_end: Nat,
           can_block: BOOLEAN]

ASSUME LockAssumption ==
  /\ NoLock \notin Lock
  /\ NoThread \notin Thread
  /\ attr \in [Lock -> Fields]
  /\ ClearLocks \subseteq (SUBSET {"blocked", "granted"}) \ {{}}
  /\ Revocation \in BOOLEAN
  /\ ClearAll \in BOOLEAN
  /\ MaxBlocked \in Nat

VARIABLES
  ref,              \* lock->ref; 0 before the request and after GF_FREE
  frame,            \* lock->frame: "none" (not asked), "wait", "null"
  replies,          \* how many times the frame of the request was unwound
  inodelk_list,     \* the locks linked in some dom->inodelk_list
  blocked_inodelks, \* dom->blocked_inodelks of each domain
  client_list,      \* ctx->inodelk_lockers of each client
  mutex,            \* the thread inside pl_inode->mutex across steps
  ctx_lock,         \* the thread that holds ctx->lock of each client
  iref,             \* references on the inode taken by this translator
  conn,             \* connection state of each client
  (* the threads: where they are, where they return to, arguments, locals *)
  pc, ret, arg, clr, cursor, blocked_list, granted, unwind, released, seen

objs   == <<ref, frame, replies>>
lists  == <<inodelk_list, blocked_inodelks, client_list>>
shared == <<mutex, ctx_lock, iref, conn>>
run    == <<pc, ret, arg, clr>>
locals == <<cursor, blocked_list, granted, unwind, released, seen>>
vars   == <<objs, lists, shared, run, locals>>

----------------------------------------------------------------------------
(* Conflict rules                                                          *)

inodelk_type_conflict(l1, l2) ==
  attr[l1].fl_type = "F_WRLCK" \/ attr[l2].fl_type = "F_WRLCK"

inodelk_overlap(l1, l2) ==
  /\ attr[l1].fl_end >= attr[l2].fl_start
  /\ attr[l2].fl_end >= attr[l1].fl_start

same_inodelk_owner(l1, l2) ==
  /\ attr[l1].owner = attr[l2].owner
  /\ attr[l1].client = attr[l2].client

inodelk_conflict(l1, l2) ==
  inodelk_overlap(l1, l2) /\ inodelk_type_conflict(l1, l2)

inodelks_equal(l1, l2) ==
  /\ attr[l1].fl_start = attr[l2].fl_start
  /\ attr[l1].fl_end = attr[l2].fl_end

----------------------------------------------------------------------------
(* The lists of a domain                                                   *)

dom(l) == attr[l].volume

Elems(s) == {s[i] : i \in DOMAIN s}

RemoveIndex(s, i) == SubSeq(s, 1, i - 1) \o SubSeq(s, i + 1, Len(s))

(* list_del_init on an element that may be unlinked already.              *)
Unlink(s, l) ==
  IF \E i \in DOMAIN s : s[i] = l
    THEN RemoveIndex(s, CHOOSE i \in DOMAIN s : s[i] = l)
    ELSE s

(* Mutant: the client is not compared.                                     *)
__inodelk_grantable_OwnerOnly(l) ==
  ~ \E g \in inodelk_list : /\ dom(g) = dom(l)
                            /\ inodelk_conflict(l, g)
                            /\ attr[l].owner # attr[g].owner

(* A granted lock of another owner that conflicts with l.                 *)
__inodelk_grantable(l) ==
  ~ \E g \in inodelk_list : /\ dom(g) = dom(l)
                            /\ inodelk_conflict(l, g)
                            /\ ~same_inodelk_owner(l, g)

__blocked_lock_conflict(l) ==
  \E b \in Elems(blocked_inodelks[dom(l)]) : inodelk_conflict(l, b)

__owner_has_lock(l) ==
  \/ \E g \in inodelk_list : dom(g) = dom(l) /\ same_inodelk_owner(g, l)
  \/ \E b \in Elems(blocked_inodelks[dom(l)]) : same_inodelk_owner(b, l)

(* Mutant: nested locks queue behind the waiters.                          *)
CanLock_NoNesting(l) ==
  __inodelk_grantable(l) /\ ~__blocked_lock_conflict(l)

(* __lock_inodelk returns 0: nothing in the way, and no starving waiter   *)
(* unless the owner nests this lock in one it already has.                *)
CanLock(l) ==
  /\ __inodelk_grantable(l)
  /\ ~__blocked_lock_conflict(l) \/ __owner_has_lock(l)

----------------------------------------------------------------------------
(* Threads                                                                 *)

PC == {"idle", "prune", "pruning", "setlk", "grant", "granting",
       "unwinding", "unlocked", "cleanup", "cleanup_unwind", "cleanup_unref",
       "clr_blkd", "clr_blkd_loop", "clr_unwind", "clr_granted",
       "clr_granted_loop", "clr_read", "clr_write"}

Arg(l, d, c) == [lock |-> l, dom |-> d, client |-> c]

NoArg == Arg(NoLock, NoLock, NoLock)

NoClr == [kind |-> {}, range |-> {}]

Init ==
  /\ ref = [l \in Lock |-> 0]
  /\ frame = [l \in Lock |-> "none"]
  /\ replies = [l \in Lock |-> 0]
  /\ inodelk_list = {}
  /\ blocked_inodelks = [d \in Domain |-> <<>>]
  /\ client_list = [c \in Client |-> <<>>]
  /\ mutex = NoThread
  /\ ctx_lock = [c \in Client |-> NoThread]
  /\ iref = 0
  /\ conn = [c \in Client |-> "connected"]
  /\ pc = [t \in Thread |-> "idle"]
  /\ ret = [t \in Thread |-> "idle"]
  /\ arg = [t \in Thread |-> NoArg]
  /\ clr = [t \in Thread |-> NoClr]
  /\ cursor = [t \in Thread |-> NoLock]
  /\ blocked_list = [t \in Thread |-> <<>>]
  /\ granted = [t \in Thread |-> {}]
  /\ unwind = [t \in Thread |-> {}]
  /\ released = [t \in Thread |-> {}]
  /\ seen = [t \in Thread |-> 0]

(* Thread t runs f with arguments a and then goes on at r.                 *)
Call(t, f, r, a) ==
  /\ pc' = [pc EXCEPT ![t] = f]
  /\ ret' = [ret EXCEPT ![t] = r]
  /\ arg' = [arg EXCEPT ![t] = a]

Return(t) == Call(t, "idle", "idle", NoArg)

Goto(t, label) ==
  pc' = [pc EXCEPT ![t] = label] /\ UNCHANGED <<ret, arg>>

(* Mutant: the reference is forgotten.                                     *)
__pl_inodelk_ref_None(l) == UNCHANGED ref

__pl_inodelk_ref(l) == ref' = [ref EXCEPT ![l] = @ + 1]

(* At 0 the object is freed.                                               *)
__pl_inodelk_unref(l) == ref' = [ref EXCEPT ![l] = @ - 1]

inode_unref == iref' = iref - 1

STACK_UNWIND(l) ==
  /\ replies' = [replies EXCEPT ![l] = @ + 1]
  /\ frame' = [frame EXCEPT ![l] = "null"]

(* A request of the client is being executed: it holds a client_t ref.     *)
InRequest(c) ==
  \/ \E t \in Thread : pc[t] # "idle" /\ arg[t].client = c
  \/ \E l \in Lock : attr[l].client = c /\ frame[l] = "wait"

----------------------------------------------------------------------------
(* pl_inode_setlk                                                          *)

(* pl_common_inodelk: new_inode_lock takes the first reference and         *)
(* pl_inode_setlk refs the inode before anything else.  A request still    *)
(* queued when the connection drops is executed all the same.              *)
Request(t, l) ==
  /\ pc[t] = "idle"
  /\ frame[l] = "none"
  /\ conn[attr[l].client] \in {"connected", "disconnected"}
  /\ ref' = [ref EXCEPT ![l] = 1]
  /\ frame' = [frame EXCEPT ![l] = "wait"]
  /\ iref' = iref + 1
  /\ Call(t, IF Revocation THEN "prune" ELSE "setlk", "idle",
          Arg(l, dom(l), attr[l].client))
  /\ UNCHANGED <<replies, lists, mutex, ctx_lock, conn, clr, locals>>

(* Mutant: ctx->lock is not taken.                                         *)
SetlkEnter_NoCtxLock(c) == mutex = NoThread

(* Both locks are free, so the critical section of pl_inode_setlk can run. *)
SetlkEnter(c) == ctx_lock[c] = NoThread /\ mutex = NoThread

(* The granted path: +1 for the list, -1 for the caller, reply at once.    *)
SetlkGrant(t) ==
  LET l == arg[t].lock IN
  /\ pc[t] = "setlk" /\ SetlkEnter(attr[l].client)
  /\ CanLock(l)
  /\ inodelk_list' = inodelk_list \cup {l}
  /\ client_list' = [client_list EXCEPT ![attr[l].client] = Append(@, l)]
  /\ STACK_UNWIND(l)
  /\ Return(t)
  /\ UNCHANGED <<ref, blocked_inodelks, shared, clr, locals>>

(* The blocking path: the caller's reference and frame stay with the lock. *)
SetlkBlock(t) ==
  LET l == arg[t].lock IN
  /\ pc[t] = "setlk" /\ SetlkEnter(attr[l].client)
  /\ ~CanLock(l) /\ attr[l].can_block
  /\ blocked_inodelks' = [blocked_inodelks EXCEPT ![dom(l)] = Append(@, l)]
  /\ client_list' = [client_list EXCEPT ![attr[l].client] = Append(@, l)]
  /\ Return(t)
  /\ UNCHANGED <<objs, inodelk_list, shared, clr, locals>>

(* The non-blocking path that fails: EAGAIN, the lock object is freed.     *)
SetlkEagain(t) ==
  LET l == arg[t].lock IN
  /\ pc[t] = "setlk" /\ SetlkEnter(attr[l].client)
  /\ ~CanLock(l) /\ ~attr[l].can_block
  /\ __pl_inodelk_unref(l)
  /\ STACK_UNWIND(l)
  /\ inode_unref
  /\ Return(t)
  /\ UNCHANGED <<lists, mutex, ctx_lock, conn, clr, locals>>

(* F_UNLCK with the fields of retlock: the lock leaves its lists, its list *)
(* reference and its inode reference are dropped, and a grant pass follows *)
(* (an unlock that matches no granted lock changes nothing).  Of several   *)
(* equal locks of the owner the code takes the newest, the model any.      *)
Unlock(t, retlock) ==
  LET c == attr[retlock].client IN
  /\ pc[t] = "idle"
  /\ conn[c] \in {"connected", "disconnected"}
  /\ SetlkEnter(c)
  /\ retlock \in inodelk_list
  /\ inodelk_list' = inodelk_list \ {retlock}
  /\ client_list' = [client_list EXCEPT ![c] = Unlink(@, retlock)]
  /\ __pl_inodelk_unref(retlock)
  /\ Call(t, "grant", "unlocked", Arg(NoLock, dom(retlock), c))
  /\ UNCHANGED <<frame, replies, blocked_inodelks, shared, clr, locals>>

(* The unlock request drops the inode reference it took for itself.        *)
UnlockReturn(t) ==
  /\ pc[t] = "unlocked"
  /\ inode_unref
  /\ Return(t)
  /\ UNCHANGED <<objs, lists, mutex, ctx_lock, conn, clr, locals>>

----------------------------------------------------------------------------
(* grant_blocked_inode_locks                                               *)

(* The blocked list of the domain is spliced into the local blocked_list.  *)
GrantEnter(t) ==
  LET d == arg[t].dom IN
  /\ pc[t] = "grant" /\ mutex = NoThread
  /\ mutex' = t
  /\ blocked_list' = [blocked_list EXCEPT ![t] = blocked_inodelks[d]]
  /\ blocked_inodelks' = [blocked_inodelks EXCEPT ![d] = <<>>]
  /\ Goto(t, "granting")
  /\ UNCHANGED <<objs, inodelk_list, client_list, ctx_lock, iref, conn, clr,
                 cursor, granted, unwind, released, seen>>

(* __lock_inodelk on the first lock of the local list: granted ...         *)
GrantOne(t) ==
  LET bl == Head(blocked_list[t]) IN
  /\ pc[t] = "granting" /\ blocked_list[t] # <<>> /\ CanLock(bl)
  /\ blocked_list' = [blocked_list EXCEPT ![t] = Tail(@)]
  /\ inodelk_list' = inodelk_list \cup {bl}
  /\ __pl_inodelk_ref(bl)
  /\ granted' = [granted EXCEPT ![t] = @ \cup {bl}]
  /\ unwind' = [unwind EXCEPT ![t] = @ \cup {bl}]
  /\ UNCHANGED <<frame, replies, blocked_inodelks, client_list, shared, run,
                 cursor, released, seen>>

(* ... or queued again.                                                    *)
GrantRequeue(t) ==
  LET bl == Head(blocked_list[t]) IN
  /\ pc[t] = "granting" /\ blocked_list[t] # <<>> /\ ~CanLock(bl)
  /\ blocked_list' = [blocked_list EXCEPT ![t] = Tail(@)]
  /\ blocked_inodelks' = [blocked_inodelks EXCEPT ![dom(bl)] = Append(@, bl)]
  /\ UNCHANGED <<objs, inodelk_list, client_list, shared, run, cursor, granted,
                 unwind, released, seen>>

GrantLeave(t) ==
  /\ pc[t] = "granting" /\ blocked_list[t] = <<>>
  /\ mutex' = NoThread
  /\ Goto(t, "unwinding")
  /\ UNCHANGED <<objs, lists, ctx_lock, iref, conn, clr, locals>>

(* The frames of the granted locks are unwound outside the mutex.          *)
GrantUnwind(t) ==
  /\ pc[t] = "unwinding"
  /\ \E l \in unwind[t] :
       /\ STACK_UNWIND(l)
       /\ unwind' = [unwind EXCEPT ![t] = @ \ {l}]
  /\ UNCHANGED <<ref, lists, shared, run, cursor, blocked_list, granted,
                 released, seen>>

(* The last critical section: the reference of the blocked list goes.      *)
GrantUnref(t) ==
  /\ pc[t] = "unwinding" /\ unwind[t] = {} /\ mutex = NoThread
  /\ ref' = [l \in Lock |-> IF l \in granted[t] THEN ref[l] - 1 ELSE ref[l]]
  /\ granted' = [granted EXCEPT ![t] = {}]
  /\ clr' = [clr EXCEPT ![t] = NoClr]
  /\ IF ret[t] = "idle" THEN Return(t) ELSE Goto(t, ret[t])
  /\ UNCHANGED <<frame, replies, lists, shared, cursor, blocked_list, unwind,
                 released, seen>>

----------------------------------------------------------------------------
(* pl_inodelk_client_cleanup, from the disconnect and destroy callbacks    *)

(* Mutant: the head of an empty list is taken for a lock.                  *)
First_Unchecked(s) == IF s = <<>> THEN "head" ELSE s[1]

First(s) == IF s = <<>> THEN NoLock ELSE s[1]

(* The element after l, which list_for_each_entry_safe reads before l is   *)
(* taken off the list.                                                     *)
NextOf(s, l) ==
  LET i == CHOOSE j \in DOMAIN s : s[j] = l
  IN  IF i < Len(s) THEN s[i + 1] ELSE NoLock

Cleanup(t, c, state) ==
  /\ pc[t] = "idle" /\ ctx_lock[c] = NoThread
  /\ ctx_lock' = [ctx_lock EXCEPT ![c] = t]
  /\ conn' = [conn EXCEPT ![c] = state]
  /\ Call(t, "cleanup", "idle", Arg(NoLock, NoLock, c))
  /\ cursor' = [cursor EXCEPT ![t] = First(client_list[c])]
  /\ UNCHANGED <<objs, lists, mutex, iref, clr, blocked_list, granted, unwind,
                 released, seen>>

(* The transport is gone; requests of the client may still be running.     *)
Disconnect(t, c) == conn[c] = "connected" /\ Cleanup(t, c, "disconnected")

(* Mutant: the destroy callback does not run the cleanup again.            *)
Destroy_NoCleanup(t, c) ==
  /\ conn[c] = "disconnected" /\ ~InRequest(c) /\ pc[t] = "idle"
  /\ conn' = [conn EXCEPT ![c] = "destroyed"]
  /\ UNCHANGED <<objs, lists, mutex, ctx_lock, iref, run, locals>>

(* The last request of the client dropped the last reference of client_t.  *)
Destroy(t, c) ==
  conn[c] = "disconnected" /\ ~InRequest(c) /\ Cleanup(t, c, "destroying")

(* Mutant: a lock that a grant pass is working on is taken for a blocked   *)
(* one, because its blocked_locks link is in use.                          *)
InList_ByBlockedLink(l) ==
  l \in inodelk_list /\ \A u \in Thread : l \notin granted[u]

(* !list_empty (&l->list)                                                  *)
InList(l) == l \in inodelk_list

(* One lock of the client: a granted one is released, a blocked one will   *)
(* be unwound.  A cursor that left the list points at freed memory; the    *)
(* thread is stuck there.                                                  *)
CleanupOne(t) ==
  LET l == cursor[t]
      c == arg[t].client
  IN
  /\ pc[t] = "cleanup" /\ l \in Elems(client_list[c]) /\ mutex = NoThread
  /\ client_list' = [client_list EXCEPT ![c] = Unlink(@, l)]
  /\ cursor' = [cursor EXCEPT ![t] = NextOf(client_list[c], l)]
  /\ IF InList(l)
       THEN /\ inodelk_list' = inodelk_list \ {l}
            /\ released' = [released EXCEPT ![t] = @ \cup {l}]
            /\ UNCHANGED <<blocked_inodelks, unwind>>
       ELSE /\ blocked_inodelks' =
                 [blocked_inodelks EXCEPT ![dom(l)] = Unlink(@, l)]
            /\ unwind' = [unwind EXCEPT ![t] = @ \cup {l}]
            /\ UNCHANGED <<inodelk_list, released>>
  /\ UNCHANGED <<objs, shared, run, blocked_list, granted, seen>>

CleanupLeave(t) ==
  /\ pc[t] = "cleanup" /\ cursor[t] = NoLock
  /\ ctx_lock' = [ctx_lock EXCEPT ![arg[t].client] = NoThread]
  /\ Goto(t, "cleanup_unwind")
  /\ UNCHANGED <<objs, lists, mutex, iref, conn, clr, locals>>

(* Mutant: the blocked requests are dropped without an answer.             *)
CleanupUnwind_NoReply(t) ==
  /\ pc[t] = "cleanup_unwind"
  /\ \E l \in unwind[t] :
       /\ unwind' = [unwind EXCEPT ![t] = @ \ {l}]
       /\ released' = [released EXCEPT ![t] = @ \cup {l}]
  /\ UNCHANGED <<objs, lists, shared, run, cursor, blocked_list, granted, seen>>

(* The blocked requests of the client are answered with EAGAIN.            *)
CleanupUnwind(t) ==
  /\ pc[t] = "cleanup_unwind"
  /\ \E l \in unwind[t] :
       /\ IF frame[l] = "wait" THEN STACK_UNWIND(l) ELSE UNCHANGED <<frame, replies>>
       /\ unwind' = [unwind EXCEPT ![t] = @ \ {l}]
       /\ released' = [released EXCEPT ![t] = @ \cup {l}]
  /\ UNCHANGED <<ref, lists, shared, run, cursor, blocked_list, granted, seen>>

(* Each released lock makes room: grant in its domain, then unref it.      *)
CleanupGrant(t) ==
  /\ pc[t] = "cleanup_unwind" /\ unwind[t] = {}
  /\ \E l \in released[t] :
       Call(t, "grant", "cleanup_unref", Arg(l, dom(l), arg[t].client))
  /\ UNCHANGED <<objs, lists, shared, clr, locals>>

CleanupUnref(t) ==
  LET l == arg[t].lock IN
  /\ pc[t] = "cleanup_unref" /\ mutex = NoThread
  /\ __pl_inodelk_unref(l)
  /\ inode_unref
  /\ released' = [released EXCEPT ![t] = @ \ {l}]
  /\ Call(t, "cleanup_unwind", "idle", Arg(NoLock, NoLock, arg[t].client))
  /\ UNCHANGED <<frame, replies, lists, mutex, ctx_lock, conn, clr, cursor,
                 blocked_list, granted, unwind, seen>>

(* The end of the callback; after the destroy callback pl_ctx is freed.    *)
CleanupReturn(t) ==
  LET c == arg[t].client IN
  /\ pc[t] = "cleanup_unwind" /\ unwind[t] = {} /\ released[t] = {}
  /\ conn' = [conn EXCEPT ![c] = IF @ = "destroying" THEN "destroyed" ELSE @]
  /\ Return(t)
  /\ UNCHANGED <<objs, lists, mutex, ctx_lock, iref, clr, locals>>

----------------------------------------------------------------------------
(* clrlk_clear_inodelk, run by the clear-locks command or by revocation    *)

ClrStart(kind) == IF "blocked" \in kind THEN "clr_blkd" ELSE "clr_granted"

(* clear-locks of a kind, in a whole domain or on the locks of one range.  *)
Clrlk(t, d, kind, range) ==
  /\ kind \in ClearLocks /\ pc[t] = "idle"
  /\ Call(t, ClrStart(kind), "idle", Arg(NoLock, d, NoLock))
  /\ clr' = [clr EXCEPT ![t] = [kind |-> kind, range |-> range]]
  /\ UNCHANGED <<objs, lists, shared, locals>>

Granted(d) == {g \in inodelk_list : dom(g) = d}

TooManyBlocked(d) ==
  MaxBlocked # 0 /\ Len(blocked_inodelks[d]) >= MaxBlocked

(* __inodelk_prune_stale looks at the granted list before it locks.        *)
PruneCheck(t) ==
  /\ pc[t] = "prune"
  /\ Goto(t, IF Granted(arg[t].dom) = {} THEN "setlk" ELSE "pruning")
  /\ UNCHANGED <<objs, lists, shared, clr, locals>>

(* Nothing to revoke: no granted lock is old enough (the age of a lock is  *)
(* not modelled, it may be any) and the blocked list is short enough.      *)
PruneNothing(t) ==
  /\ pc[t] = "pruning" /\ mutex = NoThread
  /\ ~TooManyBlocked(arg[t].dom)
  /\ Goto(t, "setlk")
  /\ UNCHANGED <<objs, lists, shared, clr, locals>>

PruneRevoke(t) ==
  LET kind == IF ClearAll THEN {"blocked", "granted"} ELSE {"granted"} IN
  /\ pc[t] = "pruning" /\ mutex = NoThread
  /\ \/ \E g \in Granted(arg[t].dom) : inodelk_conflict(g, arg[t].lock)
     \/ TooManyBlocked(arg[t].dom)
  /\ Call(t, ClrStart(kind), "setlk", arg[t])
  /\ clr' = [clr EXCEPT ![t] = [kind |-> kind, range |-> Lock]]
  /\ UNCHANGED <<objs, lists, shared, locals>>

ClrEnter(t) ==
  /\ mutex = NoThread
  /\ mutex' = t
  /\ \/ pc[t] = "clr_blkd" /\ Goto(t, "clr_blkd_loop")
     \/ pc[t] = "clr_granted" /\ Goto(t, "clr_granted_loop")
  /\ UNCHANGED <<objs, lists, ctx_lock, iref, conn, clr, locals>>

(* The client list is changed under pl_inode->mutex only, not ctx->lock.   *)
ClrBlocked(t) ==
  LET d == arg[t].dom IN
  /\ pc[t] = "clr_blkd_loop"
  /\ \E i \in DOMAIN blocked_inodelks[d] :
       LET l == blocked_inodelks[d][i] IN
       /\ l \in clr[t].range
       /\ blocked_inodelks' = [blocked_inodelks EXCEPT ![d] = RemoveIndex(@, i)]
       /\ client_list' = [client_list EXCEPT ![attr[l].client] = Unlink(@, l)]
       /\ unwind' = [unwind EXCEPT ![t] = @ \cup {l}]
  /\ UNCHANGED <<objs, inodelk_list, shared, run, cursor, blocked_list,
                 granted, released, seen>>

ClrBlockedLeave(t) ==
  /\ pc[t] = "clr_blkd_loop"
  /\ Elems(blocked_inodelks[arg[t].dom]) \cap clr[t].range = {}
  /\ mutex' = NoThread
  /\ Goto(t, "clr_unwind")
  /\ UNCHANGED <<objs, lists, ctx_lock, iref, conn, clr, locals>>

ClrUnwind(t) ==
  /\ pc[t] = "clr_unwind"
  /\ \E l \in unwind[t] :
       /\ STACK_UNWIND(l)
       /\ __pl_inodelk_unref(l)
       /\ unwind' = [unwind EXCEPT ![t] = @ \ {l}]
  /\ UNCHANGED <<lists, shared, run, cursor, blocked_list, granted, released, seen>>

ClrUnwound(t) ==
  /\ pc[t] = "clr_unwind" /\ unwind[t] = {}
  /\ Goto(t, IF "granted" \in clr[t].kind THEN "clr_granted" ELSE "grant")
  /\ UNCHANGED <<objs, lists, shared, clr, locals>>

ClrGranted(t) ==
  /\ pc[t] = "clr_granted_loop"
  /\ \E l \in Granted(arg[t].dom) \cap clr[t].range :
       /\ inodelk_list' = inodelk_list \ {l}
       /\ client_list' = [client_list EXCEPT ![attr[l].client] = Unlink(@, l)]
       /\ released' = [released EXCEPT ![t] = @ \cup {l}]
  /\ UNCHANGED <<objs, blocked_inodelks, shared, run, cursor, blocked_list,
                 granted, unwind, seen>>

ClrGrantedLeave(t) ==
  /\ pc[t] = "clr_granted_loop"
  /\ Granted(arg[t].dom) \cap clr[t].range = {}
  /\ mutex' = NoThread
  /\ Goto(t, "clr_read")
  /\ UNCHANGED <<objs, lists, ctx_lock, iref, conn, clr, locals>>

(* __pl_inodelk_unref outside the mutex: the load of lock->ref ...         *)
ClrRead(t) ==
  /\ pc[t] = "clr_read"
  /\ \E l \in released[t] :
       /\ cursor' = [cursor EXCEPT ![t] = l]
       /\ seen' = [seen EXCEPT ![t] = ref[l]]
  /\ Goto(t, "clr_write")
  /\ UNCHANGED <<objs, lists, shared, clr, blocked_list, granted, unwind, released>>

(* ... and the store of the decremented value.                             *)
ClrWrite(t) ==
  LET l == cursor[t] IN
  /\ pc[t] = "clr_write"
  /\ ref' = [ref EXCEPT ![l] = seen[t] - 1]
  /\ cursor' = [cursor EXCEPT ![t] = NoLock]
  /\ seen' = [seen EXCEPT ![t] = 0]
  /\ released' = [released EXCEPT ![t] = @ \ {l}]
  /\ Goto(t, "clr_read")
  /\ UNCHANGED <<frame, replies, lists, shared, clr, blocked_list, granted, unwind>>

(* Mutant: the cleared range is not offered to the waiters.                *)
ClrReleased_NoGrant(t) ==
  /\ pc[t] = "clr_read" /\ released[t] = {}
  /\ clr' = [clr EXCEPT ![t] = NoClr]
  /\ IF ret[t] = "idle" THEN Return(t) ELSE Goto(t, ret[t])
  /\ UNCHANGED <<objs, lists, shared, locals>>

ClrReleased(t) ==
  /\ pc[t] = "clr_read" /\ released[t] = {}
  /\ Goto(t, "grant")
  /\ UNCHANGED <<objs, lists, shared, clr, locals>>

----------------------------------------------------------------------------
ClrRanges == {Lock} \cup {{l \in Lock : inodelks_equal(l, u)} : u \in Lock}

SetlkStep(t) ==
  \/ PruneCheck(t) \/ PruneNothing(t) \/ PruneRevoke(t)
  \/ SetlkGrant(t) \/ SetlkBlock(t) \/ SetlkEagain(t) \/ UnlockReturn(t)

GrantStep(t) ==
  \/ GrantEnter(t) \/ GrantOne(t) \/ GrantRequeue(t) \/ GrantLeave(t)
  \/ GrantUnwind(t) \/ GrantUnref(t)

CleanupStep(t) ==
  \/ CleanupOne(t) \/ CleanupLeave(t) \/ CleanupUnwind(t)
  \/ CleanupGrant(t) \/ CleanupUnref(t) \/ CleanupReturn(t)

ClrStep(t) ==
  \/ ClrEnter(t) \/ ClrBlocked(t) \/ ClrBlockedLeave(t) \/ ClrUnwind(t)
  \/ ClrUnwound(t) \/ ClrGranted(t) \/ ClrGrantedLeave(t)
  \/ ClrRead(t) \/ ClrWrite(t) \/ ClrReleased(t)

(* What a thread does once it has started on something.                    *)
Continue(t) == SetlkStep(t) \/ GrantStep(t) \/ CleanupStep(t) \/ ClrStep(t)

Next ==
  \E t \in Thread :
    \/ \E l \in Lock : Request(t, l) \/ Unlock(t, l)
    \/ \E c \in Client : Disconnect(t, c) \/ Destroy(t, c)
    \/ \E d \in Domain, kind \in ClearLocks, range \in ClrRanges :
         Clrlk(t, d, kind, range)
    \/ Continue(t)

Spec == Init /\ [][Next]_vars

(* Threads keep running, a client unlocks what it was granted, and the     *)
(* last unref of a disconnected client calls the destroy callback.         *)
FairSpec ==
  /\ Spec
  /\ \A t \in Thread : WF_vars(Continue(t))
  /\ \A l \in Lock : WF_vars(\E t \in Thread : Unlock(t, l))
  /\ \A c \in Client : WF_vars(\E t \in Thread : Destroy(t, c))

----------------------------------------------------------------------------
(* Properties                                                              *)

ObjsOK ==
  /\ ref \in [Lock -> Int]
  /\ frame \in [Lock -> {"none", "wait", "null"}]
  /\ replies \in [Lock -> Nat]

ListsOK ==
  /\ inodelk_list \subseteq Lock
  /\ blocked_inodelks \in [Domain -> Seq(Lock)]
  /\ client_list \in [Client -> Seq(Lock)]

SharedOK ==
  /\ mutex \in Thread \cup {NoThread}
  /\ ctx_lock \in [Client -> Thread \cup {NoThread}]
  /\ iref \in Int
  /\ conn \in [Client -> {"connected", "disconnected", "destroying", "destroyed"}]

ArgType == [lock: Lock \cup {NoLock}, dom: Domain \cup {NoLock},
            client: Client \cup {NoLock}]

RunOK ==
  /\ pc \in [Thread -> PC]
  /\ ret \in [Thread -> {"idle", "setlk", "unlocked", "cleanup_unref"}]
  /\ arg \in [Thread -> ArgType]
  /\ clr \in [Thread -> [kind: SUBSET {"blocked", "granted"}, range: SUBSET Lock]]

LocalsOK ==
  /\ cursor \in [Thread -> Lock \cup {NoLock}]
  /\ blocked_list \in [Thread -> Seq(Lock)]
  /\ granted \in [Thread -> SUBSET Lock]
  /\ unwind \in [Thread -> SUBSET Lock]
  /\ released \in [Thread -> SUBSET Lock]
  /\ seen \in [Thread -> Int]

(* The types of the lists, counts and locals of inodelk.c.                 *)
TypeOK == ObjsOK /\ ListsOK /\ SharedOK /\ RunOK /\ LocalsOK

(* Two granted locks of one domain that overlap, not both shared, belong   *)
(* to the same owner of the same client: what __lock_inodelk is for,       *)
(* whatever unlocks, cleanups, revocations and grant passes interleave.    *)
Exclusive ==
  \A g, h \in inodelk_list :
    dom(g) = dom(h) /\ inodelk_conflict(g, h) => same_inodelk_owner(g, h)

(* A lock request that waits: queued, spliced by a grant pass, about to be *)
(* tried, or taken off the queue to be unwound.                            *)
Waiting(l) ==
  \/ l \in Elems(blocked_inodelks[dom(l)])
  \/ \E t \in Thread : \/ arg[t].lock = l /\ l \notin released[t]
                       \/ l \in Elems(blocked_list[t])
                       \/ l \in unwind[t] \ granted[t]

InGranted(l) == \E t \in Thread : l \in granted[t]

InReleased(l) == \E t \in Thread : l \in released[t]

Count(b) == IF b THEN 1 ELSE 0

(* lock->ref counts exactly the lists and threads that still refer to the  *)
(* lock object: never freed under a user (the cleanup that races with a    *)
(* grant pass leaves it the last unref), never leaked.  And the inode      *)
(* references taken in pl_inode_setlk are those of the locks that wait,    *)
(* are granted or are being released, plus one per running unlock:         *)
(* pl_inode outlives its users and is not pinned for ever.                 *)
RefExact ==
  /\ \A l \in Lock : ref[l] = Count(l \in inodelk_list) + Count(Waiting(l))
                              + Count(InGranted(l)) + Count(InReleased(l))
  /\ iref = Cardinality({l \in Lock : l \in inodelk_list \/ Waiting(l)
                                      \/ InReleased(l)})
            + Cardinality({t \in Thread : "unlocked" \in {pc[t], ret[t]}})

(* A request is answered at most once, and one that is not answered is     *)
(* still waiting or is in the hands of a grant pass that will answer it.   *)
AnsweredOnce ==
  \A l \in Lock :
    /\ replies[l] = Count(frame[l] = "null")
    /\ frame[l] = "wait" => Waiting(l) \/ InGranted(l)

(* A thread is still to run a grant pass over the domain.                  *)
PassDue(d) ==
  \E t \in Thread :
    \/ /\ arg[t].dom = d
       /\ pc[t] \in {"grant", "granting"} \/ (clr[t].kind # {} /\ pc[t] # "unwinding")
    \/ \E l \in released[t] \cup (unwind[t] \ granted[t]) :
         /\ dom(l) = d
         /\ ~(arg[t].lock = l /\ pc[t] \in {"unwinding", "cleanup_unref"})

(* No wakeup is lost: unless a grant pass is due, each waiter is behind a  *)
(* granted lock of another owner or behind an earlier waiter it conflicts  *)
(* with.                                                                   *)
NoneStranded ==
  \A d \in Domain : ~PassDue(d) =>
    \A i \in DOMAIN blocked_inodelks[d] :
      LET b == blocked_inodelks[d][i] IN
      \/ ~__inodelk_grantable(b)
      \/ \E j \in 1..(i - 1) : inodelk_conflict(b, blocked_inodelks[d][j])

(* GF_ASSERT (list_empty(&pl_ctx->inodelk_lockers)) in                     *)
(* pl_client_destroy_cbk, and no lock of the dead client is left behind.   *)
DestroyedHoldsNothing ==
  \A c \in Client : conn[c] = "destroyed" =>
    /\ client_list[c] = <<>>
    /\ \A l \in Lock : attr[l].client = c => ~(l \in inodelk_list \/ Waiting(l))

(* The saved next pointer of the cleanup loop stays on the client's list:  *)
(* whoever unlinks a lock from that list must exclude the loop.            *)
CursorLive ==
  \A t \in Thread : pc[t] = "cleanup" /\ cursor[t] # NoLock
                      => cursor[t] \in Elems(client_list[arg[t].client])

Covers(g, l) ==
  attr[g].fl_start <= attr[l].fl_start /\ attr[l].fl_end <= attr[g].fl_end

(* No step queues a lock nested in an exclusive lock of its owner.         *)
QueuesNoNested ==
  \A d \in Domain :
    \A l \in Elems(blocked_inodelks'[d]) \ Elems(blocked_inodelks[d]) :
      ~ \E g \in Granted(d) : /\ same_inodelk_owner(g, l) /\ Covers(g, l)
                              /\ attr[g].fl_type = "F_WRLCK"

(* A lock nested in an exclusive lock of its owner is never queued, not    *)
(* even behind a waiter (the self-heal example in __lock_inodelk): it      *)
(* would wait for its own owner.                                           *)
NestedNotBlocked == [][QueuesNoNested]_vars

(* Every request is answered in the end.                                   *)
Answered == \A l \in Lock : frame[l] = "wait" ~> frame[l] = "null"

----------------------------------------------------------------------------
(* The abstract service: the held locks are the granted lists, and a       *)
(* request granted by a pass is owed its answer until the pass unwinds it. *)

Rivals(l1, l2) ==
  dom(l1) = dom(l2) /\ inodelk_conflict(l1, l2) /\ ~same_inodelk_owner(l1, l2)

Status(l) ==
  CASE frame[l] = "none" -> "none"
    [] frame[l] = "null" -> "answered"
    [] frame[l] = "wait" -> IF InGranted(l) THEN "owed" ELSE "asked"

Service == INSTANCE LockService
             WITH Lock <- Lock, Conflicts <- Rivals, holders <- inodelk_list,
                  status <- [l \in Lock |-> Status(l)]

(* The threads, lists and reference counts implement the lock service: no  *)
(* request is granted twice, granted after it was refused, or granted      *)
(* against a lock that is held.                                            *)
ImplementsService == Service!Spec
============================================================================
