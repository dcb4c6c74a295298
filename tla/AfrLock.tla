------------------------------ MODULE AfrLock ------------------------------
(***************************************************************************)
(* cluster/afr: how transactions and data self-heals of one file take      *)
(* their inode locks on the bricks of a replica set.                       *)
(*                                                                         *)
(* A lock is first tried on all bricks at once, without blocking.  When    *)
(* that fails, what was acquired is given back and the bricks are locked   *)
(* one after the other, in their order, with blocking calls.  A heal takes *)
(* the lock of the self-heal domain for its whole duration and below it    *)
(* three times the lock of the data domain, in which the transactions of   *)
(* the clients take theirs.                                                *)
(*                                                                         *)
(* Every brick serves the locks as LockService promises: one holder and a  *)
(* queue.  All locks of a domain conflict (a file of one block).           *)
(***************************************************************************)
EXTENDS Integers, Sequences, FiniteSets

CONSTANTS
  ChildCount,  \* priv->child_count
  Client,      \* processes that run write transactions
  Shd,         \* processes that heal: daemons, and clients that look up
  Free,        \* no process
  MaxFaults    \* how many connections break

Brick == 1..ChildCount
Proc == Client \cup Shd
Domain == {"sh_domain", "data"}

ASSUME LockersAssumption ==
  /\ ChildCount \in Nat \ {0} /\ MaxFaults \in Nat
  /\ Free \notin Proc

AFR_SH_MIN_PARTICIPANTS == 2

VARIABLES
  holder,     \* who has the lock of a domain on a brick
  waiting,    \* who waits for it there
  child_up,   \* the bricks a process is connected to
  call,       \* which lock a process is after, or has
  phase,      \* how far the taking or the giving back of that lock is
  todo,       \* the bricks whose answer is outstanding (the barrier)
  wound,      \* the bricks the non-blocking calls went to
  eagain,     \* the bricks that answered them with EAGAIN
  locked_on,  \* the bricks a process counts as locked, in each domain
  cookie,     \* the next brick of the blocking calls
  lost,       \* the domains in which a process lost a lock it counts on
  faults      \* the connections that have broken

bricks == <<holder, waiting>>
proc   == <<call, phase, todo, wound, eagain, cookie>>
vars   == <<bricks, child_up, proc, locked_on, lost, faults>>

(* The lock calls of a transaction, of afr_selfheal_data and of            *)
(* __afr_selfheal_data with afr_selfheal_data_block.                       *)
Call == {"none", "transaction", "heal", "prepare", "block", "undo"}
Dom(c) == IF c = "heal" THEN "sh_domain" ELSE "data"
dom(p) == Dom(call[p])

(* try: non-blocking calls out; back: giving back before the blocking      *)
(* calls; seq, wait: between and in blocking calls; held: enough locks;    *)
(* release, failed: unlocking after use, after failure.                    *)
Phase == {"idle", "try", "back", "seq", "wait", "held", "release", "failed"}

Init ==
  /\ holder = [d \in Domain |-> [b \in Brick |-> Free]]
  /\ waiting = [d \in Domain |-> [b \in Brick |-> <<>>]]
  /\ child_up = [p \in Proc |-> Brick]
  /\ call = [p \in Proc |-> "none"]
  /\ phase = [p \in Proc |-> "idle"]
  /\ todo = [p \in Proc |-> {}]
  /\ wound = [p \in Proc |-> {}]
  /\ eagain = [p \in Proc |-> {}]
  /\ locked_on = [p \in Proc |-> [d \in Domain |-> {}]]
  /\ cookie = [p \in Proc |-> 1]
  /\ lost = [p \in Proc |-> {}]
  /\ faults = 0

----------------------------------------------------------------------------
(* The bricks                                                              *)

Elems(q) == {q[i] : i \in DOMAIN q}

(* The queue q without the call of p: a process waits in it once at most.  *)
Without(q, p) ==
  IF p \notin Elems(q) THEN q
  ELSE LET k == CHOOSE i \in DOMAIN q : q[i] = p
       IN  [i \in 1..Len(q) - 1 |-> IF i < k THEN q[i] ELSE q[i + 1]]

(* The holder is gone: the first waiter has the lock.                      *)
Pass(d, b) ==
  LET q == waiting[d][b] IN
  /\ holder' = [holder EXCEPT ![d][b] = IF q = <<>> THEN Free ELSE Head(q)]
  /\ waiting' = [waiting EXCEPT ![d][b] = IF q = <<>> THEN q ELSE Tail(q)]

Goto(p, f) == phase' = [phase EXCEPT ![p] = f]

(* The fan-out of the non-blocking calls of lock c.                        *)
Try(p, c) ==
  /\ call' = [call EXCEPT ![p] = c]
  /\ Goto(p, "try")
  /\ todo' = [todo EXCEPT ![p] = child_up[p]]
  /\ wound' = [wound EXCEPT ![p] = child_up[p]]
  /\ eagain' = [eagain EXCEPT ![p] = {}]
  /\ locked_on' = [locked_on EXCEPT ![p][Dom(c)] = {}]
  /\ lost' = [lost EXCEPT ![p] = @ \ {Dom(c)}]

(* Mutant: the loop over the locked bricks stops one short.                *)
Untry_OneShort(p, c, f) ==
  /\ call' = [call EXCEPT ![p] = c]
  /\ Goto(p, f)
  /\ todo' = [todo EXCEPT ![p] =
       {b \in locked_on[p][Dom(c)] \cap child_up[p] :
          \E a \in locked_on[p][Dom(c)] : a > b}]

(* The fan-out of the unlocks of lock c, on the bricks counted as locked.  *)
Untry(p, c, f) ==
  /\ call' = [call EXCEPT ![p] = c]
  /\ Goto(p, f)
  /\ todo' = [todo EXCEPT ![p] = locked_on[p][Dom(c)] \cap child_up[p]]

----------------------------------------------------------------------------
(* Taking a lock                                                           *)

Begin(p) ==
  /\ phase[p] = "idle"
  /\ \/ p \in Client /\ Try(p, "transaction")
     \/ p \in Shd /\ Try(p, "heal")
  /\ UNCHANGED <<bricks, child_up, cookie, faults>>

(* Brick b answers a non-blocking call.                                    *)
SETLK(p, b) ==
  /\ phase[p] = "try" /\ b \in todo[p]
  /\ todo' = [todo EXCEPT ![p] = @ \ {b}]
  /\ IF holder[dom(p)][b] = Free
       THEN /\ holder' = [holder EXCEPT ![dom(p)][b] = p]
            /\ locked_on' = [locked_on EXCEPT ![p][dom(p)] = @ \cup {b}]
            /\ UNCHANGED eagain
       ELSE /\ eagain' = [eagain EXCEPT ![p] = @ \cup {b}]
            /\ UNCHANGED <<holder, locked_on>>
  /\ UNCHANGED <<waiting, child_up, call, phase, wound, cookie, lost, faults>>

(* Mutant: a heal starts with the lock of one brick.                       *)
Enough_One(c, n) ==
  CASE c = "block" -> {n >= sinks : sinks \in 1..ChildCount - 1}
    [] OTHER -> {n > 0}

(* Is the number n of locks enough?  A block is healed if it is at least   *)
(* the number of its sinks, which are any but one of the bricks.           *)
Enough(c, n) ==
  CASE c = "transaction" -> {n > 0}
    [] c = "block" -> {n >= sinks : sinks \in 1..ChildCount - 1}
    [] OTHER -> {n >= AFR_SH_MIN_PARTICIPANTS}

(* All calls are answered: use the locks, or give them back.               *)
Locked(p) ==
  \E enough \in Enough(call[p], Cardinality(locked_on[p][dom(p)])) :
    IF enough THEN Goto(p, "held") /\ UNCHANGED <<call, todo>>
              ELSE Untry(p, call[p], "failed")

(* Blocking calls follow when, for a transaction, any brick did not grant  *)
(* the lock (afr_nonblocking_inodelk_cbk), for the locks below a heal,     *)
(* some brick said EAGAIN (afr_selfheal_inodelk), and for the heal itself, *)
(* only if it also has a majority (afr_selfheal_tie_breaker_inodelk).      *)
Insist(p) ==
  LET n == Cardinality(locked_on[p][dom(p)]) IN
  CASE call[p] = "transaction" -> n # Cardinality(wound[p])
    [] call[p] = "heal" -> n > ChildCount \div 2 /\ eagain[p] # {}
    [] OTHER -> eagain[p] # {}

Tried(p) ==
  /\ phase[p] = "try" /\ todo[p] = {}
  /\ IF Insist(p) THEN Untry(p, call[p], "back") ELSE Locked(p)
  /\ eagain' = [eagain EXCEPT ![p] = {}]
  /\ wound' = [wound EXCEPT ![p] = IF Insist(p) THEN @ ELSE {}]
  /\ UNCHANGED <<bricks, child_up, cookie, locked_on, lost, faults>>

(* Brick b performs an unlock.                                             *)
UNLCK(p, b) ==
  /\ phase[p] \in {"back", "release", "failed"} /\ b \in todo[p]
  /\ todo' = [todo EXCEPT ![p] = @ \ {b}]
  /\ IF holder[dom(p)][b] = p THEN Pass(dom(p), b) ELSE UNCHANGED bricks
  /\ UNCHANGED <<child_up, call, phase, wound, eagain, cookie, locked_on, lost, faults>>

(* Mutant: the non-blocking calls are repeated.                            *)
GaveBack_TryAgain(p) ==
  /\ phase[p] = "back" /\ todo[p] = {}
  /\ Try(p, call[p])
  /\ UNCHANGED <<bricks, child_up, cookie, faults>>

(* All is given back: the blocking calls begin with the first brick.       *)
GaveBack(p) ==
  /\ phase[p] = "back" /\ todo[p] = {}
  /\ Goto(p, "seq")
  /\ locked_on' = [locked_on EXCEPT ![p][dom(p)] = {}]
  /\ lost' = [lost EXCEPT ![p] = @ \ {dom(p)}]
  /\ UNCHANGED <<bricks, child_up, call, todo, wound, eagain, cookie, faults>>

(* A transaction calls the bricks that were up when it began, a heal those *)
(* that are up now; a brick that is not connected answers ENOTCONN.        *)
Skip(p) == cookie[p] \notin
  (IF call[p] = "transaction" THEN wound[p] \cap child_up[p] ELSE child_up[p])

(* Brick b has granted the lock.                                           *)
Counted(p, b) ==
  /\ locked_on' = [locked_on EXCEPT ![p][dom(p)] = @ \cup {b}]
  /\ cookie' = [cookie EXCEPT ![p] = b + 1]

(* The next blocking call.                                                 *)
SETLKW(p) ==
  LET b == cookie[p] IN
  /\ phase[p] = "seq" /\ b \in Brick
  /\ \/ /\ Skip(p)
        /\ cookie' = [cookie EXCEPT ![p] = b + 1]
        /\ UNCHANGED <<bricks, phase, locked_on>>
     \/ /\ ~Skip(p) /\ holder[dom(p)][b] \in {Free, p}
        /\ holder' = [holder EXCEPT ![dom(p)][b] = p]
        /\ Counted(p, b)
        /\ UNCHANGED <<waiting, phase>>
     \/ /\ ~Skip(p) /\ holder[dom(p)][b] \notin {Free, p}
        /\ waiting' = [waiting EXCEPT ![dom(p)][b] = Append(@, p)]
        /\ Goto(p, "wait")
        /\ UNCHANGED <<holder, cookie, locked_on>>
  /\ UNCHANGED <<child_up, call, todo, wound, eagain, lost, faults>>

(* The brick has granted the lock and its answer arrives.                  *)
Granted(p) ==
  /\ phase[p] = "wait" /\ holder[dom(p)][cookie[p]] = p
  /\ Counted(p, cookie[p])
  /\ Goto(p, "seq")
  /\ UNCHANGED <<bricks, child_up, call, todo, wound, eagain, lost, faults>>

SeqDone(p) ==
  /\ phase[p] = "seq" /\ cookie[p] \notin Brick
  /\ Locked(p)
  /\ cookie' = [cookie EXCEPT ![p] = 1]
  /\ wound' = [wound EXCEPT ![p] = {}]
  /\ UNCHANGED <<bricks, child_up, eagain, locked_on, lost, faults>>

----------------------------------------------------------------------------
(* Using it and giving it back                                             *)

(* The work under a lock ends: a heal goes on below its lock, the other    *)
(* locks are given back.                                                   *)
Use(p) ==
  /\ phase[p] = "held"
  /\ \/ /\ call[p] = "heal"
        /\ Try(p, "prepare")
     \/ /\ call[p] # "heal"
        /\ Untry(p, call[p], "release")
        /\ UNCHANGED <<wound, eagain, locked_on, lost>>
  /\ UNCHANGED <<bricks, child_up, cookie, faults>>

(* Forget the lock that has been given back.                               *)
Forget(p) ==
  /\ locked_on' = [locked_on EXCEPT ![p][dom(p)] = {}]
  /\ lost' = [lost EXCEPT ![p] = @ \ {dom(p)}]

Released(p) ==
  /\ phase[p] \in {"release", "failed"} /\ todo[p] = {}
  /\ \/ /\ call[p] \in {"transaction", "heal"}
        /\ call' = [call EXCEPT ![p] = "none"]
        /\ Goto(p, "idle")
        /\ Forget(p)
        /\ UNCHANGED <<todo, wound, eagain>>
     \/ /\ phase[p] = "release" /\ call[p] = "prepare"
        /\ Try(p, "block")
     \/ /\ phase[p] = "release" /\ call[p] = "block"
        /\ Try(p, "undo")
     \/ (* a lock or the work under it failed, nothing to heal, or the end *)
        /\ call[p] \in {"prepare", "block", "undo"}
        /\ Untry(p, "heal", "release")
        /\ Forget(p)
        /\ UNCHANGED <<wound, eagain>>
  /\ UNCHANGED <<bricks, child_up, cookie, faults>>

----------------------------------------------------------------------------
(* Connections                                                             *)

(* The connection of p to b breaks: its outstanding calls are answered     *)
(* with ENOTCONN, its locks and its waiting calls on b are cleaned up.     *)
Disconnect(p, b) ==
  /\ b \in child_up[p] /\ faults < MaxFaults
  /\ faults' = faults + 1
  /\ child_up' = [child_up EXCEPT ![p] = @ \ {b}]
  /\ todo' = [todo EXCEPT ![p] = @ \ {b}]
  /\ lost' = [lost EXCEPT ![p] = @ \cup {d \in Domain : b \in locked_on[p][d]}]
  /\ LET q(d) == Without(waiting[d][b], p) IN
     /\ holder' = [d \in Domain |-> [holder[d] EXCEPT ![b] =
          IF @ # p THEN @ ELSE IF q(d) = <<>> THEN Free ELSE Head(q(d))]]
     /\ waiting' = [d \in Domain |-> [waiting[d] EXCEPT ![b] =
          IF holder[d][b] = p /\ q(d) # <<>> THEN Tail(q(d)) ELSE q(d)]]
  /\ IF phase[p] = "wait" /\ cookie[p] = b
       THEN Goto(p, "seq") /\ cookie' = [cookie EXCEPT ![p] = b + 1]
       ELSE UNCHANGED <<phase, cookie>>
  /\ UNCHANGED <<call, wound, eagain, locked_on>>

Reconnect(p, b) ==
  /\ b \notin child_up[p]
  /\ child_up' = [child_up EXCEPT ![p] = @ \cup {b}]
  /\ UNCHANGED <<bricks, proc, locked_on, lost, faults>>

----------------------------------------------------------------------------
(* What goes on once a process has begun.                                  *)
Continue(p) ==
  \/ \E b \in Brick : SETLK(p, b) \/ UNLCK(p, b)
  \/ Tried(p) \/ GaveBack(p) \/ SETLKW(p) \/ Granted(p) \/ SeqDone(p)
  \/ Use(p) \/ Released(p)

Next ==
  \E p \in Proc :
    \/ Begin(p) \/ Continue(p)
    \/ \E b \in Brick : Disconnect(p, b) \/ Reconnect(p, b)

Spec == Init /\ [][Next]_vars

(* Answers arrive, and what is done under a lock ends.                     *)
FairSpec == Spec /\ \A p \in Proc : WF_vars(Continue(p))

----------------------------------------------------------------------------
(* Properties                                                              *)

(* Type invariant of the bricks and the lock calls.                        *)
TypeOK ==
  /\ holder \in [Domain -> [Brick -> Proc \cup {Free}]]
  /\ \A d \in Domain, b \in Brick : waiting[d][b] \in Seq(Proc)
  /\ child_up \in [Proc -> SUBSET Brick]
  /\ call \in [Proc -> Call] /\ phase \in [Proc -> Phase]
  /\ todo \in [Proc -> SUBSET Brick] /\ wound \in [Proc -> SUBSET Brick]
  /\ eagain \in [Proc -> SUBSET Brick]
  /\ locked_on \in [Proc -> [Domain -> SUBSET Brick]]
  /\ cookie \in [Proc -> 1..ChildCount + 1]
  /\ lost \in [Proc -> SUBSET Domain]
  /\ faults \in 0..MaxFaults

(* p heals: it has passed the check of afr_selfheal_data.                  *)
Healing(p) == \/ call[p] \in {"prepare", "block", "undo"}
              \/ call[p] = "heal" /\ phase[p] = "held"

(* Two daemons never heal the file at the same time, unless one of them    *)
(* has lost a connection on which it held the lock of the self-heal domain *)
(* (afr_selfheal_data and the tie breaker; else both take the changelog    *)
(* back and its counts go negative).                                       *)
OneHeal ==
  \A p, q \in Shd : p # q /\ Healing(p) /\ Healing(q) =>
    "sh_domain" \in lost[p] \cup lost[q]

(* No lock is leaked: what a brick has granted is either counted by its    *)
(* holder, who will unlock it, or the answer to a blocking call that is    *)
(* still awaited (afr_locked_fill, afr_unlock_inodelk).                    *)
NoLeak ==
  \A d \in Domain, b \in Brick : holder[d][b] # Free =>
    LET p == holder[d][b] IN
    \/ b \in locked_on[p][d]
    \/ phase[p] = "wait" /\ dom(p) = d /\ cookie[p] = b

(* Nobody waits for ever: non-blocking calls that are undone before the    *)
(* blocking ones, and blocking ones in the order of the bricks, cannot     *)
(* deadlock, with the lock of the self-heal domain held across those of    *)
(* the data domain, and whatever connections break.                        *)
EveryoneFinishes ==
  \A p \in Proc : phase[p] # "idle" ~> phase[p] = "idle"
============================================================================
