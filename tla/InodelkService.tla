-------------------------- MODULE InodelkService ---------------------------
(***************************************************************************)
(* What a client gets from the inode locks of a brick: every request is    *)
(* answered once, and the brick is the lock service of LockService.        *)
(***************************************************************************)
EXTENDS InodelkProofs

(* Leaves are first-order reasoning unless they cite SMT.                  *)
USE Zenon

----------------------------------------------------------------------------
(* Every request that is not answered is in exactly one hand               *)

(* The hands: the thread that executes the request, the local list of a    *)
(* grant pass, the requests a thread is about to unwind, the queue.        *)
Own(t, l) == /\ arg[t].lock = l
             /\ pc[t] \in {"prune", "pruning", "setlk"} \/ ret[t] = "setlk"

Splice(t, l) == l \in Elems(blocked_list[t])

Has(t, l) == Own(t, l) \/ Splice(t, l) \/ l \in unwind[t]

Queue(l) == l \in Elems(blocked_inodelks[dom(l)])

(* Where a thread has something in its local lists                         *)
ThreadOK(t) ==
  /\ pc[t] \in {"granting", "clr_blkd_loop", "clr_granted_loop"} => mutex = t
  /\ blocked_list[t] # <<>> => pc[t] = "granting"
  /\ granted[t] # {} => pc[t] \in {"granting", "unwinding"}
  /\ pc[t] \in {"granting", "unwinding"} => unwind[t] \subseteq granted[t]
  /\ unwind[t] # {} => pc[t] \in {"granting", "unwinding", "cleanup",
                           "cleanup_unwind", "clr_blkd_loop", "clr_unwind"}
  /\ pc[t] \in {"idle", "unlocked", "cleanup", "cleanup_unwind",
                "cleanup_unref"} => ret[t] # "setlk"

LinksOK ==
  /\ \A d \in Domain : /\ NoDup(blocked_inodelks[d])
                       /\ \A l \in Elems(blocked_inodelks[d]) : dom(l) = d
  /\ \A t \in Thread : NoDup(blocked_list[t])
  /\ \A c \in Client : /\ NoDup(client_list[c])
                       /\ \A l \in Elems(client_list[c]) : attr[l].client = c

(* Neither answered nor granted so far                                     *)
New(l) == \/ frame[l] = "none" \/ Queue(l)
          \/ \E t \in Thread : \/ Own(t, l) \/ Splice(t, l)
                               \/ l \in unwind[t] /\ l \notin granted[t]

Listed(l) == l \in Elems(client_list[attr[l].client])

Life(l) ==
  /\ frame[l] = "wait" <=> (Queue(l) \/ \E t \in Thread : Has(t, l))
  /\ Queue(l) => \A t \in Thread : ~Has(t, l)
  /\ \A t, u \in Thread : Has(t, l) /\ Has(u, l) => t = u
  /\ \A t \in Thread : /\ ~(Own(t, l) /\ Splice(t, l))
                       /\ ~(Own(t, l) /\ l \in unwind[t])
                       /\ ~(Splice(t, l) /\ l \in unwind[t])
                       /\ l \in granted[t]
                            => l \in unwind[t] \/ frame[l] = "null"
  /\ New(l) => /\ l \notin inodelk_list
               /\ \A t \in Thread : l \notin granted[t] /\ l \notin released[t]
  /\ replies[l] = Count(frame[l] = "null")
  /\ Listed(l) <=>
       (l \in inodelk_list \/ Queue(l) \/ \E t \in Thread : Splice(t, l))

LifeInv == /\ TypeInv /\ LinksOK
           /\ \A t \in Thread : ThreadOK(t)
           /\ \A l \in Lock : Life(l)

LEMMA EmptyElems == Elems(<<>>) = {} /\ NoDup(<<>>)
BY EmptyIs, SMT DEF Elems, NoDup

LEMMA InitLifeInv == Init => LifeInv
<1> SUFFICES ASSUME Init PROVE LifeInv
  OBVIOUS
<1>1. TypeInv BY InitTypeInv
<1>2. LinksOK BY EmptyElems DEF Init, LinksOK
<1>3. ASSUME NEW t \in Thread PROVE ThreadOK(t)
  BY DEF Init, ThreadOK
<1>4. ASSUME NEW l \in Lock PROVE Life(l)
  <2>1. dom(l) \in Domain /\ attr[l].client \in Client BY FieldTypes
  <2>2. ~Queue(l) /\ ~Listed(l)
    BY <2>1, EmptyElems DEF Init, Queue, Listed
  <2>3. ASSUME NEW t \in Thread PROVE ~Own(t, l) /\ ~Splice(t, l)
    <3>1. ~Own(t, l) BY DEF Init, Own
    <3>2. ~Splice(t, l) BY EmptyElems DEF Init, Splice
    <3> QED BY <3>1, <3>2
  <2> QED BY <2>2, <2>3 DEF Init, Life, Has, New, Count
<1> QED BY <1>1, <1>2, <1>3, <1>4 DEF LifeInv

(* The other threads are where they were                                   *)
Elsewhere(t) ==
  \A u \in Thread \ {t} :
    /\ pc'[u] = pc[u] /\ ret'[u] = ret[u] /\ arg'[u] = arg[u]
    /\ blocked_list'[u] = blocked_list[u] /\ granted'[u] = granted[u]
    /\ unwind'[u] = unwind[u] /\ released'[u] = released[u]

LEMMA CallIs ==
  ASSUME RunOK, NEW t \in Thread, NEW f, NEW r, NEW a, Call(t, f, r, a)
  PROVE  /\ pc'[t] = f /\ ret'[t] = r /\ arg'[t] = a
         /\ \A u \in Thread \ {t} :
              pc'[u] = pc[u] /\ ret'[u] = ret[u] /\ arg'[u] = arg[u]
BY DEF Call, RunOK

LEMMA GotoIs ==
  ASSUME RunOK, NEW t \in Thread, NEW label, Goto(t, label)
  PROVE  /\ pc'[t] = label /\ ret'[t] = ret[t] /\ arg'[t] = arg[t]
         /\ \A u \in Thread \ {t} :
              pc'[u] = pc[u] /\ ret'[u] = ret[u] /\ arg'[u] = arg[u]
BY DEF Goto, RunOK

Trying == {"prune", "pruning", "setlk"}

(* A request that changes hands before it is granted                       *)
Alone(t, l) == /\ ~Queue(l) /\ Has(t, l)
               /\ \A u \in Thread \ {t} : ~Has(u, l)
               /\ ~(Own(t, l) /\ Splice(t, l))
               /\ ~(Own(t, l) /\ l \in unwind[t])
               /\ ~(Splice(t, l) /\ l \in unwind[t])

(* What a request in a hand is not                                         *)
LEMMA NewIs ==
  ASSUME LifeInv, NEW l \in Lock, New(l)
  PROVE  /\ l \notin inodelk_list
         /\ \A u \in Thread : l \notin granted[u] /\ l \notin released[u]
         /\ frame[l] = "none" => /\ ~Queue(l) /\ ~Listed(l)
                                 /\ \A u \in Thread : ~Has(u, l)
         /\ frame[l] # "none" => frame[l] = "wait"
         /\ replies[l] = 0
<1>1. Life(l) BY DEF LifeInv
<1>2. \A u \in Thread : Splice(u, l) => Has(u, l) BY DEF Has
<1>3. \A u \in Thread : Own(u, l) \/ l \in unwind[u] => Has(u, l) BY DEF Has
<1>4. frame[l] # "none" => frame[l] = "wait"
  BY <1>1, <1>2, <1>3 DEF Life, New
<1>5. replies[l] = 0 BY <1>1, <1>4 DEF Life, Count
<1> QED BY <1>1, <1>2, <1>4, <1>5 DEF Life

LEMMA HandIs ==
  ASSUME LifeInv, NEW l \in Lock, NEW t \in Thread, Has(t, l)
  PROVE  Alone(t, l) /\ frame[l] = "wait" /\ replies[l] = 0
<1>1. Life(l) BY DEF LifeInv
<1> QED BY <1>1 DEF Life, Alone, Count

QueuesOK == \A d \in Domain : /\ NoDup(blocked_inodelks[d])
                              /\ \A l \in Elems(blocked_inodelks[d]) : dom(l) = d

ClientsOK == \A c \in Client : /\ NoDup(client_list[c])
                               /\ \A l \in Elems(client_list[c]) :
                                    attr[l].client = c

SplicesOK == \A t \in Thread : NoDup(blocked_list[t])

(* The first lock of the local list of a grant pass                        *)
LEMMA HeadIs ==
  ASSUME LifeInv, NEW t \in Thread, blocked_list[t] # <<>>, NEW k,
         k = Head(blocked_list[t]),
         blocked_list' = [blocked_list EXCEPT ![t] = Tail(@)]
  PROVE  /\ k \in Lock /\ Splice(t, k) /\ SplicesOK' /\ ~Splice(t, k)'
         /\ \A l \in Lock \ {k} : Splice(t, l)' <=> Splice(t, l)
         /\ \A u \in Thread \ {t} : blocked_list'[u] = blocked_list[u]
<1> DEFINE s == blocked_list[t]
<1>1. blocked_list \in [Thread -> Seq(Lock)] /\ SplicesOK
  BY DEF LifeInv, TypeInv, TypeOK, LocalsOK, LinksOK, SplicesOK
<1>2. s \in Seq(Lock) /\ NoDup(s) /\ s # <<>> BY <1>1 DEF SplicesOK
<1>3. /\ blocked_list'[t] = Tail(s)
      /\ \A u \in Thread \ {t} : blocked_list'[u] = blocked_list[u]
  BY <1>1
<1>4. /\ k \in Lock /\ k \in Elems(s) /\ Elems(s) = Elems(Tail(s)) \cup {k}
      /\ NoDup(Tail(s)) /\ k \notin Elems(Tail(s))
  BY <1>2, TailElems
<1> HIDE DEF s
<1>5. SplicesOK' BY <1>1, <1>3, <1>4 DEF SplicesOK
<1>6. Splice(t, k) /\ ~Splice(t, k)' BY <1>3, <1>4 DEF Splice, s
<1>7. \A l \in Lock \ {k} : Splice(t, l)' <=> Splice(t, l)
  BY <1>3, <1>4 DEF Splice, s
<1> QED BY <1>3, <1>4, <1>5, <1>6, <1>7

LEMMA NextLifeInv == LifeInv /\ [Next]_vars => LifeInv'
(* A request no part of which changes                                      *)
<1>SameLife.
      ASSUME NEW l \in Lock, Life(l), frame'[l] = frame[l],
             replies'[l] = replies[l], l \in inodelk_list' <=> l \in inodelk_list,
             Queue(l)' <=> Queue(l), Listed(l)' <=> Listed(l),
             \A u \in Thread :
               /\ Own(u, l)' <=> Own(u, l)
               /\ Splice(u, l)' <=> Splice(u, l)
               /\ l \in unwind'[u] <=> l \in unwind[u]
               /\ l \in granted'[u] => l \in granted[u]
               /\ l \in unwind[u] /\ l \in granted[u] => l \in granted'[u]
               /\ l \in released'[u] => l \in released[u]
      PROVE  Life(l)'
  <2> USE <1>SameLife
  <2>1. \A u \in Thread : Has(u, l)' <=> Has(u, l) BY DEF Has
  <2>2. New(l)' => New(l) BY DEF New
  <2>3. /\ frame'[l] = "wait" <=> (Queue(l)' \/ \E t \in Thread : Has(t, l)')
        /\ Queue(l)' => \A t \in Thread : ~Has(t, l)'
        /\ \A t, u \in Thread : Has(t, l)' /\ Has(u, l)' => t = u
    BY <2>1 DEF Life
  <2>4. \A t \in Thread : /\ ~(Own(t, l)' /\ Splice(t, l)')
                          /\ ~(Own(t, l)' /\ l \in unwind'[t])
                          /\ ~(Splice(t, l)' /\ l \in unwind'[t])
                          /\ l \in granted'[t]
                               => l \in unwind'[t] \/ frame'[l] = "null"
    BY DEF Life
  <2>5. New(l)' => /\ l \notin inodelk_list'
                   /\ \A t \in Thread : l \notin granted'[t] /\ l \notin released'[t]
    BY <2>2 DEF Life
  <2>6. /\ replies'[l] = Count(frame'[l] = "null")
        /\ Listed(l)' <=> (l \in inodelk_list' \/ Queue(l)'
                             \/ \E t \in Thread : Splice(t, l)')
    BY DEF Life
  <2> QED BY <2>3, <2>4, <2>5, <2>6 DEF Life

(* A request that is answered and in no hand                               *)
<1>AnsweredLife.
      ASSUME NEW l \in Lock, frame'[l] = "null", replies'[l] = 1, ~Queue(l)',
             \A u \in Thread : ~Has(u, l)',
             Listed(l)' <=> l \in inodelk_list'
      PROVE  Life(l)'
  BY <1>AnsweredLife DEF Life, Has, New, Count

<1>OthersOK.
      ASSUME LifeInv, NEW t \in Thread, Elsewhere(t), ThreadOK(t)',
             \/ mutex' = mutex \/ mutex = NoThread
             \/ mutex = t
      PROVE  \A u \in Thread : ThreadOK(u)'
  <2> USE <1>OthersOK
  <2> SUFFICES ASSUME NEW u \in Thread, u # t PROVE ThreadOK(u)'
    OBVIOUS
  <2>1. ThreadOK(u) /\ u # NoThread BY LockAssumption DEF LifeInv
  <2> QED BY <2>1 DEF ThreadOK, Elsewhere

(* A step that moves no request                                            *)
<1>QuietLife.
      ASSUME LifeInv, TypeInv', NEW t \in Thread, Elsewhere(t),
             UNCHANGED <<frame, replies, inodelk_list, blocked_inodelks,
                         client_list, blocked_list, unwind>>,
             granted'[t] = granted[t] \/ (unwind[t] = {} /\ granted'[t] = {}),
             released'[t] \subseteq released[t],
             \A l \in Lock : Own(t, l)' <=> Own(t, l),
             mutex' = mutex \/ mutex = NoThread \/ mutex = t, ThreadOK(t)'
      PROVE  LifeInv'
  <2> USE <1>QuietLife
  <2>1. \A u \in Thread : ThreadOK(u)' BY <1>OthersOK
  <2>2. LinksOK' BY DEF LifeInv, LinksOK
  <2>3. ASSUME NEW l \in Lock PROVE Life(l)'
    <3>1. Life(l) BY DEF LifeInv
    <3>2. ASSUME NEW u \in Thread
          PROVE  /\ Own(u, l)' <=> Own(u, l)
                 /\ Splice(u, l)' <=> Splice(u, l)
                 /\ l \in unwind'[u] <=> l \in unwind[u]
                 /\ l \in granted'[u] => l \in granted[u]
                 /\ l \in unwind[u] /\ l \in granted[u] => l \in granted'[u]
                 /\ l \in released'[u] => l \in released[u]
      <4>1. Own(u, l)' <=> Own(u, l) BY DEF Elsewhere, Own
      <4>2. Splice(u, l)' <=> Splice(u, l) BY DEF Splice
      <4>3. /\ l \in granted'[u] => l \in granted[u]
            /\ l \in unwind[u] /\ l \in granted[u] => l \in granted'[u]
            /\ l \in released'[u] => l \in released[u]
        BY DEF Elsewhere
      <4> QED BY <4>1, <4>2, <4>3
    <3>3. (Queue(l)' <=> Queue(l)) /\ (Listed(l)' <=> Listed(l))
      BY DEF Queue, Listed
    <3> QED BY <3>1, <3>2, <3>3, <1>SameLife
  <2> QED BY <2>1, <2>2, <2>3 DEF LifeInv

(* A step of thread t that moves one request                               *)
<1>OneLife.
      ASSUME LifeInv, TypeInv', NEW t \in Thread, NEW k \in Lock, Elsewhere(t),
             LinksOK', ThreadOK(t)', mutex' = mutex, Life(k)',
             \A l \in Lock \ {k} :
               /\ frame'[l] = frame[l] /\ replies'[l] = replies[l]
               /\ l \in inodelk_list' <=> l \in inodelk_list
               /\ Queue(l)' <=> Queue(l)
               /\ Listed(l)' <=> Listed(l)
               /\ Own(t, l)' <=> Own(t, l)
               /\ Splice(t, l)' <=> Splice(t, l)
               /\ l \in unwind'[t] <=> l \in unwind[t]
               /\ l \in granted'[t] <=> l \in granted[t]
               /\ l \in released'[t] <=> l \in released[t]
      PROVE  LifeInv'
  <2> USE <1>OneLife
  <2>1. \A u \in Thread : ThreadOK(u)' BY <1>OthersOK
  <2>2. ASSUME NEW l \in Lock, l # k PROVE Life(l)'
    <3>1. Life(l) BY DEF LifeInv
    <3>2. ASSUME NEW u \in Thread
          PROVE  /\ Own(u, l)' <=> Own(u, l)
                 /\ Splice(u, l)' <=> Splice(u, l)
                 /\ l \in unwind'[u] <=> l \in unwind[u]
                 /\ l \in granted'[u] <=> l \in granted[u]
                 /\ l \in released'[u] <=> l \in released[u]
      <4>1. CASE u = t BY <2>2, <4>1
      <4>2. CASE u # t BY <4>2 DEF Elsewhere, Own, Splice
      <4> QED BY <4>1, <4>2
    <3> QED BY <2>2, <3>1, <3>2, <1>SameLife
  <2> QED BY <2>1, <2>2 DEF LifeInv

(* Steps that go from one place to another with all requests where they    *)
(* were                                                                    *)
<1>QuietGoto.
      ASSUME LifeInv, TypeInv', NEW t \in Thread, NEW label, Goto(t, label),
             pc[t] \in Trying <=> label \in Trying,
             UNCHANGED <<frame, replies, lists, blocked_list, granted, unwind>>,
             released' = released
               \/ \E k : released' = [released EXCEPT ![t] = @ \ {k}],
             mutex' = mutex \/ mutex = NoThread \/ mutex = t, ThreadOK(t)'
      PROVE  LifeInv'
  <2> USE <1>QuietGoto
  <2>1. RunOK /\ released \in [Thread -> SUBSET Lock]
    BY DEF LifeInv, TypeInv, TypeOK, LocalsOK
  <2>2. /\ pc'[t] = label /\ ret'[t] = ret[t] /\ arg'[t] = arg[t]
        /\ \A u \in Thread \ {t} :
             pc'[u] = pc[u] /\ ret'[u] = ret[u] /\ arg'[u] = arg[u]
    BY <2>1, GotoIs
  <2>3. /\ released'[t] \subseteq released[t]
        /\ \A u \in Thread \ {t} : released'[u] = released[u]
    BY <2>1
  <2>4. Elsewhere(t) BY <2>2, <2>3 DEF Elsewhere
  <2>5. \A l \in Lock : Own(t, l)' <=> Own(t, l) BY <2>2 DEF Own, Trying
  <2>6. UNCHANGED <<frame, replies, inodelk_list, blocked_inodelks, client_list,
                    blocked_list, unwind>>
    BY DEF lists
  <2>7. granted'[t] = granted[t] OBVIOUS
  <2> QED BY <2>3, <2>4, <2>5, <2>6, <2>7, <1>QuietLife

<1>QuietCall.
      ASSUME LifeInv, TypeInv', NEW t \in Thread, NEW f, NEW r, NEW a,
             Call(t, f, r, a),
             UNCHANGED <<frame, replies, lists, mutex, blocked_list, granted, unwind>>,
             released' = released
               \/ \E k : released' = [released EXCEPT ![t] = @ \ {k}],
             pc[t] \notin Trying /\ ret[t] # "setlk",
             f \notin Trying /\ r # "setlk", ThreadOK(t)'
      PROVE  LifeInv'
  <2> USE <1>QuietCall
  <2>1. RunOK /\ released \in [Thread -> SUBSET Lock]
    BY DEF LifeInv, TypeInv, TypeOK, LocalsOK
  <2>2. /\ pc'[t] = f /\ ret'[t] = r /\ arg'[t] = a
        /\ \A u \in Thread \ {t} :
             pc'[u] = pc[u] /\ ret'[u] = ret[u] /\ arg'[u] = arg[u]
    BY <2>1, CallIs
  <2>3. /\ released'[t] \subseteq released[t]
        /\ \A u \in Thread \ {t} : released'[u] = released[u]
    BY <2>1
  <2>4. Elsewhere(t) BY <2>2, <2>3 DEF Elsewhere
  <2>5. \A l \in Lock : Own(t, l)' <=> Own(t, l) BY <2>2 DEF Own, Trying
  <2>6. UNCHANGED <<frame, replies, inodelk_list, blocked_inodelks, client_list,
                    blocked_list, unwind>>
    BY DEF lists
  <2>7. granted'[t] = granted[t] OBVIOUS
  <2> QED BY <2>3, <2>4, <2>5, <2>6, <2>7, <1>QuietLife

<1>QuietGotos.
      ASSUME LifeInv, TypeInv', NEW t \in Thread,
             \/ PruneCheck(t) \/ PruneNothing(t) \/ GrantLeave(t) \/ CleanupLeave(t)
             \/ ClrEnter(t) \/ ClrBlockedLeave(t) \/ ClrUnwound(t)
             \/ ClrGrantedLeave(t) \/ ClrRead(t) \/ ClrWrite(t) \/ ClrReleased(t)
      PROVE  LifeInv'
  <2> USE <1>QuietGotos
  <2>1. ThreadOK(t) /\ RunOK BY DEF LifeInv, TypeInv, TypeOK
  <2>2. UNCHANGED <<frame, replies, lists, blocked_list, granted, unwind>>
    BY DEF PruneCheck, PruneNothing, GrantLeave, CleanupLeave, ClrEnter,
       ClrBlockedLeave, ClrUnwound, ClrGrantedLeave, ClrRead, ClrWrite,
       ClrReleased, objs, locals
  <2>3. released' = released
          \/ \E k : released' = [released EXCEPT ![t] = @ \ {k}]
    BY DEF PruneCheck, PruneNothing, GrantLeave, CleanupLeave, ClrEnter,
       ClrBlockedLeave, ClrUnwound, ClrGrantedLeave, ClrRead, ClrWrite,
       ClrReleased, locals
  <2>4. CASE PruneCheck(t) \/ PruneNothing(t)
    <3>1. PICK label \in {"setlk", "pruning"} : Goto(t, label)
      BY <2>4 DEF PruneCheck, PruneNothing
    <3>2. pc[t] \in Trying
      BY <2>4 DEF PruneCheck, PruneNothing, Trying
    <3>3. mutex' = mutex BY <2>4 DEF PruneCheck, PruneNothing, shared
    <3>4. pc'[t] = label /\ ret'[t] = ret[t] BY <2>1, <3>1, GotoIs
    <3>5. ThreadOK(t)' BY <2>1, <2>2, <3>2, <3>3, <3>4 DEF ThreadOK, Trying
    <3>6. pc[t] \in Trying <=> label \in Trying BY <3>2 DEF Trying
    <3> QED BY <2>2, <2>3, <3>1, <3>3, <3>5, <3>6, <1>QuietGoto
  <2>5. CASE GrantLeave(t)
    <3>1. PICK label \in {"unwinding"} : Goto(t, label)
      BY <2>5 DEF GrantLeave
    <3>2. pc[t] = "granting" /\ blocked_list[t] = <<>>
      BY <2>5 DEF GrantLeave, Trying
    <3>3. mutex = t BY <2>1, <3>2 DEF ThreadOK
    <3>4. pc'[t] = label /\ ret'[t] = ret[t] BY <2>1, <3>1, GotoIs
    <3>5. ThreadOK(t)' BY <2>1, <2>2, <3>2, <3>3, <3>4 DEF ThreadOK, Trying
    <3>6. pc[t] \in Trying <=> label \in Trying BY <3>2 DEF Trying
    <3> QED BY <2>2, <2>3, <3>1, <3>3, <3>5, <3>6, <1>QuietGoto
  <2>6. CASE CleanupLeave(t)
    <3>1. PICK label \in {"cleanup_unwind"} : Goto(t, label)
      BY <2>6 DEF CleanupLeave
    <3>2. pc[t] = "cleanup"
      BY <2>6 DEF CleanupLeave, Trying
    <3>3. mutex' = mutex BY <2>6 DEF CleanupLeave, shared
    <3>4. pc'[t] = label /\ ret'[t] = ret[t] BY <2>1, <3>1, GotoIs
    <3>5. ThreadOK(t)' BY <2>1, <2>2, <3>2, <3>3, <3>4 DEF ThreadOK, Trying
    <3>6. pc[t] \in Trying <=> label \in Trying BY <3>2 DEF Trying
    <3> QED BY <2>2, <2>3, <3>1, <3>3, <3>5, <3>6, <1>QuietGoto
  <2>7. CASE ClrEnter(t)
    <3>1. PICK label \in {"clr_blkd_loop", "clr_granted_loop"} : Goto(t, label)
      BY <2>7 DEF ClrEnter
    <3>2. pc[t] \in {"clr_blkd", "clr_granted"}
      BY <2>7 DEF ClrEnter, Trying
    <3>3. mutex = NoThread /\ mutex' = t BY <2>7 DEF ClrEnter, shared
    <3>4. pc'[t] = label /\ ret'[t] = ret[t] BY <2>1, <3>1, GotoIs
    <3>5. ThreadOK(t)' BY <2>1, <2>2, <3>2, <3>3, <3>4 DEF ThreadOK, Trying
    <3>6. pc[t] \in Trying <=> label \in Trying BY <3>2 DEF Trying
    <3> QED BY <2>2, <2>3, <3>1, <3>3, <3>5, <3>6, <1>QuietGoto
  <2>8. CASE ClrBlockedLeave(t)
    <3>1. PICK label \in {"clr_unwind"} : Goto(t, label)
      BY <2>8 DEF ClrBlockedLeave
    <3>2. pc[t] = "clr_blkd_loop"
      BY <2>8 DEF ClrBlockedLeave, Trying
    <3>3. mutex = t BY <2>1, <3>2 DEF ThreadOK
    <3>4. pc'[t] = label /\ ret'[t] = ret[t] BY <2>1, <3>1, GotoIs
    <3>5. ThreadOK(t)' BY <2>1, <2>2, <3>2, <3>3, <3>4 DEF ThreadOK, Trying
    <3>6. pc[t] \in Trying <=> label \in Trying BY <3>2 DEF Trying
    <3> QED BY <2>2, <2>3, <3>1, <3>3, <3>5, <3>6, <1>QuietGoto
  <2>9. CASE ClrUnwound(t)
    <3>1. PICK label \in {"clr_granted", "grant"} : Goto(t, label)
      BY <2>9 DEF ClrUnwound
    <3>2. pc[t] = "clr_unwind" /\ unwind[t] = {}
      BY <2>9 DEF ClrUnwound, Trying
    <3>3. mutex' = mutex BY <2>9 DEF ClrUnwound, shared
    <3>4. pc'[t] = label /\ ret'[t] = ret[t] BY <2>1, <3>1, GotoIs
    <3>5. ThreadOK(t)' BY <2>1, <2>2, <3>2, <3>3, <3>4 DEF ThreadOK, Trying
    <3>6. pc[t] \in Trying <=> label \in Trying BY <3>2 DEF Trying
    <3> QED BY <2>2, <2>3, <3>1, <3>3, <3>5, <3>6, <1>QuietGoto
  <2>10. CASE ClrGrantedLeave(t)
    <3>1. PICK label \in {"clr_read"} : Goto(t, label)
      BY <2>10 DEF ClrGrantedLeave
    <3>2. pc[t] = "clr_granted_loop"
      BY <2>10 DEF ClrGrantedLeave, Trying
    <3>3. mutex = t BY <2>1, <3>2 DEF ThreadOK
    <3>4. pc'[t] = label /\ ret'[t] = ret[t] BY <2>1, <3>1, GotoIs
    <3>5. ThreadOK(t)' BY <2>1, <2>2, <3>2, <3>3, <3>4 DEF ThreadOK, Trying
    <3>6. pc[t] \in Trying <=> label \in Trying BY <3>2 DEF Trying
    <3> QED BY <2>2, <2>3, <3>1, <3>3, <3>5, <3>6, <1>QuietGoto
  <2>11. CASE ClrRead(t) \/ ClrWrite(t) \/ ClrReleased(t)
    <3>1. PICK label \in {"clr_write", "clr_read", "grant"} : Goto(t, label)
      BY <2>11 DEF ClrRead, ClrWrite, ClrReleased
    <3>2. pc[t] \in {"clr_read", "clr_write"}
      BY <2>11 DEF ClrRead, ClrWrite, ClrReleased, Trying
    <3>3. mutex' = mutex BY <2>11 DEF ClrRead, ClrWrite, ClrReleased, shared
    <3>4. pc'[t] = label /\ ret'[t] = ret[t] BY <2>1, <3>1, GotoIs
    <3>5. ThreadOK(t)' BY <2>1, <2>2, <3>2, <3>3, <3>4 DEF ThreadOK, Trying
    <3>6. pc[t] \in Trying <=> label \in Trying BY <3>2 DEF Trying
    <3> QED BY <2>2, <2>3, <3>1, <3>3, <3>5, <3>6, <1>QuietGoto
  <2> QED BY <2>4, <2>5, <2>6, <2>7, <2>8, <2>9, <2>10, <2>11

<1>QuietCalls.
      ASSUME LifeInv, TypeInv', NEW t \in Thread,
             \/ UnlockReturn(t) \/ CleanupGrant(t) \/ CleanupUnref(t)
             \/ CleanupReturn(t) \/ \E c \in Client : Disconnect(t, c) \/ Destroy(t, c)
             \/ \E d \in Domain, kind \in ClearLocks, range \in ClrRanges :
                  Clrlk(t, d, kind, range)
      PROVE  LifeInv'
  <2> USE <1>QuietCalls
  <2>1. ThreadOK(t) /\ RunOK BY DEF LifeInv, TypeInv, TypeOK
  <2>2. UNCHANGED <<frame, replies, lists, mutex, blocked_list, granted, unwind>>
    BY DEF UnlockReturn, CleanupGrant, CleanupUnref, CleanupReturn,
       Disconnect, Destroy, Cleanup, Clrlk, objs, shared, locals
  <2>3. released' = released
          \/ \E k : released' = [released EXCEPT ![t] = @ \ {k}]
    BY DEF UnlockReturn, CleanupGrant, CleanupUnref, CleanupReturn,
       Disconnect, Destroy, Cleanup, Clrlk, locals
  <2>4. PICK f, r, a : /\ Call(t, f, r, a) /\ r # "setlk"
                       /\ f \in {"idle", "cleanup", "cleanup_unwind",
                                "grant", "clr_blkd", "clr_granted"}
    BY DEF UnlockReturn, CleanupGrant, CleanupUnref, CleanupReturn,
       Disconnect, Destroy, Cleanup, Clrlk, Return, ClrStart
  <2>5. pc[t] \in {"idle", "unlocked", "cleanup_unwind", "cleanup_unref"}
    BY DEF UnlockReturn, CleanupGrant, CleanupUnref, CleanupReturn,
       Disconnect, Destroy, Cleanup, Clrlk
  <2>6. unwind[t] = {}
    <3>1. CASE pc[t] # "cleanup_unwind" BY <2>1, <2>5, <3>1 DEF ThreadOK
    <3>2. CASE pc[t] = "cleanup_unwind"
      <4>1. CleanupGrant(t) \/ CleanupReturn(t)
        BY <3>2 DEF UnlockReturn, CleanupUnref, Disconnect, Destroy, Cleanup,
           Clrlk
      <4> QED BY <4>1 DEF CleanupGrant, CleanupReturn
    <3> QED BY <3>1, <3>2
  <2>7. pc'[t] = f /\ ret'[t] = r BY <2>1, <2>4, CallIs, SMT
  <2>8. ThreadOK(t)' BY <2>1, <2>2, <2>4, <2>5, <2>6, <2>7 DEF ThreadOK
  <2>9. /\ pc[t] \notin Trying /\ ret[t] # "setlk" /\ f \notin Trying
    BY <2>1, <2>4, <2>5 DEF ThreadOK, Trying
  <2> QED BY <2>2, <2>3, <2>4, <2>8, <2>9, <1>QuietCall

<1>PruneRevokeLife.
      ASSUME LifeInv, TypeInv', NEW t \in Thread, PruneRevoke(t)
      PROVE  LifeInv'
  <2> USE <1>PruneRevokeLife
  <2>1. ThreadOK(t) /\ RunOK BY DEF LifeInv, TypeInv, TypeOK
  <2>2. /\ UNCHANGED <<frame, replies, inodelk_list, blocked_inodelks,
                       client_list, blocked_list, granted, unwind, released, mutex>>
        /\ pc[t] = "pruning"
    BY DEF PruneRevoke, objs, lists, shared, locals
  <2>3. PICK f \in {"clr_blkd", "clr_granted"} : Call(t, f, "setlk", arg[t])
    BY DEF PruneRevoke, ClrStart
  <2>4. /\ pc'[t] = f /\ ret'[t] = "setlk" /\ arg'[t] = arg[t]
        /\ \A u \in Thread \ {t} :
             pc'[u] = pc[u] /\ ret'[u] = ret[u] /\ arg'[u] = arg[u]
    BY <2>1, <2>3, CallIs
  <2>5. Elsewhere(t) BY <2>2, <2>4 DEF Elsewhere
  <2>6. ThreadOK(t)' BY <2>1, <2>2, <2>4 DEF ThreadOK
  <2>7. \A l \in Lock : Own(t, l)' <=> Own(t, l) BY <2>2, <2>4 DEF Own
  <2>8. granted'[t] = granted[t] /\ released'[t] \subseteq released[t] BY <2>2
  <2> QED BY <2>2, <2>5, <2>6, <2>7, <2>8, <1>QuietLife

<1>GrantUnrefLife.
      ASSUME LifeInv, TypeInv', NEW t \in Thread, GrantUnref(t)
      PROVE  LifeInv'
  <2> USE <1>GrantUnrefLife
  <2>1. ThreadOK(t) /\ RunOK /\ granted \in [Thread -> SUBSET Lock]
    BY DEF LifeInv, TypeInv, TypeOK, LocalsOK
  <2>2. /\ UNCHANGED <<frame, replies, inodelk_list, blocked_inodelks,
                       client_list, blocked_list, unwind, released, mutex>>
        /\ pc[t] = "unwinding" /\ unwind[t] = {}
        /\ granted' = [granted EXCEPT ![t] = {}]
    BY DEF GrantUnref, lists, shared
  <2>3. /\ granted'[t] = {}
        /\ \A u \in Thread \ {t} : granted'[u] = granted[u]
    BY <2>1, <2>2
  <2>4. /\ \A u \in Thread \ {t} :
             pc'[u] = pc[u] /\ ret'[u] = ret[u] /\ arg'[u] = arg[u]
        /\ \/ /\ pc'[t] = "idle" /\ ret'[t] = "idle" /\ ret[t] = "idle"
           \/ /\ pc'[t] = ret[t] /\ ret'[t] = ret[t] /\ arg'[t] = arg[t]
              /\ ret[t] # "idle"
    <3>1. CASE ret[t] = "idle"
      <4>1. Call(t, "idle", "idle", NoArg) BY <3>1 DEF GrantUnref, Return
      <4> QED BY <2>1, <3>1, <4>1, CallIs
    <3>2. CASE ret[t] # "idle"
      <4>1. Goto(t, ret[t]) BY <3>2 DEF GrantUnref
      <4> QED BY <2>1, <3>2, <4>1, GotoIs
    <3> QED BY <3>1, <3>2
  <2>5. ret[t] \in {"idle", "setlk", "unlocked", "cleanup_unref"}
    BY <2>1 DEF RunOK
  <2>6. Elsewhere(t) BY <2>2, <2>3, <2>4 DEF Elsewhere
  <2>7. ThreadOK(t)' BY <2>1, <2>2, <2>3, <2>4, <2>5 DEF ThreadOK
  <2>8. \A l \in Lock : Own(t, l)' <=> Own(t, l) BY <2>2, <2>4, <2>5 DEF Own
  <2>9. released'[t] \subseteq released[t] BY <2>2
  <2> QED BY <2>2, <2>3, <2>6, <2>7, <2>8, <2>9, <1>QuietLife

<1>WaitingLife.
      ASSUME NEW l \in Lock, frame'[l] = "wait", replies'[l] = 0,
             l \notin inodelk_list',
             \A u \in Thread : l \notin granted'[u] /\ l \notin released'[u],
             \/ Queue(l)' /\ \A u \in Thread : ~Has(u, l)'
             \/ \E t \in Thread : Alone(t, l)',
             Listed(l)' <=> (Queue(l)' \/ \E t \in Thread : Splice(t, l)')
      PROVE  Life(l)'
  <2> USE <1>WaitingLife
  <2>1. CASE Queue(l)' /\ \A u \in Thread : ~Has(u, l)'
    BY <2>1 DEF Life, Has, Count
  <2>2. ASSUME NEW t \in Thread, Alone(t, l)' PROVE Life(l)'
    BY <2>2 DEF Life, Alone, Has, Count
  <2> QED BY <2>1, <2>2

<1>LinksAre. LinksOK <=> QueuesOK /\ ClientsOK /\ SplicesOK
  BY DEF LinksOK, QueuesOK, ClientsOK, SplicesOK

(* One request joins or leaves the queue of its domain                     *)
<1>QueueIs.
      ASSUME LifeInv, NEW k \in Lock, NEW q, NoDup(q),
             blocked_inodelks' = [blocked_inodelks EXCEPT ![dom(k)] = q],
             \A l : l # k => (l \in Elems(q) <=> l \in Elems(blocked_inodelks[dom(k)]))
      PROVE  /\ QueuesOK'
             /\ Queue(k)' <=> k \in Elems(q)
             /\ \A l \in Lock \ {k} : Queue(l)' <=> Queue(l)
  <2> USE <1>QueueIs
  <2>1. /\ blocked_inodelks \in [Domain -> Seq(Lock)] /\ dom(k) \in Domain
        /\ QueuesOK /\ \A l \in Lock : dom(l) \in Domain
    BY FieldTypes, <1>LinksAre DEF LifeInv, TypeInv, TypeOK, ListsOK
  <2>2. ASSUME NEW d \in Domain
        PROVE  blocked_inodelks'[d] = IF d = dom(k) THEN q ELSE blocked_inodelks[d]
    BY <2>1
  <2>3. QueuesOK' BY <2>1, <2>2 DEF QueuesOK
  <2>4. Queue(k)' <=> k \in Elems(q) BY <2>1, <2>2 DEF Queue
  <2>5. \A l \in Lock \ {k} : Queue(l)' <=> Queue(l) BY <2>1, <2>2 DEF Queue
  <2> QED BY <2>3, <2>4, <2>5

(* One lock joins or leaves the list of its client                         *)
<1>ClientIs.
      ASSUME LifeInv, NEW k \in Lock, NEW q, NoDup(q),
             client_list' = [client_list EXCEPT ![attr[k].client] = q],
             \A l : l # k => (l \in Elems(q) <=> l \in Elems(client_list[attr[k].client]))
      PROVE  /\ ClientsOK'
             /\ Listed(k)' <=> k \in Elems(q)
             /\ \A l \in Lock \ {k} : Listed(l)' <=> Listed(l)
  <2> USE <1>ClientIs
  <2>1. /\ client_list \in [Client -> Seq(Lock)] /\ attr[k].client \in Client
        /\ ClientsOK /\ \A l \in Lock : attr[l].client \in Client
    BY FieldTypes, <1>LinksAre DEF LifeInv, TypeInv, TypeOK, ListsOK
  <2>2. ASSUME NEW c \in Client
        PROVE  client_list'[c] = IF c = attr[k].client THEN q ELSE client_list[c]
    BY <2>1
  <2>3. ClientsOK' BY <2>1, <2>2 DEF ClientsOK
  <2>4. Listed(k)' <=> k \in Elems(q) BY <2>1, <2>2 DEF Listed
  <2>5. \A l \in Lock \ {k} : Listed(l)' <=> Listed(l) BY <2>1, <2>2 DEF Listed
  <2> QED BY <2>3, <2>4, <2>5

<1>QueueAppend.
      ASSUME LifeInv, NEW k \in Lock, ~Queue(k),
             blocked_inodelks' = [blocked_inodelks EXCEPT ![dom(k)] = Append(@, k)]
      PROVE  /\ QueuesOK' /\ Queue(k)'
             /\ \A l \in Lock \ {k} : Queue(l)' <=> Queue(l)
  <2> USE <1>QueueAppend
  <2> DEFINE s == blocked_inodelks[dom(k)]
  <2>1. s \in Seq(Lock) /\ NoDup(s) /\ k \notin Elems(s)
    BY FieldTypes DEF LifeInv, TypeInv, TypeOK, ListsOK, LinksOK, Queue
  <2>2. blocked_inodelks' = [blocked_inodelks EXCEPT ![dom(k)] = Append(s, k)]
    OBVIOUS
  <2> HIDE DEF s
  <2>3. NoDup(Append(s, k)) /\ Elems(Append(s, k)) = Elems(s) \cup {k}
    BY <2>1, AppendElems
  <2> QED BY <2>2, <2>3, <1>QueueIs DEF s

<1>ClientAppend.
      ASSUME LifeInv, NEW k \in Lock, ~Listed(k),
             client_list' = [client_list EXCEPT ![attr[k].client] = Append(@, k)]
      PROVE  /\ ClientsOK' /\ Listed(k)'
             /\ \A l \in Lock \ {k} : Listed(l)' <=> Listed(l)
  <2> USE <1>ClientAppend
  <2> DEFINE s == client_list[attr[k].client]
  <2>1. s \in Seq(Lock) /\ NoDup(s) /\ k \notin Elems(s)
    BY FieldTypes DEF LifeInv, TypeInv, TypeOK, ListsOK, LinksOK, Listed
  <2>2. client_list' = [client_list EXCEPT ![attr[k].client] = Append(s, k)]
    OBVIOUS
  <2> HIDE DEF s
  <2>3. NoDup(Append(s, k)) /\ Elems(Append(s, k)) = Elems(s) \cup {k}
    BY <2>1, AppendElems
  <2> QED BY <2>2, <2>3, <1>ClientIs DEF s

<1>ClientUnlink.
      ASSUME LifeInv, NEW k \in Lock,
             client_list' = [client_list EXCEPT ![attr[k].client] = Unlink(@, k)]
      PROVE  /\ ClientsOK' /\ ~Listed(k)'
             /\ \A l \in Lock \ {k} : Listed(l)' <=> Listed(l)
  <2> USE <1>ClientUnlink
  <2> DEFINE s == client_list[attr[k].client]
  <2>1. s \in Seq(Lock) /\ NoDup(s)
    BY FieldTypes DEF LifeInv, TypeInv, TypeOK, ListsOK, LinksOK
  <2>2. client_list' = [client_list EXCEPT ![attr[k].client] = Unlink(s, k)]
    OBVIOUS
  <2> HIDE DEF s
  <2>3. NoDup(Unlink(s, k)) /\ Elems(Unlink(s, k)) = Elems(s) \ {k}
    BY <2>1, UnlinkElems
  <2> QED BY <2>2, <2>3, <1>ClientIs DEF s

(* Nothing of the lists changes                                            *)
<1>SameLists.
      ASSUME LifeInv
      PROVE  /\ UNCHANGED blocked_inodelks =>
                  QueuesOK' /\ \A l \in Lock : Queue(l)' <=> Queue(l)
             /\ UNCHANGED client_list =>
                  ClientsOK' /\ \A l \in Lock : Listed(l)' <=> Listed(l)
             /\ UNCHANGED blocked_list =>
                  SplicesOK' /\ \A t \in Thread, l \in Lock :
                                  Splice(t, l)' <=> Splice(t, l)
  BY <1>SameLists, <1>LinksAre DEF LifeInv, QueuesOK, ClientsOK, SplicesOK, Queue, Listed, Splice

<1>RequestLife.
      ASSUME LifeInv, TypeInv', NEW t \in Thread, NEW k \in Lock, Request(t, k)
      PROVE  LifeInv'
  <2> USE <1>RequestLife
  <2>1. ThreadOK(t) /\ RunOK /\ frame \in [Lock -> {"none", "wait", "null"}]
    BY DEF LifeInv, TypeInv, TypeOK, ObjsOK
  <2>2. /\ UNCHANGED <<replies, inodelk_list, blocked_inodelks, client_list,
                       blocked_list, granted, unwind, released, mutex>>
        /\ pc[t] = "idle" /\ frame[k] = "none"
        /\ frame' = [frame EXCEPT ![k] = "wait"]
    BY DEF Request, lists, locals
  <2>3. PICK f \in Trying : Call(t, f, "idle", Arg(k, dom(k), attr[k].client))
    BY DEF Request, Trying
  <2>4. /\ pc'[t] = f /\ ret'[t] = "idle" /\ arg'[t].lock = k
        /\ \A u \in Thread \ {t} :
             pc'[u] = pc[u] /\ ret'[u] = ret[u] /\ arg'[u] = arg[u]
    BY <2>1, <2>3, CallIs, SMT DEF Arg
  <2>5. Elsewhere(t) BY <2>2, <2>4 DEF Elsewhere
  <2>6. ThreadOK(t)' BY <2>1, <2>2, <2>4 DEF ThreadOK, Trying
  <2>7. /\ LinksOK' /\ \A l \in Lock : Queue(l)' <=> Queue(l)
        /\ \A l \in Lock : Listed(l)' <=> Listed(l)
        /\ \A u \in Thread, l \in Lock : Splice(u, l)' <=> Splice(u, l)
    <3>1. LinksOK' BY <2>2, <1>SameLists, <1>LinksAre DEF LinksOK, LifeInv
    <3> QED BY <2>2, <3>1, <1>SameLists
  <2>8. \A l \in Lock \ {k} : Own(t, l)' <=> Own(t, l)
    BY <2>1, <2>2, <2>4 DEF Own, ThreadOK
  <2>9. Life(k)'
    <3>1. /\ k \notin inodelk_list /\ ~Queue(k) /\ ~Listed(k) /\ replies[k] = 0
          /\ \A u \in Thread : /\ k \notin granted[u] /\ k \notin released[u]
                               /\ ~Has(u, k)
      BY <2>2, NewIs DEF New
    <3>2. Own(t, k)' BY <2>4 DEF Own, Trying
    <3>3. \A u \in Thread \ {t} : ~Has(u, k)'
      BY <2>2, <2>5, <2>7, <3>1 DEF Has, Own, Elsewhere
    <3>4. Alone(t, k)' BY <2>2, <2>7, <3>1, <3>2, <3>3 DEF Alone, Has
    <3>5. \A u \in Thread : ~Splice(u, k)' BY <2>7, <3>1 DEF Has
    <3>6. frame'[k] = "wait" BY <2>1, <2>2
    <3> QED BY <2>2, <2>7, <3>1, <3>4, <3>5, <3>6, <1>WaitingLife
  <2>10. \A l \in Lock \ {k} : frame'[l] = frame[l] BY <2>1, <2>2
  <2> QED BY <2>2, <2>5, <2>6, <2>7, <2>8, <2>9, <2>10, <1>OneLife

(* The three ways out of pl_inode_setlk                                    *)
<1>SetlkLife.
      ASSUME LifeInv, TypeInv', NEW t \in Thread,
             SetlkGrant(t) \/ SetlkBlock(t) \/ SetlkEagain(t)
      PROVE  LifeInv'
  <2> USE <1>SetlkLife
  <2>1. /\ ThreadOK(t) /\ RunOK /\ frame \in [Lock -> {"none", "wait", "null"}]
        /\ replies \in [Lock -> Nat]
    BY DEF LifeInv, TypeInv, TypeOK, ObjsOK
  <2>2. /\ UNCHANGED <<blocked_list, granted, unwind, released, mutex>>
        /\ pc[t] = "setlk" /\ Return(t)
    BY DEF SetlkGrant, SetlkBlock, SetlkEagain, shared, locals
  <2>3. PICK k \in Lock : arg[t].lock = k
    BY <2>2 DEF LifeInv, TypeInv, PlaceOK
  <2>4. /\ pc'[t] = "idle" /\ ret'[t] = "idle" /\ arg'[t] = NoArg
        /\ \A u \in Thread \ {t} :
             pc'[u] = pc[u] /\ ret'[u] = ret[u] /\ arg'[u] = arg[u]
    BY <2>1, <2>2, CallIs DEF Return
  <2>5. Elsewhere(t) BY <2>2, <2>4 DEF Elsewhere
  <2>6. ThreadOK(t)' BY <2>1, <2>2, <2>4 DEF ThreadOK
  <2>7. Own(t, k) /\ Has(t, k) BY <2>2, <2>3 DEF Own, Has
  <2>8. /\ Alone(t, k) /\ frame[k] = "wait" /\ replies[k] = 0 /\ ~Queue(k)
        /\ k \notin inodelk_list
        /\ \A u \in Thread : k \notin granted[u] /\ k \notin released[u]
    BY <2>3, <2>7, HandIs, NewIs DEF New, Alone
  <2>9. \A u \in Thread : ~Splice(u, k) /\ k \notin unwind[u]
    BY <2>7, <2>8 DEF Alone, Has
  <2>10. ~Listed(k) BY <2>3, <2>8, <2>9 DEF LifeInv, Life
  <2>11. /\ SplicesOK'
         /\ \A u \in Thread, l \in Lock : Splice(u, l)' <=> Splice(u, l)
    BY <2>2, <1>SameLists
  <2>12. /\ \A l \in Lock \ {k} : Own(t, l)' <=> Own(t, l)
         /\ \A u \in Thread : ~Own(u, k)' /\ ~Has(u, k)'
    <3>1. \A l \in Lock : ~Own(t, l)' BY <2>4 DEF Own
    <3>2. \A l \in Lock \ {k} : ~Own(t, l) BY <2>3 DEF Own
    <3>3. \A u \in Thread \ {t} : ~Own(u, k)'
      BY <2>5, <2>8 DEF Alone, Has, Own, Elsewhere
    <3>4. \A u \in Thread : ~Own(u, k)' BY <2>3, <3>1, <3>3
    <3> QED BY <2>2, <2>3, <2>9, <2>11, <3>1, <3>2, <3>4 DEF Has
  <2>13. CASE SetlkGrant(t)
    <3>1. /\ UNCHANGED blocked_inodelks /\ inodelk_list' = inodelk_list \cup {k}
          /\ client_list' = [client_list EXCEPT ![attr[k].client] = Append(@, k)]
          /\ STACK_UNWIND(k)
      BY <2>3, <2>13 DEF SetlkGrant
    <3>2. /\ frame'[k] = "null" /\ replies'[k] = 1
          /\ \A l \in Lock \ {k} : frame'[l] = frame[l] /\ replies'[l] = replies[l]
      BY <2>1, <2>3, <2>8, <3>1, SMT DEF STACK_UNWIND
    <3>3. /\ ClientsOK' /\ Listed(k)'
          /\ \A l \in Lock \ {k} : Listed(l)' <=> Listed(l)
      BY <2>3, <2>10, <3>1, <1>ClientAppend
    <3>4. QueuesOK' /\ \A l \in Lock : Queue(l)' <=> Queue(l)
      BY <3>1, <1>SameLists
    <3>5. LinksOK' BY <2>11, <3>3, <3>4 DEF LinksOK, QueuesOK, ClientsOK, SplicesOK
    <3>6. Life(k)' BY <2>3, <2>8, <2>12, <3>1, <3>2, <3>3, <3>4, <1>AnsweredLife
    <3> QED BY <2>2, <2>3, <2>5, <2>6, <2>11, <2>12, <3>1, <3>2, <3>3, <3>4, <3>5,
               <3>6, <1>OneLife
  <2>14. CASE SetlkBlock(t)
    <3>1. /\ UNCHANGED <<inodelk_list, frame, replies>>
          /\ client_list' = [client_list EXCEPT ![attr[k].client] = Append(@, k)]
          /\ blocked_inodelks' = [blocked_inodelks EXCEPT ![dom(k)] = Append(@, k)]
      BY <2>3, <2>14 DEF SetlkBlock, objs
    <3>2. /\ ClientsOK' /\ Listed(k)'
          /\ \A l \in Lock \ {k} : Listed(l)' <=> Listed(l)
      BY <2>3, <2>10, <3>1, <1>ClientAppend
    <3>3. /\ QueuesOK' /\ Queue(k)'
          /\ \A l \in Lock \ {k} : Queue(l)' <=> Queue(l)
      BY <2>3, <2>8, <3>1, <1>QueueAppend
    <3>4. LinksOK' BY <2>11, <3>2, <3>3 DEF LinksOK, QueuesOK, ClientsOK, SplicesOK
    <3>5. Life(k)'
      <4>1. frame'[k] = "wait" /\ replies'[k] = 0 /\ k \notin inodelk_list'
        BY <2>8, <3>1
      <4>2. \A u \in Thread : k \notin granted'[u] /\ k \notin released'[u]
        BY <2>2, <2>8
      <4> QED BY <2>3, <2>12, <3>2, <3>3, <4>1, <4>2, <1>WaitingLife
    <3> QED BY <2>2, <2>3, <2>5, <2>6, <2>11, <2>12, <3>1, <3>2, <3>3, <3>4, <3>5,
               <1>OneLife
  <2>15. CASE SetlkEagain(t)
    <3>1. /\ UNCHANGED <<inodelk_list, client_list, blocked_inodelks>>
          /\ STACK_UNWIND(k)
      BY <2>3, <2>15 DEF SetlkEagain, lists
    <3>2. /\ frame'[k] = "null" /\ replies'[k] = 1
          /\ \A l \in Lock \ {k} : frame'[l] = frame[l] /\ replies'[l] = replies[l]
      BY <2>1, <2>3, <2>8, <3>1, SMT DEF STACK_UNWIND
    <3>3. /\ ClientsOK' /\ QueuesOK' /\ \A l \in Lock : Listed(l)' <=> Listed(l)
          /\ \A l \in Lock : Queue(l)' <=> Queue(l)
      BY <3>1, <1>SameLists
    <3>4. LinksOK' BY <2>11, <3>3 DEF LinksOK, QueuesOK, ClientsOK, SplicesOK
    <3>5. Life(k)'
      BY <2>3, <2>8, <2>10, <2>12, <3>1, <3>2, <3>3, <1>AnsweredLife
    <3> QED BY <2>2, <2>3, <2>5, <2>6, <2>11, <2>12, <3>1, <3>2, <3>3, <3>4, <3>5,
               <1>OneLife
  <2> QED BY <2>13, <2>14, <2>15

(* A granted lock that leaves the lists, whoever answers it                *)
<1>LeaveLife.
      ASSUME LifeInv, NEW l \in Lock, l \in inodelk_list, l \notin inodelk_list',
             frame'[l] = frame[l], replies'[l] = replies[l],
             Queue(l)' <=> Queue(l), ~Listed(l)',
             \A u \in Thread :
               /\ Own(u, l)' <=> Own(u, l)
               /\ Splice(u, l)' <=> Splice(u, l)
               /\ l \in unwind'[u] <=> l \in unwind[u]
               /\ l \in granted'[u] <=> l \in granted[u]
      PROVE  Life(l)'
  <2> USE <1>LeaveLife
  <2>1. Life(l) /\ ~New(l) BY DEF LifeInv, Life
  <2>2. \A u \in Thread : Has(u, l)' <=> Has(u, l) BY DEF Has
  <2>3. ~New(l)' BY <2>1 DEF New
  <2>4. ~Queue(l)' /\ \A u \in Thread : ~Splice(u, l)' BY <2>1 DEF New
  <2>5. /\ frame'[l] = "wait" <=> (Queue(l)' \/ \E t \in Thread : Has(t, l)')
        /\ \A t, u \in Thread : Has(t, l)' /\ Has(u, l)' => t = u
    BY <2>1, <2>2 DEF Life
  <2>6. \A t \in Thread : /\ ~(Own(t, l)' /\ Splice(t, l)')
                          /\ ~(Own(t, l)' /\ l \in unwind'[t])
                          /\ ~(Splice(t, l)' /\ l \in unwind'[t])
                          /\ l \in granted'[t]
                               => l \in unwind'[t] \/ frame'[l] = "null"
    BY <2>1 DEF Life
  <2>7. replies'[l] = Count(frame'[l] = "null") BY <2>1 DEF Life
  <2> QED BY <2>3, <2>4, <2>5, <2>6, <2>7 DEF Life

<1>UnlockLife.
      ASSUME LifeInv, TypeInv', NEW t \in Thread, NEW k \in Lock, Unlock(t, k)
      PROVE  LifeInv'
  <2> USE <1>UnlockLife
  <2>1. ThreadOK(t) /\ RunOK BY DEF LifeInv, TypeInv, TypeOK
  <2>2. /\ UNCHANGED <<frame, replies, blocked_inodelks, blocked_list, granted,
                       unwind, released, mutex>>
        /\ pc[t] = "idle" /\ k \in inodelk_list
        /\ inodelk_list' = inodelk_list \ {k}
        /\ client_list' = [client_list EXCEPT ![attr[k].client] = Unlink(@, k)]
        /\ Call(t, "grant", "unlocked", Arg(NoLock, dom(k), attr[k].client))
    BY DEF Unlock, shared, locals
  <2>3. /\ pc'[t] = "grant" /\ ret'[t] = "unlocked"
        /\ \A u \in Thread \ {t} :
             pc'[u] = pc[u] /\ ret'[u] = ret[u] /\ arg'[u] = arg[u]
    BY <2>1, <2>2, CallIs
  <2>4. Elsewhere(t) BY <2>2, <2>3 DEF Elsewhere
  <2>5. ThreadOK(t)' BY <2>1, <2>2, <2>3 DEF ThreadOK
  <2>6. /\ SplicesOK' /\ QueuesOK' /\ \A l \in Lock : Queue(l)' <=> Queue(l)
        /\ \A u \in Thread, l \in Lock : Splice(u, l)' <=> Splice(u, l)
    BY <2>2, <1>SameLists
  <2>7. /\ ClientsOK' /\ ~Listed(k)'
        /\ \A l \in Lock \ {k} : Listed(l)' <=> Listed(l)
    BY <2>2, <1>ClientUnlink
  <2>8. LinksOK' BY <2>6, <2>7 DEF LinksOK, QueuesOK, ClientsOK, SplicesOK
  <2>9. \A u \in Thread, l \in Lock : Own(u, l)' <=> Own(u, l)
    <3>1. \A l \in Lock : ~Own(t, l)' /\ ~Own(t, l)
      BY <2>1, <2>2, <2>3 DEF Own, ThreadOK
    <3>2. \A u \in Thread \ {t}, l \in Lock : Own(u, l)' <=> Own(u, l)
      BY <2>3 DEF Own
    <3> QED BY <3>1, <3>2
  <2>10. Life(k)' BY <2>2, <2>6, <2>7, <2>9, <1>LeaveLife
  <2> QED BY <2>2, <2>4, <2>5, <2>6, <2>7, <2>8, <2>9, <2>10, <1>OneLife

<1>ClrGrantedLife.
      ASSUME LifeInv, TypeInv', NEW t \in Thread, ClrGranted(t)
      PROVE  LifeInv'
  <2> USE <1>ClrGrantedLife
  <2>1. ThreadOK(t) /\ released \in [Thread -> SUBSET Lock]
    BY DEF LifeInv, TypeInv, TypeOK, LocalsOK
  <2>2. PICK k \in inodelk_list :
        /\ inodelk_list' = inodelk_list \ {k}
        /\ client_list' = [client_list EXCEPT ![attr[k].client] = Unlink(@, k)]
        /\ released' = [released EXCEPT ![t] = @ \cup {k}]
    BY DEF ClrGranted, Granted
  <2>3. k \in Lock BY DEF LifeInv, TypeInv, TypeOK, ListsOK
  <2>4. /\ UNCHANGED <<frame, replies, blocked_inodelks, blocked_list, granted,
                       unwind, mutex, pc, ret, arg>>
    BY DEF ClrGranted, objs, shared, run
  <2>5. /\ \A u \in Thread \ {t} : released'[u] = released[u]
        /\ \A l \in Lock \ {k} : l \in released'[t] <=> l \in released[t]
    BY <2>1, <2>2
  <2>6. Elsewhere(t) BY <2>4, <2>5 DEF Elsewhere
  <2>7. ThreadOK(t)' BY <2>1, <2>4 DEF ThreadOK
  <2>8. /\ SplicesOK' /\ QueuesOK' /\ \A l \in Lock : Queue(l)' <=> Queue(l)
        /\ \A u \in Thread, l \in Lock : Splice(u, l)' <=> Splice(u, l)
    BY <2>4, <1>SameLists
  <2>9. /\ ClientsOK' /\ ~Listed(k)'
        /\ \A l \in Lock \ {k} : Listed(l)' <=> Listed(l)
    BY <2>2, <2>3, <1>ClientUnlink
  <2>10. LinksOK' BY <2>8, <2>9 DEF LinksOK, QueuesOK, ClientsOK, SplicesOK
  <2>11. \A u \in Thread, l \in Lock : Own(u, l)' <=> Own(u, l) BY <2>4 DEF Own
  <2>12. Life(k)'
    <3>1. k \notin inodelk_list' BY <2>2
    <3> QED BY <2>2, <2>3, <2>4, <2>8, <2>9, <2>11, <3>1, <1>LeaveLife
  <2>13. \A l \in Lock \ {k} : l \in inodelk_list' <=> l \in inodelk_list BY <2>2
  <2> QED BY <2>3, <2>4, <2>5, <2>6, <2>7, <2>8, <2>9, <2>10, <2>11, <2>12,
             <2>13, <1>OneLife

(* A thread answers a request it has taken off the lists                   *)
<1>UnwindLife.
      ASSUME LifeInv, TypeInv', NEW t \in Thread, NEW k \in unwind[t],
             STACK_UNWIND(k), unwind' = [unwind EXCEPT ![t] = @ \ {k}],
             \/ released' = released
             \/ released' = [released EXCEPT ![t] = @ \cup {k}],
             UNCHANGED <<lists, mutex, pc, ret, arg, blocked_list, granted>>
      PROVE  LifeInv'
  <2> USE <1>UnwindLife
  <2>1. /\ ThreadOK(t) /\ LocalsOK /\ frame \in [Lock -> {"none", "wait", "null"}]
        /\ replies \in [Lock -> Nat]
    BY DEF LifeInv, TypeInv, TypeOK, ObjsOK
  <2>2. k \in Lock BY <2>1 DEF LocalsOK
  <2>3. /\ unwind'[t] = unwind[t] \ {k}
        /\ \A u \in Thread \ {t} : unwind'[u] = unwind[u]
        /\ \A u \in Thread \ {t} : released'[u] = released[u]
        /\ \A l \in Lock \ {k} : l \in released'[t] <=> l \in released[t]
    BY <2>1 DEF LocalsOK
  <2>4. Elsewhere(t) BY <2>3 DEF Elsewhere
  <2>5. ThreadOK(t)' BY <2>1, <2>3 DEF ThreadOK
  <2>6. Has(t, k) BY DEF Has
  <2>7. Alone(t, k) /\ replies[k] = 0 BY <2>2, <2>6, HandIs
  <2>8. /\ SplicesOK' /\ QueuesOK' /\ \A l \in Lock : Queue(l)' <=> Queue(l)
        /\ \A u \in Thread, l \in Lock : Splice(u, l)' <=> Splice(u, l)
        /\ ClientsOK' /\ \A l \in Lock : Listed(l)' <=> Listed(l)
    BY <1>SameLists DEF lists
  <2>9. LinksOK' BY <2>8 DEF LinksOK, QueuesOK, ClientsOK, SplicesOK
  <2>10. \A u \in Thread, l \in Lock : Own(u, l)' <=> Own(u, l) BY DEF Own
  <2>11. /\ frame'[k] = "null" /\ replies'[k] = 1
         /\ \A l \in Lock \ {k} : frame'[l] = frame[l] /\ replies'[l] = replies[l]
    BY <2>1, <2>2, <2>7, SMT DEF STACK_UNWIND
  <2>12. Life(k)'
    <3>1. ~Own(t, k) /\ ~Splice(t, k) BY <2>7 DEF Alone
    <3>2. ~Has(t, k)' BY <2>2, <2>3, <2>8, <2>10, <3>1 DEF Has
    <3>3. \A u \in Thread \ {t} : ~Has(u, k)'
      BY <2>2, <2>3, <2>7, <2>8, <2>10 DEF Has, Alone
    <3>4. \A u \in Thread : ~Splice(u, k) BY <2>7, <3>1 DEF Has, Alone
    <3>5. ~Queue(k)' BY <2>2, <2>7, <2>8 DEF Alone
    <3>6. Listed(k) <=> k \in inodelk_list
      BY <2>2, <2>7, <3>4 DEF LifeInv, Life, Alone
    <3>7. Listed(k)' <=> k \in inodelk_list' BY <2>2, <2>8, <3>6 DEF lists
    <3> QED BY <2>2, <2>11, <3>2, <3>3, <3>5, <3>7, <1>AnsweredLife
  <2>13. \A l \in Lock \ {k} : l \in unwind'[t] <=> l \in unwind[t] BY <2>3
  <2> QED BY <2>2, <2>3, <2>4, <2>5, <2>8, <2>9, <2>10, <2>11, <2>12, <2>13,
             <1>OneLife DEF lists

<1>UnwindsLife.
      ASSUME LifeInv, TypeInv', NEW t \in Thread,
             GrantUnwind(t) \/ CleanupUnwind(t) \/ ClrUnwind(t)
      PROVE  LifeInv'
  <2> USE <1>UnwindsLife
  <2>1. CASE GrantUnwind(t)
    BY <2>1, <1>UnwindLife DEF GrantUnwind, shared, run
  <2>2. CASE ClrUnwind(t)
    BY <2>2, <1>UnwindLife DEF ClrUnwind, shared, run
  <2>3. CASE CleanupUnwind(t)
    <3>1. PICK k \in unwind[t] :
            /\ IF frame[k] = "wait" THEN STACK_UNWIND(k)
                                    ELSE UNCHANGED <<frame, replies>>
            /\ unwind' = [unwind EXCEPT ![t] = @ \ {k}]
            /\ released' = [released EXCEPT ![t] = @ \cup {k}]
      BY <2>3 DEF CleanupUnwind
    <3>2. k \in Lock BY DEF LifeInv, TypeInv, TypeOK, LocalsOK
    <3>3. frame[k] = "wait" BY <3>2, HandIs DEF Has
    <3> QED BY <2>3, <3>1, <3>3, <1>UnwindLife DEF CleanupUnwind, shared, run
  <2> QED BY <2>1, <2>2, <2>3

<1>GrantOneLife.
      ASSUME LifeInv, TypeInv', NEW t \in Thread, GrantOne(t)
      PROVE  LifeInv'
  <2> USE <1>GrantOneLife
  <2>1. ThreadOK(t) /\ LocalsOK BY DEF LifeInv, TypeInv, TypeOK
  <2>2. PICK k : k = Head(blocked_list[t]) OBVIOUS
  <2>3. /\ pc[t] = "granting" /\ blocked_list[t] # <<>>
        /\ blocked_list' = [blocked_list EXCEPT ![t] = Tail(@)]
        /\ inodelk_list' = inodelk_list \cup {k}
        /\ granted' = [granted EXCEPT ![t] = @ \cup {k}]
        /\ unwind' = [unwind EXCEPT ![t] = @ \cup {k}]
        /\ UNCHANGED <<frame, replies, blocked_inodelks, client_list, mutex,
                       pc, ret, arg, released>>
    BY <2>2 DEF GrantOne, shared, run
  <2>4. /\ k \in Lock /\ Splice(t, k) /\ SplicesOK' /\ ~Splice(t, k)'
        /\ \A l \in Lock \ {k} : Splice(t, l)' <=> Splice(t, l)
        /\ \A u \in Thread \ {t} : blocked_list'[u] = blocked_list[u]
    BY <2>2, <2>3, HeadIs
  <2>5. /\ granted'[t] = granted[t] \cup {k} /\ unwind'[t] = unwind[t] \cup {k}
        /\ \A u \in Thread \ {t} :
             granted'[u] = granted[u] /\ unwind'[u] = unwind[u]
    BY <2>1, <2>3 DEF LocalsOK
  <2>6. Elsewhere(t) BY <2>3, <2>4, <2>5 DEF Elsewhere
  <2>7. ThreadOK(t)'
    <3>1. pc'[t] = "granting" /\ mutex' = t /\ unwind'[t] \subseteq granted'[t]
      BY <2>1, <2>3, <2>5 DEF ThreadOK
    <3> QED BY <2>1, <2>3, <3>1 DEF ThreadOK
  <2>8. /\ ClientsOK' /\ QueuesOK' /\ \A l \in Lock : Queue(l)' <=> Queue(l)
        /\ \A l \in Lock : Listed(l)' <=> Listed(l)
    BY <2>3, <1>SameLists
  <2>9. LinksOK' BY <2>4, <2>8 DEF LinksOK, QueuesOK, ClientsOK, SplicesOK
  <2>10. \A u \in Thread, l \in Lock : Own(u, l)' <=> Own(u, l) BY <2>3 DEF Own
  <2>11. Life(k)'
    <3>1. Has(t, k) /\ New(k) BY <2>4 DEF Has, New
    <3>2. Alone(t, k) /\ frame[k] = "wait" /\ replies[k] = 0
      BY <2>4, <3>1, HandIs
    <3>3. \A u \in Thread : k \notin granted[u] /\ k \notin released[u]
      BY <2>4, <3>1, NewIs
    <3>4. /\ frame'[k] = "wait" /\ replies'[k] = 0 /\ ~Queue(k)'
          /\ k \in inodelk_list'
      BY <2>3, <2>4, <2>8, <3>2 DEF Alone
    <3>5. Listed(k)' BY <2>4, <2>8 DEF LifeInv, Life
    <3>6. /\ k \in unwind'[t] /\ k \in granted'[t] /\ ~Splice(t, k)'
          /\ ~Own(t, k)'
      BY <2>4, <2>5, <2>10, <3>2 DEF Alone
    <3>7. ASSUME NEW u \in Thread \ {t}
          PROVE  /\ ~Own(u, k)' /\ ~Splice(u, k)' /\ k \notin unwind'[u]
                 /\ k \notin granted'[u]
      BY <2>4, <2>5, <2>10, <3>2, <3>3 DEF Alone, Has, Splice
    <3> QED BY <3>4, <3>5, <3>6, <3>7 DEF Life, Has, New, Count
  <2>12. \A l \in Lock \ {k} : /\ l \in inodelk_list' <=> l \in inodelk_list
                               /\ l \in unwind'[t] <=> l \in unwind[t]
                               /\ l \in granted'[t] <=> l \in granted[t]
    BY <2>3, <2>5
  <2> QED BY <2>3, <2>4, <2>6, <2>7, <2>8, <2>9, <2>10, <2>11, <2>12, <1>OneLife

<1>GrantRequeueLife.
      ASSUME LifeInv, TypeInv', NEW t \in Thread, GrantRequeue(t)
      PROVE  LifeInv'
  <2> USE <1>GrantRequeueLife
  <2>1. ThreadOK(t) BY DEF LifeInv
  <2>2. PICK k : k = Head(blocked_list[t]) OBVIOUS
  <2>3. /\ pc[t] = "granting" /\ blocked_list[t] # <<>>
        /\ blocked_list' = [blocked_list EXCEPT ![t] = Tail(@)]
        /\ blocked_inodelks' = [blocked_inodelks EXCEPT ![dom(k)] = Append(@, k)]
        /\ UNCHANGED <<frame, replies, inodelk_list, client_list, mutex,
                       pc, ret, arg, granted, unwind, released>>
    BY <2>2 DEF GrantRequeue, objs, shared, run
  <2>4. /\ k \in Lock /\ Splice(t, k) /\ SplicesOK' /\ ~Splice(t, k)'
        /\ \A l \in Lock \ {k} : Splice(t, l)' <=> Splice(t, l)
        /\ \A u \in Thread \ {t} : blocked_list'[u] = blocked_list[u]
    BY <2>2, <2>3, HeadIs
  <2>5. Elsewhere(t) BY <2>3, <2>4 DEF Elsewhere
  <2>6. ThreadOK(t)' BY <2>1, <2>3 DEF ThreadOK
  <2>7. Has(t, k) /\ New(k) BY <2>4 DEF Has, New
  <2>8. Alone(t, k) /\ frame[k] = "wait" /\ replies[k] = 0 /\ ~Queue(k)
    BY <2>4, <2>7, HandIs DEF Alone
  <2>9. /\ QueuesOK' /\ Queue(k)'
        /\ \A l \in Lock \ {k} : Queue(l)' <=> Queue(l)
    BY <2>3, <2>4, <2>8, <1>QueueAppend
  <2>10. ClientsOK' /\ \A l \in Lock : Listed(l)' <=> Listed(l)
    BY <2>3, <1>SameLists
  <2>11. LinksOK' BY <2>4, <2>9, <2>10 DEF LinksOK, QueuesOK, ClientsOK, SplicesOK
  <2>12. \A u \in Thread, l \in Lock : Own(u, l)' <=> Own(u, l) BY <2>3 DEF Own
  <2>13. Life(k)'
    <3>1. /\ k \notin inodelk_list'
          /\ \A u \in Thread : k \notin granted'[u] /\ k \notin released'[u]
      BY <2>3, <2>4, <2>7, NewIs
    <3>2. frame'[k] = "wait" /\ replies'[k] = 0 BY <2>3, <2>8
    <3>3. Listed(k)' BY <2>4, <2>10 DEF LifeInv, Life
    <3>4. ASSUME NEW u \in Thread PROVE ~Has(u, k)'
      <4>1. CASE u = t BY <2>3, <2>4, <2>8, <2>12, <4>1 DEF Alone, Has
      <4>2. CASE u # t
        BY <2>3, <2>4, <2>8, <2>12, <4>2 DEF Alone, Has, Splice
      <4> QED BY <4>1, <4>2
    <3> QED BY <2>4, <2>9, <3>1, <3>2, <3>3, <3>4, <1>WaitingLife
  <2> QED BY <2>3, <2>4, <2>5, <2>6, <2>9, <2>10, <2>11, <2>12, <2>13, <1>OneLife

(* A thread takes a waiting request off the queue, to answer it later      *)
<1>TakeLife.
      ASSUME LifeInv, TypeInv', NEW t \in Thread, NEW k \in Lock,
             pc[t] \in {"cleanup", "clr_blkd_loop"}, Queue(k), QueuesOK', ~Queue(k)',
             \A l \in Lock \ {k} : Queue(l)' <=> Queue(l),
             client_list' = [client_list EXCEPT ![attr[k].client] = Unlink(@, k)],
             unwind' = [unwind EXCEPT ![t] = @ \cup {k}],
             UNCHANGED <<frame, replies, inodelk_list, mutex, pc, ret, arg,
                         blocked_list, granted, released>>
      PROVE  LifeInv'
  <2> USE <1>TakeLife
  <2>1. ThreadOK(t) /\ LocalsOK BY DEF LifeInv, TypeInv, TypeOK
  <2>2. /\ unwind'[t] = unwind[t] \cup {k}
        /\ \A u \in Thread \ {t} : unwind'[u] = unwind[u]
    BY <2>1 DEF LocalsOK
  <2>3. Elsewhere(t) BY <2>2 DEF Elsewhere
  <2>4. ThreadOK(t)' BY <2>1, <2>2 DEF ThreadOK
  <2>5. /\ QueuesOK' /\ ~Queue(k)'
        /\ \A l \in Lock \ {k} : Queue(l)' <=> Queue(l)
    OBVIOUS
  <2>6. /\ ClientsOK' /\ ~Listed(k)'
        /\ \A l \in Lock \ {k} : Listed(l)' <=> Listed(l)
    BY <1>ClientUnlink
  <2>7. /\ SplicesOK'
        /\ \A u \in Thread, l \in Lock : Splice(u, l)' <=> Splice(u, l)
    BY <1>SameLists
  <2>8. LinksOK' BY <2>5, <2>6, <2>7 DEF LinksOK, QueuesOK, ClientsOK, SplicesOK
  <2>9. \A u \in Thread, l \in Lock : Own(u, l)' <=> Own(u, l) BY DEF Own
  <2>10. Life(k)'
    <3>1. Life(k) /\ New(k) BY DEF LifeInv, New
    <3>2. \A u \in Thread : ~Has(u, k) BY <3>1 DEF Life
    <3>3. /\ k \notin inodelk_list' /\ frame'[k] = "wait" /\ replies'[k] = 0
          /\ \A u \in Thread : k \notin granted'[u] /\ k \notin released'[u]
      BY <3>1, NewIs DEF Life
    <3>4. \A u \in Thread : ~Own(u, k)' /\ ~Splice(u, k)'
      BY <2>7, <2>9, <3>2 DEF Has
    <3>5. \A u \in Thread \ {t} : ~Has(u, k)' BY <2>2, <3>2, <3>4 DEF Has
    <3>6. Alone(t, k)' BY <2>2, <2>5, <3>4, <3>5 DEF Alone, Has
    <3> QED BY <2>5, <2>6, <3>3, <3>4, <3>6, <1>WaitingLife
  <2>11. \A l \in Lock \ {k} : l \in unwind'[t] <=> l \in unwind[t] BY <2>2
  <2> QED BY <2>3, <2>4, <2>5, <2>6, <2>7, <2>8, <2>9, <2>10, <2>11, <1>OneLife

<1>ClrBlockedLife.
      ASSUME LifeInv, TypeInv', NEW t \in Thread, ClrBlocked(t)
      PROVE  LifeInv'
  <2> USE <1>ClrBlockedLife
  <2>1. pc[t] = "clr_blkd_loop" /\ RunOK BY DEF ClrBlocked, LifeInv, TypeInv, TypeOK
  <2>2. PICK d \in Domain : d = arg[t].dom
    BY <2>1 DEF LifeInv, TypeInv, PlaceOK, ClrPC
  <2>3. PICK s : s = blocked_inodelks[d] OBVIOUS
  <2>4. s \in Seq(Lock) /\ NoDup(s) /\ \A l \in Elems(s) : dom(l) = d
    BY <2>2, <2>3 DEF LifeInv, TypeInv, TypeOK, ListsOK, LinksOK
  <2>5. PICK i \in DOMAIN s :
        /\ blocked_inodelks' = [blocked_inodelks EXCEPT ![d] = RemoveIndex(s, i)]
        /\ client_list' = [client_list EXCEPT ![attr[s[i]].client] =
                             Unlink(client_list[attr[s[i]].client], s[i])]
        /\ unwind' = [unwind EXCEPT ![t] = unwind[t] \cup {s[i]}]
    BY <2>2, <2>3 DEF ClrBlocked
  <2>6. PICK k : k = s[i] OBVIOUS
  <2>7. k \in Elems(s) BY <2>6 DEF Elems
  <2>8. k \in Lock /\ dom(k) = d BY <2>4, <2>7, ElemsType
  <2>9. PICK q : q = RemoveIndex(s, i) OBVIOUS
  <2>10. Queue(k) BY <2>3, <2>7, <2>8 DEF Queue
  <2>11. UNCHANGED <<frame, replies, inodelk_list, mutex, pc, ret, arg,
                     blocked_list, granted, released>>
    BY DEF ClrBlocked, objs, shared, run
  <2>12. /\ blocked_inodelks' =
              [blocked_inodelks EXCEPT ![dom(k)] = q]
         /\ client_list' = [client_list EXCEPT ![attr[k].client] = Unlink(@, k)]
         /\ unwind' = [unwind EXCEPT ![t] = @ \cup {k}]
    BY <2>5, <2>6, <2>8, <2>9
  <2>13. NoDup(q) /\ Elems(q) = Elems(blocked_inodelks[dom(k)]) \ {k}
    BY <2>3, <2>4, <2>6, <2>8, <2>9, RemoveIndexElems
  <2>14. pc[t] \in {"cleanup", "clr_blkd_loop"} BY <2>1
  <2>15. /\ QueuesOK' /\ ~Queue(k)'
         /\ \A l \in Lock \ {k} : Queue(l)' <=> Queue(l)
    <3>1. k \notin Elems(q) BY <2>13
    <3>2. /\ QueuesOK'
          /\ Queue(k)' <=> k \in Elems(q)
          /\ \A l \in Lock \ {k} : Queue(l)' <=> Queue(l)
      BY <2>8, <2>12, <2>13, <1>QueueIs
    <3> QED BY <3>1, <3>2
  <2> QED BY <2>8, <2>10, <2>11, <2>12, <2>14, <2>15, <1>TakeLife

<1>CleanupOneLife.
      ASSUME LifeInv, TypeInv', NEW t \in Thread, CleanupOne(t)
      PROVE  LifeInv'
  <2> USE <1>CleanupOneLife
  <2>1. /\ pc[t] = "cleanup" /\ ThreadOK(t) /\ LocalsOK /\ mutex = NoThread
    BY DEF CleanupOne, LifeInv, TypeInv, TypeOK
  <2>2. PICK c \in Client : c = arg[t].client
    BY <2>1 DEF LifeInv, TypeInv, PlaceOK
  <2>3. PICK k : k = cursor[t] OBVIOUS
  <2>4. k \in Elems(client_list[c]) BY <2>2, <2>3 DEF CleanupOne
  <2>5. k \in Lock /\ attr[k].client = c
    <3>1. client_list[c] \in Seq(Lock)
      BY <2>2 DEF LifeInv, TypeInv, TypeOK, ListsOK
    <3> QED BY <2>4, <3>1, ElemsType DEF LifeInv, LinksOK
  <2>6. Listed(k) BY <2>4, <2>5 DEF Listed
  <2>7. /\ client_list' = [client_list EXCEPT ![attr[k].client] = Unlink(@, k)]
        /\ UNCHANGED <<frame, replies, mutex, pc, ret, arg, blocked_list, granted>>
    BY <2>2, <2>3, <2>5 DEF CleanupOne, objs, shared, run
  <2>8. CASE InList(k)
    <3>1. /\ inodelk_list' = inodelk_list \ {k} /\ k \in inodelk_list
          /\ released' = [released EXCEPT ![t] = @ \cup {k}]
          /\ UNCHANGED <<blocked_inodelks, unwind>>
      BY <2>3, <2>8 DEF CleanupOne, InList
    <3>2. /\ \A u \in Thread \ {t} : released'[u] = released[u]
          /\ \A l \in Lock \ {k} : l \in released'[t] <=> l \in released[t]
      BY <2>1, <3>1 DEF LocalsOK
    <3>3. Elsewhere(t) BY <2>7, <3>1, <3>2 DEF Elsewhere
    <3>4. ThreadOK(t)' BY <2>1, <2>7, <3>1 DEF ThreadOK
    <3>5. /\ SplicesOK' /\ QueuesOK' /\ \A l \in Lock : Queue(l)' <=> Queue(l)
          /\ \A u \in Thread, l \in Lock : Splice(u, l)' <=> Splice(u, l)
      BY <2>7, <3>1, <1>SameLists
    <3>6. /\ ClientsOK' /\ ~Listed(k)'
          /\ \A l \in Lock \ {k} : Listed(l)' <=> Listed(l)
      BY <2>5, <2>7, <1>ClientUnlink
    <3>7. LinksOK' BY <3>5, <3>6 DEF LinksOK, QueuesOK, ClientsOK, SplicesOK
    <3>8. \A u \in Thread, l \in Lock : Own(u, l)' <=> Own(u, l) BY <2>7 DEF Own
    <3>9. k \notin inodelk_list' BY <3>1
    <3>10. Life(k)' BY <2>5, <2>7, <3>1, <3>5, <3>6, <3>8, <3>9, <1>LeaveLife
    <3>11. \A l \in Lock \ {k} : l \in inodelk_list' <=> l \in inodelk_list
      BY <3>1
    <3> QED BY <2>5, <2>7, <3>1, <3>2, <3>3, <3>4, <3>5, <3>6, <3>7, <3>8,
               <3>10, <3>11, <1>OneLife
  <2>9. CASE ~InList(k)
    <3> DEFINE s == blocked_inodelks[dom(k)]
    <3>1. /\ blocked_inodelks' = [blocked_inodelks EXCEPT ![dom(k)] = Unlink(s, k)]
          /\ unwind' = [unwind EXCEPT ![t] = @ \cup {k}]
          /\ UNCHANGED <<inodelk_list, released>>
      BY <2>3, <2>9 DEF CleanupOne
    <3>2. \A u \in Thread : ~Splice(u, k)
      <4> SUFFICES ASSUME NEW u \in Thread, Splice(u, k) PROVE FALSE
        OBVIOUS
      <4>1. blocked_list[u] # <<>> BY EmptyElems DEF Splice
      <4>2. mutex = u BY <4>1 DEF LifeInv, ThreadOK
      <4> QED BY <2>1, <4>2, LockAssumption
    <3>3. Queue(k) BY <2>5, <2>6, <2>9, <3>2 DEF LifeInv, Life, InList
    <3>4. s \in Seq(Lock) /\ NoDup(s)
      BY <2>5, FieldTypes DEF LifeInv, TypeInv, TypeOK, ListsOK, LinksOK
    <3>5. PICK q : q = Unlink(s, k) OBVIOUS
    <3>6. NoDup(q) /\ Elems(q) = Elems(s) \ {k} BY <3>4, <3>5, UnlinkElems
    <3>7. blocked_inodelks' = [blocked_inodelks EXCEPT ![dom(k)] = q]
      BY <3>1, <3>5
    <3>8. pc[t] \in {"cleanup", "clr_blkd_loop"} BY <2>1
    <3>9. UNCHANGED <<frame, replies, inodelk_list, mutex, pc, ret, arg,
                      blocked_list, granted, released>>
      BY <2>7, <3>1
    <3>10. /\ QueuesOK' /\ ~Queue(k)'
           /\ \A l \in Lock \ {k} : Queue(l)' <=> Queue(l)
      <4>1. k \notin Elems(q) BY <3>6
      <4>2. /\ QueuesOK'
            /\ Queue(k)' <=> k \in Elems(q)
            /\ \A l \in Lock \ {k} : Queue(l)' <=> Queue(l)
        BY <2>5, <3>6, <3>7, <1>QueueIs
      <4> QED BY <4>1, <4>2
    <3> QED BY <2>5, <2>7, <3>1, <3>3, <3>8, <3>9, <3>10, <1>TakeLife
  <2> QED BY <2>8, <2>9

(* A grant pass takes over the whole queue of its domain                   *)
<1>GrantEnterLife.
      ASSUME LifeInv, TypeInv', NEW t \in Thread, GrantEnter(t)
      PROVE  LifeInv'
  <2> USE <1>GrantEnterLife
  <2>1. /\ pc[t] = "grant" /\ ThreadOK(t) /\ RunOK /\ LocalsOK /\ LinksOK
        /\ blocked_inodelks \in [Domain -> Seq(Lock)]
    BY DEF GrantEnter, LifeInv, TypeInv, TypeOK, ListsOK
  <2>2. PICK d \in Domain : d = arg[t].dom
    BY <2>1 DEF LifeInv, TypeInv, PlaceOK
  <2>3. /\ mutex = NoThread /\ mutex' = t
        /\ blocked_list' = [blocked_list EXCEPT ![t] = blocked_inodelks[d]]
        /\ blocked_inodelks' = [blocked_inodelks EXCEPT ![d] = <<>>]
        /\ Goto(t, "granting")
        /\ UNCHANGED <<frame, replies, inodelk_list, client_list, granted,
                       unwind, released>>
    BY <2>2 DEF GrantEnter, objs
  <2>4. /\ pc'[t] = "granting" /\ ret'[t] = ret[t] /\ arg'[t] = arg[t]
        /\ \A u \in Thread \ {t} :
             pc'[u] = pc[u] /\ ret'[u] = ret[u] /\ arg'[u] = arg[u]
    BY <2>1, <2>3, GotoIs
  <2>5. /\ blocked_list'[t] = blocked_inodelks[d]
        /\ \A u \in Thread \ {t} : blocked_list'[u] = blocked_list[u]
        /\ blocked_inodelks'[d] = <<>>
        /\ \A e \in Domain \ {d} : blocked_inodelks'[e] = blocked_inodelks[e]
        /\ blocked_list[t] = <<>>
    BY <2>1, <2>3 DEF LocalsOK, ThreadOK
  <2>6. Elsewhere(t) BY <2>3, <2>4, <2>5 DEF Elsewhere
  <2>7. ThreadOK(t)' BY <2>1, <2>3, <2>4 DEF ThreadOK
  <2>8. \A u \in Thread : ThreadOK(u)' BY <2>3, <2>6, <2>7, <1>OthersOK
  <2>9. LinksOK'
    <3>1. QueuesOK' BY <2>1, <2>5, EmptyElems DEF LinksOK, QueuesOK
    <3>2. SplicesOK' BY <2>1, <2>2, <2>5 DEF LinksOK, SplicesOK
    <3>3. ClientsOK' BY <2>3, <1>SameLists
    <3> QED BY <3>1, <3>2, <3>3 DEF LinksOK, QueuesOK, ClientsOK, SplicesOK
  <2>10. ASSUME NEW l \in Lock PROVE Life(l)'
    <3>1. Life(l) /\ dom(l) \in Domain BY FieldTypes DEF LifeInv
    <3>2. \A u \in Thread : Own(u, l)' <=> Own(u, l)
      BY <2>1, <2>4 DEF Own
    <3>3. \A u \in Thread \ {t} : Splice(u, l)' <=> Splice(u, l)
      BY <2>5 DEF Splice
    <3>4. ~Splice(t, l) BY <2>5, EmptyElems DEF Splice
    <3>5. Listed(l)' <=> Listed(l) BY <2>3, <1>SameLists
    <3>6. Splice(t, l)' <=> (Queue(l) /\ dom(l) = d)
      BY <2>1, <2>2, <2>5 DEF Splice, Queue, LinksOK
    <3>7. Queue(l)' <=> (Queue(l) /\ dom(l) # d)
      BY <2>5, <3>1, EmptyElems DEF Queue
    <3>8. CASE Queue(l) /\ dom(l) = d
      <4>1. New(l) /\ \A u \in Thread : ~Has(u, l) BY <3>1, <3>8 DEF New, Life
      <4>2. /\ l \notin inodelk_list' /\ frame'[l] = "wait" /\ replies'[l] = 0
            /\ \A u \in Thread : l \notin granted'[u] /\ l \notin released'[u]
        BY <2>3, <3>1, <3>8, <4>1, NewIs DEF Life
      <4>3. \A u \in Thread \ {t} : ~Has(u, l)'
        BY <2>3, <3>2, <3>3, <4>1 DEF Has
      <4>4. ~Own(t, l)' /\ l \notin unwind'[t] /\ Splice(t, l)' /\ ~Queue(l)'
        BY <2>3, <3>2, <3>6, <3>7, <3>8, <4>1 DEF Has
      <4>5. Alone(t, l)' BY <4>3, <4>4 DEF Alone, Has
      <4>6. Listed(l)' BY <3>1, <3>5, <3>8 DEF Life
      <4> QED BY <4>2, <4>4, <4>5, <4>6, <1>WaitingLife
    <3>9. CASE ~(Queue(l) /\ dom(l) = d)
      <4>1. /\ Queue(l)' <=> Queue(l)
            /\ \A u \in Thread : Splice(u, l)' <=> Splice(u, l)
        BY <3>3, <3>4, <3>6, <3>7, <3>9
      <4> QED BY <2>3, <3>1, <3>2, <3>5, <4>1, <1>SameLife
    <3> QED BY <3>8, <3>9
  <2> QED BY <2>8, <2>9, <2>10 DEF LifeInv

<1>StutterLife. ASSUME LifeInv, TypeInv', UNCHANGED vars PROVE LifeInv'
  BY <1>StutterLife, SMT DEF LifeInv, LinksOK, ThreadOK, Life, Has, New, Own,
     Splice, Queue, Listed,
         vars, objs, lists, shared, run, locals

<1> SUFFICES ASSUME LifeInv, [Next]_vars PROVE LifeInv'
  OBVIOUS
<1>1. TypeInv' BY StepTypeInv DEF LifeInv
<1>2. CASE UNCHANGED vars BY <1>1, <1>2, <1>StutterLife
<1>3. ASSUME NEW t \in Thread, NEW l \in Lock, Request(t, l) \/ Unlock(t, l)
      PROVE  LifeInv'
  BY <1>1, <1>3, <1>RequestLife, <1>UnlockLife
<1>4. ASSUME NEW t \in Thread,
             \/ \E c \in Client : Disconnect(t, c) \/ Destroy(t, c)
             \/ \E d \in Domain, kind \in ClearLocks, range \in ClrRanges :
                  Clrlk(t, d, kind, range)
      PROVE  LifeInv'
  BY <1>1, <1>4, <1>QuietCalls
<1>5. ASSUME NEW t \in Thread, SetlkStep(t) PROVE LifeInv'
  BY <1>1, <1>5, <1>QuietGotos, <1>QuietCalls, <1>PruneRevokeLife, <1>SetlkLife DEF SetlkStep
<1>6. ASSUME NEW t \in Thread, GrantStep(t) PROVE LifeInv'
  BY <1>1, <1>6, <1>QuietGotos, <1>GrantEnterLife, <1>GrantOneLife, <1>GrantRequeueLife,
     <1>UnwindsLife, <1>GrantUnrefLife DEF GrantStep
<1>7. ASSUME NEW t \in Thread, CleanupStep(t) PROVE LifeInv'
  BY <1>1, <1>7, <1>QuietGotos, <1>QuietCalls, <1>CleanupOneLife, <1>UnwindsLife
  DEF CleanupStep
<1>8. ASSUME NEW t \in Thread, ClrStep(t) PROVE LifeInv'
  BY <1>1, <1>8, <1>QuietGotos, <1>ClrBlockedLife, <1>UnwindsLife, <1>ClrGrantedLife
  DEF ClrStep
<1> QED BY <1>2, <1>3, <1>4, <1>5, <1>6, <1>7, <1>8 DEF Next, Continue

LEMMA LifeAnswered == LifeInv => AnsweredOnce
<1> SUFFICES ASSUME LifeInv, NEW l \in Lock
             PROVE  /\ replies[l] = Count(frame[l] = "null")
                    /\ frame[l] = "wait" => Waiting(l) \/ InGranted(l)
  BY DEF AnsweredOnce
<1>1. Life(l) BY DEF LifeInv
<1>2. ASSUME frame[l] = "wait" PROVE Waiting(l) \/ InGranted(l)
  <2>1. CASE Queue(l) BY <2>1 DEF Queue, Waiting
  <2>2. ASSUME NEW t \in Thread, Has(t, l) PROVE Waiting(l) \/ InGranted(l)
    <3>1. CASE Own(t, l)
      <4>1. l \notin released[t] BY <1>1, <3>1 DEF Life, New
      <4> QED BY <3>1, <4>1 DEF Own, Waiting
    <3>2. CASE Splice(t, l) BY <3>2 DEF Splice, Waiting
    <3>3. CASE l \in unwind[t] BY <3>3 DEF Waiting, InGranted
    <3> QED BY <2>2, <3>1, <3>2, <3>3 DEF Has
  <2> QED BY <1>1, <1>2, <2>1, <2>2 DEF Life
<1> QED BY <1>1, <1>2 DEF Life

(* A request that waits is in exactly one place of inodelk.c from which it *)
(* will be answered (a thread that executes it, the queue of its domain,   *)
(* the list of a grant pass, a list of frames to unwind), and no request   *)
(* is unwound twice, whatever unlocks, disconnects, grant passes and       *)
(* clear-locks commands interleave.                                        *)
THEOREM RequestsAnswered == Spec => []AnsweredOnce
<1>1. Spec => []LifeInv BY InitLifeInv, NextLifeInv, PTL DEF Spec
<1> QED BY <1>1, LifeAnswered, PTL

----------------------------------------------------------------------------
(* The brick implements the lock service                                   *)

Promise == [Service!Next]_<<inodelk_list, [l \in Lock |-> Status(l)]>>

(* Every step of pl_inode_setlk, grant_blocked_inode_locks, the cleanup of *)
(* a client and clear-locks is a step the lock service of LockService may  *)
(* take (a request, a grant, a refusal, a release) or one it does not see. *)
THEOREM InodelkImplementsService == Spec => ImplementsService
<1>StatusIs.
      ASSUME NEW l \in Lock, LifeInv
      PROVE  /\ frame[l] = "none" => Status(l) = "none"
             /\ frame[l] = "null" => Status(l) = "answered"
             /\ frame[l] = "wait" /\ InGranted(l) => Status(l) = "owed"
             /\ frame[l] = "wait" /\ ~InGranted(l) => Status(l) = "asked"
  BY <1>StatusIs DEF Status, LifeInv, TypeInv, TypeOK, ObjsOK

<1>StatusIsNext.
      ASSUME NEW l \in Lock, LifeInv'
      PROVE  /\ frame'[l] = "none" => Status(l)' = "none"
             /\ frame'[l] = "null" => Status(l)' = "answered"
             /\ frame'[l] = "wait" /\ InGranted(l)' => Status(l)' = "owed"
             /\ frame'[l] = "wait" /\ ~InGranted(l)' => Status(l)' = "asked"
  BY <1>StatusIsNext DEF Status, LifeInv, TypeInv, TypeOK, ObjsOK

<1>SameStatus.
      ASSUME LifeInv, LifeInv', NEW l \in Lock, frame'[l] = frame[l],
             frame[l] = "wait" => (InGranted(l)' <=> InGranted(l))
      PROVE  Status(l)' = Status(l)
  <2> USE <1>SameStatus
  <2>1. frame[l] \in {"none", "wait", "null"}
    BY DEF LifeInv, TypeInv, TypeOK, ObjsOK
  <2> QED BY <2>1, <1>StatusIs, <1>StatusIsNext

<1>ServiceStutter.
      ASSUME \A l \in Lock : Status(l)' = Status(l), UNCHANGED inodelk_list
      PROVE  UNCHANGED <<inodelk_list, [l \in Lock |-> Status(l)]>>
  BY <1>ServiceStutter

<1>ServiceSteps.
      ASSUME NEW k \in Lock, \A l \in Lock \ {k} : Status(l)' = Status(l)
      PROVE  /\ (Status(k) = "none" /\ Status(k)' = "asked"
                   /\ inodelk_list' = inodelk_list) => Service!Ask(k)
             /\ (Status(k) = "asked" /\ Status(k)' \in {"owed", "answered"}
                   /\ __inodelk_grantable(k)
                   /\ inodelk_list' = inodelk_list \cup {k}) => Service!Grant(k)
             /\ (Status(k) \in {"asked", "owed"} /\ Status(k)' = "answered"
                   /\ inodelk_list' = inodelk_list) => Service!Answer(k)
             /\ (Status(k)' = Status(k) /\ k \in inodelk_list
                   /\ inodelk_list' = inodelk_list \ {k}) => Service!Release(k)
  <2> USE <1>ServiceSteps
  <2>1. [l \in Lock |-> Status(l)'] =
          [[l \in Lock |-> Status(l)] EXCEPT ![k] = Status(k)']
    OBVIOUS
  <2>2. Status(k)' = Status(k) =>
          [l \in Lock |-> Status(l)'] = [l \in Lock |-> Status(l)]
    OBVIOUS
  <2>3. __inodelk_grantable(k) => \A h \in inodelk_list : ~Rivals(k, h)
    BY DEF __inodelk_grantable, Rivals
  <2>4. (Status(k) = "none" /\ Status(k)' = "asked"
           /\ inodelk_list' = inodelk_list) => Service!Ask(k)
    BY <2>1 DEF Service!Ask
  <2>5. (Status(k) = "asked" /\ Status(k)' \in {"owed", "answered"}
           /\ __inodelk_grantable(k)
           /\ inodelk_list' = inodelk_list \cup {k}) => Service!Grant(k)
    BY <2>1, <2>3 DEF Service!Grant
  <2>6. (Status(k) \in {"asked", "owed"} /\ Status(k)' = "answered"
           /\ inodelk_list' = inodelk_list) => Service!Answer(k)
    BY <2>1 DEF Service!Answer
  <2>7. (Status(k)' = Status(k) /\ k \in inodelk_list
           /\ inodelk_list' = inodelk_list \ {k}) => Service!Release(k)
    BY <2>2 DEF Service!Release
  <2> QED BY <2>4, <2>5, <2>6, <2>7

<1>StutterStep.
      ASSUME LifeInv, LifeInv', UNCHANGED <<inodelk_list, frame>>,
             \A l \in Lock : frame[l] = "wait" => (InGranted(l)' <=> InGranted(l))
      PROVE  Promise
  <2> USE <1>StutterStep
  <2>1. \A l \in Lock : Status(l)' = Status(l) BY <1>SameStatus
  <2> QED BY <2>1, <1>ServiceStutter DEF Promise

(* One request moves                                                       *)
<1>MoveStep.
      ASSUME LifeInv, LifeInv', NEW k \in Lock,
             \A l \in Lock \ {k} :
               /\ frame'[l] = frame[l]
               /\ frame[l] = "wait" => (InGranted(l)' <=> InGranted(l)),
             \/ /\ frame[k] = "none" /\ frame'[k] = "wait" /\ ~InGranted(k)'
                /\ inodelk_list' = inodelk_list
             \/ /\ frame[k] = "wait" /\ ~InGranted(k) /\ __inodelk_grantable(k)
                /\ inodelk_list' = inodelk_list \cup {k}
                /\ frame'[k] = "null" \/ (frame'[k] = "wait" /\ InGranted(k)')
             \/ /\ frame[k] = "wait" /\ frame'[k] = "null"
                /\ inodelk_list' = inodelk_list
             \/ /\ k \in inodelk_list /\ inodelk_list' = inodelk_list \ {k}
                /\ frame'[k] = frame[k]
                /\ InGranted(k)' <=> InGranted(k)
      PROVE  Promise
  <2> USE <1>MoveStep
  <2>1. \A l \in Lock \ {k} : Status(l)' = Status(l) BY <1>SameStatus
  <2>2. /\ frame[k] = "none" => Status(k) = "none"
        /\ frame[k] = "wait" => Status(k) \in {"asked", "owed"}
        /\ frame[k] = "wait" /\ ~InGranted(k) => Status(k) = "asked"
    BY <1>StatusIs
  <2>3. /\ frame'[k] = "null" => Status(k)' = "answered"
        /\ frame'[k] = "wait" /\ InGranted(k)' => Status(k)' = "owed"
        /\ frame'[k] = "wait" /\ ~InGranted(k)' => Status(k)' = "asked"
    BY <1>StatusIsNext
  <2>4. CASE /\ frame[k] = "none" /\ frame'[k] = "wait" /\ ~InGranted(k)'
             /\ inodelk_list' = inodelk_list
    <3>1. Service!Ask(k) BY <2>1, <2>2, <2>3, <2>4, <1>ServiceSteps
    <3> QED BY <3>1 DEF Promise, Service!Next
  <2>5. CASE /\ frame[k] = "wait" /\ ~InGranted(k) /\ __inodelk_grantable(k)
             /\ inodelk_list' = inodelk_list \cup {k}
             /\ frame'[k] = "null" \/ (frame'[k] = "wait" /\ InGranted(k)')
    <3>1. Service!Grant(k) BY <2>1, <2>2, <2>3, <2>5, <1>ServiceSteps
    <3> QED BY <3>1 DEF Promise, Service!Next
  <2>6. CASE /\ frame[k] = "wait" /\ frame'[k] = "null"
             /\ inodelk_list' = inodelk_list
    <3>1. Service!Answer(k) BY <2>1, <2>2, <2>3, <2>6, <1>ServiceSteps
    <3> QED BY <3>1 DEF Promise, Service!Next
  <2>7. CASE /\ k \in inodelk_list /\ inodelk_list' = inodelk_list \ {k}
             /\ frame'[k] = frame[k]
             /\ InGranted(k)' <=> InGranted(k)
    <3>1. Status(k)' = Status(k) BY <2>7, <1>SameStatus
    <3>2. Service!Release(k) BY <2>1, <2>7, <3>1, <1>ServiceSteps
    <3> QED BY <3>2 DEF Promise, Service!Next
  <2> QED BY <2>4, <2>5, <2>6, <2>7

(* granted does not change                                                 *)
<1>SameGranted.
      UNCHANGED granted => \A l \in Lock : InGranted(l)' <=> InGranted(l)
  BY DEF InGranted

<1>RequestPromise.
      ASSUME LifeInv, LifeInv', NEW t \in Thread, NEW k \in Lock,
             Request(t, k) \/ Unlock(t, k)
      PROVE  Promise
  <2> USE <1>RequestPromise
  <2>1. UNCHANGED granted BY DEF Request, Unlock, locals
  <2>2. \A l \in Lock : InGranted(l)' <=> InGranted(l) BY <2>1, <1>SameGranted
  <2>3. frame \in [Lock -> {"none", "wait", "null"}]
    BY DEF LifeInv, TypeInv, TypeOK, ObjsOK
  <2>4. CASE Request(t, k)
    <3>1. /\ frame[k] = "none" /\ inodelk_list' = inodelk_list
          /\ frame' = [frame EXCEPT ![k] = "wait"]
      BY <2>4 DEF Request, lists
    <3>2. ~InGranted(k) BY <3>1, NewIs DEF New, InGranted
    <3>3. frame'[k] = "wait" /\ \A l \in Lock \ {k} : frame'[l] = frame[l]
      BY <2>3, <3>1
    <3> QED BY <2>2, <3>1, <3>2, <3>3, <1>MoveStep
  <2>5. CASE Unlock(t, k)
    <3>1. /\ k \in inodelk_list /\ inodelk_list' = inodelk_list \ {k}
          /\ UNCHANGED frame
      BY <2>5 DEF Unlock
    <3> QED BY <2>2, <3>1, <1>MoveStep
  <2> QED BY <2>4, <2>5

<1>SetlkPromise.
      ASSUME LifeInv, LifeInv', NEW t \in Thread, SetlkStep(t)
      PROVE  Promise
  <2> USE <1>SetlkPromise
  <2>1. UNCHANGED granted
    BY DEF SetlkStep, PruneCheck, PruneNothing, PruneRevoke, SetlkGrant,
       SetlkBlock, SetlkEagain, UnlockReturn, locals
  <2>2. \A l \in Lock : InGranted(l)' <=> InGranted(l) BY <2>1, <1>SameGranted
  <2>3. CASE \/ PruneCheck(t) \/ PruneNothing(t) \/ PruneRevoke(t)
             \/ SetlkBlock(t) \/ UnlockReturn(t)
    <3>1. UNCHANGED <<inodelk_list, frame>>
      BY <2>3 DEF PruneCheck, PruneNothing, PruneRevoke, SetlkBlock,
         UnlockReturn, objs, lists
    <3> QED BY <2>2, <3>1, <1>StutterStep
  <2>4. CASE SetlkGrant(t) \/ SetlkEagain(t)
    <3>1. pc[t] = "setlk" BY <2>4 DEF SetlkGrant, SetlkEagain
    <3>2. PICK k \in Lock : arg[t].lock = k
      BY <3>1 DEF LifeInv, TypeInv, PlaceOK
    <3>3. Own(t, k) BY <3>1, <3>2 DEF Own
    <3>4. frame[k] = "wait" /\ ~InGranted(k)
      BY <3>2, <3>3, HandIs, NewIs DEF New, Has, InGranted
    <3>5. STACK_UNWIND(k) BY <2>4, <3>2 DEF SetlkGrant, SetlkEagain
    <3>6. frame'[k] = "null" /\ \A l \in Lock \ {k} : frame'[l] = frame[l]
      BY <3>5 DEF STACK_UNWIND, LifeInv, TypeInv, TypeOK, ObjsOK
    <3>7. CASE SetlkGrant(t)
      <4>1. __inodelk_grantable(k) /\ inodelk_list' = inodelk_list \cup {k}
        BY <3>2, <3>7 DEF SetlkGrant, CanLock
      <4> QED BY <2>2, <3>4, <3>6, <4>1, <1>MoveStep
    <3>8. CASE SetlkEagain(t)
      <4>1. inodelk_list' = inodelk_list BY <3>8 DEF SetlkEagain, lists
      <4> QED BY <2>2, <3>4, <3>6, <4>1, <1>MoveStep
    <3> QED BY <2>4, <3>7, <3>8
  <2> QED BY <2>3, <2>4 DEF SetlkStep

(* The answers that follow a grant, a cleanup or a clear                   *)
<1>AnswerPromise.
      ASSUME LifeInv, LifeInv', NEW t \in Thread, NEW k \in unwind[t],
             STACK_UNWIND(k), UNCHANGED <<inodelk_list, granted>>
      PROVE  Promise
  <2> USE <1>AnswerPromise
  <2>1. \A l \in Lock : InGranted(l)' <=> InGranted(l) BY <1>SameGranted
  <2>2. k \in Lock BY DEF LifeInv, TypeInv, TypeOK, LocalsOK
  <2>3. frame[k] = "wait" BY <2>2, HandIs DEF Has
  <2>4. frame'[k] = "null" /\ \A l \in Lock \ {k} : frame'[l] = frame[l]
    BY <2>2 DEF STACK_UNWIND, LifeInv, TypeInv, TypeOK, ObjsOK
  <2> QED BY <2>1, <2>2, <2>3, <2>4, <1>MoveStep

<1>GrantPromise.
      ASSUME LifeInv, LifeInv', NEW t \in Thread, GrantStep(t)
      PROVE  Promise
  <2> USE <1>GrantPromise
  <2>1. CASE GrantEnter(t) \/ GrantRequeue(t) \/ GrantLeave(t)
    <3>1. UNCHANGED <<inodelk_list, frame, granted>>
      BY <2>1 DEF GrantEnter, GrantRequeue, GrantLeave, objs, lists, locals
    <3> QED BY <3>1, <1>SameGranted, <1>StutterStep
  <2>2. CASE GrantOne(t)
    <3>1. PICK k : k = Head(blocked_list[t]) OBVIOUS
    <3>2. /\ blocked_list[t] # <<>> /\ __inodelk_grantable(k)
          /\ blocked_list' = [blocked_list EXCEPT ![t] = Tail(@)]
          /\ inodelk_list' = inodelk_list \cup {k}
          /\ granted' = [granted EXCEPT ![t] = @ \cup {k}]
          /\ UNCHANGED frame
      BY <2>2, <3>1 DEF GrantOne, CanLock
    <3>3. k \in Lock /\ Splice(t, k) BY <3>1, <3>2, HeadIs
    <3>4. frame[k] = "wait" /\ ~InGranted(k)
      BY <3>3, HandIs, NewIs DEF New, Has, InGranted
    <3>5. /\ granted'[t] = granted[t] \cup {k}
          /\ \A u \in Thread \ {t} : granted'[u] = granted[u]
      BY <3>2 DEF LifeInv, TypeInv, TypeOK, LocalsOK
    <3>6. InGranted(k)' BY <3>5 DEF InGranted
    <3>7. \A l \in Lock \ {k} : InGranted(l)' <=> InGranted(l)
      BY <3>5 DEF InGranted
    <3> QED BY <3>2, <3>3, <3>4, <3>6, <3>7, <1>MoveStep
  <2>3. CASE GrantUnwind(t)
    BY <2>3, <1>AnswerPromise DEF GrantUnwind, lists
  <2>4. CASE GrantUnref(t)
    <3>1. /\ UNCHANGED <<inodelk_list, frame, unwind>> /\ unwind[t] = {}
          /\ granted' = [granted EXCEPT ![t] = {}]
      BY <2>4 DEF GrantUnref, lists
    <3>2. /\ granted'[t] = {}
          /\ \A u \in Thread \ {t} : granted'[u] = granted[u]
      BY <3>1 DEF LifeInv, TypeInv, TypeOK, LocalsOK
    <3>3. ASSUME NEW l \in Lock, frame[l] = "wait"
          PROVE  InGranted(l)' <=> InGranted(l)
      <4>1. l \notin granted[t] BY <3>1, <3>3 DEF LifeInv, Life
      <4> QED BY <3>2, <4>1 DEF InGranted
    <3> QED BY <3>1, <3>3, <1>StutterStep
  <2> QED BY <2>1, <2>2, <2>3, <2>4 DEF GrantStep

<1>CleanupPromise.
      ASSUME LifeInv, LifeInv', NEW t \in Thread,
             CleanupStep(t) \/ \E c \in Client : Disconnect(t, c) \/ Destroy(t, c)
      PROVE  Promise
  <2> USE <1>CleanupPromise
  <2>1. UNCHANGED granted
    BY DEF CleanupStep, CleanupOne, CleanupLeave, CleanupUnwind, CleanupGrant,
       CleanupUnref, CleanupReturn, Disconnect, Destroy, Cleanup, locals
  <2>2. \A l \in Lock : InGranted(l)' <=> InGranted(l) BY <2>1, <1>SameGranted
  <2>3. CASE \/ CleanupLeave(t) \/ CleanupGrant(t) \/ CleanupUnref(t)
             \/ CleanupReturn(t)
             \/ \E c \in Client : Disconnect(t, c) \/ Destroy(t, c)
    <3>1. UNCHANGED <<inodelk_list, frame>>
      BY <2>3 DEF CleanupLeave, CleanupGrant, CleanupUnref, CleanupReturn,
         Disconnect, Destroy, Cleanup, objs, lists
    <3> QED BY <2>2, <3>1, <1>StutterStep
  <2>4. CASE CleanupOne(t)
    <3>1. PICK k : k = cursor[t] OBVIOUS
    <3>2. UNCHANGED frame BY <2>4 DEF CleanupOne, objs
    <3>3. CASE InList(k)
      <4>1. k \in inodelk_list /\ inodelk_list' = inodelk_list \ {k}
        BY <2>4, <3>1, <3>3 DEF CleanupOne, InList
      <4>2. k \in Lock BY <4>1 DEF LifeInv, TypeInv, TypeOK, ListsOK
      <4> QED BY <2>2, <3>2, <4>1, <4>2, <1>MoveStep
    <3>4. CASE ~InList(k)
      <4>1. UNCHANGED inodelk_list BY <2>4, <3>1, <3>4 DEF CleanupOne
      <4> QED BY <2>2, <3>2, <4>1, <1>StutterStep
    <3> QED BY <3>3, <3>4
  <2>5. CASE CleanupUnwind(t)
    <3>1. PICK k \in unwind[t] : IF frame[k] = "wait" THEN STACK_UNWIND(k)
                                    ELSE UNCHANGED <<frame, replies>>
      BY <2>5 DEF CleanupUnwind
    <3>2. k \in Lock BY DEF LifeInv, TypeInv, TypeOK, LocalsOK
    <3>3. frame[k] = "wait" BY <3>2, HandIs DEF Has
    <3>4. UNCHANGED inodelk_list BY <2>5 DEF CleanupUnwind, lists
    <3> QED BY <2>1, <3>1, <3>3, <3>4, <1>AnswerPromise
  <2> QED BY <2>3, <2>4, <2>5 DEF CleanupStep

<1>ClrPromise.
      ASSUME LifeInv, LifeInv', NEW t \in Thread,
             \/ ClrStep(t)
             \/ \E d \in Domain, kind \in ClearLocks, range \in ClrRanges :
                  Clrlk(t, d, kind, range)
      PROVE  Promise
  <2> USE <1>ClrPromise
  <2>1. UNCHANGED granted
    BY DEF ClrStep, ClrEnter, ClrBlocked, ClrBlockedLeave, ClrUnwind, ClrUnwound,
       ClrGranted, ClrGrantedLeave, ClrRead, ClrWrite, ClrReleased, Clrlk, locals
  <2>2. \A l \in Lock : InGranted(l)' <=> InGranted(l) BY <2>1, <1>SameGranted
  <2>3. CASE \/ ClrEnter(t) \/ ClrBlocked(t) \/ ClrBlockedLeave(t) \/ ClrUnwound(t)
             \/ ClrGrantedLeave(t) \/ ClrRead(t) \/ ClrWrite(t) \/ ClrReleased(t)
             \/ \E d \in Domain, kind \in ClearLocks, range \in ClrRanges :
                  Clrlk(t, d, kind, range)
    <3>1. UNCHANGED <<inodelk_list, frame>>
      BY <2>3 DEF ClrEnter, ClrBlocked, ClrBlockedLeave, ClrUnwound,
         ClrGrantedLeave, ClrRead, ClrWrite, ClrReleased, Clrlk, objs, lists
    <3> QED BY <2>2, <3>1, <1>StutterStep
  <2>4. CASE ClrUnwind(t) BY <2>1, <2>4, <1>AnswerPromise DEF ClrUnwind, lists
  <2>5. CASE ClrGranted(t)
    <3>1. PICK k \in inodelk_list : inodelk_list' = inodelk_list \ {k}
      BY <2>5 DEF ClrGranted, Granted
    <3>2. UNCHANGED frame BY <2>5 DEF ClrGranted, objs
    <3>3. k \in Lock BY DEF LifeInv, TypeInv, TypeOK, ListsOK
    <3> QED BY <2>2, <3>1, <3>2, <3>3, <1>MoveStep
  <2> QED BY <2>3, <2>4, <2>5 DEF ClrStep

<1>StepPromise. LifeInv /\ LifeInv' /\ [Next]_vars => Promise
  <2> SUFFICES ASSUME LifeInv, LifeInv', [Next]_vars PROVE Promise
    OBVIOUS
  <2>1. CASE UNCHANGED vars
    <3>1. UNCHANGED <<inodelk_list, frame, granted>>
      BY <2>1 DEF vars, objs, lists, locals
    <3> QED BY <3>1, <1>SameGranted, <1>StutterStep
  <2>2. CASE Next
    BY <2>2, <1>RequestPromise, <1>SetlkPromise, <1>GrantPromise, <1>CleanupPromise, <1>ClrPromise DEF Next, Continue
  <2> QED BY <2>1, <2>2

<1>InitService. Init => Service!Init
  BY SMT DEF Init, Service!Init, Status

<1>1. Spec => []LifeInv BY InitLifeInv, NextLifeInv, PTL DEF Spec
<1>2. LifeInv /\ LifeInv' /\ [Next]_vars
        => [Service!Next]_<<inodelk_list, [l \in Lock |-> Status(l)]>>
  BY <1>StepPromise DEF Promise
<1> QED BY <1>1, <1>2, <1>InitService, PTL DEF Spec, ImplementsService, Service!Spec
============================================================================
