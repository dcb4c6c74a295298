--------------------------- MODULE AfrLockProofs ---------------------------
(***************************************************************************)
(* No lock is leaked and no file is healed twice at a time, for any number *)
(* of processes and faults.  The inductive invariant comes first, then the *)
(* steps of a process alone, then those in which a brick takes part.       *)
(***************************************************************************)
EXTENDS AfrLock, TLAPS

(* Leaves are first-order reasoning unless they cite SMT.                  *)
USE Zenon

----------------------------------------------------------------------------
(* Queues in which nobody waits twice                                      *)

NoDup(q) == \A i, j \in DOMAIN q : q[i] = q[j] => i = j

LEMMA AppendQueue ==
  ASSUME NEW P, NEW q \in Seq(P), NEW p \in P, NoDup(q), p \notin Elems(q)
  PROVE  /\ Append(q, p) \in Seq(P) /\ NoDup(Append(q, p))
         /\ Elems(Append(q, p)) = Elems(q) \cup {p}
BY SMT DEF NoDup, Elems

LEMMA TailQueue ==
  ASSUME NEW P, NEW q \in Seq(P), NoDup(q), q # <<>>
  PROVE  /\ Tail(q) \in Seq(P) /\ NoDup(Tail(q)) /\ Head(q) \in P
         /\ Head(q) \in Elems(q) /\ Elems(Tail(q)) = Elems(q) \ {Head(q)}
<1>1. /\ Len(q) \in Nat /\ DOMAIN q = 1..Len(q) /\ Len(q) >= 1
      /\ Head(q) = q[1] /\ Head(q) \in P /\ Tail(q) \in Seq(P)
      /\ DOMAIN Tail(q) = 1..Len(q) - 1
      /\ \A i \in 1..Len(q) - 1 : Tail(q)[i] = q[i + 1]
  BY SMT
<1>2. NoDup(Tail(q)) BY <1>1, SMT DEF NoDup
<1>3. Head(q) \in Elems(q) BY <1>1, SMT DEF Elems
<1>4. ASSUME NEW x \in Elems(Tail(q)) PROVE x \in Elems(q) /\ x # Head(q)
  <2>1. PICK i \in 1..Len(q) - 1 : x = q[i + 1] BY <1>1, <1>4 DEF Elems
  <2> QED BY <1>1, <2>1, SMT DEF Elems, NoDup
<1>5. ASSUME NEW x \in Elems(q), x # Head(q) PROVE x \in Elems(Tail(q))
  <2>1. PICK i \in 1..Len(q) : x = q[i] BY <1>1 DEF Elems
  <2>2. i - 1 \in 1..Len(q) - 1 /\ x = Tail(q)[i - 1] BY <1>1, <1>5, <2>1, SMT
  <2> QED BY <1>1, <2>2 DEF Elems
<1> QED BY <1>1, <1>2, <1>3, <1>4, <1>5

LEMMA WithoutQueue ==
  ASSUME NEW P, NEW q \in Seq(P), NoDup(q), NEW p
  PROVE  /\ Without(q, p) \in Seq(P) /\ NoDup(Without(q, p))
         /\ Elems(Without(q, p)) = Elems(q) \ {p}
<1>1. CASE p \notin Elems(q) BY <1>1 DEF Without
<1>2. CASE p \in Elems(q)
  <2> DEFINE k == CHOOSE i \in DOMAIN q : q[i] = p
             w == Without(q, p)
  <2>1. Len(q) \in Nat /\ DOMAIN q = 1..Len(q) /\ \A i \in 1..Len(q) : q[i] \in P
    BY SMT
  <2>2. k \in 1..Len(q) /\ q[k] = p BY <1>2, <2>1 DEF Elems
  <2>3. w = [i \in 1..Len(q) - 1 |-> IF i < k THEN q[i] ELSE q[i + 1]]
    BY <1>2 DEF Without
  <2> HIDE DEF k, w
  <2>4. w \in Seq(P) /\ DOMAIN w = 1..Len(q) - 1 BY <2>1, <2>2, <2>3, SMT
  <2>5. NoDup(w)
    <3> SUFFICES ASSUME NEW i \in 1..Len(q) - 1, NEW j \in 1..Len(q) - 1,
                        w[i] = w[j]
                 PROVE  i = j
      BY <2>4 DEF NoDup
    <3> DEFINE at(n) == IF n < k THEN n ELSE n + 1
    <3>1. /\ at(i) \in DOMAIN q /\ at(j) \in DOMAIN q
          /\ w[i] = q[at(i)] /\ w[j] = q[at(j)]
      BY <2>1, <2>2, <2>3, SMT
    <3>2. at(i) = at(j) BY <3>1 DEF NoDup
    <3> QED BY <2>1, <2>2, <3>2, SMT
  <2>6. ASSUME NEW x \in Elems(w) PROVE x \in Elems(q) /\ x # p
    <3>1. PICK i \in 1..Len(q) - 1 : x = w[i] BY <2>4, <2>6 DEF Elems
    <3>2. \E j \in DOMAIN q : x = q[j] /\ j # k
      <4>1. CASE i < k
        <5>1. i \in DOMAIN q /\ x = q[i] /\ i # k BY <2>1, <2>3, <3>1, <4>1,
                                                     SMT
        <5> QED BY <5>1
      <4>2. CASE ~(i < k)
        <5>1. i + 1 \in DOMAIN q /\ x = q[i + 1] /\ i + 1 # k
          BY <2>1, <2>2, <2>3, <3>1, <4>2, SMT
        <5> QED BY <5>1
      <4> QED BY <4>1, <4>2
    <3> QED BY <2>1, <2>2, <3>2 DEF Elems, NoDup
  <2>7. ASSUME NEW x \in Elems(q), x # p PROVE x \in Elems(w)
    <3>1. PICK i \in 1..Len(q) : x = q[i] BY <2>1 DEF Elems
    <3>2. CASE i < k
      <4>1. i \in 1..Len(q) - 1 /\ w[i] = x BY <2>1, <2>2, <2>3, <3>1, <3>2,
                                               SMT
      <4> QED BY <2>4, <4>1 DEF Elems
    <3>3. CASE i > k
      <4>1. i - 1 \in 1..Len(q) - 1 /\ w[i - 1] = x
        BY <2>1, <2>2, <2>3, <3>1, <3>3, SMT
      <4> QED BY <2>4, <4>1 DEF Elems
    <3> QED BY <2>1, <2>2, <2>7, <3>1, <3>2, <3>3, SMT
  <2> QED BY <2>4, <2>5, <2>6, <2>7 DEF w
<1> QED BY <1>1, <1>2
----------------------------------------------------------------------------
(* The inductive invariant                                                 *)

Types ==
  /\ holder \in [Domain -> [Brick -> Proc \cup {Free}]]
  /\ waiting \in [Domain -> [Brick -> Seq(Proc)]]
  /\ child_up \in [Proc -> SUBSET Brick] /\ todo \in [Proc -> SUBSET Brick]
  /\ call \in [Proc -> Call] /\ phase \in [Proc -> Phase]
  /\ locked_on \in [Proc -> [Domain -> SUBSET Brick]]
  /\ cookie \in [Proc -> Nat] /\ lost \in [Proc -> SUBSET Domain]

GivingBack(p) == phase[p] \in {"back", "release", "failed"}
Waits(p, d, b) == phase[p] = "wait" /\ dom(p) = d /\ cookie[p] = b

(* A process waits once, on the brick it calls, and does not have that lock *)
Queue(d, b) ==
  /\ NoDup(waiting[d][b])
  /\ \A x \in Elems(waiting[d][b]) :
       Waits(x, d, b) /\ b \in child_up[x] /\ holder[d][b] # x

(* Who has a lock is connected and knows of it, or is told next            *)
Known(d, b) ==
  \A p \in Proc : holder[d][b] = p =>
    b \in child_up[p] /\ (b \in locked_on[p][d] \/ Waits(p, d, b))

(* The domains in which p has no lock                                      *)
Unlocked(p) ==
  CASE call[p] = "none"        -> Domain
    [] call[p] = "transaction" -> {"sh_domain"}
    [] call[p] = "heal"        -> {"data"}
    [] OTHER                   -> {}

Giving(p) ==
  /\ todo[p] \subseteq child_up[p]
  /\ phase[p] = "idle" <=> call[p] = "none"
  /\ phase[p] = "wait" => cookie[p] \in Brick
  /\ \A b \in Brick :
       /\ GivingBack(p) /\ holder[dom(p)][b] = p => b \in todo[p]
       /\ \A d \in Unlocked(p) : holder[d][b] # p

LockInv == /\ Types /\ \A d \in Domain, b \in Brick : Queue(d, b) /\ Known(d, b)
           /\ \A p \in Proc : Giving(p)

(* What a process counts as locked it has, unless it lost the connection   *)
(* or is giving it back; who heals counts two bricks                       *)
Kept(p) ==
  /\ \A d \in Domain \ lost[p] : \A b \in locked_on[p][d] :
       holder[d][b] = p \/ (d = dom(p) /\ GivingBack(p))
  /\ Healing(p) => Cardinality(locked_on[p]["sh_domain"]) >= 2

HealInv == LockInv /\ \A p \in Proc : Kept(p)

----------------------------------------------------------------------------
(* The invariant holds initially                                           *)
LEMMA InitHealInv == Init => HealInv
<1> SUFFICES ASSUME Init PROVE HealInv OBVIOUS
<1>1. Types BY LockersAssumption, SMT DEF Init, Types, Brick, Call, Phase
<1>2. ASSUME NEW d \in Domain, NEW b \in Brick
      PROVE  holder[d][b] = Free /\ waiting[d][b] = <<>>
  BY <1>2 DEF Init
<1>3. \A d \in Domain, b \in Brick : Queue(d, b) /\ Known(d, b)
  BY <1>2, LockersAssumption, SMT DEF Queue, Known, NoDup, Elems
<1>4. \A p \in Proc : Giving(p) /\ Kept(p)
  BY <1>2, LockersAssumption
     DEF Init, Giving, Kept, GivingBack, Unlocked, Healing, dom, Dom, Domain
<1> QED BY <1>1, <1>3, <1>4 DEF HealInv, LockInv

----------------------------------------------------------------------------
(* What holds of the processes that take no part in a step                 *)

Others(p) == \A x \in Proc \ {p} :
  UNCHANGED <<child_up[x], call[x], phase[x], todo[x], locked_on[x],
              cookie[x], lost[x]>>

LEMMA OthersSame ==
  ASSUME NEW p, Others(p), NEW x \in Proc \ {p}
  PROVE  /\ dom(x)' = dom(x) /\ GivingBack(x)' = GivingBack(x)
         /\ Healing(x)' = Healing(x) /\ Unlocked(x)' = Unlocked(x)
         /\ \A d, b : Waits(x, d, b)' = Waits(x, d, b)
BY DEF Others, dom, Dom, GivingBack, Healing, Unlocked, Waits

(* The part of p in the queue and in what is known of the holder           *)
Part(p, d, b) ==
  /\ p \in Elems(waiting[d][b]) =>
       Waits(p, d, b) /\ b \in child_up[p] /\ holder[d][b] # p
  /\ holder[d][b] = p =>
       b \in child_up[p] /\ (b \in locked_on[p][d] \/ Waits(p, d, b))

LEMMA Parts ==
  ASSUME NEW d, NEW b, NoDup(waiting[d][b])', Elems(waiting[d][b])' \subseteq Proc,
         \A x \in Proc : Part(x, d, b)'
  PROVE  Queue(d, b)' /\ Known(d, b)'
BY DEF Queue, Known, Part

(* What a brick does to others in a step of p: it may pass them the lock   *)
Served(p, d, b) ==
  /\ NoDup(waiting'[d][b])
  /\ \A x \in Proc \ {p} :
       /\ x \in Elems(waiting'[d][b]) =>
            x \in Elems(waiting[d][b]) /\ holder'[d][b] # x
       /\ holder'[d][b] = x => holder[d][b] = x \/ x \in Elems(waiting[d][b])
       /\ holder[d][b] = x => holder'[d][b] = x

(* So only p has to be looked at                                           *)
LEMMA StepOf ==
  ASSUME HealInv, NEW p \in Proc, Others(p), Types',
         \A d \in Domain, b \in Brick : Served(p, d, b) /\ Part(p, d, b)',
         Giving(p)', Kept(p)'
  PROVE  HealInv'
<1>1. ASSUME NEW d \in Domain, NEW b \in Brick, NEW x \in Proc \ {p}
      PROVE  /\ Part(x, d, b)'
             /\ x \in Elems(waiting[d][b]) => Waits(x, d, b)
  <2>1. Part(x, d, b) BY DEF HealInv, LockInv, Queue, Known, Part
  <2>2. Waits(x, d, b)' = Waits(x, d, b) BY OthersSame
  <2>3. child_up'[x] = child_up[x] /\ locked_on'[x] = locked_on[x]
    BY DEF Others
  <2> QED BY <2>1, <2>2, <2>3, SMT DEF Part, Served
<1>2. ASSUME NEW d \in Domain, NEW b \in Brick
      PROVE  Queue(d, b)' /\ Known(d, b)'
  <2>1. Elems(waiting[d][b])' \subseteq Proc BY SMT DEF Types, Elems
  <2>2. NoDup(waiting[d][b])' BY DEF Served
  <2> QED BY <1>1, <2>1, <2>2, Parts
<1>3. ASSUME NEW x \in Proc \ {p} PROVE Giving(x)' /\ Kept(x)'
  <2>1. Giving(x) /\ Kept(x) BY DEF HealInv, LockInv
  <2>2. /\ dom(x)' = dom(x) /\ GivingBack(x)' = GivingBack(x)
        /\ Healing(x)' = Healing(x) /\ Unlocked(x)' = Unlocked(x)
    BY OthersSame
  <2>3. /\ child_up'[x] = child_up[x] /\ todo'[x] = todo[x]
        /\ phase'[x] = phase[x] /\ call'[x] = call[x]
        /\ locked_on'[x] = locked_on[x] /\ lost'[x] = lost[x]
        /\ cookie'[x] = cookie[x]
    BY DEF Others
  <2>4. ASSUME NEW d \in Domain, NEW b \in Brick, holder'[d][b] = x
        PROVE  holder[d][b] = x \/ (phase[x] = "wait" /\ d = dom(x))
    BY <1>1, <2>4, SMT DEF Served, Waits
  <2>5. /\ dom(x) \in Domain /\ Unlocked(x) \subseteq Domain
        /\ phase[x] = "wait" => dom(x) \notin Unlocked(x) /\ ~GivingBack(x)
    BY <2>1 DEF Giving, dom, Dom, Domain, Unlocked, GivingBack
  <2>6. Giving(x)' BY <2>1, <2>2, <2>3, <2>4, <2>5, SMT DEF Giving
  <2>7. ASSUME NEW d \in Domain, NEW b \in Brick, holder[d][b] = x
        PROVE  holder'[d][b] = x
    BY <2>7 DEF Served
  <2>8. locked_on[x] \in [Domain -> SUBSET Brick]
    BY DEF HealInv, LockInv, Types
  <2>9. Kept(x)' BY <2>1, <2>2, <2>3, <2>7, <2>8 DEF Kept
  <2> QED BY <2>6, <2>9
<1> QED BY <1>2, <1>3 DEF HealInv, LockInv

(* A step of p in which no brick takes part                                *)
LEMMA LocalStep ==
  ASSUME HealInv, NEW p \in Proc, Others(p), UNCHANGED bricks, Types',
         \A d \in Domain, b \in Brick : Part(p, d, b)', Giving(p)', Kept(p)'
  PROVE  HealInv'
<1>1. ASSUME NEW d \in Domain, NEW b \in Brick PROVE Served(p, d, b)
  BY DEF HealInv, LockInv, Queue, Served, bricks
<1> QED BY <1>1, StepOf

LEMMA Mine ==
  ASSUME HealInv, NEW p \in Proc
  PROVE  /\ Types /\ Giving(p) /\ Kept(p)
         /\ \A d \in Domain, b \in Brick : Part(p, d, b)
BY DEF HealInv, LockInv, Queue, Known, Part

----------------------------------------------------------------------------
(* Taking a lock                                                           *)

(* A lock call begins in a domain in which p has no lock, and neither      *)
(* waits nor, unless it heals already, heals                               *)
LEMMA TryStep ==
  ASSUME HealInv, NEW p \in Proc, NEW c \in Call \ {"none"}, Try(p, c),
         UNCHANGED <<bricks, child_up, cookie>>, phase[p] # "wait",
         \A b \in Brick : holder[Dom(c)][b] # p,
         ~GivingBack(p) \/ dom(p) = Dom(c),
         c \in {"transaction", "heal"} =>
           \A d \in Domain, b \in Brick : holder[d][b] # p,
         c \in {"prepare", "block", "undo"} => Healing(p)
  PROVE  HealInv'
<1>1. Types /\ Giving(p) /\ Kept(p) BY Mine
<1>2. Others(p) BY <1>1 DEF Others, Types, Try, Goto, bricks
<1>3. Types' BY <1>1 DEF Types, Try, Goto, bricks, Phase
<1>4. /\ call'[p] = c /\ phase'[p] = "try" /\ todo'[p] = child_up[p]
      /\ \A d \in Domain :
           locked_on'[p][d] = IF d = Dom(c) THEN {} ELSE locked_on[p][d]
      /\ lost'[p] = lost[p] \ {Dom(c)} /\ child_up' = child_up
      /\ holder' = holder /\ waiting' = waiting
  BY <1>1 DEF Types, Try, Goto, bricks
<1>5. ASSUME NEW d \in Domain, NEW b \in Brick PROVE Part(p, d, b)'
  <2>1. Part(p, d, b) BY Mine
  <2> QED BY <1>4, <2>1 DEF Part, Waits
<1>6. Giving(p)'
  BY <1>1, <1>4 DEF Giving, GivingBack, Unlocked, dom, Dom, Domain
<1>7. Kept(p)'
  <2>1. ASSUME NEW d \in Domain \ lost'[p], NEW b \in locked_on'[p][d]
        PROVE  holder'[d][b] = p
    BY <1>1, <1>4, <2>1, SMT DEF Kept
  <2>2. Healing(p)' => Healing(p) /\ Dom(c) = "data"
    BY <1>4 DEF Healing, Dom
  <2> QED BY <1>1, <1>4, <2>1, <2>2 DEF Kept, Domain
<1> QED BY <1>2, <1>3, <1>5, <1>6, <1>7, <1>4, LocalStep DEF bricks

LEMMA BeginStep ==
  ASSUME HealInv, NEW p \in Proc, Begin(p)
  PROVE  HealInv'
<1>1. /\ phase[p] = "idle" /\ call[p] = "none"
      /\ \A d \in Domain, b \in Brick : holder[d][b] # p
  BY Mine DEF Begin, Giving, Unlocked
<1>2. PICK c \in {"transaction", "heal"} : Try(p, c) BY DEF Begin
<1> QED BY <1>1, <1>2, TryStep DEF Begin, GivingBack, Call, Dom, Domain

(* The counts of the locks are enough, or the locks are given back; no     *)
(* process is waiting, giving back or idle when it counts                  *)
LEMMA CountStep ==
  ASSUME HealInv, NEW p \in Proc, NEW f \in {"back", "failed", "release"},
         phase[p] \in {"try", "seq", "held"},
         \/ Untry(p, call[p], f) /\ ~(call[p] = "heal" /\ phase[p] = "held")
         \/ Locked(p),
         UNCHANGED <<bricks, child_up, locked_on, lost>>,
         cookie' \in [Proc -> Nat], \A x \in Proc \ {p} : cookie'[x] = cookie[x]
  PROVE  HealInv'
<1>1. Types /\ Giving(p) /\ Kept(p) BY Mine
<1>2. /\ call' = call /\ holder' = holder /\ waiting' = waiting
      /\ child_up' = child_up /\ locked_on' = locked_on /\ lost' = lost
      /\ \/ /\ todo' = [todo EXCEPT ![p] = locked_on[p][dom(p)] \cap child_up[p]]
            /\ \E g \in {"back", "failed", "release"} :
                 phase' = [phase EXCEPT ![p] = g]
            /\ Healing(p)' => Healing(p)
         \/ /\ todo' = todo /\ phase' = [phase EXCEPT ![p] = "held"]
            /\ call[p] = "heal" => Cardinality(locked_on[p]["sh_domain"]) >= 2
  BY <1>1
     DEF Types, Untry, Locked, Goto, bricks, dom, Dom, Enough, Healing,
         AFR_SH_MIN_PARTICIPANTS
<1>3. Others(p) BY <1>1, <1>2 DEF Others, Types
<1>4. dom(p) \in Domain BY DEF dom, Dom, Domain
<1>5. Types'
  <2>1. todo' \in [Proc -> SUBSET Brick]
    <3>1. locked_on[p][dom(p)] \cap child_up[p] \in SUBSET Brick
      BY <1>1, <1>4 DEF Types
    <3> QED BY <1>1, <1>2, <3>1 DEF Types
  <2>2. phase' \in [Proc -> Phase] BY <1>1, <1>2 DEF Types, Phase
  <2> QED BY <1>1, <1>2, <2>1, <2>2 DEF Types
<1>6. ASSUME NEW d \in Domain, NEW b \in Brick
      PROVE  /\ Part(p, d, b)'
             /\ holder[d][b] = p => b \in locked_on[p][d] \cap child_up[p]
  <2>1. Part(p, d, b) BY Mine
  <2> QED BY <1>2, <2>1 DEF Part, Waits
<1>7. Giving(p)'
  <2>1. dom(p)' = dom(p) /\ Unlocked(p)' = Unlocked(p)
    BY <1>2 DEF dom, Unlocked
  <2>2. /\ phase'[p] \notin {"idle", "wait"} /\ call[p] # "none" /\ call'[p] = call[p]
        /\ GivingBack(p)' => todo'[p] = locked_on[p][dom(p)] \cap child_up[p]
        /\ todo'[p] \subseteq child_up[p]
    BY <1>1, <1>2, SMT DEF Giving, Types, GivingBack
  <2> QED BY <1>1, <1>2, <1>4, <1>6, <2>1, <2>2 DEF Giving
<1>8. Kept(p)'
  <2>1. ~GivingBack(p) BY DEF GivingBack
  <2>2. Healing(p)' => Healing(p) \/ Cardinality(locked_on[p]["sh_domain"]) >= 2
    BY <1>1, <1>2 DEF Healing, Types
  <2> QED BY <1>1, <1>2, <2>1, <2>2 DEF Kept
<1> QED BY <1>2, <1>3, <1>5, <1>6, <1>7, <1>8, LocalStep DEF bricks

LEMMA TriedStep ==
  ASSUME HealInv, NEW p \in Proc, Tried(p)
  PROVE  HealInv'
<1>1. cookie \in [Proc -> Nat] BY Mine DEF Types
<1> QED BY <1>1, CountStep DEF Tried

LEMMA SeqDoneStep ==
  ASSUME HealInv, NEW p \in Proc, SeqDone(p)
  PROVE  HealInv'
<1>1. cookie \in [Proc -> Nat] BY Mine DEF Types
<1>2. cookie' \in [Proc -> Nat] /\ \A x \in Proc \ {p} : cookie'[x] = cookie[x]
  BY <1>1 DEF SeqDone
<1> QED BY <1>2, CountStep DEF SeqDone

LEMMA UseStep ==
  ASSUME HealInv, NEW p \in Proc, Use(p)
  PROVE  HealInv'
<1>1. Types /\ Giving(p) BY Mine
<1>2. CASE call[p] = "heal" /\ Try(p, "prepare")
  <2>1. \A b \in Brick : holder["data"][b] # p
    BY <1>1, <1>2 DEF Giving, Unlocked
  <2> QED
    BY <1>2, <2>1, TryStep, SMT DEF Use, Call, Dom, GivingBack, Healing
<1>3. CASE /\ call[p] # "heal" /\ Untry(p, call[p], "release")
           /\ UNCHANGED <<locked_on, lost>>
  BY <1>1, <1>3, CountStep DEF Use, Types
<1> QED BY <1>2, <1>3 DEF Use

(* What was given back p does not have                                     *)
LEMMA Given ==
  ASSUME HealInv, NEW p \in Proc, GivingBack(p), todo[p] = {}
  PROVE  \A b \in Brick : holder[dom(p)][b] # p
BY Mine DEF Giving

LEMMA GaveBackStep ==
  ASSUME HealInv, NEW p \in Proc, GaveBack(p)
  PROVE  HealInv'
<1>1. Types /\ Giving(p) /\ Kept(p) BY Mine
<1>2. \A b \in Brick : holder[dom(p)][b] # p
  BY Given DEF GaveBack, GivingBack
<1>3. dom(p) \in Domain BY DEF dom, Dom, Domain
<1>4. /\ holder' = holder /\ waiting' = waiting /\ child_up' = child_up
      /\ call' = call /\ phase[p] = "back" /\ phase'[p] = "seq" /\ todo' = todo
      /\ \A d \in Domain :
           locked_on'[p][d] = IF d = dom(p) THEN {} ELSE locked_on[p][d]
      /\ lost'[p] = lost[p] \ {dom(p)}
  BY <1>1, <1>3 DEF Types, GaveBack, Goto, bricks
<1>5. Others(p) BY <1>1, <1>3 DEF Others, Types, GaveBack, Goto, bricks
<1>6. Types' BY <1>1, <1>3 DEF Types, GaveBack, Goto, bricks, Phase
<1>7. ASSUME NEW d \in Domain, NEW b \in Brick PROVE Part(p, d, b)'
  <2>1. Part(p, d, b) BY Mine
  <2> QED BY <1>2, <1>4, <2>1 DEF Part, Waits
<1>8. dom(p)' = dom(p) /\ Unlocked(p)' = Unlocked(p) /\ ~GivingBack(p)'
  BY <1>4 DEF dom, Unlocked, GivingBack
<1>9. Giving(p)' BY <1>1, <1>4, <1>8 DEF Giving
<1>10. Kept(p)'
  <2>1. Healing(p)' => Healing(p) /\ dom(p) = "data"
    BY <1>4 DEF Healing, dom, Dom
  <2> QED BY <1>1, <1>4, <1>8, <2>1 DEF Kept, Domain
<1> QED BY <1>4, <1>5, <1>6, <1>7, <1>9, <1>10, LocalStep DEF bricks

LEMMA GrantedStep ==
  ASSUME HealInv, NEW p \in Proc, Granted(p)
  PROVE  HealInv'
<1>1. Types /\ Giving(p) /\ Kept(p) BY Mine
<1>2. dom(p) \in Domain BY DEF dom, Dom, Domain
<1>3. /\ holder' = holder /\ waiting' = waiting /\ child_up' = child_up
      /\ call' = call /\ phase[p] = "wait" /\ phase'[p] = "seq" /\ todo' = todo
      /\ lost' = lost /\ cookie[p] \in Brick /\ holder[dom(p)][cookie[p]] = p
      /\ \A d \in Domain : locked_on'[p][d] =
           IF d = dom(p) THEN locked_on[p][d] \cup {cookie[p]} ELSE locked_on[p][d]
  <2>1. phase[p] = "wait" /\ cookie[p] \in Brick BY <1>1 DEF Giving, Granted
  <2>2. \A d \in Domain : locked_on'[p][d] =
          IF d = dom(p) THEN locked_on[p][d] \cup {cookie[p]} ELSE locked_on[p][d]
    BY <1>1, <1>2 DEF Types, Granted, Counted
  <2> QED BY <1>1, <2>1, <2>2 DEF Types, Granted, Goto, bricks
<1>4. Others(p) BY <1>1, <1>2 DEF Others, Types, Granted, Counted, Goto, bricks
<1>5. Types'
  <2>1. locked_on' \in [Proc -> [Domain -> SUBSET Brick]]
    BY <1>1, <1>2, <1>3, SMT DEF Types, Granted, Counted
  <2> QED
    BY <1>1, <1>2, <2>1, SMT DEF Types, Granted, Counted, Goto, bricks, Phase
<1>6. ASSUME NEW d \in Domain, NEW b \in Brick PROVE Part(p, d, b)'
  <2>1. Part(p, d, b) BY Mine
  <2>2. p \notin Elems(waiting[d][b])
    BY <1>3, <2>1 DEF Part, Waits
  <2> QED BY <1>3, <2>1, <2>2 DEF Part, Waits
<1>7. dom(p)' = dom(p) /\ Unlocked(p)' = Unlocked(p) /\ ~GivingBack(p)'
  BY <1>3 DEF dom, Unlocked, GivingBack
<1>8. Giving(p)' BY <1>1, <1>3, <1>7 DEF Giving
<1>9. Kept(p)'
  <2>1. Healing(p)' => Healing(p) /\ dom(p) = "data"
    BY <1>3 DEF Healing, dom, Dom
  <2>2. ~GivingBack(p) BY <1>3 DEF GivingBack
  <2> QED BY <1>1, <1>3, <1>7, <2>1, <2>2 DEF Kept, Domain
<1> QED BY <1>3, <1>4, <1>5, <1>6, <1>8, <1>9, LocalStep DEF bricks

LEMMA ReconnectStep ==
  ASSUME HealInv, NEW p \in Proc, NEW c \in Brick, Reconnect(p, c)
  PROVE  HealInv'
<1>1. Types /\ Giving(p) /\ Kept(p) BY Mine
<1>2. /\ child_up'[p] = child_up[p] \cup {c}
      /\ UNCHANGED <<holder, waiting, call, phase, todo, locked_on, cookie, lost>>
  BY <1>1 DEF Types, Reconnect, bricks, proc
<1>3. Others(p) /\ Types'
  BY <1>1, <1>2 DEF Others, Types, Reconnect
<1>4. ASSUME NEW d \in Domain, NEW b \in Brick PROVE Part(p, d, b)'
  <2>1. Part(p, d, b) BY Mine
  <2> QED BY <1>2, <2>1 DEF Part, Waits, dom
<1>5. /\ dom(p)' = dom(p) /\ Unlocked(p)' = Unlocked(p)
      /\ GivingBack(p)' = GivingBack(p) /\ Healing(p)' = Healing(p)
  BY <1>2 DEF dom, Unlocked, GivingBack, Healing
<1>6. Giving(p)' /\ Kept(p)' BY <1>1, <1>2, <1>5 DEF Giving, Kept
<1> QED BY <1>2, <1>3, <1>4, <1>6, LocalStep DEF bricks

LEMMA ReleasedStep ==
  ASSUME HealInv, NEW p \in Proc, Released(p)
  PROVE  HealInv'
<1>1. Types /\ Giving(p) /\ Kept(p) BY Mine
<1>2. GivingBack(p) /\ phase[p] # "wait" BY DEF Released, GivingBack
<1>3. \A b \in Brick : holder[dom(p)][b] # p BY <1>2, Given DEF Released
<1>4. ASSUME call[p] \in {"prepare", "block"}, NEW c \in {"block", "undo"}, Try(p, c)
      PROVE  HealInv'
  BY <1>2, <1>3, <1>4, TryStep
     DEF Released, Call, dom, Dom, Healing
<1>5. ASSUME call[p] \in {"transaction", "heal"},
             call' = [call EXCEPT ![p] = "none"], Goto(p, "idle"), Forget(p),
             UNCHANGED todo
      PROVE  HealInv'
  <2>1. \A d \in Domain, b \in Brick : holder[d][b] # p
    BY <1>1, <1>3, <1>5 DEF Giving, Unlocked, dom, Dom, Domain
  <2>2. dom(p) \in Domain BY DEF dom, Dom, Domain
  <2>3. /\ holder' = holder /\ waiting' = waiting /\ child_up' = child_up
        /\ call'[p] = "none" /\ phase'[p] = "idle" /\ todo' = todo
        /\ \A d \in Domain :
             locked_on'[p][d] = IF d = dom(p) THEN {} ELSE locked_on[p][d]
        /\ lost'[p] = lost[p] \ {dom(p)}
    BY <1>1, <1>5, <2>2 DEF Types, Released, Goto, Forget, bricks
  <2>4. Others(p) BY <1>1, <1>5, <2>2 DEF Others, Types, Released, Goto, Forget, bricks
  <2>5. Types'
    BY <1>1, <1>5, <2>2 DEF Types, Released, Goto, Forget, bricks, Phase, Call
  <2>6. ASSUME NEW d \in Domain, NEW b \in Brick PROVE Part(p, d, b)'
    <3>1. Part(p, d, b) BY Mine
    <3> QED BY <1>2, <2>1, <2>3, <3>1 DEF Part, Waits
  <2>7. Giving(p)' BY <1>1, <2>1, <2>3 DEF Giving, GivingBack, Unlocked
  <2>8. Kept(p)'
    <3>1. ~Healing(p)' BY <2>3 DEF Healing
    <3>2. ASSUME NEW d \in Domain \ lost'[p], NEW b \in locked_on'[p][d]
          PROVE  holder'[d][b] = p
      BY <1>1, <2>3, <3>2 DEF Kept
    <3> QED BY <3>1, <3>2 DEF Kept
  <2> QED BY <2>3, <2>4, <2>5, <2>6, <2>7, <2>8, LocalStep DEF bricks
<1>6. ASSUME call[p] \in {"prepare", "block", "undo"},
             Untry(p, "heal", "release"), Forget(p)
      PROVE  HealInv'
  <2>1. dom(p) = "data" /\ dom(p)' = "sh_domain" /\ Dom("heal") = "sh_domain"
    BY <1>1, <1>6 DEF dom, Dom, Untry, Types
  <2>2. /\ holder' = holder /\ waiting' = waiting /\ child_up' = child_up
        /\ call'[p] = "heal" /\ phase'[p] = "release"
        /\ todo'[p] = locked_on[p]["sh_domain"] \cap child_up[p]
        /\ locked_on'[p]["data"] = {}
        /\ locked_on'[p]["sh_domain"] = locked_on[p]["sh_domain"]
        /\ lost'[p] = lost[p] \ {"data"}
    BY <1>1, <1>6, <2>1 DEF Types, Released, Untry, Goto, Forget, bricks, Domain
  <2>3. Others(p)
    BY <1>1, <1>6, <2>1 DEF Others, Types, Released, Untry, Goto, Forget, bricks
  <2>4. Types'
    BY <1>1, <1>6, <2>1
       DEF Types, Released, Untry, Goto, Forget, bricks, Phase, Call, Domain
  <2>5. ASSUME NEW d \in Domain, NEW b \in Brick
        PROVE  /\ Part(p, d, b)'
               /\ holder[d][b] = p => d = "sh_domain" /\ b \in todo'[p]
    <3>1. Part(p, d, b) BY Mine
    <3> QED BY <1>2, <1>3, <2>1, <2>2, <3>1 DEF Part, Waits, Domain
  <2>6. Giving(p)' BY <2>1, <2>2, <2>5 DEF Giving, Unlocked, Domain
  <2>7. Kept(p)'
    <3>1. ~Healing(p)' BY <2>2 DEF Healing
    <3>2. GivingBack(p)' BY <2>2 DEF GivingBack
    <3> QED BY <2>1, <2>2, <3>1, <3>2 DEF Kept, Domain
  <2> QED BY <2>2, <2>3, <2>4, <2>5, <2>6, <2>7, LocalStep DEF bricks
<1> QED BY <1>4, <1>5, <1>6 DEF Released
----------------------------------------------------------------------------
(* The bricks                                                              *)

(* A brick that does nothing                                               *)
LEMMA Idle ==
  ASSUME HealInv, NEW p, NEW d \in Domain, NEW b \in Brick,
         holder'[d][b] = holder[d][b], waiting'[d][b] = waiting[d][b]
  PROVE  Served(p, d, b)
BY DEF HealInv, LockInv, Queue, Served

LEMMA Update ==
  ASSUME NEW A, NEW B, NEW V, NEW f \in [A -> [B -> V]],
         NEW a \in A, NEW b \in B, NEW v \in V
  PROVE  /\ [f EXCEPT ![a][b] = v] \in [A -> [B -> V]]
         /\ \A x \in A, y \in B :
              [f EXCEPT ![a][b] = v][x][y] =
                IF x = a /\ y = b THEN v ELSE f[x][y]
OBVIOUS

(* A brick grants p a free lock, or one it has already                     *)
LEMMA GrantStep ==
  ASSUME HealInv, NEW p \in Proc, NEW c \in Brick, c \in child_up[p],
         holder[dom(p)][c] \in {Free, p},
         holder' = [holder EXCEPT ![dom(p)][c] = p],
         locked_on' = [locked_on EXCEPT ![p][dom(p)] = @ \cup {c}],
         phase[p] \in {"try", "seq"},
         UNCHANGED <<waiting, child_up, call, phase, lost>>,
         cookie' \in [Proc -> Nat], todo' \in [Proc -> SUBSET Brick],
         todo'[p] \subseteq todo[p],
         \A x \in Proc \ {p} : cookie'[x] = cookie[x] /\ todo'[x] = todo[x]
  PROVE  HealInv'
<1>1. Types /\ Giving(p) /\ Kept(p) BY Mine
<1>2. dom(p) \in Domain BY DEF dom, Dom, Domain
<1>3. /\ holder' \in [Domain -> [Brick -> Proc \cup {Free}]]
      /\ \A d \in Domain, b \in Brick : holder'[d][b] =
           IF d = dom(p) /\ b = c THEN p ELSE holder[d][b]
  <2>1. p \in Proc \cup {Free} /\ holder \in [Domain -> [Brick -> Proc \cup {Free}]]
    BY <1>1 DEF Types
  <2> QED BY <1>2, <2>1, Update, SMT
<1>4. /\ locked_on' \in [Proc -> [Domain -> SUBSET Brick]]
      /\ \A x \in Proc, d \in Domain : locked_on'[x][d] =
           IF x = p /\ d = dom(p) THEN locked_on[p][d] \cup {c} ELSE locked_on[x][d]
  <2> DEFINE v == locked_on[p][dom(p)] \cup {c}
  <2>1. locked_on \in [Proc -> [Domain -> SUBSET Brick]] /\ v \in SUBSET Brick
    BY <1>1, <1>2, SMT DEF Types
  <2>2. locked_on' = [locked_on EXCEPT ![p][dom(p)] = v] OBVIOUS
  <2> HIDE DEF v
  <2> DEFINE g == [locked_on EXCEPT ![p][dom(p)] = v]
  <2>3. /\ g \in [Proc -> [Domain -> SUBSET Brick]]
        /\ \A x \in Proc, d \in Domain : g[x][d] =
             IF x = p /\ d = dom(p) THEN v ELSE locked_on[x][d]
    BY <1>2, <2>1, Update, SMT
  <2>4. locked_on' = g BY <2>2
  <2> HIDE DEF g
  <2> QED BY ONLY <2>3, <2>4 DEF v
<1>5. Types' BY <1>1, <1>3, <1>4 DEF Types
<1>6. Others(p) BY <1>1 DEF Others, Types
<1>7. ASSUME NEW d \in Domain, NEW b \in Brick
      PROVE  Served(p, d, b) /\ Part(p, d, b)'
  <2>1. NoDup(waiting[d][b]) BY DEF HealInv, LockInv, Queue
  <2>2. Part(p, d, b) BY Mine
  <2>3. CASE d = dom(p) /\ b = c
    <3>1. holder'[d][b] = p /\ holder[d][b] \in {Free, p} BY <1>3, <2>3
    <3>2. b \in locked_on'[p][d] BY <1>4, <2>3
    <3>3. Served(p, d, b) BY <2>1, <3>1, LockersAssumption DEF Served
    <3> QED BY <2>2, <2>3, <3>1, <3>2, <3>3 DEF Part, Waits
  <2>4. CASE ~(d = dom(p) /\ b = c)
    <3>1. holder'[d][b] = holder[d][b] BY <1>3, <2>4
    <3>2. locked_on[p][d] \subseteq locked_on'[p][d] BY <1>4
    <3> QED BY <2>2, <3>1, <3>2, Idle DEF Part, Waits
  <2> QED BY <2>3, <2>4
<1>8. /\ dom(p)' = dom(p) /\ Unlocked(p)' = Unlocked(p)
      /\ ~GivingBack(p)' /\ ~GivingBack(p)
  BY DEF dom, Unlocked, GivingBack
<1>9. Giving(p)'
  <2>1. dom(p) \notin Unlocked(p) /\ Unlocked(p) \subseteq Domain
    BY <1>1 DEF Giving, dom, Dom, Unlocked, Domain
  <2> QED BY <1>1, <1>3, <1>8, <2>1 DEF Giving
<1>10. Kept(p)'
  <2>1. ASSUME NEW d \in Domain \ lost'[p], NEW b \in locked_on'[p][d]
        PROVE  holder'[d][b] = p
    <3>1. b \in Brick BY <1>4, SMT
    <3> QED BY <1>1, <1>3, <1>4, <1>8, <2>1, <3>1, SMT DEF Kept
  <2>2. Healing(p)' => Healing(p) /\ dom(p) = "data"
    BY DEF Healing, dom, Dom
  <2> QED BY <1>1, <1>4, <2>1, <2>2, SMT DEF Kept, Domain
<1> QED BY <1>5, <1>6, <1>7, <1>9, <1>10, StepOf

LEMMA SETLKStep ==
  ASSUME HealInv, NEW p \in Proc, NEW c \in Brick, SETLK(p, c)
  PROVE  HealInv'
<1>1. Types /\ Giving(p) /\ Kept(p) BY Mine
<1>2. /\ todo'[p] \subseteq todo[p] /\ todo' \in [Proc -> SUBSET Brick]
      /\ \A x \in Proc \ {p} : todo'[x] = todo[x]
      /\ c \in child_up[p]
  BY <1>1 DEF SETLK, Types, Giving
<1>3. CASE holder[dom(p)][c] = Free
  BY <1>1, <1>2, <1>3, GrantStep DEF SETLK, Types
<1>4. CASE holder[dom(p)][c] # Free
  <2>1. UNCHANGED <<holder, waiting, child_up, call, phase, locked_on, cookie, lost>>
    BY <1>4 DEF SETLK
  <2>2. Others(p) /\ Types' BY <1>1, <1>2, <2>1 DEF Others, Types
  <2>3. ASSUME NEW d \in Domain, NEW b \in Brick PROVE Part(p, d, b)'
    <3>1. Part(p, d, b) BY Mine
    <3> QED BY <2>1, <3>1 DEF Part, Waits, dom
  <2>4. Giving(p)' /\ Kept(p)'
    BY <1>1, <1>2, <2>1, SMT
       DEF SETLK, Giving, Kept, Healing, Unlocked, GivingBack, dom
  <2> QED BY <2>1, <2>2, <2>3, <2>4, LocalStep DEF bricks
<1> QED BY <1>3, <1>4

LEMMA SETLKWStep ==
  ASSUME HealInv, NEW p \in Proc, SETLKW(p)
  PROVE  HealInv'
<1> DEFINE c == cookie[p]
<1>1. Types /\ Giving(p) /\ Kept(p) BY Mine
<1>2. /\ phase[p] = "seq" /\ c \in Brick /\ c + 1 \in Nat
      /\ UNCHANGED <<child_up, call, todo, lost>>
  BY <1>1, SMT DEF SETLKW, Types
<1>3. dom(p) \in Domain BY DEF dom, Dom, Domain
<1>4. CASE /\ cookie' = [cookie EXCEPT ![p] = c + 1]
           /\ UNCHANGED <<holder, waiting, phase, locked_on>>
  <2>1. Others(p) /\ Types' BY <1>1, <1>2, <1>4 DEF Others, Types
  <2>2. ASSUME NEW d \in Domain, NEW b \in Brick PROVE Part(p, d, b)'
    <3>1. Part(p, d, b) BY Mine
    <3> QED BY <1>2, <1>4, <3>1 DEF Part, Waits, dom
  <2>3. Giving(p)' /\ Kept(p)'
    BY <1>1, <1>2, <1>4 DEF Giving, Kept, Healing, Unlocked, GivingBack, dom
  <2> QED BY <1>4, <2>1, <2>2, <2>3, LocalStep DEF bricks
<1>5. CASE /\ ~Skip(p) /\ holder[dom(p)][c] \in {Free, p}
           /\ holder' = [holder EXCEPT ![dom(p)][c] = p]
           /\ Counted(p, c) /\ UNCHANGED <<waiting, phase>>
  <2>1. c \in child_up[p] BY <1>5 DEF Skip
  <2>2. cookie' \in [Proc -> Nat] /\ \A x \in Proc \ {p} : cookie'[x] = cookie[x]
    BY <1>1, <1>2, <1>5 DEF Types, Counted
  <2>3. todo' = todo /\ todo \in [Proc -> SUBSET Brick]
    BY <1>1, <1>2 DEF Types
  <2> QED BY <1>2, <1>5, <2>1, <2>2, <2>3, GrantStep DEF Counted
<1>6. CASE /\ ~Skip(p) /\ holder[dom(p)][c] \notin {Free, p}
           /\ waiting' = [waiting EXCEPT ![dom(p)][c] = Append(@, p)]
           /\ Goto(p, "wait") /\ UNCHANGED <<holder, cookie, locked_on>>
  <2> DEFINE q == waiting[dom(p)][c]
  <2>1. c \in child_up[p] BY <1>6 DEF Skip
  <2>2. Part(p, dom(p), c) /\ Queue(dom(p), c)
    BY <1>2, <1>3, Mine DEF HealInv, LockInv
  <2>3. p \notin Elems(q) /\ NoDup(q)
    BY <1>2, <2>2 DEF Part, Waits, Queue
  <2>4. q \in Seq(Proc) BY <1>1, <1>2, <1>3, SMT DEF Types
  <2>5. /\ Append(q, p) \in Seq(Proc) /\ NoDup(Append(q, p))
        /\ Elems(Append(q, p)) = Elems(q) \cup {p}
    BY <2>3, <2>4, AppendQueue, SMT
  <2>6. /\ waiting' \in [Domain -> [Brick -> Seq(Proc)]]
        /\ \A d \in Domain, b \in Brick : waiting'[d][b] =
             IF d = dom(p) /\ b = c THEN Append(q, p) ELSE waiting[d][b]
    <3>1. waiting' = [waiting EXCEPT ![dom(p)][c] = Append(q, p)] BY <1>6
    <3>2. waiting \in [Domain -> [Brick -> Seq(Proc)]] BY <1>1 DEF Types
    <3> QED BY <1>2, <1>3, <2>5, <3>1, <3>2, Update, SMT
  <2>7. phase' = [phase EXCEPT ![p] = "wait"] BY <1>6 DEF Goto
  <2>8. Types' /\ Others(p)
    BY <1>1, <1>2, <1>6, <2>6, <2>7 DEF Types, Others, Phase
  <2>9. phase'[p] = "wait" /\ dom(p)' = dom(p) /\ Unlocked(p)' = Unlocked(p)
    BY <1>1, <1>2, <2>7 DEF Types, dom, Unlocked
  <2>10. ASSUME NEW d \in Domain, NEW b \in Brick
         PROVE  Served(p, d, b) /\ Part(p, d, b)'
    <3>1. Part(p, d, b) /\ Queue(d, b) BY Mine DEF HealInv, LockInv
    <3>2. CASE d = dom(p) /\ b = c
      <4>1. waiting'[d][b] = Append(q, p) /\ holder'[d][b] = holder[d][b]
        BY <1>6, <2>6, <3>2
      <4>2. holder'[d][b] # p BY <1>6, <3>2
      <4>3. Served(p, d, b) BY <2>5, <3>1, <3>2, <4>1 DEF Served, Queue
      <4>4. Waits(p, d, b)' BY <1>6, <2>9, <3>2 DEF Waits
      <4>5. Part(p, d, b)' BY <1>2, <2>1, <3>2, <4>2, <4>4 DEF Part
      <4> QED BY <4>3, <4>5
    <3>3. CASE ~(d = dom(p) /\ b = c)
      <4>1. waiting'[d][b] = waiting[d][b] /\ holder'[d][b] = holder[d][b]
        BY <1>6, <2>6, <3>3
      <4>2. ~Waits(p, d, b) BY <1>2 DEF Waits
      <4> QED BY <1>2, <1>6, <3>1, <4>1, <4>2, Idle DEF Part
    <3> QED BY <3>2, <3>3
  <2>11. ~GivingBack(p)' /\ ~GivingBack(p) BY <1>2, <2>9 DEF GivingBack
  <2>12. Healing(p)' => Healing(p) BY <1>2, <2>9 DEF Healing
  <2>13. Giving(p)' /\ Kept(p)'
    BY <1>1, <1>2, <1>6, <2>9, <2>11, <2>12 DEF Giving, Kept
  <2> QED BY <2>8, <2>10, <2>13, StepOf
<1> QED BY <1>4, <1>5, <1>6 DEF SETLKW, bricks

(* p leaves the queue of a brick; the lock it had goes to the next in it   *)
LEMMA Leave ==
  ASSUME HealInv, NEW p \in Proc, NEW d \in Domain, NEW b \in Brick,
         NEW q \in Seq(Proc), NoDup(q), Elems(q) = Elems(waiting[d][b]) \ {p},
         holder'[d][b] = IF holder[d][b] # p THEN holder[d][b]
                         ELSE IF q = <<>> THEN Free ELSE Head(q),
         waiting'[d][b] = IF holder[d][b] = p /\ q # <<>> THEN Tail(q) ELSE q
  PROVE  /\ Served(p, d, b) /\ p \notin Elems(waiting'[d][b])
         /\ holder'[d][b] # p
         /\ holder'[d][b] \in Proc \cup {Free} /\ waiting'[d][b] \in Seq(Proc)
<1>1. Queue(d, b) /\ holder[d][b] \in Proc \cup {Free} /\ Free \notin Proc
  <2>1. Queue(d, b) /\ Types BY DEF HealInv, LockInv
  <2> QED BY <2>1, LockersAssumption, SMT DEF Types
<1>2. CASE holder[d][b] = p /\ q # <<>>
  <2>1. /\ Tail(q) \in Seq(Proc) /\ NoDup(Tail(q)) /\ Head(q) \in Proc
        /\ Head(q) \in Elems(q) /\ Elems(Tail(q)) = Elems(q) \ {Head(q)}
    BY <1>2, TailQueue
  <2>2. holder'[d][b] = Head(q) /\ waiting'[d][b] = Tail(q) BY <1>2
  <2> QED BY <1>1, <1>2, <2>1, <2>2 DEF Served, Queue
<1>3. CASE holder[d][b] = p /\ q = <<>>
  <2>1. holder'[d][b] = Free /\ waiting'[d][b] = q BY <1>3
  <2>2. Elems(q) = {} BY <1>3, SMT DEF Elems
  <2> QED BY <1>1, <1>3, <2>1, <2>2 DEF Served
<1>4. CASE holder[d][b] # p
  <2>1. holder'[d][b] = holder[d][b] /\ waiting'[d][b] = q BY <1>4
  <2> QED BY <1>1, <1>4, <2>1 DEF Served, Queue
<1> QED BY <1>2, <1>3, <1>4

(* p goes on as before, with fewer locks                                   *)
LEMMA Less ==
  ASSUME HealInv, NEW p \in Proc, NEW c,
         call'[p] = call[p], locked_on'[p] = locked_on[p], lost[p] \subseteq lost'[p],
         dom(p)' = dom(p), Unlocked(p)' = Unlocked(p),
         GivingBack(p)' = GivingBack(p), Healing(p)' = Healing(p),
         phase'[p] = "idle" <=> phase[p] = "idle",
         phase'[p] = "wait" => phase[p] = "wait" /\ cookie'[p] = cookie[p],
         todo'[p] = todo[p] \ {c}, todo'[p] \subseteq child_up'[p],
         \A d \in Domain, b \in Brick :
           /\ holder'[d][b] = p => holder[d][b] = p /\ ~(d = dom(p) /\ b = c)
           /\ holder[d][b] = p /\ d \notin lost'[p] /\ b \in locked_on[p][d] =>
                holder'[d][b] = p \/ (d = dom(p) /\ GivingBack(p))
  PROVE  Giving(p)' /\ Kept(p)'
<1>1. Giving(p) /\ Kept(p) BY Mine
<1>2. \A d \in Domain : locked_on[p][d] \subseteq Brick BY Mine, SMT DEF Types
<1>3. Unlocked(p) \subseteq Domain /\ dom(p) \in Domain
  BY DEF Unlocked, Domain, dom, Dom
<1>4. ASSUME NEW b \in Brick
      PROVE  /\ GivingBack(p)' /\ holder'[dom(p)'][b] = p => b \in todo'[p]
             /\ \A d \in Unlocked(p)' : holder'[d][b] # p
  BY <1>1, <1>3, SMT DEF Giving
<1>5. Giving(p)' BY <1>1, <1>4 DEF Giving
<1>6. ASSUME NEW d \in Domain \ lost'[p], NEW b \in locked_on'[p][d]
      PROVE  holder'[d][b] = p \/ (d = dom(p)' /\ GivingBack(p)')
  BY <1>1, <1>2, SMT DEF Kept
<1>7. Kept(p)' BY <1>1, <1>6 DEF Kept
<1> QED BY <1>5, <1>7

LEMMA UNLCKStep ==
  ASSUME HealInv, NEW p \in Proc, NEW c \in Brick, UNLCK(p, c)
  PROVE  HealInv'
<1>1. Types /\ Giving(p) /\ Kept(p) BY Mine
<1>2. dom(p) \in Domain BY DEF dom, Dom, Domain
<1>3. /\ GivingBack(p) /\ phase[p] # "wait"
      /\ todo' = [todo EXCEPT ![p] = @ \ {c}]
      /\ UNCHANGED <<child_up, call, phase, cookie, locked_on, lost>>
  BY DEF UNLCK, GivingBack
<1>4. /\ dom(p)' = dom(p) /\ Unlocked(p)' = Unlocked(p)
      /\ GivingBack(p)' = GivingBack(p) /\ Healing(p)' = Healing(p)
      /\ todo'[p] = todo[p] \ {c} /\ todo' \in [Proc -> SUBSET Brick]
  BY <1>1, <1>3 DEF dom, Unlocked, GivingBack, Healing, Types
<1>5. CASE holder[dom(p)][c] # p
  <2>1. UNCHANGED <<holder, waiting>> BY <1>5 DEF UNLCK, bricks
  <2>2. Others(p) /\ Types' BY <1>1, <1>3, <1>4, <2>1 DEF Others, Types
  <2>3. ASSUME NEW d \in Domain, NEW b \in Brick PROVE Part(p, d, b)'
    <3>1. Part(p, d, b) BY Mine
    <3> QED BY <1>3, <2>1, <3>1 DEF Part, Waits
  <2>4. Giving(p)' /\ Kept(p)'
    BY <1>1, <1>3, <1>4, <1>5, <2>1 DEF Giving, Kept
  <2> QED BY <2>1, <2>2, <2>3, <2>4, LocalStep DEF bricks
<1>6. CASE holder[dom(p)][c] = p
  <2> DEFINE q == waiting[dom(p)][c]
             h == IF q = <<>> THEN Free ELSE Head(q)
             w == IF q = <<>> THEN q ELSE Tail(q)
  <2>1. Queue(dom(p), c) /\ q \in Seq(Proc)
    BY <1>1, <1>2 DEF HealInv, LockInv, Types
  <2>2. NoDup(q) /\ p \notin Elems(q) BY <1>6, <2>1 DEF Queue
  <2>3. h \in Proc \cup {Free} /\ w \in Seq(Proc) BY <2>1, <2>2, TailQueue
  <2>4. /\ holder' = [holder EXCEPT ![dom(p)][c] = h]
        /\ waiting' = [waiting EXCEPT ![dom(p)][c] = w]
    BY <1>6 DEF UNLCK, Pass
  <2> HIDE DEF h, w
  <2>5. /\ holder' \in [Domain -> [Brick -> Proc \cup {Free}]]
        /\ \A d \in Domain, b \in Brick : holder'[d][b] =
             IF d = dom(p) /\ b = c THEN h ELSE holder[d][b]
    <3>1. holder \in [Domain -> [Brick -> Proc \cup {Free}]] BY <1>1 DEF Types
    <3> QED BY <1>2, <2>3, <2>4, <3>1, Update, SMT
  <2>6. /\ waiting' \in [Domain -> [Brick -> Seq(Proc)]]
        /\ \A d \in Domain, b \in Brick : waiting'[d][b] =
             IF d = dom(p) /\ b = c THEN w ELSE waiting[d][b]
    <3>1. waiting \in [Domain -> [Brick -> Seq(Proc)]] BY <1>1 DEF Types
    <3> QED BY <1>2, <2>3, <2>4, <3>1, Update, SMT
  <2>7. Types' BY <1>1, <1>3, <1>4, <2>5, <2>6 DEF Types
  <2>8. Others(p) BY <1>1, <1>3 DEF Others, Types
  <2>9. /\ Served(p, dom(p), c) /\ p \notin Elems(waiting'[dom(p)][c])
        /\ holder'[dom(p)][c] # p
    <3>1. holder'[dom(p)][c] = IF q = <<>> THEN Free ELSE Head(q)
      BY <1>2, <2>5 DEF h
    <3>2. waiting'[dom(p)][c] = IF q = <<>> THEN q ELSE Tail(q)
      BY <1>2, <2>6 DEF w
    <3>3. Elems(q) = Elems(q) \ {p} BY <2>2
    <3> QED BY <1>2, <1>6, <2>1, <2>2, <3>1, <3>2, <3>3, Leave, SMT
  <2>10. ASSUME NEW d \in Domain, NEW b \in Brick
         PROVE  Served(p, d, b) /\ Part(p, d, b)'
    <3>1. CASE d = dom(p) /\ b = c BY <2>9, <3>1 DEF Part
    <3>2. CASE ~(d = dom(p) /\ b = c)
      <4>1. Part(p, d, b) BY Mine
      <4>2. holder'[d][b] = holder[d][b] /\ waiting'[d][b] = waiting[d][b]
        BY <2>5, <2>6, <3>2
      <4> QED BY <1>3, <4>1, <4>2, Idle DEF Part, Waits
    <3> QED BY <3>1, <3>2
  <2>11. ASSUME NEW d \in Domain, NEW b \in Brick, ~(d = dom(p) /\ b = c)
         PROVE  holder'[d][b] = holder[d][b]
    BY <2>5, <2>11
  <2>12. \A d \in Domain, b \in Brick :
           /\ holder'[d][b] = p => holder[d][b] = p /\ ~(d = dom(p) /\ b = c)
           /\ holder[d][b] = p /\ d \notin lost'[p] /\ b \in locked_on[p][d] =>
                holder'[d][b] = p \/ (d = dom(p) /\ GivingBack(p))
    BY <1>3, <2>9, <2>11
  <2>13. todo'[p] \subseteq child_up'[p] BY <1>1, <1>3, <1>4 DEF Giving
  <2>14. Giving(p)' /\ Kept(p)' BY <1>3, <1>4, <2>12, <2>13, Less
  <2> QED BY <2>7, <2>8, <2>10, <2>14, StepOf
<1> QED BY <1>5, <1>6

LEMMA DisconnectStep ==
  ASSUME HealInv, NEW p \in Proc, NEW c \in Brick, Disconnect(p, c)
  PROVE  HealInv'
<1> DEFINE q(d) == Without(waiting[d][c], p)
<1>1. Types /\ Giving(p) /\ Kept(p) BY Mine
<1>2. /\ UNCHANGED <<call, locked_on>>
      /\ child_up' = [child_up EXCEPT ![p] = @ \ {c}]
      /\ todo' = [todo EXCEPT ![p] = @ \ {c}]
      /\ lost' = [lost EXCEPT ![p] = @ \cup {d \in Domain : c \in locked_on[p][d]}]
      /\ IF phase[p] = "wait" /\ cookie[p] = c
           THEN /\ phase' = [phase EXCEPT ![p] = "seq"]
                /\ cookie' = [cookie EXCEPT ![p] = c + 1]
           ELSE phase' = phase /\ cookie' = cookie
  BY DEF Disconnect, Goto
<1>3. /\ child_up'[p] = child_up[p] \ {c} /\ todo'[p] = todo[p] \ {c}
      /\ lost'[p] = lost[p] \cup {d \in Domain : c \in locked_on[p][d]}
      /\ dom(p)' = dom(p) /\ Unlocked(p)' = Unlocked(p)
      /\ GivingBack(p)' = GivingBack(p) /\ Healing(p)' = Healing(p)
      /\ phase'[p] = "idle" <=> phase[p] = "idle"
      /\ phase'[p] = "wait" => phase[p] = "wait" /\ cookie'[p] = cookie[p]
      /\ \A d \in Domain, b \in Brick \ {c} : Waits(p, d, b) => Waits(p, d, b)'
  BY <1>1, <1>2, SMT DEF Types, dom, Unlocked, GivingBack, Healing, Waits
<1>4. ASSUME NEW d \in Domain
      PROVE  /\ q(d) \in Seq(Proc) /\ NoDup(q(d))
             /\ Elems(q(d)) = Elems(waiting[d][c]) \ {p}
  <2>1. waiting[d][c] \in Seq(Proc) /\ Queue(d, c)
    BY <1>1 DEF HealInv, LockInv, Types
  <2> QED BY <2>1, WithoutQueue DEF Queue
<1>5. /\ holder' = [d \in Domain |-> [holder[d] EXCEPT ![c] =
           IF @ # p THEN @ ELSE IF q(d) = <<>> THEN Free ELSE Head(q(d))]]
      /\ waiting' = [d \in Domain |-> [waiting[d] EXCEPT ![c] =
           IF holder[d][c] = p /\ q(d) # <<>> THEN Tail(q(d)) ELSE q(d)]]
  BY DEF Disconnect
<1> HIDE DEF q
<1>6. ASSUME NEW d \in Domain
      PROVE  /\ Served(p, d, c) /\ p \notin Elems(waiting'[d][c])
             /\ holder'[d][c] # p
             /\ holder'[d][c] \in Proc \cup {Free} /\ waiting'[d][c] \in Seq(Proc)
  <2>1. holder'[d][c] = IF holder[d][c] # p THEN holder[d][c]
                        ELSE IF q(d) = <<>> THEN Free ELSE Head(q(d))
    BY <1>1, <1>5 DEF Types
  <2>2. waiting'[d][c] = IF holder[d][c] = p /\ q(d) # <<>> THEN Tail(q(d)) ELSE q(d)
    BY <1>1, <1>5 DEF Types
  <2> QED BY <1>4, <2>1, <2>2, Leave
<1>7. ASSUME NEW d \in Domain, NEW b \in Brick \ {c}
      PROVE  holder'[d][b] = holder[d][b] /\ waiting'[d][b] = waiting[d][b]
  BY <1>1, <1>5 DEF Types
<1>8. Types'
  <2>1. holder' \in [Domain -> [Brick -> Proc \cup {Free}]]
    <3>1. ASSUME NEW d \in Domain
          PROVE  holder'[d] \in [Brick -> Proc \cup {Free}]
      <4>1. DOMAIN holder'[d] = Brick /\ holder'[d] = [b \in Brick |-> holder'[d][b]]
        BY <1>1, <1>5 DEF Types
      <4>2. ASSUME NEW b \in Brick PROVE holder'[d][b] \in Proc \cup {Free}
        <5>1. holder[d][b] \in Proc \cup {Free} BY <1>1, SMT DEF Types
        <5>2. CASE b = c BY <1>6, <5>2
        <5>3. CASE b # c BY <1>7, <5>1, <5>3
        <5> QED BY <5>2, <5>3
      <4> QED BY <4>1, <4>2
    <3> QED BY <1>5, <3>1
  <2>2. waiting' \in [Domain -> [Brick -> Seq(Proc)]]
    <3>1. ASSUME NEW d \in Domain PROVE waiting'[d] \in [Brick -> Seq(Proc)]
      <4>1. DOMAIN waiting'[d] = Brick /\ waiting'[d] = [b \in Brick |-> waiting'[d][b]]
        BY <1>1, <1>5 DEF Types
      <4>2. ASSUME NEW b \in Brick PROVE waiting'[d][b] \in Seq(Proc)
        <5>1. waiting[d][b] \in Seq(Proc) BY <1>1, SMT DEF Types
        <5>2. CASE b = c BY <1>6, <5>2
        <5>3. CASE b # c BY <1>7, <5>1, <5>3
        <5> QED BY <5>2, <5>3
      <4> QED BY <4>1, <4>2
    <3> QED BY <1>5, <3>1
  <2>3. /\ child_up' \in [Proc -> SUBSET Brick] /\ todo' \in [Proc -> SUBSET Brick]
        /\ lost' \in [Proc -> SUBSET Domain]
    BY <1>1, <1>2 DEF Types
  <2>4. phase' \in [Proc -> Phase] /\ cookie' \in [Proc -> Nat]
    <3>1. c + 1 \in Nat /\ "seq" \in Phase BY LockersAssumption, SMT DEF
                                              Brick, Phase
    <3> QED BY <1>1, <1>2, <3>1 DEF Types
  <2> QED BY <1>1, <1>2, <2>1, <2>2, <2>3, <2>4 DEF Types
<1>9. Others(p) BY <1>1, <1>2 DEF Others, Types
<1>10. ASSUME NEW d \in Domain, NEW b \in Brick
       PROVE  Served(p, d, b) /\ Part(p, d, b)'
  <2>1. CASE b = c BY <1>6, <2>1 DEF Part
  <2>2. CASE b # c
    <3>1. Part(p, d, b) BY Mine
    <3> QED BY <1>2, <1>3, <1>7, <2>2, <3>1, Idle DEF Part
  <2> QED BY <2>1, <2>2
<1>11. ASSUME NEW d \in Domain, NEW b \in Brick
       PROVE  /\ holder'[d][b] = p => holder[d][b] = p /\ b # c
              /\ holder[d][b] = p => holder'[d][b] = p \/ b = c
  <2>1. CASE b = c BY <1>6, <2>1
  <2>2. CASE b # c BY <1>7, <2>2
  <2> QED BY <2>1, <2>2
<1>12. \A d \in Domain, b \in Brick :
         /\ holder'[d][b] = p => holder[d][b] = p /\ ~(d = dom(p) /\ b = c)
         /\ holder[d][b] = p /\ d \notin lost'[p] /\ b \in locked_on[p][d] =>
              holder'[d][b] = p \/ (d = dom(p) /\ GivingBack(p))
  BY <1>3, <1>11
<1>13. todo'[p] \subseteq child_up'[p] /\ lost[p] \subseteq lost'[p]
  BY <1>1, <1>3 DEF Giving
<1>14. Giving(p)' /\ Kept(p)' BY <1>2, <1>3, <1>12, <1>13, Less
<1> QED BY <1>8, <1>9, <1>10, <1>14, StepOf

----------------------------------------------------------------------------
(* Every step preserves the invariant                                      *)
LEMMA NextHealInv == HealInv /\ [Next]_vars => HealInv'
<1> SUFFICES ASSUME HealInv, [Next]_vars PROVE HealInv' OBVIOUS
<1>1. CASE UNCHANGED vars
  BY <1>1, SMT DEF vars, bricks, proc, HealInv, LockInv, Types, Queue, Known,
     Giving,
              Kept, Waits, GivingBack, Unlocked, Healing, dom
<1>2. ASSUME NEW p \in Proc, Begin(p) \/ Continue(p) PROVE HealInv'
  BY <1>2, BeginStep, SETLKStep, UNLCKStep, TriedStep, GaveBackStep, SETLKWStep,
     GrantedStep, SeqDoneStep, UseStep, ReleasedStep DEF Continue
<1>3. ASSUME NEW p \in Proc, NEW b \in Brick, Disconnect(p, b) \/ Reconnect(p, b)
      PROVE  HealInv'
  BY <1>3, DisconnectStep, ReconnectStep
<1> QED BY <1>1, <1>2, <1>3 DEF Next

(* For any number of bricks, processes and broken connections, a brick     *)
(* never keeps a lock that its holder does not know of.                    *)
THEOREM LocksAreKnown == Spec => []NoLeak
<1>1. HealInv => NoLeak
  <2> SUFFICES ASSUME HealInv, NEW d \in Domain, NEW b \in Brick, holder[d][b] # Free
               PROVE  LET p == holder[d][b] IN
                      \/ b \in locked_on[p][d]
                      \/ phase[p] = "wait" /\ dom(p) = d /\ cookie[p] = b
    BY DEF NoLeak
  <2>1. Known(d, b) /\ holder[d][b] \in Proc BY SMT DEF HealInv, LockInv, Types
  <2> QED BY <2>1 DEF Known, Waits
<1> QED BY <1>1, InitHealInv, NextHealInv, PTL DEF Spec

LOCAL FT == INSTANCE FiniteSetTheorems

(* The finite sets of the library are those of AfrLock.                    *)
LEMMA SameCount ==
  ASSUME NEW S
  PROVE  /\ FT!Cardinality(S) = Cardinality(S)
         /\ FT!IsFiniteSet(S) <=> IsFiniteSet(S)
BY DEF FT!Cardinality, FT!IsFiniteSet, Cardinality, IsFiniteSet

(* In a replica set of at most three bricks, for any number of daemons and *)
(* clients, no file is healed by two at a time.  (In one of four bricks    *)
(* two daemons can each lock two of them, which is                         *)
(* AFR_SH_MIN_PARTICIPANTS, and neither sees a majority to insist on.)     *)
THEOREM HealsExclude ==
  ASSUME ChildCount <= 3
  PROVE  Spec => []OneHeal
<1>1. HealInv => OneHeal
  <2> SUFFICES ASSUME HealInv, NEW p \in Shd, NEW q \in Shd, p # q,
                      Healing(p), Healing(q), "sh_domain" \notin lost[p] \cup lost[q]
               PROVE  FALSE
    BY DEF OneHeal
  <2> DEFINE S(x) == locked_on[x]["sh_domain"]
  <2>1. ASSUME NEW x \in {p, q}
        PROVE  /\ S(x) \subseteq Brick /\ Cardinality(S(x)) >= 2
               /\ \A b \in S(x) : holder["sh_domain"][b] = x
    <3>1. x \in Proc /\ Healing(x) /\ "sh_domain" \in Domain \ lost[x]
      BY DEF Proc, Domain
    <3>2. Kept(x) /\ S(x) \subseteq Brick BY <3>1, SMT DEF HealInv, LockInv,
                                             Types
    <3>3. ~("sh_domain" = dom(x) /\ GivingBack(x))
      BY <3>1 DEF Healing, dom, Dom, GivingBack
    <3> QED BY <3>1, <3>2, <3>3 DEF Kept
  <2>2. S(p) \cap S(q) = {} BY <2>1
  <2>3. IsFiniteSet(Brick) /\ Cardinality(Brick) <= 3
    BY LockersAssumption, FT!FS_Interval, SameCount, SMT DEF Brick
  <2>4. /\ IsFiniteSet(S(p)) /\ IsFiniteSet(S(q))
        /\ Cardinality(S(p)) \in Nat /\ Cardinality(S(q)) \in Nat
    BY <2>1, <2>3, FT!FS_Subset, FT!FS_CardinalityType, SameCount
  <2>5. Cardinality(S(p) \cup S(q)) = Cardinality(S(p)) + Cardinality(S(q))
    <3>1. Cardinality(S(p) \cap S(q)) = 0 BY <2>2, FT!FS_EmptySet, SameCount
    <3>2. Cardinality(S(p) \cup S(q))
            = Cardinality(S(p)) + Cardinality(S(q)) - Cardinality(S(p) \cap S(q))
      BY <2>4, FT!FS_Union, SameCount, SMT
    <3> QED BY <2>4, <3>1, <3>2, SMT
  <2>6. /\ Cardinality(S(p) \cup S(q)) <= Cardinality(Brick)
        /\ Cardinality(Brick) \in Nat
    <3>1. S(p) \cup S(q) \in SUBSET Brick BY <2>1
    <3> QED BY <2>3, <3>1, FT!FS_Subset, FT!FS_CardinalityType, SameCount, SMT
  <2>7. Cardinality(S(p)) >= 2 /\ Cardinality(S(q)) >= 2 BY <2>1
  <2> HIDE DEF S
  <2> QED BY <2>3, <2>4, <2>5, <2>6, <2>7, SMT
<1> QED BY <1>1, InitHealInv, NextHealInv, PTL DEF Spec
============================================================================
