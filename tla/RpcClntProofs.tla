--------------------------- MODULE RpcClntProofs ---------------------------
(***************************************************************************)
(* Timers, references, the reconnect chain and the answers of the RPC      *)
(* client, for any calls, pings and sockets.                               *)
(***************************************************************************)
EXTENDS RpcClnt, TLAPS

(* Leaves are first-order reasoning unless they cite SMT.                  *)
USE Zenon

----------------------------------------------------------------------------
(* The connection record                                                   *)

Fields == {"sf", "lk_sf", "connected", "disabled", "timer", "reconnect",
           "ping_timer", "ping_started", "active", "ref"}

ConnOK(k) ==
  /\ DOMAIN k = Fields /\ k.ref \in Int
  /\ k.timer \in {"none", "armed", "fired"}
  /\ k.reconnect \in {"none", "armed", "fired"}
  /\ k.ping_timer \in {"none", "start", "expired", "fired"}

(* The references that no pointer to a timer stands for                    *)
Spare(k) == k.ref - Cancelled(k.timer) - Cancelled(k.reconnect)
                  - Owns(k.ping_timer)

(* The frames that wait for a reply                                        *)
SameFrames(k, q) == q.sf = k.sf /\ q.lk_sf = k.lk_sf

(* What the ping operators leave alone                                     *)
SameButPing(k, q) ==
  /\ SameFrames(k, q)
  /\ q.timer = k.timer /\ q.reconnect = k.reconnect
  /\ q.connected = k.connected /\ q.disabled = k.disabled
  /\ Spare(q) = Spare(k)

LEMMA DropPingIs ==
  ASSUME NEW k, ConnOK(k)
  PROVE  LET q == DropPing(k)
         IN  ConnOK(q) /\ SameButPing(k, q) /\ q.ping_timer = "none"
<1> DEFINE q == DropPing(k)
<1>1. /\ DOMAIN q = Fields /\ q.ref = k.ref + (- Owns(k.ping_timer))
      /\ q.timer = k.timer /\ q.reconnect = k.reconnect
      /\ q.connected = k.connected /\ q.disabled = k.disabled
      /\ q.ping_timer = "none" /\ SameFrames(k, q)
  BY DEF DropPing, Ref, RemovePing, ConnOK, Fields, SameFrames
<1> HIDE DEF q
<1>2. ConnOK(q) BY <1>1, SMT DEF ConnOK, Owns
<1>3. Spare(q) = Spare(k) BY <1>1, SMT DEF ConnOK, Spare, Owns, Cancelled
<1> QED BY <1>1, <1>2, <1>3 DEF SameButPing, q

LEMMA RearmIs ==
  ASSUME NEW k, ConnOK(k), k.ping_timer = "none",
         NEW cbk \in {"start", "expired"}
  PROVE  LET q == Rearm(k, cbk)
         IN  ConnOK(q) /\ SameButPing(k, q) /\ q.ping_timer = cbk
<1> DEFINE q == Rearm(k, cbk)
<1>1. /\ DOMAIN q = Fields /\ q.ref = k.ref + 1
      /\ q.timer = k.timer /\ q.reconnect = k.reconnect
      /\ q.connected = k.connected /\ q.disabled = k.disabled
      /\ q.ping_timer = cbk /\ SameFrames(k, q)
  BY DEF Rearm, Ref, ConnOK, Fields, SameFrames
<1> HIDE DEF q
<1>2. ConnOK(q) BY <1>1, SMT DEF ConnOK
<1>3. Spare(q) = Spare(k) BY <1>1, SMT DEF ConnOK, Spare, Owns, Cancelled
<1> QED BY <1>1, <1>2, <1>3 DEF SameButPing, q

(* rpc_clnt_start_ping and rpc_clnt_ping_cbk leave no timer that has fired *)
PingReset(k, q) ==
  ConnOK(q) /\ SameButPing(k, q) /\ q.ping_timer # "fired"

LEMMA RearmedIs ==
  ASSUME NEW k, ConnOK(k), NEW cbk \in {"start", "expired"}
  PROVE  PingReset(k, Rearm(DropPing(k), cbk))
<1>1. /\ ConnOK(DropPing(k)) /\ SameButPing(k, DropPing(k))
      /\ DropPing(k).ping_timer = "none"
  BY DropPingIs
<1> QED BY <1>1, RearmIs DEF SameButPing, SameFrames, PingReset

LEMMA UnstartedIs ==
  ASSUME NEW k, ConnOK(k)
  PROVE  PingReset(k, [DropPing(k) EXCEPT !.ping_started = FALSE])
<1> DEFINE d == DropPing(k)
           q == [d EXCEPT !.ping_started = FALSE]
<1>1. ConnOK(d) /\ SameButPing(k, d) /\ d.ping_timer = "none"
  BY DropPingIs
<1> HIDE DEF d
<1>2. /\ DOMAIN q = DOMAIN d /\ q.ref = d.ref /\ q.timer = d.timer
      /\ q.reconnect = d.reconnect /\ q.connected = d.connected
      /\ q.disabled = d.disabled /\ q.ping_timer = d.ping_timer
      /\ SameFrames(d, q)
  BY <1>1 DEF ConnOK, Fields, SameFrames
<1> HIDE DEF q
<1>3. PingReset(k, q)
  BY <1>1, <1>2 DEF PingReset, SameButPing, SameFrames, ConnOK, Spare
<1> QED BY <1>3 DEF q, d

LEMMA StartPingIs ==
  ASSUME NEW k, ConnOK(k)
  PROVE  PingReset(k, StartPing(k))
<1>1. PingReset(k, DropPing(k)) BY DropPingIs DEF PingReset
<1> QED BY <1>1, RearmedIs DEF StartPing

LEMMA PingCbkIs ==
  ASSUME NEW k, ConnOK(k), NEW ok \in BOOLEAN
  PROVE  PingReset(k, PingCbk(k, ok))
BY RearmedIs, UnstartedIs DEF PingCbk

(* The fields of k that the reference count is about                       *)
SamePointers(k, q) ==
  /\ q.timer = k.timer /\ q.reconnect = k.reconnect
  /\ q.ping_timer = k.ping_timer /\ q.ref = k.ref
  /\ DOMAIN q = DOMAIN k

LEMMA SamePointersOK ==
  ASSUME NEW k, NEW q, ConnOK(k), SamePointers(k, q)
  PROVE  ConnOK(q) /\ Spare(q) = Spare(k)
BY DEF ConnOK, Spare, SamePointers

LEMMA SaveFrameIs ==
  ASSUME NEW k, ConnOK(k), NEW c
  PROVE  LET q == SaveFrame(k, c)
         IN  /\ ConnOK(q) /\ Spare(q) = Spare(k)
             /\ q.timer = IF k.timer = "none" THEN "armed" ELSE k.timer
             /\ q.reconnect = k.reconnect /\ q.ping_timer = k.ping_timer
             /\ q.connected = k.connected /\ q.disabled = k.disabled
             /\ q.sf = IF c \in lockfop THEN k.sf ELSE Append(k.sf, c)
             /\ q.lk_sf = IF c \in lockfop THEN Append(k.lk_sf, c) ELSE k.lk_sf
<1> DEFINE p == IF c \in lockfop THEN [k EXCEPT !.lk_sf = Append(@, c)]
                                 ELSE [k EXCEPT !.sf = Append(@, c)]
           q == SaveFrame(k, c)
<1>1. /\ SamePointers(k, p)
      /\ p.connected = k.connected /\ p.disabled = k.disabled
      /\ p.sf = IF c \in lockfop THEN k.sf ELSE Append(k.sf, c)
      /\ p.lk_sf = IF c \in lockfop THEN Append(k.lk_sf, c) ELSE k.lk_sf
  <2>1. CASE c \in lockfop BY <2>1 DEF ConnOK, Fields, SamePointers
  <2>2. CASE c \notin lockfop BY <2>2 DEF ConnOK, Fields, SamePointers
  <2> QED BY <2>1, <2>2
<1>2. q = IF p.timer = "none" THEN [Ref(p, 1) EXCEPT !.timer = "armed"] ELSE p
  BY DEF SaveFrame
<1>3. ConnOK(p) /\ Spare(p) = Spare(k) BY <1>1, SamePointersOK
<1> HIDE DEF p, q
<1>4. CASE p.timer = "none"
  <2>1. /\ DOMAIN q = Fields /\ q.ref = p.ref + 1 /\ q.timer = "armed"
        /\ q.reconnect = p.reconnect /\ q.ping_timer = p.ping_timer
        /\ q.connected = p.connected /\ q.disabled = p.disabled
        /\ SameFrames(p, q)
    BY <1>2, <1>3, <1>4 DEF Ref, ConnOK, Fields, SameFrames
  <2>2. ConnOK(q) BY <1>3, <2>1, SMT DEF ConnOK
  <2>3. Spare(q) = Spare(p)
    BY <1>3, <1>4, <2>1, SMT DEF ConnOK, Spare, Owns, Cancelled
  <2> QED BY <1>1, <1>3, <1>4, <2>1, <2>2, <2>3 DEF q, SamePointers, SameFrames
<1>5. CASE p.timer # "none"
  BY <1>1, <1>2, <1>3, <1>5 DEF q, SamePointers
<1> QED BY <1>4, <1>5

LEMMA BailRearmIs ==
  ASSUME NEW k, ConnOK(k)
  PROVE  LET q == BailRearm(k)
         IN  /\ ConnOK(q) /\ Spare(q) >= Spare(k) /\ q.timer # "fired"
             /\ q.reconnect = k.reconnect /\ q.ping_timer = k.ping_timer
             /\ q.connected = k.connected /\ q.disabled = k.disabled
             /\ SameFrames(k, q)
<1> DEFINE q == BailRearm(k)
<1>1. CASE k.timer = "none"
  <2>1. Spare(k) \in Int BY SMT DEF ConnOK, Spare, Owns, Cancelled
  <2>2. q = k BY <1>1 DEF BailRearm
  <2> QED BY <1>1, <2>1, <2>2, SMT DEF SameFrames
<1>2. CASE k.timer # "none"
  <2>1. /\ DOMAIN q = Fields /\ q.ref = k.ref + 1 /\ q.timer = "armed"
        /\ q.reconnect = k.reconnect /\ q.ping_timer = k.ping_timer
        /\ q.connected = k.connected /\ q.disabled = k.disabled
        /\ SameFrames(k, q)
    BY <1>2 DEF BailRearm, Ref, ConnOK, Fields, SameFrames
  <2> HIDE DEF q
  <2>2. ConnOK(q) BY <2>1, SMT DEF ConnOK
  <2>3. Spare(q) >= Spare(k)
    BY <1>2, <2>1, SMT DEF ConnOK, Spare, Owns, Cancelled
  <2> QED BY <2>1, <2>2, <2>3 DEF q
<1> QED BY <1>1, <1>2

Forgotten(k, c, q) ==
  /\ q.sf = IF c \in Elems(k.sf) THEN Unlink(k.sf, c) ELSE k.sf
  /\ q.lk_sf = IF c \in Elems(k.sf) THEN k.lk_sf ELSE Unlink(k.lk_sf, c)

LEMMA ForgetIs ==
  ASSUME NEW k, ConnOK(k), NEW c, NEW a
  PROVE  LET q == [Forget(k, c) EXCEPT !.active = a]
         IN  /\ SamePointers(k, q)
             /\ q.connected = k.connected /\ q.disabled = k.disabled
             /\ Forgotten(k, c, q)
BY DEF Forget, ConnOK, Fields, SamePointers, Forgotten

LEMMA SpareInt ==
  ASSUME NEW k, ConnOK(k)
  PROVE  Spare(k) \in Int
BY SMT DEF ConnOK, Spare, Owns, Cancelled

LEMMA RefIs ==
  ASSUME NEW k, ConnOK(k), NEW n \in Int
  PROVE  LET q == Ref(k, n)
         IN  /\ ConnOK(q) /\ Spare(q) = Spare(k) + n /\ q.timer = k.timer
             /\ q.reconnect = k.reconnect /\ q.ping_timer = k.ping_timer
             /\ q.connected = k.connected /\ q.disabled = k.disabled
             /\ SameFrames(k, q)
<1> DEFINE q == Ref(k, n)
<1>1. /\ DOMAIN q = Fields /\ q.ref = k.ref + n /\ q.timer = k.timer
      /\ q.reconnect = k.reconnect /\ q.ping_timer = k.ping_timer
      /\ q.connected = k.connected /\ q.disabled = k.disabled
      /\ SameFrames(k, q)
  BY DEF Ref, ConnOK, Fields, SameFrames
<1> HIDE DEF q
<1>2. ConnOK(q) BY <1>1, SMT DEF ConnOK
<1>3. Spare(q) = Spare(k) + n
  BY <1>1, SMT DEF ConnOK, Spare, Owns, Cancelled
<1> QED BY <1>1, <1>2, <1>3 DEF q

LEMMA ReconnectSectionIs ==
  ASSUME NEW k, ConnOK(k)
  PROVE  LET q == ReconnectSection(k)
         IN  /\ ConnOK(q) /\ Spare(q) >= Spare(k) - 1 /\ q.timer = k.timer
             /\ q.reconnect = IF Retry(k) THEN "armed" ELSE "none"
             /\ q.ping_timer = k.ping_timer
             /\ q.connected = k.connected /\ q.disabled = k.disabled
             /\ SameFrames(k, q)
<1> DEFINE q == ReconnectSection(k)
<1>1. /\ DOMAIN q = Fields /\ q.timer = k.timer
      /\ q.ref = IF Retry(k) THEN k.ref ELSE k.ref + (-1)
      /\ q.reconnect = IF Retry(k) THEN "armed" ELSE "none"
      /\ q.ping_timer = k.ping_timer
      /\ q.connected = k.connected /\ q.disabled = k.disabled
      /\ SameFrames(k, q)
  <2>1. CASE Retry(k)
    BY <2>1 DEF ReconnectSection, ConnOK, Fields, SameFrames
  <2>2. CASE ~Retry(k)
    BY <2>2 DEF ReconnectSection, Ref, ConnOK, Fields, SameFrames
  <2> QED BY <2>1, <2>2
<1> HIDE DEF q
<1>2. ConnOK(q) BY <1>1, SMT DEF ConnOK
<1>3. Spare(q) >= Spare(k) - 1
  BY <1>1, SMT DEF ConnOK, Spare, Owns, Cancelled
<1> QED BY <1>1, <1>2, <1>3 DEF q

LEMMA CleanupIs ==
  ASSUME NEW k, ConnOK(k)
  PROVE  LET q == Cleanup(k)
         IN  /\ ConnOK(q) /\ Spare(q) = Spare(k) /\ q.timer = "none"
             /\ q.reconnect = k.reconnect /\ q.ping_timer = "none"
             /\ ~q.connected /\ q.disabled = k.disabled
             /\ q.sf = <<>> /\ q.lk_sf = <<>>
<1> DEFINE d == DropPing(k)
           q == Cleanup(k)
<1>1. ConnOK(d) /\ SameButPing(k, d) /\ d.ping_timer = "none"
  BY DropPingIs
<1>2. q = Ref([d EXCEPT !.sf = <<>>, !.lk_sf = <<>>, !.timer = "none",
                        !.connected = FALSE], - Cancelled(k.timer))
  BY DEF Cleanup
<1> HIDE DEF d, q
<1>3. /\ DOMAIN q = Fields /\ q.ref = d.ref + (- Cancelled(k.timer))
      /\ q.timer = "none" /\ q.reconnect = d.reconnect
      /\ q.ping_timer = d.ping_timer
      /\ q.connected = FALSE /\ q.disabled = d.disabled
      /\ q.sf = <<>> /\ q.lk_sf = <<>>
  BY <1>1, <1>2 DEF Ref, ConnOK, Fields
<1>4. ConnOK(q) BY <1>1, <1>3, SMT DEF ConnOK, Cancelled
<1>5. Spare(q) = Spare(d)
  BY <1>1, <1>3, SMT DEF ConnOK, SameButPing, Spare, Owns, Cancelled
<1> QED BY <1>1, <1>3, <1>4, <1>5 DEF q, SameButPing

LEMMA DisabledIs ==
  ASSUME NEW k, ConnOK(k)
  PROVE  LET q == Disabled(k)
         IN  /\ ConnOK(q) /\ Spare(q) = Spare(k) /\ q.timer = "none"
             /\ q.reconnect = "none" /\ q.ping_timer = "none"
             /\ ~q.connected /\ SameFrames(k, q)
<1> DEFINE d == DropPing(k)
           q == Disabled(k)
           n == - Cancelled(k.timer) - Cancelled(k.reconnect)
<1>1. ConnOK(d) /\ SameButPing(k, d) /\ d.ping_timer = "none"
  BY DropPingIs
<1>2. q = Ref([d EXCEPT !.disabled = TRUE, !.timer = "none",
                        !.reconnect = "none", !.connected = FALSE], n)
  BY DEF Disabled
<1>3. n \in Int /\ n = 0 - Cancelled(k.timer) - Cancelled(k.reconnect)
  BY SMT DEF Cancelled
<1> HIDE DEF d, q, n
<1>4. /\ DOMAIN q = Fields /\ q.ref = d.ref + n
      /\ q.timer = "none" /\ q.reconnect = "none"
      /\ q.ping_timer = d.ping_timer /\ q.connected = FALSE
      /\ SameFrames(d, q)
  BY <1>1, <1>2 DEF Ref, ConnOK, Fields, SameFrames
<1>5. ConnOK(q) BY <1>1, <1>3, <1>4, SMT DEF ConnOK
<1>6. Spare(q) = Spare(d)
  BY <1>1, <1>3, <1>4, SMT DEF ConnOK, SameButPing, Spare, Owns, Cancelled
<1> QED BY <1>1, <1>4, <1>5, <1>6 DEF q, SameButPing, SameFrames

----------------------------------------------------------------------------
(* The transport                                                           *)

SockState == {"none", "connecting", "up", "shut", "wait", "quick", "restart",
              "post", "unwind", "rearm", "gone"}

(* f, with an unused socket opened if there was none                       *)
LEMMA ConnectIs ==
  ASSUME NEW f \in [Sock -> SockState], NEW retry \in BOOLEAN,
         \A u \in Unused : f[u] = "none",
         ConnectIf(retry, f) \/ SocketConnect(f)
  PROVE  /\ sstate' \in [Sock -> SockState]
         /\ \A s \in Sock : \/ sstate'[s] = f[s]
                            \/ f[s] = "none" /\ sstate'[s] = "connecting"
         /\ \/ sock' = sock
            \/ /\ sock = NoSock /\ sock' \in Sock
               /\ sstate'[sock'] = "connecting"
<1>1. CASE sstate' = f /\ sock' = sock BY <1>1
<1>2. CASE SocketConnect(f) /\ sock = NoSock /\ Unused # {}
  <2>1. PICK s \in Unused :
          sock' = s /\ sstate' = [f EXCEPT ![s] = "connecting"]
    BY <1>2 DEF SocketConnect
  <2>2. s \in Sock BY DEF Unused
  <2> QED BY <1>2, <2>1, <2>2 DEF SockState
<1> QED BY <1>1, <1>2 DEF ConnectIf, SocketConnect

SockOK ==
  /\ sstate \in [Sock -> SockState] /\ sock \in Sock \cup {NoSock}
  /\ sock # NoSock => sstate[sock] \in {"connecting", "up", "shut"}

----------------------------------------------------------------------------
(* References: what is spare covers the owner, the callback that runs and  *)
(* the pollers about to reconnect                                          *)

Running == IF tpc \in {"bail", "bailed", "reconnect"} THEN 1 ELSE 0
Restarting == {s \in Sock : sstate[s] = "restart"}
Covered == Spare(conn) >= 1 + Running + Cardinality(Restarting)

(* What the invariant needs of counting (SocketsCounted)                   *)
Counted ==
  /\ Cardinality({}) = 0
  /\ \A S \in SUBSET Sock : Cardinality(S) \in Nat
  /\ \A S \in SUBSET Sock, s \in Sock :
       IF s \in S THEN Cardinality(S \ {s}) = Cardinality(S) - 1
                  ELSE Cardinality(S \cup {s}) = Cardinality(S) + 1

RefInv == Counted /\ ConnOK(conn) /\ SockOK /\ NoFreedTimer /\ Covered

LEMMA RestartingCount ==
  ASSUME Counted
  PROVE  Cardinality(Restarting) \in Nat
BY DEF Counted, Restarting

LEMMA InitRefInv == Counted /\ Init => RefInv
<1> SUFFICES ASSUME Counted, Init PROVE RefInv OBVIOUS
<1>1. ConnOK(conn) BY SMT DEF Init, InitConn, ConnOK, Fields
<1>2. SockOK BY DEF Init, SockOK, SockState
<1>3. NoFreedTimer BY DEF Init, InitConn, NoFreedTimer
<1>4. Covered
  <2>1. Spare(conn) = 1 BY SMT DEF Init, InitConn, Spare, Owns, Cancelled
  <2>2. Restarting = {} BY DEF Init, Restarting
  <2>3. Running = 0 BY DEF Init, Running
  <2>4. Cardinality({}) = 0 BY DEF Counted
  <2> QED BY <2>1, <2>2, <2>3, <2>4, SMT DEF Covered
<1> QED BY <1>1, <1>2, <1>3, <1>4 DEF RefInv

(* A step that keeps the pollers that are about to reconnect               *)
LEMMA KeepsRefs ==
  ASSUME RefInv, SockOK', ConnOK(conn'), NoFreedTimer',
         Restarting' = Restarting,
         \/ Spare(conn') >= Spare(conn) + Running' - Running
         \/ conn' = conn /\ Running' = Running
  PROVE  RefInv'
<1>1. /\ Spare(conn) \in Int /\ Spare(conn') \in Int
      /\ Cardinality(Restarting) \in Nat
  BY SpareInt, RestartingCount DEF RefInv
<1>2. Running \in {0, 1} /\ Running' \in {0, 1} BY DEF Running
<1>3. Spare(conn') >= 1 + Running' + Cardinality(Restarting)
  BY <1>1, <1>2, SMT DEF RefInv, Covered
<1>4. Covered' BY <1>3 DEF Covered
<1> QED BY <1>4 DEF RefInv

(* A step of a callback of pings, or one that only touches other fields    *)
LEMMA PingStepRefs ==
  ASSUME RefInv, UNCHANGED <<sock, sstate>>,
         PingReset(conn, conn') \/ SamePointers(conn, conn'),
         Running' = Running,
         \/ tpc' = tpc
         \/ /\ PingReset(conn, conn')
            /\ tpc \notin {"bail", "bailed", "reconnect"}
  PROVE  RefInv'
<1>1. ConnOK(conn') /\ Spare(conn') = Spare(conn)
  BY SamePointersOK DEF RefInv, PingReset, SameButPing
<1>2. SockOK' BY DEF SockOK, RefInv
<1>3. Restarting' = Restarting BY DEF Restarting
<1>4. NoFreedTimer'
  <2>1. CASE PingReset(conn, conn')
    BY <2>1 DEF PingReset, SameButPing, NoFreedTimer, RefInv
  <2>2. CASE SamePointers(conn, conn') /\ tpc' = tpc
    BY <2>2 DEF SamePointers, NoFreedTimer, RefInv
  <2> QED BY <2>1, <2>2
<1>5. Spare(conn') >= Spare(conn) + Running' - Running
  <2>1. Spare(conn) \in Int /\ Running \in {0, 1}
    BY SpareInt DEF RefInv, Running
  <2> QED BY <1>1, <2>1, SMT
<1> QED BY <1>1, <1>2, <1>3, <1>4, <1>5, KeepsRefs

LEMMA SameConn == SamePointers(conn, conn)
BY DEF SamePointers

LEMMA DeliverIs ==
  ASSUME RefInv, NEW c, NEW ok \in BOOLEAN, Deliver(c, ok)
  PROVE  PingReset(conn, conn') \/ conn' = conn
BY PingCbkIs DEF Deliver, RefInv

(* The calls                                                               *)
LEMMA CallRefs ==
  ASSUME RefInv, NEW c \in Call,
         \/ CheckPing(c) \/ BeginPing(c) \/ SubmitFailed(c) \/ Serve(c)
         \/ HandleReply(c) \/ ReplyCbk(c)
  PROVE  RefInv'
<1>1. UNCHANGED <<sock, sstate, tpc>>
  BY DEF CheckPing, BeginPing, SubmitFailed, Serve, HandleReply,
               ReplyCbk, transport
<1>2. PingReset(conn, conn') \/ SamePointers(conn, conn')
  <2>1. CASE CheckPing(c) \/ Serve(c)
    BY <2>1, SameConn DEF CheckPing, Serve
  <2>2. CASE BeginPing(c)
    BY <2>2, StartPingIs DEF BeginPing, RefInv
  <2>3. CASE SubmitFailed(c) \/ ReplyCbk(c)
    BY <2>3, DeliverIs, SameConn DEF SubmitFailed, ReplyCbk
  <2>4. CASE HandleReply(c)
    BY <2>4, ForgetIs DEF HandleReply, RefInv
  <2> QED BY <2>1, <2>2, <2>3, <2>4
<1>3. Running' = Running BY <1>1 DEF Running
<1> QED BY <1>1, <1>2, <1>3, PingStepRefs

LEMMA UnwindRefs ==
  ASSUME RefInv, NEW t \in Thread, UnwindOne(t)
  PROVE  RefInv'
<1>1. UNCHANGED <<sock, sstate, tpc>> /\ Deliver(Head(unw[t]), FALSE)
  BY DEF UnwindOne, transport
<1>2. PingReset(conn, conn') \/ SamePointers(conn, conn')
  BY <1>1, DeliverIs, SameConn
<1>3. Running' = Running BY <1>1 DEF Running
<1> QED BY <1>1, <1>2, <1>3, PingStepRefs

(* The timer thread                                                        *)
LEMMA FireRefs ==
  ASSUME RefInv, NEW kind \in {"bail", "reconnect", "ping"}, Fire(kind)
  PROVE  RefInv'
<1>1. UNCHANGED <<sock, sstate>> /\ tpc = "idle" BY DEF Fire, transport
<1>2. SockOK' BY <1>1 DEF SockOK, RefInv
<1>3. Restarting' = Restarting BY <1>1 DEF Restarting
<1>4. DOMAIN conn = Fields /\ ConnOK(conn) /\ NoFreedTimer
  BY DEF RefInv, ConnOK
<1>5. CASE conn.timer = "armed" /\ conn' = [conn EXCEPT !.timer = "fired"]
           /\ tpc' = "bail"
  <2>1. /\ DOMAIN conn' = Fields /\ conn'.ref = conn.ref
        /\ conn'.timer = "fired" /\ conn'.reconnect = conn.reconnect
        /\ conn'.ping_timer = conn.ping_timer
    BY <1>4, <1>5 DEF Fields
  <2>2. ConnOK(conn') BY <1>4, <2>1 DEF ConnOK
  <2>3. NoFreedTimer' BY <1>1, <1>4, <1>5, <2>1 DEF NoFreedTimer
  <2>4. Spare(conn') >= Spare(conn) + Running' - Running
    BY <1>1, <1>4, <1>5, <2>1, SMT DEF Spare, Running, Cancelled, Owns, ConnOK
  <2> QED BY <1>2, <1>3, <2>2, <2>3, <2>4, KeepsRefs
<1>6. CASE conn.reconnect = "armed" /\ tpc' = "reconnect"
           /\ conn' = [conn EXCEPT !.reconnect = "fired"]
  <2>1. /\ DOMAIN conn' = Fields /\ conn'.ref = conn.ref
        /\ conn'.timer = conn.timer /\ conn'.reconnect = "fired"
        /\ conn'.ping_timer = conn.ping_timer
    BY <1>4, <1>6 DEF Fields
  <2>2. ConnOK(conn') BY <1>4, <2>1 DEF ConnOK
  <2>3. NoFreedTimer' BY <1>1, <1>4, <1>6, <2>1 DEF NoFreedTimer
  <2>4. Spare(conn') >= Spare(conn) + Running' - Running
    BY <1>1, <1>4, <1>6, <2>1, SMT DEF Spare, Running, Cancelled, Owns, ConnOK
  <2> QED BY <1>2, <1>3, <2>2, <2>3, <2>4, KeepsRefs
<1>7. CASE conn.ping_timer \in {"start", "expired"}
           /\ tpc' = conn.ping_timer
           /\ conn' = [conn EXCEPT !.ping_timer = "fired"]
  <2>1. /\ DOMAIN conn' = Fields /\ conn'.ref = conn.ref
        /\ conn'.timer = conn.timer /\ conn'.reconnect = conn.reconnect
        /\ conn'.ping_timer = "fired"
    BY <1>4, <1>7 DEF Fields
  <2>2. ConnOK(conn') BY <1>4, <2>1 DEF ConnOK
  <2>3. NoFreedTimer' BY <1>1, <1>4, <1>7, <2>1 DEF NoFreedTimer
  <2>4. Spare(conn') >= Spare(conn) + Running' - Running
    BY <1>1, <1>4, <1>7, <2>1, SMT DEF Spare, Running, Cancelled, Owns, ConnOK
  <2> QED BY <1>2, <1>3, <2>2, <2>3, <2>4, KeepsRefs
<1> QED BY <1>5, <1>6, <1>7 DEF Fire

LEMMA BailRefs ==
  ASSUME RefInv, (\E n \in 0 .. Len(conn.sf) : CallBail(n)) \/ BailEnd
  PROVE  RefInv'
<1>1. UNCHANGED <<sock, sstate>> BY DEF CallBail, BailEnd, transport
<1>2. SockOK' BY <1>1 DEF SockOK, RefInv
<1>3. Restarting' = Restarting BY <1>1 DEF Restarting
<1>4. ConnOK(conn) /\ NoFreedTimer BY DEF RefInv
<1>5. ASSUME NEW n \in 0 .. Len(conn.sf), CallBail(n) PROVE RefInv'
  <2> DEFINE q == BailRearm(conn)
  <2>1. /\ ConnOK(q) /\ Spare(q) >= Spare(conn) /\ q.timer # "fired"
        /\ q.reconnect = conn.reconnect /\ q.ping_timer = conn.ping_timer
    BY <1>4, BailRearmIs
  <2>2. /\ conn' = [q EXCEPT !.sf = SubSeq(@, n + 1, Len(@))]
        /\ tpc = "bail" /\ tpc' = "bailed"
    BY <1>5 DEF CallBail
  <2> HIDE DEF q
  <2>3. SamePointers(q, conn')
    BY <2>1, <2>2 DEF SamePointers, ConnOK, Fields
  <2>4. ConnOK(conn') /\ Spare(conn') = Spare(q)
    BY <2>1, <2>3, SamePointersOK
  <2>5. NoFreedTimer'
    BY <1>4, <2>1, <2>2, <2>3 DEF NoFreedTimer, SamePointers
  <2>6. Spare(conn') >= Spare(conn) + Running' - Running
    BY <1>4, <2>1, <2>2, <2>4, SpareInt, SMT DEF Running
  <2> QED BY <1>2, <1>3, <2>4, <2>5, <2>6, KeepsRefs
<1>6. CASE BailEnd
  <2>1. conn' = Ref(conn, -1) /\ tpc = "bailed" /\ tpc' = "idle"
    BY <1>6 DEF BailEnd
  <2>2. /\ ConnOK(conn') /\ Spare(conn') = Spare(conn) + (-1)
        /\ conn'.timer = conn.timer /\ conn'.reconnect = conn.reconnect
        /\ conn'.ping_timer = conn.ping_timer
    BY <1>4, <2>1, RefIs, SMT
  <2>3. NoFreedTimer' BY <1>4, <2>1, <2>2 DEF NoFreedTimer
  <2>4. Spare(conn') >= Spare(conn) + Running' - Running
    BY <1>4, <2>1, <2>2, SpareInt, SMT DEF Running
  <2> QED BY <1>2, <1>3, <2>2, <2>3, <2>4, KeepsRefs
<1> QED BY <1>5, <1>6

LEMMA PingRefs ==
  ASSUME RefInv, PingStart \/ PingSubmitted \/ PingExpired
  PROVE  RefInv'
<1>1. UNCHANGED <<sock, sstate>>
  BY DEF PingStart, PingSubmitted, PingExpired, transport
<1>2. ConnOK(conn) BY DEF RefInv
<1>3. /\ tpc \notin {"bail", "bailed", "reconnect"}
      /\ tpc' \notin {"bail", "bailed", "reconnect"}
  BY RpcAssumption DEF PingStart, PingSubmitted, PingExpired, FreePing
<1>4. Running' = Running BY <1>3 DEF Running
<1>5. CASE PingStart
  BY <1>1, <1>2, <1>3, <1>4, <1>5, StartPingIs, PingStepRefs DEF PingStart
<1>6. CASE PingExpired
  <2>1. PingReset(conn, conn')
    BY <1>2, <1>6, RearmedIs, UnstartedIs DEF PingExpired
  <2> QED BY <1>1, <1>3, <1>4, <2>1, PingStepRefs
<1>7. CASE PingSubmitted
  <2>1. conn' = conn /\ tpc' = "idle" /\ tpc \notin {"start", "expired"}
    BY <1>7, RpcAssumption DEF PingSubmitted
  <2>2. NoFreedTimer' BY <1>3, <2>1 DEF NoFreedTimer, RefInv
  <2>3. SockOK' BY <1>1 DEF SockOK, RefInv
  <2>4. Restarting' = Restarting BY <1>1 DEF Restarting
  <2> QED BY <1>2, <1>4, <2>1, <2>2, <2>3, <2>4, KeepsRefs
<1> QED BY <1>5, <1>6, <1>7

(* Steps that open a socket: rpc_clnt_reconnect and rpc_clnt_submit        *)
LEMMA ConnectSockOK ==
  ASSUME SockOK, NEW retry \in BOOLEAN,
         ConnectIf(retry, sstate) \/ SocketConnect(sstate)
  PROVE  SockOK' /\ Restarting' = Restarting
<1>1. /\ sstate' \in [Sock -> SockState]
      /\ \A s \in Sock : \/ sstate'[s] = sstate[s]
                         \/ sstate[s] = "none" /\ sstate'[s] = "connecting"
      /\ \/ sock' = sock
         \/ /\ sock = NoSock /\ sock' \in Sock
            /\ sstate'[sock'] = "connecting"
  BY ConnectIs DEF SockOK, Unused
<1>2. SockOK' BY <1>1 DEF SockOK
<1>3. Restarting' = Restarting BY <1>1 DEF Restarting
<1> QED BY <1>2, <1>3

LEMMA ReconnectRefs ==
  ASSUME RefInv, Reconnect
  PROVE  RefInv'
<1>1. /\ ConnectIf(Retry(conn), sstate) /\ tpc = "reconnect" /\ tpc' = "idle"
      /\ conn' = ReconnectSection(conn) /\ Retry(conn) \in BOOLEAN
  BY DEF Reconnect, Retry
<1>2. SockOK' /\ Restarting' = Restarting
  BY <1>1, ConnectSockOK DEF RefInv
<1>3. /\ ConnOK(conn') /\ Spare(conn') >= Spare(conn) - 1
      /\ conn'.timer = conn.timer /\ conn'.reconnect # "fired"
      /\ conn'.ping_timer = conn.ping_timer
  BY <1>1, ReconnectSectionIs DEF RefInv
<1>4. NoFreedTimer' BY <1>1, <1>3 DEF NoFreedTimer, RefInv
<1>5. Spare(conn') >= Spare(conn) + Running' - Running
  BY <1>1, <1>3, SpareInt, SMT DEF Running, RefInv
<1> QED BY <1>2, <1>3, <1>4, <1>5, KeepsRefs

LEMMA SubmitRefs ==
  ASSUME RefInv, NEW c \in Call, Submit(c)
  PROVE  RefInv'
<1>1. tpc' = tpc /\ Running' = Running BY DEF Submit, Running
<1>2. CASE Up
  <2>1. conn' = SaveFrame(conn, c) /\ UNCHANGED <<sock, sstate>>
    BY <1>2 DEF Submit
  <2>2. /\ ConnOK(conn') /\ Spare(conn') = Spare(conn)
        /\ conn'.timer = IF conn.timer = "none" THEN "armed" ELSE conn.timer
        /\ conn'.reconnect = conn.reconnect
        /\ conn'.ping_timer = conn.ping_timer
    BY <2>1, SaveFrameIs DEF RefInv
  <2>3. SockOK' BY <2>1 DEF SockOK, RefInv
  <2>4. Restarting' = Restarting BY <2>1 DEF Restarting
  <2>5. NoFreedTimer' BY <1>1, <2>2 DEF NoFreedTimer, RefInv
  <2>6. Spare(conn') >= Spare(conn) + Running' - Running
    BY <1>1, <2>2, SpareInt, SMT DEF Running, RefInv
  <2> QED BY <2>2, <2>3, <2>4, <2>5, <2>6, KeepsRefs
<1>3. CASE ~Up
  <2>1. conn' = conn /\ ConnectIf(Retry(conn), sstate)
    BY <1>3 DEF Submit
  <2>2. SockOK' /\ Restarting' = Restarting
    BY <2>1, ConnectSockOK DEF RefInv, Retry
  <2>3. NoFreedTimer' BY <1>1, <2>1 DEF NoFreedTimer, RefInv
  <2> QED BY <1>1, <2>1, <2>2, <2>3, KeepsRefs DEF RefInv
<1> QED BY <1>2, <1>3

(* Steps that move one socket on, other than to or from the restart        *)
LEMMA MoveSock ==
  ASSUME SockOK, NEW s \in Sock, NEW x \in SockState \ {"restart"},
         sstate[s] # "restart", sstate' = [sstate EXCEPT ![s] = x],
         \/ sock' = sock /\ s # sock
         \/ sock' = sock /\ x \in {"up", "shut"}
         \/ sock' = NoSock
  PROVE  SockOK' /\ Restarting' = Restarting
<1>1. SockOK' BY DEF SockOK
<1>2. Restarting' = Restarting BY DEF SockOK, Restarting
<1> QED BY <1>1, <1>2

LEMMA ShutIs ==
  ASSUME SockOK, Shut, sock' = sock
  PROVE  SockOK' /\ Restarting' = Restarting
<1>1. CASE sock = NoSock BY <1>1 DEF Shut, SockOK, Restarting
<1>2. CASE sock # NoSock
  <2>1. /\ sock \in Sock /\ sstate[sock] # "restart"
        /\ sstate' = [sstate EXCEPT ![sock] = "shut"]
    BY <1>2 DEF SockOK, Shut
  <2> QED BY <2>1, MoveSock DEF SockState
<1> QED BY <1>1, <1>2

(* The transport and the owner                                             *)
LEMMA SocketRefs ==
  ASSUME RefInv, NEW s \in Sock,
         ConnectFinish(s) \/ SetConnected(s) \/ PollErr(s)
  PROVE  RefInv'
<1>1. tpc' = tpc /\ Running' = Running
  BY DEF ConnectFinish, SetConnected, PollErr, Running
<1>2. SockOK' /\ Restarting' = Restarting
  <2>1. CASE ConnectFinish(s)
    BY <2>1, MoveSock DEF ConnectFinish, RefInv, SockState
  <2>2. CASE SetConnected(s)
    BY <2>2 DEF SetConnected, RefInv, SockOK, Restarting
  <2>3. CASE PollErr(s)
    <3>1. /\ SockOK /\ sock' = NoSock /\ "wait" \in SockState \ {"restart"}
          /\ sstate' = [sstate EXCEPT ![s] = "wait"] /\ sstate[s] # "restart"
      BY <2>3, RpcAssumption DEF PollErr, RefInv, SockState, SockOK
    <3> QED BY <3>1, MoveSock
  <2> QED BY <2>1, <2>2, <2>3
<1>3. SamePointers(conn, conn')
  <2>1. CASE SetConnected(s)
    BY <2>1 DEF SetConnected, SamePointers, RefInv, ConnOK, Fields
  <2>2. CASE ~SetConnected(s) BY <2>2, SameConn DEF ConnectFinish, PollErr
  <2> QED BY <2>1, <2>2
<1>4. ConnOK(conn') /\ Spare(conn') = Spare(conn)
  BY <1>3, SamePointersOK DEF RefInv
<1>5. NoFreedTimer' BY <1>1, <1>3 DEF SamePointers, NoFreedTimer, RefInv
<1>6. Spare(conn') >= Spare(conn) + Running' - Running
  BY <1>1, <1>4, SpareInt, SMT DEF Running
<1> QED BY <1>2, <1>4, <1>5, <1>6, KeepsRefs

LEMMA OwnerRefs ==
  ASSUME RefInv, Start \/ Disable \/ PingDisconnect
  PROVE  RefInv'
<1>1. CASE Start
  <2>1. /\ tpc' = tpc /\ Running' = Running /\ SocketConnect(sstate)
        /\ conn' = ReconnectSection(Ref(conn, 1))
    BY <1>1 DEF Start, Running
  <2>2. SockOK' /\ Restarting' = Restarting
    BY <2>1, ConnectSockOK DEF RefInv
  <2>3. /\ ConnOK(Ref(conn, 1)) /\ Spare(Ref(conn, 1)) = Spare(conn) + 1
        /\ Ref(conn, 1).timer = conn.timer
        /\ Ref(conn, 1).ping_timer = conn.ping_timer
    BY RefIs, SMT DEF RefInv
  <2>4. /\ ConnOK(conn') /\ Spare(conn') >= Spare(Ref(conn, 1)) - 1
        /\ conn'.timer = conn.timer /\ conn'.reconnect # "fired"
        /\ conn'.ping_timer = conn.ping_timer
    BY <2>1, <2>3, ReconnectSectionIs
  <2>5. NoFreedTimer' BY <2>1, <2>4 DEF NoFreedTimer, RefInv
  <2>6. Spare(conn') >= Spare(conn) + Running' - Running
    BY <2>1, <2>3, <2>4, SpareInt, SMT DEF Running, RefInv
  <2> QED BY <2>2, <2>4, <2>5, <2>6, KeepsRefs
<1>2. CASE Disable
  <2>1. /\ tpc' = tpc /\ Running' = Running /\ Shut /\ sock' = sock
        /\ conn' = Disabled(conn)
    BY <1>2 DEF Disable, Running
  <2>2. SockOK' /\ Restarting' = Restarting BY <2>1, ShutIs DEF RefInv
  <2>3. /\ ConnOK(conn') /\ Spare(conn') = Spare(conn)
        /\ conn'.timer = "none" /\ conn'.reconnect = "none"
        /\ conn'.ping_timer = "none"
    BY <2>1, DisabledIs DEF RefInv
  <2>4. NoFreedTimer' BY <2>3 DEF NoFreedTimer
  <2>5. Spare(conn') >= Spare(conn) + Running' - Running
    BY <2>1, <2>3, SpareInt, SMT DEF Running, RefInv
  <2> QED BY <2>2, <2>3, <2>4, <2>5, KeepsRefs
<1>3. CASE PingDisconnect
  <2>1. /\ tpc = "disconnect" /\ tpc' = "idle" /\ Shut /\ sock' = sock
        /\ conn' = conn
    BY <1>3 DEF PingDisconnect
  <2>2. SockOK' /\ Restarting' = Restarting BY <2>1, ShutIs DEF RefInv
  <2>3. NoFreedTimer' BY <2>1 DEF NoFreedTimer, RefInv
  <2>4. Running' = Running BY <2>1 DEF Running
  <2> QED BY <2>1, <2>2, <2>3, <2>4, KeepsRefs DEF RefInv
<1> QED BY <1>1, <1>2, <1>3

(* The poller that closes a socket                                         *)
LEMMA NotifyRefs ==
  ASSUME RefInv, NEW s \in Sock,
         Notify(s) \/ PostNotify(s) \/ RearmReconnect(s)
  PROVE  RefInv'
<1>1. /\ tpc' = tpc /\ Running' = Running /\ sock' = sock
      /\ sstate[s] \in {"wait", "post", "unwind", "rearm"}
  BY DEF Notify, PostNotify, RearmReconnect, Running
<1>2. s # sock BY <1>1, RpcAssumption DEF RefInv, SockOK
<1>3. PICK x \in SockState \ {"restart"} : sstate' = [sstate EXCEPT ![s] = x]
  BY DEF Notify, PostNotify, RearmReconnect, SockState
<1>4. SockOK' /\ Restarting' = Restarting
  BY <1>1, <1>2, <1>3, MoveSock DEF RefInv
<1>5. CASE conn' = conn
  <2>1. NoFreedTimer' BY <1>1, <1>5 DEF NoFreedTimer, RefInv
  <2> QED BY <1>1, <1>4, <1>5, <2>1, KeepsRefs DEF RefInv
<1>6. CASE conn' = Cleanup(conn)
  <2>1. /\ ConnOK(conn') /\ Spare(conn') = Spare(conn)
        /\ conn'.timer = "none" /\ conn'.reconnect = conn.reconnect
        /\ conn'.ping_timer = "none"
    BY <1>6, CleanupIs DEF RefInv
  <2>2. NoFreedTimer' BY <1>1, <2>1 DEF NoFreedTimer, RefInv
  <2>3. Spare(conn') >= Spare(conn) + Running' - Running
    BY <1>1, <2>1, SpareInt, SMT DEF Running, RefInv
  <2> QED BY <1>4, <2>1, <2>2, <2>3, KeepsRefs
<1>7. CASE /\ conn.reconnect = "none"
           /\ conn' = [Ref(conn, 1) EXCEPT !.reconnect = "armed"]
  <2>1. /\ DOMAIN conn' = Fields /\ conn'.ref = conn.ref + 1
        /\ conn'.timer = conn.timer /\ conn'.reconnect = "armed"
        /\ conn'.ping_timer = conn.ping_timer
    BY <1>7 DEF Ref, RefInv, ConnOK, Fields
  <2>2. ConnOK(conn') BY <2>1, SMT DEF ConnOK, RefInv
  <2>3. NoFreedTimer' BY <1>1, <2>1 DEF NoFreedTimer, RefInv
  <2>4. Spare(conn') = Spare(conn)
    BY <1>7, <2>1, SMT DEF Spare, Cancelled, Owns, ConnOK, RefInv
  <2>5. Spare(conn') >= Spare(conn) + Running' - Running
    BY <1>1, <2>4, SpareInt, SMT DEF Running, RefInv
  <2> QED BY <1>4, <2>2, <2>3, <2>5, KeepsRefs
<1> QED BY <1>5, <1>6, <1>7
        DEF Notify, PostNotify, RearmReconnect, CleanupSection

(* rpc_clnt_start takes the reference its rpc_clnt_reconnect drops         *)
LEMMA QuickRefs ==
  ASSUME RefInv, NEW s \in Sock, QuickEnable(s) \/ QuickStart(s)
  PROVE  RefInv'
<1>1. tpc' = tpc /\ Running' = Running
  BY DEF QuickEnable, QuickStart, Running
<1>2. /\ Counted /\ Restarting \subseteq Sock
      /\ Cardinality(Restarting) \in Nat /\ ConnOK(conn)
      /\ Spare(conn) \in Int /\ Running \in {0, 1}
      /\ Spare(conn) >= 1 + Running + Cardinality(Restarting)
  BY RestartingCount, SpareInt DEF RefInv, Restarting, Running, Covered
<1>3. CASE QuickEnable(s)
  <2>1. /\ sock' = sock /\ sstate[s] = "quick"
        /\ sstate' = [sstate EXCEPT ![s] = "restart"]
        /\ conn' = [Ref(conn, 1) EXCEPT !.disabled = FALSE]
    BY <1>3 DEF QuickEnable
  <2>2. SockOK' BY <2>1 DEF RefInv, SockOK, SockState
  <2>3. Restarting' = Restarting \cup {s} /\ s \notin Restarting
    BY <2>1 DEF Restarting, RefInv, SockOK
  <2>4. Cardinality(Restarting') = Cardinality(Restarting) + 1
    BY <1>2, <2>3 DEF Counted
  <2>5. /\ ConnOK(Ref(conn, 1)) /\ Spare(Ref(conn, 1)) = Spare(conn) + 1
        /\ Ref(conn, 1).timer = conn.timer
        /\ Ref(conn, 1).reconnect = conn.reconnect
        /\ Ref(conn, 1).ping_timer = conn.ping_timer
    <3>1. ConnOK(conn) /\ 1 \in Int BY <1>2, SMT
    <3> QED BY <3>1, RefIs
  <2>6. SamePointers(Ref(conn, 1), conn')
    BY <2>1, <2>5 DEF SamePointers, ConnOK, Fields
  <2>7. ConnOK(conn') /\ Spare(conn') = Spare(conn) + 1
    <3> DEFINE k == Ref(conn, 1)
    <3>1. ConnOK(k) /\ Spare(k) = Spare(conn) + 1 /\ SamePointers(k, conn')
      BY <2>5, <2>6
    <3> HIDE DEF k
    <3>2. ConnOK(conn') /\ Spare(conn') = Spare(k)
      BY <3>1, SamePointersOK
    <3> QED BY <3>1, <3>2
  <2>8. NoFreedTimer'
    BY <1>1, <2>5, <2>6 DEF NoFreedTimer, SamePointers, RefInv
  <2>9. Covered' BY <1>1, <1>2, <2>4, <2>7, SMT DEF Covered
  <2> QED BY <2>2, <2>7, <2>8, <2>9 DEF RefInv
<1>4. CASE QuickStart(s)
  <2> DEFINE f == [sstate EXCEPT ![s] = "rearm"]
  <2>1. /\ sstate[s] = "restart" /\ ConnectIf(Retry(conn), f)
        /\ conn' = ReconnectSection(conn) /\ Retry(conn) \in BOOLEAN
    BY <1>4 DEF QuickStart, Retry
  <2>2. /\ f \in [Sock -> SockState] /\ f[s] = "rearm"
        /\ \A u \in Sock : u # s => f[u] = sstate[u]
        /\ \A u \in Unused : f[u] = "none"
    BY <2>1 DEF RefInv, SockOK, SockState, Unused
  <2> HIDE DEF f
  <2>3. /\ sstate' \in [Sock -> SockState]
        /\ \A u \in Sock : \/ sstate'[u] = f[u]
                           \/ f[u] = "none" /\ sstate'[u] = "connecting"
        /\ \/ sock' = sock
           \/ /\ sock = NoSock /\ sock' \in Sock
              /\ sstate'[sock'] = "connecting"
    BY <2>1, <2>2, ConnectIs
  <2>4. sock # s BY <2>1, RpcAssumption DEF RefInv, SockOK
  <2>5. SockOK' BY <2>2, <2>3, <2>4 DEF RefInv, SockOK
  <2>6. Restarting' = Restarting \ {s} /\ s \in Restarting
    BY <2>1, <2>2, <2>3 DEF Restarting
  <2>7. Cardinality(Restarting') = Cardinality(Restarting) - 1
    BY <1>2, <2>6 DEF Counted
  <2>8. /\ ConnOK(conn') /\ Spare(conn') >= Spare(conn) - 1
        /\ conn'.timer = conn.timer /\ conn'.reconnect # "fired"
        /\ conn'.ping_timer = conn.ping_timer
    BY <1>2, <2>1, ReconnectSectionIs
  <2>9. NoFreedTimer' BY <1>1, <2>8 DEF NoFreedTimer, RefInv
  <2>10. Covered' BY <1>1, <1>2, <2>7, <2>8, SpareInt, SMT DEF Covered
  <2> QED BY <2>5, <2>8, <2>9, <2>10 DEF RefInv
<1> QED BY <1>3, <1>4

LEMMA NextRefInv ==
  ASSUME RefInv, [Next]_vars
  PROVE  RefInv'
<1>1. CASE UNCHANGED vars
  <2>1. UNCHANGED <<conn, sock, sstate, tpc>> BY <1>1 DEF vars, transport
  <2>2. SockOK' BY <2>1 DEF SockOK, RefInv
  <2>3. Restarting' = Restarting BY <2>1 DEF Restarting
  <2>4. NoFreedTimer' BY <2>1 DEF NoFreedTimer, RefInv
  <2>5. Running' = Running BY <2>1 DEF Running
  <2> QED BY <2>1, <2>2, <2>3, <2>4, <2>5, KeepsRefs DEF RefInv
<1>2. ASSUME NEW s \in Sock,
             ConnectFinish(s) \/ SetConnected(s) \/ PollErr(s) \/ Closing(s)
      PROVE  RefInv'
  BY <1>2, SocketRefs, NotifyRefs, QuickRefs DEF Closing
<1>3. ASSUME NEW c \in Call,
             Calling(c) \/ Serve(c) \/ HandleReply(c) \/ ReplyCbk(c)
      PROVE  RefInv'
  BY <1>3, SubmitRefs, CallRefs DEF Calling
<1>4. CASE TimerStep \/ Start \/ Disable
  BY <1>4, BailRefs, ReconnectRefs, PingRefs, OwnerRefs DEF TimerStep
<1>5. CASE \/ \E kind \in {"bail", "reconnect", "ping"} : Fire(kind)
           \/ \E t \in Thread : UnwindOne(t)
  BY <1>5, FireRefs, UnwindRefs
<1> QED BY <1>1, <1>2, <1>3, <1>4, <1>5 DEF Next

----------------------------------------------------------------------------
(* The reconnect chain: a client that has ended it has a socket, because   *)
(* conn->connected stands for a handshake on a socket not yet cleaned up   *)

Open == {s \in Sock : sstate[s] \in {"up", "shut", "wait"}}
Linked == \E s \in Sock : \/ s \in shaken
                          \/ sstate[s] = "post" /\ s \notin cleaned

ChainInv ==
  /\ shaken \subseteq Open /\ cleaned \subseteq Notifying
  /\ conn.connected => Linked
  /\ conn.disabled => opc = "disabled"
  /\ (opc = "up" /\ conn.reconnect = "none") => ~Closed

LEMMA LinkedOpen ==
  ASSUME ChainInv, Linked
  PROVE  ~Closed
BY DEF ChainInv, Linked, Closed, Open

LEMMA InitChainInv == Init => ChainInv
BY SMT DEF Init, InitConn, ChainInv

(* What a step leaves of the record that the chain depends on              *)
SameLink(k, q) ==
  /\ q.connected = k.connected /\ q.disabled = k.disabled
  /\ q.reconnect = "none" => k.reconnect = "none"

LEMMA SameChain ==
  ASSUME ChainInv, SameLink(conn, conn'),
         UNCHANGED <<sstate, shaken, cleaned, opc>>
  PROVE  ChainInv'
BY DEF ChainInv, SameLink, Linked, Open, Notifying, Closed

LEMMA PingLink ==
  ASSUME NEW k, NEW q, PingReset(k, q)
  PROVE  SameLink(k, q)
BY DEF PingReset, SameButPing, SameLink

LEMMA NoLink == SameLink(conn, conn)
BY DEF SameLink

(* The steps of calls and timers that do not reach the transport           *)
LEMMA CallChain ==
  ASSUME RefInv, ChainInv,
         \/ \E c \in Call : \/ CheckPing(c) \/ BeginPing(c) \/ SubmitFailed(c)
                            \/ Serve(c) \/ HandleReply(c) \/ ReplyCbk(c)
                            \/ Submit(c) /\ Up
         \/ \E t \in Thread : UnwindOne(t)
  PROVE  ChainInv'
<1>1. UNCHANGED <<sstate, shaken, cleaned, opc>>
  BY DEF CheckPing, BeginPing, SubmitFailed, Serve, HandleReply,
               ReplyCbk, Submit, UnwindOne, transport
<1>2. ASSUME NEW c \in Call, CheckPing(c) \/ Serve(c)
      PROVE  SameLink(conn, conn')
  BY <1>2, NoLink DEF CheckPing, Serve
<1>3. ASSUME NEW c \in Call, BeginPing(c) PROVE SameLink(conn, conn')
  BY <1>3, StartPingIs, PingLink DEF BeginPing, RefInv
<1>4. ASSUME NEW c, NEW ok \in BOOLEAN, Deliver(c, ok)
      PROVE  SameLink(conn, conn')
  BY <1>4, DeliverIs, PingLink, NoLink
<1>5. ASSUME NEW c \in Call, SubmitFailed(c) \/ ReplyCbk(c)
      PROVE  SameLink(conn, conn')
  BY <1>4, <1>5 DEF SubmitFailed, ReplyCbk
<1>6. ASSUME NEW t \in Thread, UnwindOne(t) PROVE SameLink(conn, conn')
  BY <1>4, <1>6 DEF UnwindOne
<1>7. ASSUME NEW c \in Call, HandleReply(c) PROVE SameLink(conn, conn')
  <2> DEFINE a == conn.ping_timer # "none"
             q == [Forget(conn, c) EXCEPT !.active = a]
  <2>1. conn' = q BY <1>7 DEF HandleReply
  <2> HIDE DEF a
  <2>0. ConnOK(conn) BY DEF RefInv
  <2>2. /\ SamePointers(conn, q)
        /\ q.connected = conn.connected /\ q.disabled = conn.disabled
    BY <2>0, ForgetIs
  <2> HIDE DEF q
  <2> QED BY <2>1, <2>2 DEF SamePointers, SameLink
<1>8. ASSUME NEW c \in Call, Submit(c), Up PROVE SameLink(conn, conn')
  <2>1. conn' = SaveFrame(conn, c) BY <1>8 DEF Submit
  <2>2. /\ conn'.reconnect = conn.reconnect
        /\ conn'.connected = conn.connected /\ conn'.disabled = conn.disabled
    BY <2>1, SaveFrameIs DEF RefInv
  <2> QED BY <2>2 DEF SameLink
<1>9. SameLink(conn, conn') BY <1>2, <1>3, <1>5, <1>6, <1>7, <1>8
<1> QED BY <1>1, <1>9, SameChain

LEMMA TimerChain ==
  ASSUME RefInv, ChainInv,
         \/ \E kind \in {"bail", "reconnect", "ping"} : Fire(kind)
         \/ \E n \in 0 .. Len(conn.sf) : CallBail(n)
         \/ BailEnd \/ PingStart \/ PingSubmitted \/ PingExpired
  PROVE  ChainInv'
<1>1. UNCHANGED <<sstate, shaken, cleaned, opc>>
  BY DEF Fire, CallBail, BailEnd, PingStart, PingSubmitted, PingExpired,
         transport
<1>2. ConnOK(conn) BY DEF RefInv
<1>3. ASSUME NEW kind \in {"bail", "reconnect", "ping"}, Fire(kind)
      PROVE  SameLink(conn, conn')
  <2>1. PICK fld \in {"timer", "reconnect", "ping_timer"} :
          conn' = [conn EXCEPT ![fld] = "fired"]
    BY <1>3 DEF Fire
  <2>2. /\ conn'.connected = conn.connected
        /\ conn'.disabled = conn.disabled
        /\ conn'.reconnect \in {conn.reconnect, "fired"}
    BY <1>2, <2>1 DEF ConnOK, Fields
  <2> QED BY <2>2 DEF SameLink
<1>4. ASSUME NEW n \in 0 .. Len(conn.sf), CallBail(n)
      PROVE  SameLink(conn, conn')
  <2> DEFINE q == BailRearm(conn)
  <2>1. /\ ConnOK(q) /\ q.reconnect = conn.reconnect
        /\ q.connected = conn.connected /\ q.disabled = conn.disabled
    BY <1>2, BailRearmIs
  <2>2. conn' = [q EXCEPT !.sf = SubSeq(@, n + 1, Len(@))]
    BY <1>4 DEF CallBail
  <2> HIDE DEF q
  <2> QED BY <2>1, <2>2 DEF SameLink, ConnOK, Fields
<1>5. CASE BailEnd
  <2>1. conn' = Ref(conn, -1) BY <1>5 DEF BailEnd
  <2> QED BY <1>1, <1>2, <2>1, RefIs, SameChain, SMT DEF SameLink
<1>6. CASE PingStart
  BY <1>1, <1>2, <1>6, StartPingIs, PingLink, SameChain DEF PingStart
<1>7. CASE PingExpired
  <2>1. PingReset(conn, conn')
    BY <1>2, <1>7, RearmedIs, UnstartedIs DEF PingExpired
  <2> QED BY <1>1, <2>1, PingLink, SameChain
<1>8. CASE PingSubmitted BY <1>1, <1>8, NoLink, SameChain DEF PingSubmitted
<1> QED BY <1>1, <1>3, <1>4, <1>5, <1>6, <1>7, <1>8, SameChain

(* A socket that moves on while it is open, or is opened; no handshake or  *)
(* cleanup, and no end of the chain without a link                         *)
LEMMA MoveChain ==
  ASSUME ChainInv, SockOK, UNCHANGED <<shaken, cleaned>>,
         conn'.connected => conn.connected, conn'.disabled => conn.disabled,
         opc' = opc \/ opc = "init" \/ opc' = "disabled",
         opc = "disabled" => opc' = "disabled",
         \A s \in Sock :
           \/ sstate'[s] = sstate[s]
           \/ sstate[s] = "none" /\ sstate'[s] = "connecting"
           \/ sstate[s] = "connecting" /\ sstate'[s] \in {"up", "shut", "wait"}
           \/ /\ sstate[s] \in {"up", "shut"}
              /\ sstate'[s] \in {"up", "shut", "wait"},
         (opc' = "up" /\ conn'.reconnect = "none")
           => conn.connected \/ (opc = "up" /\ conn.reconnect = "none")
  PROVE  ChainInv'
<1>1. (shaken \subseteq Open)' BY DEF ChainInv, Open
<1>2. (cleaned \subseteq Notifying)' BY DEF ChainInv, Notifying
<1>3. (conn.connected => Linked)' BY DEF ChainInv, Linked, Open
<1>4. (conn.disabled => opc = "disabled")' BY DEF ChainInv
<1>5. ((opc = "up" /\ conn.reconnect = "none") => ~Closed)'
  <2>1. ~Closed => ~Closed' BY DEF Closed
  <2> QED BY <2>1, LinkedOpen DEF ChainInv
<1> QED BY <1>1, <1>2, <1>3, <1>4, <1>5 DEF ChainInv

LEMMA OpenSocket ==
  ASSUME SockOK, NEW retry \in BOOLEAN,
         ConnectIf(retry, sstate) \/ SocketConnect(sstate)
  PROVE  \A s \in Sock : \/ sstate'[s] = sstate[s]
                         \/ sstate[s] = "none" /\ sstate'[s] = "connecting"
BY ConnectIs DEF SockOK, Unused

LEMMA SocketChain ==
  ASSUME RefInv, ChainInv,
         \/ \E s \in Sock : ConnectFinish(s) \/ PollErr(s)
         \/ \E c \in Call : Submit(c) /\ ~Up
         \/ PingDisconnect \/ Disable \/ Reconnect \/ Start
  PROVE  ChainInv'
<1>0. SockOK /\ ConnOK(conn) BY DEF RefInv
<1>1. ASSUME NEW s \in Sock, ConnectFinish(s) \/ PollErr(s) PROVE ChainInv'
  <2>1. UNCHANGED <<shaken, cleaned, conn, opc>>
    BY <1>1 DEF ConnectFinish, PollErr
  <2>2. \A u \in Sock :
          \/ sstate'[u] = sstate[u]
          \/ sstate[u] = "connecting" /\ sstate'[u] \in {"up", "shut", "wait"}
          \/ /\ sstate[u] \in {"up", "shut"}
             /\ sstate'[u] \in {"up", "shut", "wait"}
    BY <1>0, <1>1, RpcAssumption DEF ConnectFinish, PollErr, SockOK
  <2> QED BY <1>0, <2>1, <2>2, MoveChain
<1>2. ASSUME NEW c \in Call, Submit(c), ~Up PROVE ChainInv'
  <2>1. /\ UNCHANGED <<shaken, cleaned, conn, opc>>
        /\ ConnectIf(Retry(conn), sstate)
    BY <1>2 DEF Submit
  <2> QED BY <1>0, <2>1, OpenSocket, MoveChain DEF Retry
<1>3. ASSUME Shut
      PROVE  \A u \in Sock :
          \/ sstate'[u] = sstate[u]
          \/ sstate[u] = "connecting" /\ sstate'[u] = "shut"
          \/ sstate[u] \in {"up", "shut"} /\ sstate'[u] = "shut"
  BY <1>0, <1>3 DEF Shut, SockOK
<1>4. CASE PingDisconnect
  BY <1>0, <1>3, <1>4, MoveChain DEF PingDisconnect
<1>5. CASE Disable
  <2>1. conn' = Disabled(conn) /\ opc' = "disabled" /\ Shut
        /\ UNCHANGED <<shaken, cleaned>>
    BY <1>5 DEF Disable
  <2>2. ~conn'.connected BY <1>0, <2>1, DisabledIs
  <2>3. (shaken \subseteq Open)' BY <1>3, <2>1 DEF ChainInv, Open
  <2>4. (cleaned \subseteq Notifying)' BY <1>3, <2>1 DEF ChainInv, Notifying
  <2> QED BY <2>1, <2>2, <2>3, <2>4 DEF ChainInv
<1>6. CASE Reconnect
  <2>1. /\ UNCHANGED <<shaken, cleaned, opc>> /\ ConnectIf(Retry(conn), sstate)
        /\ conn' = ReconnectSection(conn) /\ Retry(conn) \in BOOLEAN
    BY <1>6 DEF Reconnect, Retry
  <2>2. /\ conn'.reconnect = IF Retry(conn) THEN "armed" ELSE "none"
        /\ conn'.connected = conn.connected /\ conn'.disabled = conn.disabled
    BY <1>0, <2>1, ReconnectSectionIs
  <2>3. (opc' = "up" /\ conn'.reconnect = "none") => conn.connected
    BY <2>1, <2>2 DEF Retry, ChainInv
  <2> QED BY <1>0, <2>1, <2>2, <2>3, OpenSocket, MoveChain
<1>7. CASE Start
  <2> DEFINE k == Ref(conn, 1)
  <2>1. /\ UNCHANGED <<shaken, cleaned>> /\ opc = "init" /\ opc' = "up"
        /\ SocketConnect(sstate) /\ conn' = ReconnectSection(k)
    BY <1>7 DEF Start
  <2>2. /\ ConnOK(k) /\ k.connected = conn.connected
        /\ k.disabled = conn.disabled
    <3>1. 1 \in Int BY SMT
    <3> QED BY <1>0, <3>1, RefIs
  <2> HIDE DEF k
  <2>3. /\ conn'.reconnect = IF Retry(k) THEN "armed" ELSE "none"
        /\ conn'.connected = conn.connected /\ conn'.disabled = conn.disabled
    BY <2>1, <2>2, ReconnectSectionIs
  <2>4. (opc' = "up" /\ conn'.reconnect = "none") => conn.connected
    BY <2>1, <2>2, <2>3 DEF Retry, ChainInv
  <2>5. \A s \in Sock : \/ sstate'[s] = sstate[s]
                        \/ sstate[s] = "none" /\ sstate'[s] = "connecting"
    BY <1>0, <2>1, OpenSocket
  <2> QED BY <1>0, <2>1, <2>3, <2>4, <2>5, MoveChain
<1> QED BY <1>1, <1>2, <1>4, <1>5, <1>6, <1>7

LEMMA SetConnectedChain ==
  ASSUME RefInv, ChainInv, NEW s \in Sock, SetConnected(s)
  PROVE  ChainInv'
<1>1. /\ UNCHANGED <<sstate, cleaned, opc>> /\ shaken' = shaken \cup {s}
      /\ s \in Open /\ conn' = [conn EXCEPT !.connected = TRUE]
  BY DEF SetConnected, Open
<1>2. conn'.disabled = conn.disabled /\ conn'.reconnect = conn.reconnect
  BY <1>1 DEF RefInv, ConnOK, Fields
<1>3. (shaken \subseteq Open)' BY <1>1 DEF ChainInv, Open
<1>4. (cleaned \subseteq Notifying)' BY <1>1 DEF ChainInv, Notifying
<1>5. Linked' BY <1>1 DEF Linked
<1>6. Closed' <=> Closed BY <1>1 DEF Closed
<1> QED BY <1>1, <1>2, <1>3, <1>4, <1>5, <1>6 DEF ChainInv

(* A cleanup ends every link, so that pollers about to compare cleanup_gen *)
(* have nothing left to clean                                              *)
LEMMA CleanupChain ==
  ASSUME RefInv, ChainInv, NEW s \in Sock, NEW x \in {"quick", "unwind"},
         sstate[s] \in {"wait", "post"}, s \notin cleaned,
         CleanupSection(s), sstate' = [sstate EXCEPT ![s] = x],
         shaken' = shaken \ {s}, opc' = opc
  PROVE  ChainInv'
<1>1. /\ ~conn'.connected /\ conn'.disabled = conn.disabled
      /\ conn'.reconnect = conn.reconnect
  BY CleanupIs DEF RefInv, CleanupSection
<1>2. sstate \in [Sock -> SockState] BY DEF RefInv, SockOK
<1>3. (shaken \subseteq Open)' BY <1>2 DEF ChainInv, Open
<1>4. (cleaned \subseteq Notifying)'
  BY <1>2 DEF ChainInv, CleanupSection, Notifying
<1>5. ~Closed' BY <1>2 DEF Closed
<1> QED BY <1>1, <1>3, <1>4, <1>5 DEF ChainInv

LEMMA ClosingChain ==
  ASSUME RefInv, ChainInv, NEW s \in Sock, Closing(s)
  PROVE  ChainInv'
<1>0. sstate \in [Sock -> SockState] /\ ConnOK(conn) BY DEF RefInv, SockOK
<1>1. CASE Notify(s)
  <2>1. /\ sstate[s] = "wait" /\ s \notin cleaned
        /\ shaken' = shaken \ {s} /\ opc' = opc
    BY <1>1 DEF Notify, ChainInv, Notifying
  <2>2. CASE CleanupSection(s) /\ sstate' = [sstate EXCEPT ![s] = "quick"]
    BY <2>1, <2>2, CleanupChain
  <2>3. CASE /\ sstate' = [sstate EXCEPT ![s] = "post"]
             /\ UNCHANGED <<conn, unw, cleaned>>
    <3>1. (shaken \subseteq Open)' BY <1>0, <2>1, <2>3 DEF ChainInv, Open
    <3>2. (cleaned \subseteq Notifying)'
      BY <1>0, <2>1, <2>3 DEF ChainInv, Notifying
    <3>3. Linked => Linked' BY <1>0, <2>1, <2>3 DEF Linked
    <3>4. ~Closed' BY <1>0, <2>3 DEF Closed
    <3> QED BY <2>1, <2>3, <3>1, <3>2, <3>3, <3>4 DEF ChainInv
  <2> QED BY <1>1, <2>2, <2>3 DEF Notify
<1>2. CASE QuickEnable(s)
  <2>1. /\ UNCHANGED <<shaken, cleaned, opc>> /\ sstate[s] = "quick"
        /\ sstate' = [sstate EXCEPT ![s] = "restart"]
        /\ conn' = [Ref(conn, 1) EXCEPT !.disabled = FALSE]
    BY <1>2 DEF QuickEnable
  <2>2. /\ conn'.disabled = FALSE /\ conn'.connected = conn.connected
    BY <1>0, <2>1 DEF Ref, ConnOK, Fields
  <2>3. (shaken \subseteq Open)' BY <1>0, <2>1 DEF ChainInv, Open
  <2>4. (cleaned \subseteq Notifying)' BY <1>0, <2>1 DEF ChainInv, Notifying
  <2>5. Linked => Linked' BY <1>0, <2>1 DEF Linked
  <2>6. ~Closed' BY <1>0, <2>1 DEF Closed
  <2> QED BY <2>1, <2>2, <2>3, <2>4, <2>5, <2>6 DEF ChainInv
<1>3. CASE QuickStart(s)
  <2> DEFINE f == [sstate EXCEPT ![s] = "rearm"]
  <2>1. /\ sstate[s] = "restart" /\ ConnectIf(Retry(conn), f)
        /\ conn' = ReconnectSection(conn) /\ Retry(conn) \in BOOLEAN
        /\ cleaned' = cleaned \ {s} /\ UNCHANGED <<shaken, opc>>
    BY <1>3 DEF QuickStart, Retry
  <2>2. /\ f \in [Sock -> SockState] /\ f[s] = "rearm"
        /\ \A u \in Sock : u # s => f[u] = sstate[u]
        /\ \A u \in Unused : f[u] = "none"
    BY <1>0, <2>1 DEF SockState, Unused
  <2> HIDE DEF f
  <2>3. \A u \in Sock : \/ sstate'[u] = f[u]
                        \/ f[u] = "none" /\ sstate'[u] = "connecting"
    BY <2>1, <2>2, ConnectIs
  <2>4. conn'.connected = conn.connected /\ conn'.disabled = conn.disabled
    BY <1>0, <2>1, ReconnectSectionIs
  <2>5. (shaken \subseteq Open)' BY <2>1, <2>2, <2>3 DEF ChainInv, Open
  <2>6. (cleaned \subseteq Notifying)'
    BY <2>1, <2>2, <2>3 DEF ChainInv, Notifying
  <2>7. Linked => Linked' BY <2>1, <2>2, <2>3 DEF Linked
  <2>8. ~Closed' BY <2>2, <2>3 DEF Closed
  <2> QED BY <2>1, <2>4, <2>5, <2>6, <2>7, <2>8 DEF ChainInv
<1>4. CASE PostNotify(s)
  <2>1. sstate[s] = "post" /\ UNCHANGED <<shaken, opc>> BY <1>4 DEF PostNotify
  <2>2. CASE s \in cleaned
    <3>1. /\ sstate' = [sstate EXCEPT ![s] = "rearm"] /\ conn' = conn
          /\ cleaned' = cleaned \ {s}
      BY <1>4, <2>2 DEF PostNotify
    <3>2. (shaken \subseteq Open)' BY <1>0, <2>1, <3>1 DEF ChainInv, Open
    <3>3. (cleaned \subseteq Notifying)'
      BY <1>0, <2>1, <3>1 DEF ChainInv, Notifying
    <3>4. Linked => Linked' BY <1>0, <2>1, <2>2, <3>1 DEF Linked
    <3>5. ~Closed' BY <1>0, <3>1 DEF Closed
    <3> QED BY <2>1, <3>1, <3>2, <3>3, <3>4, <3>5 DEF ChainInv
  <2>3. CASE s \notin cleaned
    <3>1. shaken' = shaken \ {s} BY <2>1 DEF ChainInv, Open
    <3> QED BY <1>4, <2>1, <2>3, <3>1, CleanupChain DEF PostNotify
  <2> QED BY <2>2, <2>3
<1>5. CASE RearmReconnect(s)
  <2>1. /\ sstate[s] \in {"unwind", "rearm"}
        /\ sstate' = [sstate EXCEPT ![s] = "gone"]
        /\ UNCHANGED <<shaken, cleaned, opc>>
    BY <1>5 DEF RearmReconnect
  <2>2. /\ conn'.connected = conn.connected /\ conn'.disabled = conn.disabled
        /\ conn'.reconnect = "none" => conn.disabled
    <3>1. CASE ~conn.disabled /\ conn.reconnect = "none"
      <4>1. conn' = [Ref(conn, 1) EXCEPT !.reconnect = "armed"]
        BY <1>5, <3>1 DEF RearmReconnect
      <4>2. /\ conn'.connected = conn.connected
            /\ conn'.disabled = conn.disabled /\ conn'.reconnect = "armed"
        BY <1>0, <4>1 DEF Ref, ConnOK, Fields
      <4> QED BY <4>2
    <3>2. CASE ~(~conn.disabled /\ conn.reconnect = "none")
      <4>1. conn' = conn BY <1>5, <3>2 DEF RearmReconnect
      <4> QED BY <3>2, <4>1
    <3> QED BY <3>1, <3>2
  <2>3. (shaken \subseteq Open)' BY <1>0, <2>1 DEF ChainInv, Open
  <2>4. (cleaned \subseteq Notifying)' BY <1>0, <2>1 DEF ChainInv, Notifying
  <2>5. Linked => Linked' BY <1>0, <2>1 DEF Linked
  <2> QED BY <2>1, <2>2, <2>3, <2>4, <2>5 DEF ChainInv
<1> QED BY <1>1, <1>2, <1>3, <1>4, <1>5 DEF Closing

LEMMA NextChainInv ==
  ASSUME RefInv, ChainInv, [Next]_vars
  PROVE  ChainInv'
<1>1. CASE UNCHANGED vars
  BY <1>1, NoLink, SameChain DEF vars, transport
<1>2. ASSUME NEW s \in Sock,
             ConnectFinish(s) \/ SetConnected(s) \/ PollErr(s) \/ Closing(s)
      PROVE  ChainInv'
  BY <1>2, SocketChain, SetConnectedChain, ClosingChain
<1>3. ASSUME NEW c \in Call,
             Calling(c) \/ Serve(c) \/ HandleReply(c) \/ ReplyCbk(c)
      PROVE  ChainInv'
  BY <1>3, SocketChain, CallChain DEF Calling
<1>4. CASE TimerStep \/ Start \/ Disable
  BY <1>4, SocketChain, TimerChain DEF TimerStep
<1>5. CASE \/ \E kind \in {"bail", "reconnect", "ping"} : Fire(kind)
           \/ \E t \in Thread : UnwindOne(t)
  BY <1>5, TimerChain, CallChain
<1> QED BY <1>1, <1>2, <1>3, <1>4, <1>5 DEF Next

----------------------------------------------------------------------------
(* Replies: a callback runs on a socket whose disconnect is not reported   *)

ReplyInv ==
  /\ sent \in [Call -> Sock \cup {NoSock}] /\ inprog \subseteq Call
  /\ inprog \cap replied = {} /\ \A c \in inprog : sent[c] \in Open

LEMMA SameReplies ==
  ASSUME ReplyInv, Open \subseteq Open', UNCHANGED <<messages, inprog>>
  PROVE  ReplyInv'
BY DEF ReplyInv, messages

LEMMA CallReplies ==
  ASSUME RefInv, ReplyInv, NEW c \in Call,
         Calling(c) \/ Serve(c) \/ HandleReply(c) \/ ReplyCbk(c)
  PROVE  ReplyInv'
<1>1. CASE Submit(c)
  <2>1. UNCHANGED <<replied, inprog>> BY <1>1 DEF Submit, answers
  <2>2. CASE Up
    <3>1. sent' = [sent EXCEPT ![c] = sock] /\ sstate' = sstate
      BY <1>1, <2>2 DEF Submit
    <3>2. sock \in Open /\ Open' = Open
      BY <2>2, <3>1 DEF Up, Open, RefInv, SockOK
    <3>3. sock \in Sock BY <3>2 DEF Open
    <3> QED BY <2>1, <3>1, <3>2, <3>3 DEF ReplyInv
  <2>3. CASE ~Up
    <3>1. sent' = sent /\ ConnectIf(Retry(conn), sstate)
      BY <1>1, <2>3 DEF Submit
    <3>2. Open \subseteq Open'
      BY <3>1, OpenSocket DEF RefInv, Retry, Open
    <3> QED BY <2>1, <3>1, <3>2, SameReplies DEF messages
  <2> QED BY <2>2, <2>3
<1>2. CASE CheckPing(c) \/ BeginPing(c) \/ SubmitFailed(c)
  <2>1. UNCHANGED <<sstate, messages, inprog>>
    BY <1>2 DEF CheckPing, BeginPing, SubmitFailed, transport, answers
  <2> QED BY <2>1, SameReplies DEF Open
<1>3. CASE Serve(c)
  <2>1. /\ UNCHANGED <<sstate, sent, inprog>> /\ c \notin inprog
        /\ replied' = replied \cup {c}
    BY <1>3 DEF Serve, transport, answers
  <2> QED BY <2>1 DEF ReplyInv, Open
<1>4. CASE HandleReply(c)
  <2>1. /\ Open' = Open /\ c \in replied /\ sent[c] = sock /\ sock \in Open
        /\ replied' = replied \ {c}
    BY <1>4 DEF HandleReply, transport, Open, Up, RefInv, SockOK
  <2>2. CASE Saved(conn, c)
    <3>1. sent' = sent /\ inprog' = inprog \cup {c}
      BY <1>4, <2>2 DEF HandleReply
    <3> QED BY <2>1, <3>1 DEF ReplyInv
  <2>3. CASE ~Saved(conn, c)
    <3>1. sent' = [sent EXCEPT ![c] = NoSock] /\ inprog' = inprog
      BY <1>4, <2>3 DEF HandleReply
    <3>2. c \notin inprog BY <2>1 DEF ReplyInv
    <3> QED BY <2>1, <3>1, <3>2 DEF ReplyInv
  <2> QED BY <2>2, <2>3
<1>5. CASE ReplyCbk(c)
  <2>1. /\ Open' = Open /\ inprog' = inprog \ {c} /\ replied' = replied
        /\ sent' = [sent EXCEPT ![c] = NoSock]
    BY <1>5 DEF ReplyCbk, transport, Open
  <2> QED BY <2>1 DEF ReplyInv
<1> QED BY <1>1, <1>2, <1>3, <1>4, <1>5 DEF Calling

LEMMA SocketReplies ==
  ASSUME RefInv, ReplyInv, NEW s \in Sock,
         ConnectFinish(s) \/ SetConnected(s) \/ PollErr(s) \/ Closing(s)
  PROVE  ReplyInv'
<1>0. SockOK BY DEF RefInv
<1>1. CASE ConnectFinish(s) \/ SetConnected(s)
  <2>1. UNCHANGED <<messages, inprog>>
    BY <1>1 DEF ConnectFinish, SetConnected, answers
  <2>2. Open \subseteq Open'
    BY <1>0, <1>1 DEF ConnectFinish, SetConnected, Open, SockOK
  <2> QED BY <2>1, <2>2, SameReplies
<1>2. CASE PollErr(s)
  <2>1. /\ sstate' = [sstate EXCEPT ![s] = "wait"] /\ inprog' = inprog
        /\ replied' \subseteq replied
        /\ sent' = [c \in Call |-> IF sent[c] = s /\ c \notin inprog
                                   THEN NoSock ELSE sent[c]]
    BY <1>2 DEF PollErr, answers
  <2>2. Open \subseteq Open' BY <1>0, <2>1 DEF Open, SockOK
  <2>3. sent' \in [Call -> Sock \cup {NoSock}]
    BY <2>1 DEF ReplyInv
  <2>4. \A c \in inprog : sent'[c] = sent[c] BY <2>1 DEF ReplyInv
  <2> QED BY <2>1, <2>2, <2>3, <2>4 DEF ReplyInv
<1>3. CASE Notify(s)
  <2>1. UNCHANGED <<messages, inprog>> /\ inprog = {}
    BY <1>3 DEF Notify, Drained
  <2> QED BY <2>1 DEF ReplyInv, messages
<1>4. CASE QuickEnable(s) \/ PostNotify(s) \/ RearmReconnect(s)
  <2>1. UNCHANGED <<messages, inprog>>
    BY <1>4 DEF QuickEnable, PostNotify, RearmReconnect, answers
  <2>2. /\ sstate[s] \in {"quick", "post", "unwind", "rearm"}
        /\ \E x \in SockState : sstate' = [sstate EXCEPT ![s] = x]
    BY <1>4 DEF QuickEnable, PostNotify, RearmReconnect, SockState
  <2>3. Open \subseteq Open' BY <1>0, <2>2 DEF Open, SockOK
  <2> QED BY <2>1, <2>3, SameReplies
<1>5. CASE QuickStart(s)
  <2> DEFINE f == [sstate EXCEPT ![s] = "rearm"]
  <2>1. /\ sstate[s] = "restart" /\ ConnectIf(Retry(conn), f)
        /\ Retry(conn) \in BOOLEAN /\ UNCHANGED <<messages, inprog>>
    BY <1>5 DEF QuickStart, Retry, answers
  <2>2. /\ f \in [Sock -> SockState]
        /\ \A u \in Sock : u # s => f[u] = sstate[u]
        /\ \A u \in Unused : f[u] = "none"
    BY <1>0, <2>1 DEF SockOK, SockState, Unused
  <2> HIDE DEF f
  <2>3. \A u \in Sock : \/ sstate'[u] = f[u]
                        \/ f[u] = "none" /\ sstate'[u] = "connecting"
    BY <2>1, <2>2, ConnectIs
  <2>4. Open \subseteq Open' BY <2>1, <2>2, <2>3 DEF Open
  <2> QED BY <2>1, <2>4, SameReplies
<1> QED BY <1>1, <1>2, <1>3, <1>4, <1>5 DEF Closing

LEMMA OtherReplies ==
  ASSUME RefInv, ReplyInv,
         \/ \E kind \in {"bail", "reconnect", "ping"} : Fire(kind)
         \/ \E t \in Thread : UnwindOne(t)
         \/ TimerStep \/ Start \/ Disable \/ UNCHANGED vars
  PROVE  ReplyInv'
<1>1. UNCHANGED <<messages, inprog>>
  BY DEF Fire, UnwindOne, TimerStep, CallBail, BailEnd, Reconnect,
               PingStart, PingSubmitted, PingExpired, PingDisconnect, Start,
               Disable, vars, answers
<1>2. Open \subseteq Open'
  <2>0. SockOK BY DEF RefInv
  <2>1. CASE sstate' = sstate BY <2>1 DEF Open
  <2>2. CASE Shut BY <2>0, <2>2 DEF Open, Shut, SockOK
  <2>3. CASE ConnectIf(Retry(conn), sstate) \/ SocketConnect(sstate)
    BY <2>0, <2>3, OpenSocket DEF Open, Retry
  <2> QED BY <2>1, <2>2, <2>3
          DEF Fire, UnwindOne, TimerStep, CallBail, BailEnd, Reconnect,
              PingStart, PingSubmitted, PingExpired, PingDisconnect, Start,
              Disable, vars, transport
<1> QED BY <1>1, <1>2, SameReplies

----------------------------------------------------------------------------
(* Lists of frames                                                         *)

NoDup(s) == \A i, j \in DOMAIN s : s[i] = s[j] => i = j

LEMMA EmptyElems == Elems(<<>>) = {} /\ NoDup(<<>>)
BY SMT DEF Elems, NoDup

LEMMA ElemsIs ==
  ASSUME NEW S, NEW s \in Seq(S)
  PROVE  /\ Len(s) \in Nat /\ DOMAIN s = 1 .. Len(s)
         /\ \A x : x \in Elems(s) <=> \E i \in 1 .. Len(s) : s[i] = x
         /\ Elems(s) \subseteq S /\ (s = <<>> <=> Len(s) = 0)
<1>1. /\ Len(s) \in Nat /\ DOMAIN s = 1 .. Len(s)
      /\ \A i \in 1 .. Len(s) : s[i] \in S
      /\ (s = <<>> <=> Len(s) = 0)
  BY SMT
<1> QED BY <1>1 DEF Elems

LEMMA SubSeqIs ==
  ASSUME NEW S, NEW s \in Seq(S),
         NEW m \in 1 .. Len(s) + 1, NEW n \in 0 .. Len(s)
  PROVE  /\ SubSeq(s, m, n) \in Seq(S)
         /\ Len(SubSeq(s, m, n)) = IF m <= n THEN n - m + 1 ELSE 0
         /\ \A i \in 1 .. n - m + 1 : SubSeq(s, m, n)[i] = s[m + i - 1]
BY SMT

LEMMA ConcatIs ==
  ASSUME NEW S, NEW s \in Seq(S), NEW r \in Seq(S)
  PROVE  /\ s \o r \in Seq(S) /\ Len(s \o r) = Len(s) + Len(r)
         /\ \A i \in 1 .. Len(s) + Len(r) :
              (s \o r)[i] = IF i <= Len(s) THEN s[i] ELSE r[i - Len(s)]
BY SMT

(* r lists members of s, which stand at the different places k of s        *)
Picked(r, s, k) ==
  /\ \A j \in 1 .. Len(r) : k[j] \in 1 .. Len(s) /\ r[j] = s[k[j]]
  /\ \A j, m \in 1 .. Len(r) : k[j] = k[m] => j = m

OnlyThose(r, s, k) ==
  /\ NoDup(r) /\ Elems(r) \subseteq Elems(s)
  /\ \A n \in 1 .. Len(s) :
       s[n] \in Elems(r) <=> \E j \in 1 .. Len(r) : k[j] = n

LEMMA PickedElems ==
  ASSUME NEW S, NEW s \in Seq(S), NoDup(s), NEW r \in Seq(S), NEW k,
         Picked(r, s, k)
  PROVE  OnlyThose(r, s, k)
<1> USE DEF Picked
<1>1. DOMAIN s = 1 .. Len(s) /\ DOMAIN r = 1 .. Len(r) BY ElemsIs
<1>2. \A m, n \in 1 .. Len(s) : s[m] = s[n] => m = n BY <1>1 DEF NoDup
<1>3. NoDup(r) BY <1>1, <1>2, SMT DEF NoDup
<1>4. Elems(r) \subseteq Elems(s) BY <1>1, SMT DEF Elems
<1>5. ASSUME NEW n \in 1 .. Len(s)
      PROVE  s[n] \in Elems(r) <=> \E j \in 1 .. Len(r) : k[j] = n
  <2>1. s[n] \in Elems(r) <=> \E j \in 1 .. Len(r) : r[j] = s[n]
    BY <1>1 DEF Elems
  <2>2. \A j \in 1 .. Len(r) : r[j] = s[n] <=> k[j] = n BY <1>2, SMT
  <2> QED BY <2>1, <2>2
<1> QED BY <1>3, <1>4, <1>5 DEF OnlyThose

LEMMA AppendElems ==
  ASSUME NEW S, NEW s \in Seq(S), NoDup(s), NEW x \in S, x \notin Elems(s)
  PROVE  /\ Append(s, x) \in Seq(S) /\ NoDup(Append(s, x))
         /\ Elems(Append(s, x)) = Elems(s) \cup {x}
<1> DEFINE r == Append(s, x)
<1>1. /\ r \in Seq(S) /\ DOMAIN s = 1 .. Len(s) /\ DOMAIN r = 1 .. (Len(s) + 1)
      /\ \A i \in 1 .. Len(s) : r[i] = s[i]
      /\ r[Len(s) + 1] = x /\ Len(s) \in Nat
  BY SMT
<1> HIDE DEF r
<1>2. ASSUME NEW y PROVE y \in Elems(r) <=> y \in Elems(s) \cup {x}
  BY <1>1, SMT DEF Elems
<1>3. NoDup(r) BY <1>1, SMT DEF Elems, NoDup
<1>4. Elems(r) = Elems(s) \cup {x} BY <1>2
<1> QED BY <1>1, <1>3, <1>4 DEF r

LEMMA TailElems ==
  ASSUME NEW S, NEW s \in Seq(S), NoDup(s), s # <<>>
  PROVE  /\ Head(s) \in Elems(s) /\ Tail(s) \in Seq(S) /\ NoDup(Tail(s))
         /\ Elems(Tail(s)) = Elems(s) \ {Head(s)}
<1> DEFINE r == Tail(s)
           k == [j \in 1 .. Len(r) |-> j + 1]
<1>1. /\ r \in Seq(S) /\ Len(r) = Len(s) - 1 /\ Len(s) \in Nat /\ Len(s) >= 1
      /\ \A j \in 1 .. Len(r) : r[j] = s[j + 1]
      /\ Head(s) = s[1]
  BY SMT
<1> HIDE DEF r
<1>2. Picked(r, s, k) BY <1>1, SMT DEF Picked
<1>3. \A n \in 1 .. Len(s) : (\E j \in 1 .. Len(r) : k[j] = n) <=> n # 1
  <2>1. ASSUME NEW n \in 1 .. Len(s), n # 1
        PROVE  n - 1 \in 1 .. Len(r) /\ k[n - 1] = n
    BY <1>1, <2>1, SMT
  <2>2. \A j \in 1 .. Len(r) : k[j] # 1 BY <1>1, SMT
  <2> QED BY <2>1, <2>2
<1> HIDE DEF k
<1>4. /\ NoDup(r) /\ Elems(r) \subseteq Elems(s)
      /\ \A n \in 1 .. Len(s) : s[n] \in Elems(r) <=> n # 1
  <2>1. OnlyThose(r, s, k)
    <3>1. r \in Seq(S) BY <1>1
    <3> QED BY <1>2, <3>1, PickedElems
  <2> QED BY <1>3, <2>1 DEF OnlyThose
<1>5. 1 \in 1 .. Len(s) BY <1>1, SMT
<1>6. \A x : x \in Elems(s) <=> \E n \in 1 .. Len(s) : s[n] = x BY ElemsIs
<1>7. Head(s) \in Elems(s) /\ Head(s) \notin Elems(r)
  BY <1>1, <1>4, <1>5, <1>6
<1>8. ASSUME NEW x \in Elems(s), x # Head(s) PROVE x \in Elems(r)
  <2>1. PICK n \in 1 .. Len(s) : s[n] = x BY <1>6
  <2> QED BY <1>1, <1>4, <1>8, <2>1
<1> QED BY <1>1, <1>4, <1>7, <1>8 DEF r

LEMMA UnlinkElems ==
  ASSUME NEW S, NEW s \in Seq(S), NoDup(s), NEW x
  PROVE  /\ Unlink(s, x) \in Seq(S) /\ NoDup(Unlink(s, x))
         /\ Elems(Unlink(s, x)) = Elems(s) \ {x}
<1>1. CASE x \notin Elems(s) BY <1>1 DEF Unlink
<1>2. CASE x \in Elems(s)
  <2> DEFINE i == CHOOSE j \in DOMAIN s : s[j] = x
             r == SubSeq(s, 1, i - 1) \o SubSeq(s, i + 1, Len(s))
             k == [j \in 1 .. Len(r) |-> IF j < i THEN j ELSE j + 1]
  <2>0. /\ Len(s) \in Nat /\ DOMAIN s = 1 .. Len(s)
        /\ \A y : y \in Elems(s) <=> \E n \in 1 .. Len(s) : s[n] = y
    BY ElemsIs
  <2>1. i \in 1 .. Len(s) /\ s[i] = x BY <1>2, <2>0
  <2>2. Unlink(s, x) = r BY <1>2 DEF Unlink
  <2> HIDE DEF i
  <2>3. /\ r \in Seq(S) /\ Len(r) = Len(s) - 1
        /\ \A j \in 1 .. Len(r) : r[j] = IF j < i THEN s[j] ELSE s[j + 1]
    <3> DEFINE a == SubSeq(s, 1, i - 1)
               b == SubSeq(s, i + 1, Len(s))
    <3>0. /\ 1 \in 1 .. Len(s) + 1 /\ i - 1 \in 0 .. Len(s)
          /\ i + 1 \in 1 .. Len(s) + 1 /\ Len(s) \in 0 .. Len(s)
      BY <2>0, <2>1, SMT
    <3>1. /\ a \in Seq(S) /\ Len(a) = i - 1
          /\ \A j \in 1 .. (i - 1) : a[j] = s[j]
      <4>1. /\ a \in Seq(S)
            /\ Len(a) = IF 1 <= i - 1 THEN (i - 1) - 1 + 1 ELSE 0
            /\ \A j \in 1 .. (i - 1) - 1 + 1 : a[j] = s[1 + j - 1]
        BY <3>0, SubSeqIs
      <4> HIDE DEF a
      <4> QED BY <2>0, <2>1, <4>1, SMT
    <3>2. /\ b \in Seq(S) /\ Len(b) = Len(s) - i
          /\ \A j \in 1 .. (Len(s) - i) : b[j] = s[i + j]
      <4>1. /\ b \in Seq(S)
            /\ Len(b) = IF i + 1 <= Len(s) THEN Len(s) - (i + 1) + 1 ELSE 0
            /\ \A j \in 1 .. Len(s) - (i + 1) + 1 : b[j] = s[i + 1 + j - 1]
        BY <3>0, SubSeqIs
      <4> HIDE DEF b
      <4>2. Len(s) - (i + 1) + 1 = Len(s) - i BY <2>0, <2>1, SMT
      <4>3. Len(b) = Len(s) - i
        <5>1. Len(b) = IF i + 1 <= Len(s) THEN Len(s) - i ELSE 0
          BY <4>1, <4>2
        <5>2. Len(s) \in Nat BY <2>0
        <5> QED BY <2>1, <5>1, <5>2, SMT
      <4>4. \A j \in 1 .. (Len(s) - i) : i + 1 + j - 1 = i + j
        BY <2>0, <2>1, SMT
      <4> QED BY <4>1, <4>2, <4>3, <4>4
    <3> HIDE DEF a, b
    <3>3. /\ a \o b \in Seq(S) /\ Len(a \o b) = Len(a) + Len(b)
          /\ \A j \in 1 .. Len(a) + Len(b) :
               (a \o b)[j] = IF j <= Len(a) THEN a[j] ELSE b[j - Len(a)]
      BY <3>1, <3>2, ConcatIs
    <3>4. r = a \o b BY DEF a, b
    <3>5. r \in Seq(S) /\ Len(r) = Len(s) - 1
      <4>1. (i - 1) + (Len(s) - i) = Len(s) - 1 BY <2>0, <2>1, SMT
      <4> QED BY <3>1, <3>2, <3>3, <3>4, <4>1
    <3>6. ASSUME NEW j \in 1 .. Len(r)
          PROVE  r[j] = IF j < i THEN s[j] ELSE s[j + 1]
      <4> HIDE DEF r
      <4>1. CASE j < i
        BY <2>0, <2>1, <3>1, <3>2, <3>3, <3>4, <3>5, <4>1, SMT
      <4>2. CASE ~(j < i)
        <5>1. /\ r[j] = b[j - (i - 1)] /\ j - (i - 1) \in 1 .. (Len(s) - i)
              /\ i + (j - (i - 1)) = j + 1
          BY <2>0, <2>1, <3>1, <3>2, <3>3, <3>4, <3>5, <4>2, SMT
        <5> QED BY <3>2, <4>2, <5>1
      <4> QED BY <4>1, <4>2
    <3> QED BY <3>5, <3>6
  <2> HIDE DEF r
  <2>4. Picked(r, s, k) /\ \A j \in 1 .. Len(r) : k[j] # i
    BY <2>0, <2>1, <2>3, SMT DEF Picked
  <2>5. ASSUME NEW n \in 1 .. Len(s), n # i
        PROVE  \E j \in 1 .. Len(r) : k[j] = n
    <3>1. CASE n < i
      <4>1. n \in 1 .. Len(r) /\ k[n] = n BY <2>0, <2>1, <2>3, <3>1, SMT
      <4> QED BY <4>1
    <3>2. CASE ~(n < i)
      <4>1. n - 1 \in 1 .. Len(r) /\ k[n - 1] = n
        BY <2>0, <2>1, <2>3, <2>5, <3>2, SMT
      <4> QED BY <4>1
    <3> QED BY <3>1, <3>2
  <2> HIDE DEF k
  <2>6. /\ NoDup(r) /\ Elems(r) \subseteq Elems(s)
        /\ \A n \in 1 .. Len(s) : s[n] \in Elems(r) <=> n # i
    <3>1. OnlyThose(r, s, k)
      <4>1. r \in Seq(S) BY <2>3
      <4>2. Picked(r, s, k) BY <2>4
      <4> QED BY <4>1, <4>2, PickedElems
    <3> QED BY <2>4, <2>5, <3>1 DEF OnlyThose
  <2>7. x \notin Elems(r) BY <2>1, <2>6
  <2>8. ASSUME NEW y \in Elems(s), y # x PROVE y \in Elems(r)
    <3>1. PICK n \in 1 .. Len(s) : s[n] = y BY <2>0
    <3> QED BY <2>1, <2>6, <2>8, <3>1
  <2> QED BY <2>2, <2>3, <2>6, <2>7, <2>8
<1> QED BY <1>1, <1>2

(* call_bail: the n oldest frames of s, and the rest                       *)
LEMMA CutElems ==
  ASSUME NEW S, NEW s \in Seq(S), NoDup(s), NEW n \in 0 .. Len(s)
  PROVE  LET old == [i \in 1 .. n |-> s[n + 1 - i]]
             new == SubSeq(s, n + 1, Len(s))
         IN  /\ old \in Seq(S) /\ NoDup(old) /\ new \in Seq(S) /\ NoDup(new)
             /\ Elems(s) = Elems(old) \cup Elems(new)
             /\ Elems(old) \cap Elems(new) = {}
<1> DEFINE old == [i \in 1 .. n |-> s[n + 1 - i]]
           new == SubSeq(s, n + 1, Len(s))
           k == [i \in 1 .. n |-> n + 1 - i]
           m == [i \in 1 .. Len(new) |-> n + i]
<1>0. /\ Len(s) \in Nat /\ n \in Nat /\ n <= Len(s)
      /\ \A x : x \in Elems(s) <=> \E i \in 1 .. Len(s) : s[i] = x
  <2>1. /\ Len(s) \in Nat
        /\ \A x : x \in Elems(s) <=> \E i \in 1 .. Len(s) : s[i] = x
    BY ElemsIs
  <2>2. n \in Nat /\ n <= Len(s) BY <2>1, SMT
  <2> QED BY <2>1, <2>2
<1>1. old \in Seq(S) /\ Len(old) = n /\ \A i \in 1 .. n : old[i] = s[n + 1 - i]
  <2>1. \A i \in 1 .. n : s[n + 1 - i] \in S BY <1>0, SMT
  <2> QED BY <1>0, <2>1, SMT
<1>2. /\ new \in Seq(S) /\ Len(new) = Len(s) - n
      /\ \A i \in 1 .. Len(new) : new[i] = s[n + i]
  <2>1. n + 1 \in 1 .. Len(s) + 1 /\ Len(s) \in 0 .. Len(s) BY <1>0, SMT
  <2>2. /\ new \in Seq(S)
        /\ Len(new) = IF n + 1 <= Len(s) THEN Len(s) - (n + 1) + 1 ELSE 0
        /\ \A i \in 1 .. Len(s) - (n + 1) + 1 : new[i] = s[n + 1 + i - 1]
    BY <2>1, SubSeqIs
  <2> HIDE DEF new
  <2>3. Len(s) - (n + 1) + 1 = Len(s) - n BY <1>0, SMT
  <2>4. Len(new) = Len(s) - n BY <1>0, <2>2, SMT
  <2>5. \A i \in 1 .. (Len(s) - n) : n + 1 + i - 1 = n + i BY <1>0, SMT
  <2> QED BY <2>2, <2>3, <2>4, <2>5
<1> HIDE DEF old, new
<1>3. /\ Picked(old, s, k)
      /\ \A i \in 1 .. Len(old) : k[i] <= n
      /\ \A i \in 1 .. Len(s) :
           i <= n => n + 1 - i \in 1 .. Len(old) /\ k[n + 1 - i] = i
  BY <1>0, <1>1, SMT DEF Picked
<1>4. /\ Picked(new, s, m)
      /\ \A i \in 1 .. Len(new) : ~(m[i] <= n)
      /\ \A i \in 1 .. Len(s) :
           ~(i <= n) => i - n \in 1 .. Len(new) /\ m[i - n] = i
  <2>1. /\ \A i \in 1 .. Len(new) : m[i] = n + i
        /\ \A i \in 1 .. Len(new) : n + i \in 1 .. Len(s) /\ ~(n + i <= n)
        /\ \A i, j \in 1 .. Len(new) : n + i = n + j => i = j
    BY <1>0, <1>2, SMT
  <2>2. \A i \in 1 .. Len(s) :
          ~(i <= n) => i - n \in 1 .. Len(new) /\ n + (i - n) = i
    BY <1>0, <1>2, SMT
  <2> HIDE DEF m
  <2>3. \A i \in 1 .. Len(new) :
          /\ m[i] \in 1 .. Len(s) /\ new[i] = s[m[i]] /\ ~(m[i] <= n)
    <3>1. \A i \in 1 .. Len(new) : new[i] = s[n + i] BY <1>2
    <3> QED BY <2>1, <3>1
  <2>4. \A i, j \in 1 .. Len(new) : m[i] = m[j] => i = j
    <3> TAKE i, j \in 1 .. Len(new)
    <3> QED BY <2>1
  <2>5. Picked(new, s, m) BY <2>3, <2>4 DEF Picked
  <2>6. ASSUME NEW i \in 1 .. Len(s), ~(i <= n)
        PROVE  i - n \in 1 .. Len(new) /\ m[i - n] = i
    <3>1. i - n \in 1 .. Len(new) /\ n + (i - n) = i BY <2>2, <2>6
    <3> QED BY <2>1, <3>1
  <2> QED BY <2>3, <2>5, <2>6
<1> HIDE DEF k, m
<1>5. /\ NoDup(old) /\ Elems(old) \subseteq Elems(s)
      /\ \A i \in 1 .. Len(s) : s[i] \in Elems(old) <=> i <= n
  <2>1. OnlyThose(old, s, k)
    <3>1. old \in Seq(S) BY <1>1
    <3>2. Picked(old, s, k) BY <1>3
    <3> QED BY <3>1, <3>2, PickedElems
  <2> QED BY <1>3, <2>1 DEF OnlyThose
<1>6. /\ NoDup(new) /\ Elems(new) \subseteq Elems(s)
      /\ \A i \in 1 .. Len(s) : s[i] \in Elems(new) <=> ~(i <= n)
  <2>1. OnlyThose(new, s, m)
    <3>1. new \in Seq(S) BY <1>2
    <3>2. Picked(new, s, m) BY <1>4
    <3> QED BY <3>1, <3>2, PickedElems
  <2> QED BY <1>4, <2>1 DEF OnlyThose
<1>7. ASSUME NEW x \in Elems(s)
      PROVE  x \in Elems(old) <=> x \notin Elems(new)
  <2>1. PICK i \in 1 .. Len(s) : s[i] = x BY <1>0
  <2> QED BY <1>5, <1>6, <2>1
<1> QED BY <1>1, <1>2, <1>5, <1>6, <1>7 DEF old, new

(* saved_frames_unwind splices one list into the other                     *)
LEMMA ConcatElems ==
  ASSUME NEW S, NEW s \in Seq(S), NEW r \in Seq(S), NoDup(s), NoDup(r),
         Elems(s) \cap Elems(r) = {}
  PROVE  /\ s \o r \in Seq(S) /\ NoDup(s \o r)
         /\ Elems(s \o r) = Elems(s) \cup Elems(r)
<1> DEFINE q == s \o r
<1>1. /\ q \in Seq(S) /\ Len(s) \in Nat /\ Len(r) \in Nat
      /\ DOMAIN q = 1 .. (Len(s) + Len(r))
      /\ DOMAIN s = 1 .. Len(s) /\ DOMAIN r = 1 .. Len(r)
      /\ \A i \in 1 .. Len(s) : q[i] = s[i]
      /\ \A i \in 1 .. Len(r) : q[Len(s) + i] = r[i]
  BY SMT
<1> HIDE DEF q
<1>2. ASSUME NEW i \in DOMAIN q
      PROVE  \/ i \in 1 .. Len(s) /\ q[i] = s[i] /\ q[i] \in Elems(s)
             \/ /\ i - Len(s) \in 1 .. Len(r) /\ q[i] = r[i - Len(s)]
                /\ q[i] \in Elems(r)
  <2>1. CASE i <= Len(s)
    <3>1. i \in 1 .. Len(s) BY <1>1, <2>1, SMT
    <3> QED BY <1>1, <3>1 DEF Elems
  <2>2. CASE ~(i <= Len(s))
    <3>1. i - Len(s) \in 1 .. Len(r) /\ Len(s) + (i - Len(s)) = i
      BY <1>1, <2>2, SMT
    <3>2. q[i] = r[i - Len(s)] BY <1>1, <3>1
    <3> QED BY <1>1, <3>1, <3>2 DEF Elems
  <2> QED BY <2>1, <2>2
<1>3. NoDup(q)
  <2> SUFFICES ASSUME NEW i \in DOMAIN q, NEW j \in DOMAIN q, q[i] = q[j]
               PROVE  i = j
    BY DEF NoDup
  <2>1. CASE i \in 1 .. Len(s) /\ q[i] = s[i] /\ q[i] \in Elems(s)
    <3>1. j \in 1 .. Len(s) /\ q[j] = s[j] BY <1>2, <2>1
    <3> QED BY <1>1, <2>1, <3>1 DEF NoDup
  <2>2. CASE /\ i - Len(s) \in 1 .. Len(r) /\ q[i] = r[i - Len(s)]
             /\ q[i] \in Elems(r)
    <3>1. j - Len(s) \in 1 .. Len(r) /\ q[j] = r[j - Len(s)] BY <1>2, <2>2
    <3>2. i - Len(s) = j - Len(s) BY <1>1, <2>2, <3>1 DEF NoDup
    <3>3. i \in Int /\ j \in Int BY <1>1, SMT
    <3> QED BY <1>1, <3>2, <3>3, SMT
  <2> QED BY <1>2, <2>1, <2>2
<1>4. Elems(q) \subseteq Elems(s) \cup Elems(r) BY <1>2 DEF Elems
<1>5. Elems(s) \subseteq Elems(q)
  <2>1. \A i \in 1 .. Len(s) : i \in DOMAIN q BY <1>1, SMT
  <2> QED BY <1>1, <2>1 DEF Elems
<1>6. Elems(r) \subseteq Elems(q)
  <2>1. \A i \in 1 .. Len(r) : Len(s) + i \in DOMAIN q BY <1>1, SMT
  <2> QED BY <1>1, <2>1 DEF Elems
<1> QED BY <1>1, <1>3, <1>4, <1>5, <1>6 DEF q

----------------------------------------------------------------------------
(* Answers: a call is in one place until its callback has run              *)

Waits(c) == apc[c] \in {"new", "fail"}
Unwound(c) == \E t \in Thread : c \in Elems(unw[t])
Due(c) == Waits(c) \/ Saved(conn, c) \/ c \in inprog \/ Unwound(c)

Apart(c) ==
  /\ Waits(c) => ~Saved(conn, c) /\ c \notin inprog /\ ~Unwound(c)
  /\ Saved(conn, c) => c \notin inprog /\ ~Unwound(c)
  /\ c \in Elems(conn.sf) => c \notin Elems(conn.lk_sf)
  /\ c \in inprog => ~Unwound(c)
  /\ \A t, u \in Thread : c \in Elems(unw[t]) /\ c \in Elems(unw[u]) => t = u

Once(c) ==
  Apart(c) /\ (c \in App => Len(answer[c]) = IF Due(c) THEN 0 ELSE 1)

ListsOK ==
  /\ conn.sf \in Seq(Call) /\ NoDup(conn.sf)
  /\ conn.lk_sf \in Seq(App) /\ NoDup(conn.lk_sf)
  /\ unw \in [Thread -> Seq(Call)] /\ \A t \in Thread : NoDup(unw[t])

(* A thread has frames to answer only between taking them and going on     *)
Unwinding ==
  /\ unw["timer"] # <<>> => tpc = "bailed"
  /\ \A s \in Sock : unw[s] # <<>> => sstate[s] \in {"quick", "unwind"}

CallsOK ==
  /\ inprog \subseteq Call /\ lockfop \subseteq App
  /\ answer \in [App -> Seq(BOOLEAN)]
  /\ apc \in [Call -> {"new", "check", "start", "fail", "off"}]

OnceInv == ListsOK /\ Unwinding /\ CallsOK /\ \A c \in Call : Once(c)

LEMMA AppCall ==
  /\ App \subseteq Call /\ Ping \subseteq Call /\ App \cap Ping = {}
  /\ \A c \in Call : c \in App \/ c \in Ping
  /\ "timer" \in Thread /\ Sock \subseteq Thread /\ "timer" \notin Sock
  /\ \A t \in Thread : t \in Sock \/ t = "timer"
BY RpcAssumption DEF Call, Thread

LEMMA InitOnceInv == Init => OnceInv
<1> SUFFICES ASSUME Init PROVE OnceInv OBVIOUS
<1>1. <<>> \in Seq(Call) /\ <<>> \in Seq(App) /\ <<>> \in Seq(BOOLEAN)
      /\ Len(<<>>) = 0
  BY SMT
<1>2. conn.sf = <<>> /\ conn.lk_sf = <<>> BY DEF Init, InitConn
<1>3. \A t \in Thread : unw[t] = <<>> BY DEF Init
<1>4. ListsOK BY <1>1, <1>2, <1>3, EmptyElems DEF ListsOK, Init
<1>5. Unwinding BY <1>3, AppCall DEF Unwinding
<1>6. CallsOK BY <1>1 DEF CallsOK, Init
<1>7. ASSUME NEW c \in Call PROVE Once(c)
  <2>1. ~Saved(conn, c) /\ c \notin inprog /\ ~Unwound(c)
        /\ c \notin Elems(conn.sf) /\ \A t \in Thread : c \notin Elems(unw[t])
    BY <1>2, <1>3, EmptyElems DEF Saved, Unwound, Init
  <2>2. c \in App => Waits(c) /\ answer[c] = <<>> BY DEF Waits, Init
  <2>3. Apart(c) BY <2>1 DEF Apart
  <2>4. c \in App => Due(c) /\ Len(answer[c]) = 0 BY <1>1, <2>2 DEF Due
  <2> QED BY <2>3, <2>4 DEF Once
<1> QED BY <1>4, <1>5, <1>6, <1>7 DEF OnceInv

(* c stays where it is                                                     *)
Stays(c) ==
  /\ Waits(c)' <=> Waits(c)
  /\ c \in Elems(conn'.sf) <=> c \in Elems(conn.sf)
  /\ c \in Elems(conn'.lk_sf) <=> c \in Elems(conn.lk_sf)
  /\ c \in inprog' <=> c \in inprog
  /\ \A t \in Thread : c \in Elems(unw'[t]) <=> c \in Elems(unw[t])
  /\ c \in App => answer'[c] = answer[c]

LEMMA StaysOnce ==
  ASSUME NEW c, Once(c), Stays(c)
  PROVE  Once(c)'
<1>1. Saved(conn, c)' <=> Saved(conn, c) BY DEF Saved, Stays
<1>2. Unwound(c)' <=> Unwound(c) BY DEF Unwound, Stays
<1>3. Due(c)' <=> Due(c) BY <1>1, <1>2 DEF Due, Stays
<1>4. Apart(c)' BY <1>1, <1>2 DEF Once, Apart, Stays
<1> QED BY <1>3, <1>4 DEF Once, Stays

(* A step that touches no list and no answer                               *)
LEMMA QuietOnce ==
  ASSUME OnceInv, Unwinding', CallsOK', SameFrames(conn, conn'),
         UNCHANGED answers, \A c \in Call : Waits(c)' <=> Waits(c)
  PROVE  OnceInv'
<1>1. UNCHANGED <<inprog, unw, answer>> BY DEF answers
<1>2. ListsOK' BY <1>1 DEF OnceInv, ListsOK, SameFrames
<1>3. \A c \in Call : Stays(c) BY <1>1 DEF Stays, SameFrames
<1> QED BY <1>2, <1>3, StaysOnce DEF OnceInv

(* What lets a thread keep its frames                                      *)
LEMMA SameUnwinding ==
  ASSUME OnceInv, unw' = unw,
         tpc' = tpc \/ tpc # "bailed" \/ unw["timer"] = <<>>,
         \A s \in Sock : \/ sstate'[s] = sstate[s]
                         \/ sstate[s] \notin {"quick", "unwind"}
                         \/ unw[s] = <<>>
  PROVE  Unwinding'
BY DEF OnceInv, Unwinding

(* The callback of c, which was due and now is nowhere                     *)
LEMMA DeliverOnce ==
  ASSUME RefInv, OnceInv, NEW c \in Call, NEW ok \in BOOLEAN,
         Deliver(c, ok), Due(c)
  PROVE  /\ SameFrames(conn, conn') /\ answer' \in [App -> Seq(BOOLEAN)]
         /\ c \in App => Len(answer'[c]) = 1
         /\ \A d \in App : d # c => answer'[d] = answer[d]
<1>1. CASE c \in App
  <2>1. answer' = [answer EXCEPT ![c] = Append(@, ok)] /\ conn' = conn
    BY <1>1 DEF Deliver
  <2>2. answer \in [App -> Seq(BOOLEAN)] /\ Len(answer[c]) = 0
    BY <1>1 DEF OnceInv, CallsOK, Once
  <2>3. answer[c] \in Seq(BOOLEAN) BY <1>1, <2>2
  <2>4. /\ Append(answer[c], ok) \in Seq(BOOLEAN)
        /\ Len(Append(answer[c], ok)) = 1
    BY <2>2, <2>3, SMT
  <2> QED BY <1>1, <2>1, <2>2, <2>4 DEF SameFrames
<1>2. CASE c \notin App
  <2>1. conn' = PingCbk(conn, ok) /\ answer' = answer BY <1>2 DEF Deliver
  <2>2. SameFrames(conn, conn')
    BY <2>1, PingCbkIs DEF RefInv, PingReset, SameButPing
  <2> QED BY <1>2, <2>1, <2>2 DEF OnceInv, CallsOK
<1> QED BY <1>1, <1>2

Nowhere(c) ==
  /\ ~Waits(c) /\ c \notin Elems(conn.sf) /\ c \notin Elems(conn.lk_sf)
  /\ c \notin inprog /\ \A t \in Thread : c \notin Elems(unw[t])

LEMMA NowhereOnce ==
  ASSUME NEW c, Nowhere(c)', c \in App => Len(answer'[c]) = 1
  PROVE  Once(c)'
BY DEF Nowhere, Once, Apart, Due, Saved, Unwound

(* A call that moves from one place to another                             *)
LEMMA MovedOnce ==
  ASSUME NEW c, Once(c), Due(c), Due(c)', Apart(c)',
         c \in App => answer'[c] = answer[c]
  PROVE  Once(c)'
BY DEF Once

LEMMA SubmitOnce ==
  ASSUME RefInv, OnceInv, NEW c \in Call, Submit(c)
  PROVE  OnceInv'
<1>0. /\ UNCHANGED <<answers, tpc, lockfop>> /\ apc[c] = "new"
      /\ CallsOK /\ ListsOK
  BY DEF Submit, OnceInv
<1>1. UNCHANGED <<inprog, unw, answer>> BY <1>0 DEF answers
<1>2. CASE Up
  <2>1. /\ conn' = SaveFrame(conn, c) /\ apc' = [apc EXCEPT ![c] = "check"]
        /\ UNCHANGED sstate
    BY <1>2 DEF Submit
  <2>2. /\ conn'.sf = IF c \in lockfop THEN conn.sf ELSE Append(conn.sf, c)
        /\ conn'.lk_sf = IF c \in lockfop THEN Append(conn.lk_sf, c)
                                          ELSE conn.lk_sf
    BY <2>1, SaveFrameIs DEF RefInv
  <2>3. Waits(c) /\ Once(c) BY <1>0 DEF Waits, OnceInv
  <2>4. /\ c \notin Elems(conn.sf) /\ c \notin Elems(conn.lk_sf)
        /\ c \notin inprog /\ \A t \in Thread : c \notin Elems(unw[t])
    BY <2>3 DEF Once, Apart, Saved, Unwound
  <2>5. /\ ListsOK' /\ Saved(conn, c)'
        /\ ~(c \in Elems(conn'.sf) /\ c \in Elems(conn'.lk_sf))
        /\ \A d : d # c => /\ d \in Elems(conn'.sf) <=> d \in Elems(conn.sf)
                           /\ d \in Elems(conn'.lk_sf)
                                <=> d \in Elems(conn.lk_sf)
    <3>1. CASE c \in lockfop
      <4>1. c \in App BY <1>0, <3>1 DEF CallsOK
      <4>2. /\ conn'.lk_sf \in Seq(App) /\ NoDup(conn'.lk_sf)
            /\ Elems(conn'.lk_sf) = Elems(conn.lk_sf) \cup {c}
        <5>1. conn.lk_sf \in Seq(App) /\ NoDup(conn.lk_sf)
          BY <1>0 DEF ListsOK
        <5>2. conn'.lk_sf = Append(conn.lk_sf, c) BY <2>2, <3>1
        <5>3. c \notin Elems(conn.lk_sf) BY <2>4
        <5>4. /\ Append(conn.lk_sf, c) \in Seq(App)
              /\ NoDup(Append(conn.lk_sf, c))
              /\ Elems(Append(conn.lk_sf, c)) = Elems(conn.lk_sf) \cup {c}
          BY <4>1, <5>1, <5>3, AppendElems, SMT
        <5> QED BY <5>2, <5>4
      <4>3. conn'.sf = conn.sf BY <2>2, <3>1
      <4>4. ListsOK' BY <1>0, <1>1, <4>2, <4>3 DEF ListsOK
      <4> QED BY <2>4, <4>2, <4>3, <4>4 DEF Saved
    <3>2. CASE c \notin lockfop
      <4>2. /\ conn'.sf \in Seq(Call) /\ NoDup(conn'.sf)
            /\ Elems(conn'.sf) = Elems(conn.sf) \cup {c}
        <5>1. conn.sf \in Seq(Call) /\ NoDup(conn.sf) BY <1>0 DEF ListsOK
        <5>2. conn'.sf = Append(conn.sf, c) BY <2>2, <3>2
        <5>3. c \notin Elems(conn.sf) BY <2>4
        <5>4. /\ Append(conn.sf, c) \in Seq(Call) /\ NoDup(Append(conn.sf, c))
              /\ Elems(Append(conn.sf, c)) = Elems(conn.sf) \cup {c}
          BY <5>1, <5>3, AppendElems, SMT
        <5> QED BY <5>2, <5>4
      <4>3. conn'.lk_sf = conn.lk_sf BY <2>2, <3>2
      <4>4. ListsOK' BY <1>0, <1>1, <4>2, <4>3 DEF ListsOK
      <4> QED BY <2>4, <4>2, <4>3, <4>4 DEF Saved
    <3> QED BY <3>1, <3>2
  <2>6. CallsOK' BY <1>0, <1>1, <2>1 DEF CallsOK
  <2>7. Unwinding' BY <1>0, <1>1, <2>1, SameUnwinding
  <2>8. ASSUME NEW d \in Call, d # c PROVE Once(d)'
    <3>1. Waits(d)' <=> Waits(d) BY <1>0, <2>1, <2>8 DEF Waits, CallsOK
    <3>2. Stays(d) BY <1>1, <2>5, <2>8, <3>1 DEF Stays
    <3> QED BY <3>2, StaysOnce DEF OnceInv
  <2>9. Once(c)'
    <3>1. ~Waits(c)' BY <1>0, <2>1 DEF Waits, CallsOK
    <3>2. Apart(c)'
      BY <1>1, <2>4, <2>5, <3>1 DEF Apart, Unwound
    <3>3. Due(c) /\ Due(c)' BY <2>3, <2>5 DEF Due
    <3> QED BY <1>1, <2>3, <3>2, <3>3, MovedOnce
  <2> QED BY <2>5, <2>6, <2>7, <2>8, <2>9 DEF OnceInv
<1>3. CASE ~Up
  <2>1. /\ conn' = conn /\ apc' = [apc EXCEPT ![c] = "fail"]
        /\ ConnectIf(Retry(conn), sstate) /\ Retry(conn) \in BOOLEAN
    BY <1>3 DEF Submit, Retry
  <2>2. \A s \in Sock : sstate'[s] = sstate[s] \/ sstate[s] = "none"
    BY <2>1, ConnectIs DEF RefInv, SockOK, Unused
  <2>3. Unwinding' BY <1>0, <1>1, <2>2, SameUnwinding
  <2>4. CallsOK' BY <1>0, <1>1, <2>1 DEF CallsOK
  <2>5. \A d \in Call : Waits(d)' <=> Waits(d)
    BY <1>0, <2>1 DEF Waits, CallsOK
  <2> QED BY <1>0, <2>1, <2>3, <2>4, <2>5, QuietOnce DEF SameFrames
<1> QED BY <1>2, <1>3

(* rpc_clnt_start_ping: a free ping is about to be submitted               *)
LEMMA PingOnce ==
  ASSUME RefInv, OnceInv, PingStart \/ \E c \in Call : BeginPing(c)
  PROVE  OnceInv'
<1>0. /\ UNCHANGED <<answers, sstate, lockfop>> /\ conn' = StartPing(conn)
      /\ CallsOK
  BY DEF PingStart, BeginPing, OnceInv, transport
<1>1. UNCHANGED <<inprog, unw, answer>> BY <1>0 DEF answers
<1>2. SameFrames(conn, conn')
  BY <1>0, StartPingIs DEF RefInv, PingReset, SameButPing
<1>3. Unwinding'
  <2>1. tpc' = tpc \/ tpc # "bailed" BY DEF PingStart, BeginPing
  <2> QED BY <1>0, <1>1, <2>1, SameUnwinding
<1>4. PICK f \in [Call -> {"new", "check", "start", "fail", "off"}] :
        /\ apc' = f \/ \E p \in FreePing : apc' = [f EXCEPT ![p] = "new"]
        /\ \A d \in Call : \/ f[d] = apc[d]
                           \/ apc[d] = "start" /\ f[d] = "off"
  <2>1. CASE PingStart
    BY <1>0, <2>1 DEF PingStart, CallsOK
  <2>2. ASSUME NEW c \in Call, BeginPing(c)
        PROVE  \E f \in [Call -> {"new", "check", "start", "fail", "off"}] :
                 /\ \/ apc' = f
                    \/ \E p \in FreePing : apc' = [f EXCEPT ![p] = "new"]
                 /\ \A d \in Call : \/ f[d] = apc[d]
                                    \/ apc[d] = "start" /\ f[d] = "off"
    <3> DEFINE f == [apc EXCEPT ![c] = "off"]
    <3>1. apc[c] = "start" BY <2>2 DEF BeginPing
    <3>2. f \in [Call -> {"new", "check", "start", "fail", "off"}]
      BY <1>0 DEF CallsOK
    <3>3. \A d \in Call : f[d] = apc[d] \/ (apc[d] = "start" /\ f[d] = "off")
      <4> TAKE d \in Call
      <4>1. apc \in [Call -> {"new", "check", "start", "fail", "off"}]
        BY <1>0 DEF CallsOK
      <4> QED BY <3>1, <4>1
    <3>4. apc' = f \/ \E p \in FreePing : apc' = [f EXCEPT ![p] = "new"]
      <4>1. ASSUME NEW p, apc' = [apc EXCEPT ![c] = "off", ![p] = "new"]
            PROVE  apc' = [f EXCEPT ![p] = "new"]
        BY <4>1, SMT
      <4> HIDE DEF f
      <4>2. CASE apc' = [apc EXCEPT ![c] = "off"] BY <4>2 DEF f
      <4> QED BY <2>2, <4>1, <4>2 DEF BeginPing
    <3> HIDE DEF f
    <3> QED BY <3>2, <3>3, <3>4
  <2> QED BY <2>1, <2>2
<1>5. \A d \in Call : f[d] \in {"new", "fail"} <=> Waits(d)
  BY <1>4 DEF Waits
<1>6. CASE apc' = f
  <2>1. CallsOK' BY <1>0, <1>1, <1>6 DEF CallsOK
  <2>2. \A d \in Call : Waits(d)' <=> Waits(d) BY <1>5, <1>6 DEF Waits
  <2> QED BY <1>0, <1>2, <1>3, <2>1, <2>2, QuietOnce
<1>7. ASSUME NEW p \in FreePing, apc' = [f EXCEPT ![p] = "new"]
      PROVE  OnceInv'
  <2>1. p \in Ping /\ p \in Call /\ p \notin App BY AppCall DEF FreePing
  <2>2. CallsOK' BY <1>0, <1>1, <1>7, <2>1 DEF CallsOK
  <2>3. ListsOK' BY <1>1, <1>2 DEF OnceInv, ListsOK, SameFrames
  <2>4. ASSUME NEW d \in Call, d # p PROVE Once(d)'
    <3>1. Waits(d)' <=> Waits(d) BY <1>5, <1>7, <2>4 DEF Waits
    <3>2. Stays(d) BY <1>1, <1>2, <3>1 DEF Stays, SameFrames
    <3> QED BY <3>2, StaysOnce DEF OnceInv
  <2>5. Once(p)'
    <3>1. /\ ~Saved(conn, p) /\ p \notin inprog
          /\ \A t \in Thread : p \notin Elems(unw[t])
      BY DEF FreePing
    <3>2. Apart(p)' BY <1>1, <1>2, <3>1 DEF Apart, Saved, Unwound, SameFrames
    <3> QED BY <2>1, <3>2 DEF Once
  <2> QED BY <1>3, <2>2, <2>3, <2>4, <2>5 DEF OnceInv
<1> QED BY <1>4, <1>6, <1>7

(* A call that is not sent                                                 *)
LEMMA SubmitFailedOnce ==
  ASSUME RefInv, OnceInv, NEW c \in Call, SubmitFailed(c)
  PROVE  OnceInv'
<1>0. /\ UNCHANGED <<inprog, unw, tpc, lockfop, sstate>> /\ apc[c] = "fail"
      /\ apc' = [apc EXCEPT ![c] = "off"] /\ Deliver(c, FALSE)
      /\ CallsOK /\ ListsOK /\ Once(c)
  BY DEF SubmitFailed, OnceInv, transport
<1>1. Waits(c) BY <1>0 DEF Waits
<1>2. /\ c \notin Elems(conn.sf) /\ c \notin Elems(conn.lk_sf)
      /\ c \notin inprog /\ \A t \in Thread : c \notin Elems(unw[t])
  BY <1>0, <1>1 DEF Once, Apart, Saved, Unwound
<1>3. /\ SameFrames(conn, conn') /\ answer' \in [App -> Seq(BOOLEAN)]
      /\ c \in App => Len(answer'[c]) = 1
      /\ \A d \in App : d # c => answer'[d] = answer[d]
  BY <1>0, <1>1, DeliverOnce DEF Due
<1>4. ListsOK' BY <1>0, <1>3 DEF ListsOK, SameFrames
<1>5. CallsOK' BY <1>0, <1>3 DEF CallsOK
<1>6. Unwinding' BY <1>0, SameUnwinding
<1>7. ASSUME NEW d \in Call, d # c PROVE Once(d)'
  <2>1. Waits(d)' <=> Waits(d) BY <1>0, <1>7 DEF Waits, CallsOK
  <2>2. Stays(d) BY <1>0, <1>3, <1>7, <2>1 DEF Stays, SameFrames
  <2> QED BY <2>2, StaysOnce DEF OnceInv
<1>8. Nowhere(c)'
  <2>1. ~Waits(c)' BY <1>0 DEF Waits, CallsOK
  <2> QED BY <1>0, <1>2, <1>3, <2>1 DEF Nowhere, SameFrames
<1> QED BY <1>3, <1>4, <1>5, <1>6, <1>7, <1>8, NowhereOnce DEF OnceInv

(* A reply finds its frame, or is dropped                                  *)
LEMMA HandleReplyOnce ==
  ASSUME RefInv, OnceInv, NEW c \in Call, HandleReply(c)
  PROVE  OnceInv'
<1>0. /\ UNCHANGED <<unw, answer, apc, tpc, lockfop, sstate>>
      /\ inprog' = IF Saved(conn, c) THEN inprog \cup {c} ELSE inprog
      /\ CallsOK /\ ListsOK /\ Once(c)
  BY DEF HandleReply, OnceInv, transport
<1>1. /\ conn'.sf = IF c \in Elems(conn.sf) THEN Unlink(conn.sf, c)
                                            ELSE conn.sf
      /\ conn'.lk_sf = IF c \in Elems(conn.sf) THEN conn.lk_sf
                                               ELSE Unlink(conn.lk_sf, c)
  <2> DEFINE a == conn.ping_timer # "none"
             q == [Forget(conn, c) EXCEPT !.active = a]
  <2>1. conn' = q BY DEF HandleReply
  <2> HIDE DEF a
  <2>2. ConnOK(conn) BY DEF RefInv
  <2>3. Forgotten(conn, c, q) BY <2>2, ForgetIs
  <2> HIDE DEF q
  <2> QED BY <2>1, <2>3 DEF Forgotten
<1>2. /\ Unlink(conn.sf, c) \in Seq(Call) /\ NoDup(Unlink(conn.sf, c))
      /\ Elems(Unlink(conn.sf, c)) = Elems(conn.sf) \ {c}
  <2>1. conn.sf \in Seq(Call) /\ NoDup(conn.sf) BY <1>0 DEF ListsOK
  <2> QED BY <2>1, UnlinkElems
<1>3. /\ Unlink(conn.lk_sf, c) \in Seq(App) /\ NoDup(Unlink(conn.lk_sf, c))
      /\ Elems(Unlink(conn.lk_sf, c)) = Elems(conn.lk_sf) \ {c}
  <2>1. conn.lk_sf \in Seq(App) /\ NoDup(conn.lk_sf) BY <1>0 DEF ListsOK
  <2> QED BY <2>1, UnlinkElems
<1>4. /\ conn'.sf \in Seq(Call) /\ NoDup(conn'.sf)
      /\ conn'.lk_sf \in Seq(App) /\ NoDup(conn'.lk_sf)
  BY <1>0, <1>1, <1>2, <1>3 DEF ListsOK
<1>5. /\ Elems(conn'.sf) = Elems(conn.sf) \ {c}
      /\ Elems(conn'.lk_sf) = Elems(conn.lk_sf) \ {c}
  BY <1>0, <1>1, <1>2, <1>3 DEF Once, Apart
<1>6. ListsOK' BY <1>0, <1>4 DEF ListsOK
<1>7. CallsOK' BY <1>0 DEF CallsOK
<1>8. Unwinding' BY <1>0, SameUnwinding
<1>9. ASSUME NEW d \in Call, d # c \/ ~Saved(conn, c) PROVE Once(d)'
  <2>1. Stays(d) BY <1>0, <1>5, <1>9 DEF Stays, Saved, Waits
  <2> QED BY <2>1, StaysOnce DEF OnceInv
<1>10. ASSUME Saved(conn, c) PROVE Once(c)'
  <2>1. /\ ~Waits(c) /\ \A t \in Thread : c \notin Elems(unw[t])
    BY <1>0, <1>10 DEF Once, Apart, Unwound
  <2>2. c \in inprog' BY <1>0, <1>10
  <2>3. Apart(c)'
    BY <1>0, <1>5, <2>1, <2>2 DEF Apart, Saved, Unwound, Waits
  <2>4. Due(c) /\ Due(c)' BY <1>10, <2>2 DEF Due
  <2> QED BY <1>0, <2>3, <2>4, MovedOnce
<1> QED BY <1>6, <1>7, <1>8, <1>9, <1>10 DEF OnceInv

LEMMA ReplyCbkOnce ==
  ASSUME RefInv, OnceInv, NEW c \in Call, ReplyCbk(c)
  PROVE  OnceInv'
<1>0. /\ UNCHANGED <<unw, apc, tpc, lockfop, sstate>> /\ c \in inprog
      /\ inprog' = inprog \ {c} /\ Deliver(c, TRUE)
      /\ CallsOK /\ ListsOK /\ Once(c)
  BY DEF ReplyCbk, OnceInv, transport
<1>1. /\ c \notin Elems(conn.sf) /\ c \notin Elems(conn.lk_sf)
      /\ ~Waits(c) /\ \A t \in Thread : c \notin Elems(unw[t])
  BY <1>0 DEF Once, Apart, Saved, Unwound
<1>2. /\ SameFrames(conn, conn') /\ answer' \in [App -> Seq(BOOLEAN)]
      /\ c \in App => Len(answer'[c]) = 1
      /\ \A d \in App : d # c => answer'[d] = answer[d]
  BY <1>0, DeliverOnce DEF Due
<1>3. ListsOK' BY <1>0, <1>2 DEF ListsOK, SameFrames
<1>4. CallsOK' BY <1>0, <1>2 DEF CallsOK
<1>5. Unwinding' BY <1>0, SameUnwinding
<1>6. ASSUME NEW d \in Call, d # c PROVE Once(d)'
  <2>1. Stays(d) BY <1>0, <1>2, <1>6 DEF Stays, SameFrames, Waits
  <2> QED BY <2>1, StaysOnce DEF OnceInv
<1>7. Nowhere(c)'
  BY <1>0, <1>1, <1>2 DEF Nowhere, SameFrames, Waits
<1> QED BY <1>2, <1>3, <1>4, <1>5, <1>6, <1>7, NowhereOnce DEF OnceInv

(* The first of the frames that a thread has taken                         *)
LEMMA UnwindOnce ==
  ASSUME RefInv, OnceInv, NEW t \in Thread, UnwindOne(t)
  PROVE  OnceInv'
<1>c. PICK c : c = Head(unw[t]) OBVIOUS
<1>0. /\ UNCHANGED <<inprog, apc, tpc, lockfop, sstate>> /\ unw[t] # <<>>
      /\ unw' = [unw EXCEPT ![t] = Tail(@)] /\ Deliver(c, FALSE)
      /\ CallsOK /\ ListsOK /\ Unwinding
  BY <1>c DEF UnwindOne, OnceInv, transport
<1>1. /\ unw[t] \in Seq(Call) /\ NoDup(unw[t]) /\ unw \in [Thread -> Seq(Call)]
  BY <1>0 DEF ListsOK
<1>2. /\ c \in Elems(unw[t]) /\ Tail(unw[t]) \in Seq(Call)
      /\ NoDup(Tail(unw[t])) /\ Elems(Tail(unw[t])) = Elems(unw[t]) \ {c}
  BY <1>c, <1>0, <1>1, TailElems
<1>3. c \in Call BY <1>1, <1>2, ElemsIs
<1>4. Once(c) BY <1>3 DEF OnceInv
<1>5. /\ c \notin Elems(conn.sf) /\ c \notin Elems(conn.lk_sf)
      /\ ~Waits(c) /\ c \notin inprog
      /\ \A u \in Thread : u # t => c \notin Elems(unw[u])
  BY <1>2, <1>4 DEF Once, Apart, Saved, Unwound
<1>6. Due(c) BY <1>2 DEF Due, Unwound
<1>7. /\ SameFrames(conn, conn') /\ answer' \in [App -> Seq(BOOLEAN)]
      /\ c \in App => Len(answer'[c]) = 1
      /\ \A d \in App : d # c => answer'[d] = answer[d]
  BY <1>0, <1>3, <1>6, DeliverOnce
<1>8. unw'[t] = Tail(unw[t]) /\ \A u \in Thread : u # t => unw'[u] = unw[u]
  BY <1>0, <1>1
<1>9. ListsOK'
  <2>1. unw' \in [Thread -> Seq(Call)] BY <1>0, <1>1, <1>2
  <2>2. \A u \in Thread : NoDup(unw'[u]) BY <1>0, <1>2, <1>8 DEF ListsOK
  <2> QED BY <1>0, <1>7, <2>1, <2>2 DEF ListsOK, SameFrames
<1>10. CallsOK' BY <1>0, <1>7 DEF CallsOK
<1>11. Unwinding' BY <1>0, <1>8, AppCall DEF Unwinding
<1>12. ASSUME NEW d \in Call, d # c PROVE Once(d)'
  <2>1. Stays(d)
    BY <1>0, <1>2, <1>7, <1>8, <1>12 DEF Stays, SameFrames, Waits
  <2> QED BY <2>1, StaysOnce DEF OnceInv
<1>13. Nowhere(c)'
  <2>1. \A u \in Thread : c \notin Elems(unw'[u]) BY <1>2, <1>5, <1>8
  <2> QED BY <1>0, <1>5, <1>7, <2>1 DEF Nowhere, SameFrames, Waits
<1> QED BY <1>7, <1>9, <1>10, <1>11, <1>12, <1>13, NowhereOnce DEF OnceInv

(* call_bail takes the oldest frames, none of which is a lock fop's        *)
LEMMA CallBailOnce ==
  ASSUME RefInv, OnceInv, NEW n \in 0 .. Len(conn.sf), CallBail(n)
  PROVE  OnceInv'
<1>k. PICK old, new : /\ old = [i \in 1 .. n |-> conn.sf[n + 1 - i]]
                      /\ new = SubSeq(conn.sf, n + 1, Len(conn.sf))
  OBVIOUS
<1>0. /\ UNCHANGED <<inprog, answer, apc, lockfop, sstate>> /\ tpc = "bail"
      /\ unw' = [unw EXCEPT !["timer"] = old] /\ tpc' = "bailed"
      /\ CallsOK /\ ListsOK /\ Unwinding
  BY <1>k DEF CallBail, OnceInv, transport
<1>1. conn'.sf = new /\ conn'.lk_sf = conn.lk_sf
  <2>1. /\ conn' = [BailRearm(conn) EXCEPT !.sf = SubSeq(@, n + 1, Len(@))]
        /\ ConnOK(BailRearm(conn)) /\ SameFrames(conn, BailRearm(conn))
    BY BailRearmIs DEF CallBail, RefInv
  <2> QED BY <1>k, <2>1 DEF ConnOK, Fields, SameFrames
<1>2. /\ old \in Seq(Call) /\ NoDup(old) /\ new \in Seq(Call) /\ NoDup(new)
      /\ Elems(conn.sf) = Elems(old) \cup Elems(new)
      /\ Elems(old) \cap Elems(new) = {}
  <2>1. conn.sf \in Seq(Call) /\ NoDup(conn.sf) BY <1>0 DEF ListsOK
  <2> DEFINE o == [i \in 1 .. n |-> conn.sf[n + 1 - i]]
             m == SubSeq(conn.sf, n + 1, Len(conn.sf))
  <2>2. /\ o \in Seq(Call) /\ NoDup(o) /\ m \in Seq(Call) /\ NoDup(m)
        /\ Elems(conn.sf) = Elems(o) \cup Elems(m)
        /\ Elems(o) \cap Elems(m) = {}
    BY <2>1, CutElems
  <2>3. old = o /\ new = m BY <1>k
  <2> HIDE DEF o, m
  <2> QED BY <2>2, <2>3
<1>3. unw["timer"] = <<>> /\ unw \in [Thread -> Seq(Call)]
  BY <1>0 DEF Unwinding, ListsOK
<1>4. /\ unw'["timer"] = old
      /\ \A u \in Thread : u # "timer" => unw'[u] = unw[u]
  BY <1>0, <1>3, AppCall
<1>5. ListsOK'
  <2>1. unw' \in [Thread -> Seq(Call)] BY <1>0, <1>2, <1>3, AppCall
  <2>2. \A u \in Thread : NoDup(unw'[u]) BY <1>0, <1>2, <1>4 DEF ListsOK
  <2> QED BY <1>0, <1>1, <1>2, <2>1, <2>2 DEF ListsOK
<1>6. CallsOK' BY <1>0 DEF CallsOK
<1>7. Unwinding' BY <1>0, <1>4, AppCall DEF Unwinding
<1>8. ASSUME NEW c \in Call, c \notin Elems(old) PROVE Once(c)'
  <2>1. \A u \in Thread : c \in Elems(unw'[u]) <=> c \in Elems(unw[u])
    BY <1>3, <1>4, <1>8, EmptyElems
  <2>2. Stays(c) BY <1>0, <1>1, <1>2, <1>8, <2>1 DEF Stays, Waits
  <2> QED BY <2>2, StaysOnce DEF OnceInv
<1>9. ASSUME NEW c \in Call, c \in Elems(old) PROVE Once(c)'
  <2>1. Once(c) /\ c \in Elems(conn.sf) /\ c \notin Elems(new)
    BY <1>2, <1>9 DEF OnceInv
  <2>2. Saved(conn, c) BY <2>1 DEF Saved
  <2>3. /\ ~Waits(c) /\ c \notin inprog /\ c \notin Elems(conn.lk_sf)
        /\ \A u \in Thread : c \notin Elems(unw[u])
    BY <2>1, <2>2 DEF Once, Apart, Unwound
  <2>4. \A u \in Thread : c \in Elems(unw'[u]) <=> u = "timer"
    BY <1>4, <1>9, <2>3
  <2>5. Apart(c)' BY <1>0, <1>1, <2>1, <2>3, <2>4 DEF Apart, Saved, Waits
  <2>6. Due(c) /\ Due(c)' BY <2>2, <2>4, AppCall DEF Due, Unwound
  <2> QED BY <1>0, <2>1, <2>5, <2>6, MovedOnce
<1> QED BY <1>5, <1>6, <1>7, <1>8, <1>9 DEF OnceInv

(* rpc_clnt_connection_cleanup takes all of them                           *)
LEMMA CleanupOnce ==
  ASSUME RefInv, OnceInv, NEW s \in Sock, CleanupSection(s),
         sstate[s] \notin {"quick", "unwind"},
         NEW x \in {"quick", "unwind"}, sstate' = [sstate EXCEPT ![s] = x],
         UNCHANGED <<inprog, answer, apc, tpc, lockfop>>
  PROVE  OnceInv'
<1>k. PICK all : all = Taken(conn) OBVIOUS
<1>0. /\ unw' = [unw EXCEPT ![s] = all] /\ conn' = Cleanup(conn)
      /\ CallsOK /\ ListsOK /\ Unwinding
  BY <1>k DEF CleanupSection, OnceInv
<1>1. conn'.sf = <<>> /\ conn'.lk_sf = <<>>
  BY <1>0, CleanupIs DEF RefInv
<1>2. /\ all \in Seq(Call) /\ NoDup(all)
      /\ Elems(all) = Elems(conn.lk_sf) \cup Elems(conn.sf)
  <2>1. /\ conn.sf \in Seq(Call) /\ NoDup(conn.sf)
        /\ conn.lk_sf \in Seq(App) /\ NoDup(conn.lk_sf)
    BY <1>0 DEF ListsOK
  <2>2. conn.lk_sf \in Seq(Call)
    <3>1. App \subseteq Call BY AppCall
    <3> QED BY <2>1, <3>1, SMT
  <2>3. Elems(conn.sf) \subseteq Call BY <2>1, ElemsIs
  <2>4. Elems(conn.lk_sf) \cap Elems(conn.sf) = {}
    BY <2>3 DEF OnceInv, Once, Apart
  <2>5. /\ conn.lk_sf \o conn.sf \in Seq(Call) /\ NoDup(conn.lk_sf \o conn.sf)
        /\ Elems(conn.lk_sf \o conn.sf) = Elems(conn.lk_sf) \cup Elems(conn.sf)
    BY <2>1, <2>2, <2>4, ConcatElems, SMT
  <2> QED BY <1>k, <2>5 DEF Taken
<1>3. unw[s] = <<>> /\ unw \in [Thread -> Seq(Call)] /\ s \in Thread
  BY <1>0, AppCall DEF Unwinding, ListsOK
<1>4. unw'[s] = all /\ \A u \in Thread : u # s => unw'[u] = unw[u]
  BY <1>0, <1>3
<1>5. ListsOK'
  <2>1. unw' \in [Thread -> Seq(Call)] BY <1>0, <1>2, <1>3
  <2>2. \A u \in Thread : NoDup(unw'[u]) BY <1>0, <1>2, <1>4 DEF ListsOK
  <2>3. /\ <<>> \in Seq(Call) /\ <<>> \in Seq(App) BY SMT
  <2> QED BY <1>1, <2>1, <2>2, <2>3, EmptyElems DEF ListsOK
<1>6. CallsOK' BY <1>0 DEF CallsOK
<1>7. Unwinding' BY <1>0, <1>3, <1>4, AppCall DEF Unwinding, RefInv, SockOK
<1>8. ASSUME NEW c \in Call, ~Saved(conn, c) PROVE Once(c)'
  <2>1. \A u \in Thread : c \in Elems(unw'[u]) <=> c \in Elems(unw[u])
    BY <1>2, <1>3, <1>4, <1>8, EmptyElems DEF Saved
  <2>2. Stays(c) BY <1>1, <1>8, <2>1, EmptyElems DEF Stays, Waits, Saved
  <2> QED BY <2>2, StaysOnce DEF OnceInv
<1>9. ASSUME NEW c \in Call, Saved(conn, c) PROVE Once(c)'
  <2>1. Once(c) /\ c \in Elems(all) BY <1>2, <1>9 DEF OnceInv, Saved
  <2>2. /\ ~Waits(c) /\ c \notin inprog
        /\ \A u \in Thread : c \notin Elems(unw[u])
    BY <1>9, <2>1 DEF Once, Apart, Unwound
  <2>3. \A u \in Thread : c \in Elems(unw'[u]) <=> u = s
    BY <1>4, <2>1, <2>2
  <2>4. ~Saved(conn, c)' /\ c \notin Elems(conn'.sf)
    BY <1>1, EmptyElems DEF Saved
  <2>5. Apart(c)' BY <2>2, <2>3, <2>4 DEF Apart, Waits
  <2>6. Due(c) /\ Due(c)' BY <1>3, <1>9, <2>3 DEF Due, Unwound
  <2> QED BY <2>1, <2>5, <2>6, MovedOnce
<1> QED BY <1>5, <1>6, <1>7, <1>8, <1>9 DEF OnceInv

LEMMA SocketOnce ==
  ASSUME RefInv, OnceInv, NEW s \in Sock,
         ConnectFinish(s) \/ SetConnected(s) \/ PollErr(s) \/ Closing(s)
  PROVE  OnceInv'
<1>0. CallsOK /\ SockOK BY DEF OnceInv, RefInv
<1>1. ASSUME UNCHANGED <<answers, apc, tpc, lockfop>>, SameFrames(conn, conn'),
             \A u \in Sock : \/ sstate'[u] = sstate[u]
                             \/ sstate[u] \notin {"quick", "unwind"}
                             \/ unw[u] = <<>>
      PROVE  OnceInv'
  <2>1. Unwinding' BY <1>1, SameUnwinding DEF answers
  <2>2. CallsOK' BY <1>0, <1>1 DEF CallsOK, answers
  <2>3. \A c \in Call : Waits(c)' <=> Waits(c) BY <1>1 DEF Waits
  <2> QED BY <1>1, <2>1, <2>2, <2>3, QuietOnce
<1>2. CASE ConnectFinish(s) \/ SetConnected(s) \/ PollErr(s)
  <2>1. UNCHANGED <<answers, apc, tpc, lockfop>>
    BY <1>2 DEF ConnectFinish, SetConnected, PollErr
  <2>2. SameFrames(conn, conn')
    BY <1>2
       DEF ConnectFinish, SetConnected, PollErr, SameFrames, RefInv, ConnOK,
           Fields
  <2>3. \A u \in Sock : \/ sstate'[u] = sstate[u]
                        \/ sstate[u] \notin {"quick", "unwind"}
    <3>1. sstate[s] \notin {"quick", "unwind"}
      BY <1>0, <1>2, RpcAssumption
         DEF ConnectFinish, SetConnected, PollErr, SockOK
    <3>2. sstate' = sstate \/ \E x : sstate' = [sstate EXCEPT ![s] = x]
      BY <1>2 DEF ConnectFinish, SetConnected, PollErr
    <3> QED BY <1>0, <3>1, <3>2 DEF SockOK
  <2> QED BY <1>1, <2>1, <2>2, <2>3
<1>3. CASE Notify(s) \/ PostNotify(s)
  <2>1. /\ UNCHANGED <<inprog, answer, apc, tpc, lockfop>>
        /\ sstate[s] \notin {"quick", "unwind"}
    BY <1>3 DEF Notify, PostNotify
  <2>2. CASE UNCHANGED <<conn, unw>>
    <3>1. \E x : sstate' = [sstate EXCEPT ![s] = x]
      BY <1>3 DEF Notify, PostNotify
    <3>2. \A u \in Sock : sstate'[u] = sstate[u] \/ u = s
      BY <1>0, <3>1 DEF SockOK
    <3> QED BY <1>1, <2>1, <2>2, <3>2 DEF SameFrames, answers
  <2>3. CASE /\ CleanupSection(s)
             /\ \E x \in {"quick", "unwind"} :
                    sstate' = [sstate EXCEPT ![s] = x]
    BY <2>1, <2>3, CleanupOnce
  <2> QED BY <1>3, <2>2, <2>3 DEF Notify, PostNotify
<1>4. CASE QuickEnable(s) \/ RearmReconnect(s)
  <2>1. /\ UNCHANGED <<answers, apc, tpc, lockfop>> /\ unw[s] = <<>>
        /\ \E x : sstate' = [sstate EXCEPT ![s] = x]
    BY <1>4 DEF QuickEnable, RearmReconnect
  <2>2. \A u \in Sock : sstate'[u] = sstate[u] \/ u = s
    BY <1>0, <2>1 DEF SockOK
  <2>3. SameFrames(conn, conn')
    BY <1>4
       DEF QuickEnable, RearmReconnect, SameFrames, RefInv, Ref, ConnOK, Fields
  <2> QED BY <1>1, <2>1, <2>2, <2>3
<1>5. CASE QuickStart(s)
  <2> DEFINE f == [sstate EXCEPT ![s] = "rearm"]
  <2>1. /\ sstate[s] = "restart" /\ ConnectIf(Retry(conn), f)
        /\ Retry(conn) \in BOOLEAN /\ conn' = ReconnectSection(conn)
        /\ UNCHANGED <<answers, apc, tpc, lockfop>>
    BY <1>5 DEF QuickStart, Retry
  <2>2. /\ f \in [Sock -> SockState]
        /\ \A u \in Sock : u # s => f[u] = sstate[u]
        /\ \A u \in Unused : f[u] = "none"
    BY <1>0, <2>1 DEF SockOK, SockState, Unused
  <2> HIDE DEF f
  <2>3. \A u \in Sock : \/ sstate'[u] = f[u]
                        \/ f[u] = "none" /\ sstate'[u] = "connecting"
    BY <2>1, <2>2, ConnectIs
  <2>4. \A u \in Sock : \/ sstate'[u] = sstate[u]
                        \/ sstate[u] \notin {"quick", "unwind"}
    BY <2>1, <2>2, <2>3
  <2>5. SameFrames(conn, conn') BY <2>1, ReconnectSectionIs DEF RefInv
  <2> QED BY <1>1, <2>1, <2>4, <2>5
<1> QED BY <1>2, <1>3, <1>4, <1>5 DEF Closing

LEMMA TimerOnce ==
  ASSUME RefInv, OnceInv,
         \/ \E kind \in {"bail", "reconnect", "ping"} : Fire(kind)
         \/ BailEnd \/ Reconnect \/ PingSubmitted \/ PingExpired
         \/ PingDisconnect \/ Start \/ Disable \/ UNCHANGED vars
         \/ \E c \in Call : CheckPing(c) \/ Serve(c)
  PROVE  OnceInv'
<1>0. CallsOK /\ SockOK /\ ConnOK(conn) BY DEF OnceInv, RefInv
<1>1. UNCHANGED <<answers, lockfop>>
  BY DEF Fire, BailEnd, Reconnect, PingSubmitted, PingExpired,
         PingDisconnect, Start, Disable, CheckPing, Serve, vars
<1>2. tpc' = tpc \/ tpc # "bailed" \/ unw["timer"] = <<>>
  <2>1. CASE PingSubmitted BY <2>1, RpcAssumption DEF PingSubmitted
  <2> QED BY <2>1 DEF Fire, BailEnd, Reconnect, PingExpired, PingDisconnect,
         Start, Disable, CheckPing, Serve, vars
<1>3. \A s \in Sock : \/ sstate'[s] = sstate[s]
                      \/ sstate[s] \notin {"quick", "unwind"}
  <2>1. CASE sstate' = sstate BY <2>1
  <2>2. CASE Shut BY <1>0, <2>2 DEF Shut, SockOK
  <2>3. CASE ConnectIf(Retry(conn), sstate) \/ SocketConnect(sstate)
    <3>1. \A s \in Sock : sstate'[s] = sstate[s] \/ sstate[s] = "none"
      BY <1>0, <2>3, ConnectIs DEF SockOK, Unused, Retry
    <3> QED BY <3>1
  <2> QED BY <2>1, <2>2, <2>3
          DEF Fire, BailEnd, Reconnect, PingSubmitted, PingExpired,
              PingDisconnect, Start, Disable, CheckPing, Serve, vars, transport
<1>4. SameFrames(conn, conn')
  <2>1. CASE conn' = conn BY <2>1 DEF SameFrames
  <2>2. ASSUME NEW kind, Fire(kind) PROVE SameFrames(conn, conn')
    BY <1>0, <2>2 DEF Fire, SameFrames, ConnOK, Fields
  <2>3. CASE BailEnd
    BY <1>0, <2>3, SMT DEF BailEnd, Ref, SameFrames, ConnOK, Fields
  <2>4. CASE Reconnect BY <1>0, <2>4, ReconnectSectionIs DEF Reconnect
  <2>5. CASE PingExpired
    BY <1>0, <2>5, RearmedIs, UnstartedIs
       DEF PingExpired, PingReset, SameButPing
  <2>6. CASE Start
    <3>1. ConnOK(Ref(conn, 1)) /\ SameFrames(conn, Ref(conn, 1))
      BY <1>0, RefIs, SMT
    <3>2. SameFrames(Ref(conn, 1), conn')
      BY <2>6, <3>1, ReconnectSectionIs DEF Start
    <3> QED BY <3>1, <3>2 DEF SameFrames
  <2>7. CASE Disable BY <1>0, <2>7, DisabledIs DEF Disable
  <2> QED BY <2>1, <2>2, <2>3, <2>4, <2>5, <2>6, <2>7
          DEF PingSubmitted, PingDisconnect, CheckPing, Serve, vars
<1>5. CallsOK' /\ \A c \in Call : Waits(c)' <=> Waits(c)
  <2>1. CASE apc' = apc BY <1>0, <1>1, <2>1 DEF CallsOK, Waits, answers
  <2>2. ASSUME NEW c \in Call, CheckPing(c)
        PROVE  CallsOK' /\ \A d \in Call : Waits(d)' <=> Waits(d)
    <3>1. /\ apc \in [Call -> {"new", "check", "start", "fail", "off"}]
          /\ apc[c] = "check"
          /\ \E x \in {"off", "start"} : apc' = [apc EXCEPT ![c] = x]
      BY <1>0, <2>2 DEF CheckPing, CallsOK
    <3>2. CallsOK' BY <1>0, <1>1, <3>1 DEF CallsOK, answers
    <3> QED BY <3>1, <3>2 DEF Waits
  <2> QED BY <2>1, <2>2
          DEF Fire, BailEnd, Reconnect, PingSubmitted, PingExpired,
              PingDisconnect, Start, Disable, Serve, vars
<1>6. Unwinding' BY <1>1, <1>2, <1>3, SameUnwinding DEF answers
<1> QED BY <1>1, <1>4, <1>5, <1>6, QuietOnce

LEMMA NextOnceInv ==
  ASSUME RefInv, OnceInv, [Next]_vars
  PROVE  OnceInv'
<1>1. ASSUME NEW c \in Call,
             Calling(c) \/ Serve(c) \/ HandleReply(c) \/ ReplyCbk(c)
      PROVE  OnceInv'
  BY <1>1, SubmitOnce, PingOnce, SubmitFailedOnce, HandleReplyOnce,
     ReplyCbkOnce, TimerOnce DEF Calling
<1>2. CASE TimerStep
  BY <1>2, CallBailOnce, PingOnce, TimerOnce DEF TimerStep
<1>3. CASE \/ \E kind \in {"bail", "reconnect", "ping"} : Fire(kind)
           \/ Start \/ Disable \/ UNCHANGED vars
  BY <1>3, TimerOnce
<1> QED BY <1>1, <1>2, <1>3, SocketOnce, UnwindOnce DEF Next

----------------------------------------------------------------------------
(* The properties                                                          *)

LOCAL FT == INSTANCE FiniteSetTheorems

(* The finite sets of the library are those of the model.                  *)
LEMMA SameCount ==
  ASSUME NEW S
  PROVE  /\ FT!Cardinality(S) = Cardinality(S)
         /\ FT!IsFiniteSet(S) <=> IsFiniteSet(S)
BY DEF FT!Cardinality, FT!IsFiniteSet, Cardinality, IsFiniteSet

LEMMA SocketsCounted == Counted
<1>1. Cardinality({}) = 0 BY FT!FS_EmptySet, SameCount
<1>2. ASSUME NEW S \in SUBSET Sock
      PROVE  IsFiniteSet(S) /\ Cardinality(S) \in Nat
  <2>1. IsFiniteSet(S) BY RpcAssumption, FT!FS_Subset, SameCount
  <2> QED BY <2>1, FT!FS_CardinalityType, SameCount
<1>3. ASSUME NEW S \in SUBSET Sock, NEW s \in Sock
      PROVE  IF s \in S THEN Cardinality(S \ {s}) = Cardinality(S) - 1
                        ELSE Cardinality(S \cup {s}) = Cardinality(S) + 1
  <2>1. FT!IsFiniteSet(S) BY <1>2, SameCount
  <2>2. CASE s \in S
    <3>1. FT!Cardinality(S \ {s}) = FT!Cardinality(S) - 1
      BY <2>1, <2>2, FT!FS_RemoveElement
    <3> QED BY <2>2, <3>1, SameCount
  <2>3. CASE s \notin S
    <3>1. FT!Cardinality(S \cup {s}) = FT!Cardinality(S) + 1
      BY <2>1, <2>3, FT!FS_AddElement
    <3> QED BY <2>3, <3>1, SameCount
  <2> QED BY <2>2, <2>3
<1> QED BY <1>1, <1>2, <1>3 DEF Counted

(* conn never points at a timer that gf_timer_proc has freed, whatever     *)
(* cancels, re-arms and clears it while its callback waits for conn->lock. *)
THEOREM TimersAreLive == Spec => []NoFreedTimer
<1>1. RefInv => NoFreedTimer BY DEF RefInv
<1>2. Init => RefInv BY SocketsCounted, InitRefInv
<1> QED BY <1>1, <1>2, NextRefInv, PTL DEF Spec

(* Every unref that is still to come is covered by a reference: the client *)
(* is not freed under a timer, a callback or a poller.                     *)
THEOREM RefsAreCovered == Spec => []RefCovers
<1>1. RefInv => RefCovers
  <2> SUFFICES ASSUME RefInv PROVE RefCovers OBVIOUS
  <2>1. Cardinality(Restarting) \in Nat BY RestartingCount DEF RefInv
  <2>2. Users = 1 + Cancelled(conn.timer) + Cancelled(conn.reconnect)
                  + Owns(conn.ping_timer) + Running + Cardinality(Restarting)
    BY DEF Users, Running, Restarting
  <2> QED BY <2>1, <2>2, SMT DEF RefInv, Covered, Spare, RefCovers, ConnOK,
             Cancelled, Owns, Running
<1>2. Init => RefInv BY SocketsCounted, InitRefInv
<1> QED BY <1>1, <1>2, NextRefInv, PTL DEF Spec

(* The reconnect chain is never lost: when no socket is left and no poller *)
(* is at work, an enabled client has its reconnect timer armed, however    *)
(* disconnects, quick reconnects and late cleanups overlap.                *)
THEOREM ChainIsKept == Spec => []ChainAlive
<1>1. RefInv /\ ChainInv => ChainAlive
  BY DEF RefInv, ChainInv, ChainAlive, ConnOK, NoFreedTimer
<1>2. Init => RefInv /\ ChainInv BY SocketsCounted, InitRefInv, InitChainInv
<1>3. RefInv /\ ChainInv /\ [Next]_vars => (RefInv /\ ChainInv)'
  BY NextRefInv, NextChainInv
<1> QED BY <1>1, <1>2, <1>3, PTL DEF Spec

(* No callback of a reply runs after the disconnect of its connection was  *)
(* reported: notify.in_progress holds the report back.                     *)
THEOREM AnswersFirst == Spec => []AnswersBeforeDown
<1>1. ReplyInv => AnswersBeforeDown BY DEF ReplyInv, AnswersBeforeDown, Open
<1>2. Init => RefInv /\ ReplyInv
  BY SocketsCounted, InitRefInv DEF Init, ReplyInv
<1>3. RefInv /\ ReplyInv /\ [Next]_vars => (RefInv /\ ReplyInv)'
  <2> SUFFICES ASSUME RefInv, ReplyInv, [Next]_vars PROVE ReplyInv'
    BY NextRefInv
  <2> QED BY CallReplies, SocketReplies, OtherReplies DEF Next
<1> QED BY <1>1, <1>2, <1>3, PTL DEF Spec

(* Every call is answered exactly once, by the reply, by the bail-out      *)
(* timer, by the cleanup of a connection that went down or by its own      *)
(* failed submission, however these race: until the callback runs exactly  *)
(* one of them holds the frame, and afterwards none does.                  *)
THEOREM CallsAnsweredOnce == Spec => []AnsweredOnce
<1>1. ASSUME OnceInv PROVE AnsweredOnce
  <2> SUFFICES ASSUME NEW c \in App
               PROVE  Has(apc[c] \in {"new", "fail"}) + Has(Saved(conn, c))
                        + Has(c \in inprog)
                        + Cardinality({t \in Thread : c \in Elems(unw[t])})
                      = 1 - Len(answer[c])
    BY DEF AnsweredOnce
  <2> DEFINE U == {t \in Thread : c \in Elems(unw[t])}
  <2>1. Once(c) BY <1>1, AppCall DEF OnceInv
  <2>2. Cardinality(U) = IF Unwound(c) THEN 1 ELSE 0
    <3>1. CASE Unwound(c)
      <4>1. PICK t \in Thread : c \in Elems(unw[t]) BY <3>1 DEF Unwound
      <4>2. U = {t} BY <2>1, <4>1 DEF Once, Apart
      <4>3. FT!Cardinality({t}) = 1 BY FT!FS_Singleton
      <4> QED BY <3>1, <4>2, <4>3, SameCount
    <3>2. CASE ~Unwound(c)
      <4>1. U = {} BY <3>2 DEF Unwound
      <4> QED BY <3>2, <4>1, SocketsCounted DEF Counted
    <3> QED BY <3>1, <3>2
  <2> HIDE DEF U
  <2>3. Len(answer[c]) = IF Due(c) THEN 0 ELSE 1 BY <2>1 DEF Once
  <2>4. /\ Waits(c) => ~Saved(conn, c) /\ c \notin inprog /\ ~Unwound(c)
        /\ Saved(conn, c) => c \notin inprog /\ ~Unwound(c)
        /\ c \in inprog => ~Unwound(c)
    BY <2>1 DEF Once, Apart
  <2>5. Has(Waits(c)) + Has(Saved(conn, c)) + Has(c \in inprog)
          + Cardinality(U) = 1 - Len(answer[c])
    BY <2>2, <2>3, <2>4, SMT DEF Has, Due
  <2> QED BY <2>5 DEF Waits, U
<1>2. Init => RefInv /\ OnceInv BY SocketsCounted, InitRefInv, InitOnceInv
<1>3. RefInv /\ OnceInv /\ [Next]_vars => (RefInv /\ OnceInv)'
  BY NextRefInv, NextOnceInv
<1> QED BY <1>1, <1>2, <1>3, PTL DEF Spec
============================================================================
