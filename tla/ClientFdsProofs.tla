-------------------------- MODULE ClientFdsProofs --------------------------
(***************************************************************************)
(* HeldOnce and RemoteFdFresh for any number of files, connections and     *)
(* reopen attempts.  Neither is inductive: where a context is follows from *)
(* its reopen_done and remote_fd, and that a good answer belongs to the    *)
(* present connection follows from the order in which a poller closes one. *)
(* NoServerLeak, when files are opened after the handshake, from a count   *)
(* of who will release what the server holds.                              *)
(***************************************************************************)
EXTENDS ClientFds, FiniteSetTheorems, TLAPS

(* Leaves are first-order reasoning unless they cite SMT.                  *)
USE Zenon

CtxRec == [alive : BOOLEAN, remote_fd : Nat,
           reopen_done : {"default", "child_up", "single"},
           released : BOOLEAN, attempts : Nat]
CallRec == [st : {"none", "sent", "served", "unw", "cbk", "counted"},
            kind : {"none", "open", "reopen"}, s : Nat, ok : BOOLEAN,
            by : {"none", "submit", "reply", "unwind"}, last : BOOLEAN]

Types ==
  /\ cur \in Nat /\ saved_fds \subseteq Fd /\ todo \subseteq Fd
  /\ fdctx \in [Fd -> CtxRec] /\ call \in [Fd -> CallRec]

(* The list of client_post_handshake is walked within one connection       *)
WalkOK == /\ hs \notin {"count", "reopen"} => todo = {}
          /\ net = "down" => hs = "none"

(* Where a context is                                                      *)
Placed(f) ==
  /\ f \in saved_fds <=> (fdctx[f].alive /\ fdctx[f].reopen_done = "default")
  /\ (f \in todo \/ call[f].kind = "reopen")
       <=> (fdctx[f].alive /\ fdctx[f].reopen_done # "default")
  /\ ~(f \in todo /\ call[f].kind = "reopen")
  /\ (~fdctx[f].alive \/ fdctx[f].reopen_done # "default")
       => fdctx[f].remote_fd = Bad
  /\ call[f].kind = "open" => ~fdctx[f].alive
  /\ call[f].st = "counted" => call[f].kind = "reopen"

(* A call under way and a good answer are of this connection               *)
Current(c) ==
  /\ c.st \in {"sent", "served", "cbk", "counted"}
  /\ c.by \notin {"unwind", "submit"} /\ c.s = cur /\ net # "down"

Answered(f) == (call[f].st = "sent" \/ call[f].ok) => Current(call[f])

Fresh(f) ==
  fdctx[f].remote_fd # Bad => fdctx[f].remote_fd = cur /\ net # "down"

FdInv == /\ Types /\ WalkOK
         /\ \A f \in Fd : Placed(f) /\ Answered(f) /\ Fresh(f)

----------------------------------------------------------------------------
LEMMA InitFdInv == Init => FdInv
BY SMT DEF Init, FdInv, Types, WalkOK, Placed, Answered, Current, Fresh,
       NoCtx, NoCall, CtxRec, CallRec, Bad

(* An fd no part of which changes                                          *)
LEMMA SameFd ==
  ASSUME NEW f \in Fd, Placed(f), Answered(f), Fresh(f),
         fdctx'[f] = fdctx[f], call'[f] = call[f],
         f \in saved_fds' <=> f \in saved_fds, f \in todo' <=> f \in todo,
         cur' = cur, net' = "down" => net = "down"
  PROVE  Placed(f)' /\ Answered(f)' /\ Fresh(f)'
BY SMT DEF Placed, Answered, Current, Fresh

(* The steps of the connection and of the handshake that touch no fd       *)
LEMMA LinkStep ==
  ASSUME FdInv, UNCHANGED <<files, call, todo>>,
         \/ Connect \/ PollErr \/ Ping \/ SetvolumeRefused \/ SetvolumeUnwound
         \/ SetvolumeCbk \/ CountFds \/ HandshakeDone \/ NotifyUp
         \/ \E ok \in BOOLEAN : ServeSetvolume(ok)
         \/ \E f \in Fd : FdctxDestroy(f)
  PROVE  FdInv'
<1> USE DEF FdInv
<1>1. CASE Connect
  <2>1. Types' BY <1>1, SMT DEF Types, Connect, files
  <2>2. WalkOK' BY <1>1 DEF WalkOK, Connect
  <2>3. \A f \in Fd : (Placed(f) /\ Answered(f) /\ Fresh(f))'
    BY <1>1 DEF Connect, Placed, Answered, Current, Fresh, files
  <2> QED BY <2>1, <2>2, <2>3
<1>2. CASE ~Connect
  <2>1. cur' = cur /\ (net' = "down" => net = "down")
    BY <1>2 DEF PollErr, Ping, SetvolumeRefused, SetvolumeUnwound,
       SetvolumeFailed, SetvolumeCbk, CountFds, HandshakeDone, NotifyUp,
       ServeSetvolume, FdctxDestroy, link
  <2>2. WalkOK'
    BY <1>2 DEF WalkOK, PollErr, Ping, SetvolumeRefused, SetvolumeUnwound,
       SetvolumeFailed, SetvolumeCbk, CountFds, HandshakeDone, NotifyUp,
       ServeSetvolume, FdctxDestroy, link, handshake
  <2>3. Types' BY <2>1 DEF Types, files
  <2>4. \A f \in Fd : (Placed(f) /\ Answered(f) /\ Fresh(f))'
    BY <2>1, SameFd DEF files
  <2> QED BY <2>2, <2>3, <2>4
<1> QED BY <1>1, <1>2

(* A step that changes one fd, which is then placed again                  *)
LEMMA OneFd ==
  ASSUME FdInv, NEW f \in Fd, NEW x \in CtxRec, NEW c \in CallRec,
         fdctx' = [fdctx EXCEPT ![f] = x], call' = [call EXCEPT ![f] = c],
         saved_fds' \subseteq Fd, todo' \subseteq todo,
         saved_fds' \ {f} = saved_fds \ {f}, todo' \ {f} = todo \ {f},
         UNCHANGED <<link, hs>>, (Placed(f) /\ Answered(f) /\ Fresh(f))'
  PROVE  FdInv'
<1> USE DEF FdInv
<1>1. Types' BY DEF Types, link
<1>2. WalkOK' BY DEF WalkOK, link
<1>3. ASSUME NEW g \in Fd, g # f PROVE (Placed(g) /\ Answered(g) /\ Fresh(g))'
  BY <1>3, SameFd DEF Types, link
<1> QED BY <1>1, <1>2, <1>3

LEMMA SubmitIs ==
  ASSUME NEW kind \in {"open", "reopen"}, cur \in Nat
  PROVE  /\ Submit(kind) \in CallRec /\ Submit(kind).kind = kind
         /\ ~Submit(kind).ok /\ Submit(kind).st \in {"sent", "cbk"}
         /\ Submit(kind).st = "sent" => Current(Submit(kind))
BY DEF Submit, NoCall, CallRec, Current

LEMMA BadCtx ==
  ASSUME NEW x \in CtxRec
  PROVE  LET y == [x EXCEPT !.remote_fd = Bad]
         IN  /\ y \in CtxRec /\ y.remote_fd = Bad /\ y.alive = x.alive
             /\ y.reopen_done = x.reopen_done
BY DEF CtxRec, Bad

LEMMA UnwoundCall ==
  ASSUME NEW c \in CallRec
  PROVE  LET d == [c EXCEPT !.st = "unw", !.ok = FALSE]
         IN  /\ d \in CallRec /\ d.kind = c.kind /\ d.st = "unw" /\ ~d.ok
BY ZenonT(60) DEF CallRec

LEMMA DisconnectStep ==
  ASSUME FdInv, Disconnect
  PROVE  FdInv'
<1> USE DEF FdInv
<1>1. /\ cur' = cur /\ saved_fds' = saved_fds /\ todo' = todo
      /\ hs' = "none" /\ net' = "down" /\ hs \notin {"count", "reopen"}
  BY DEF Disconnect, Drained
<1>2. ASSUME NEW f \in Fd
      PROVE  /\ fdctx'[f] = IF f \in saved_fds
                            THEN [fdctx[f] EXCEPT !.remote_fd = Bad]
                            ELSE fdctx[f]
             /\ call'[f] = IF call[f].st \in {"sent", "served"}
                           THEN [call[f] EXCEPT !.st = "unw", !.ok = FALSE]
                           ELSE call[f]
             /\ fdctx[f] \in CtxRec /\ call[f] \in CallRec
  BY DEF Disconnect, MarkBad, Types
<1>3. Types'
  <2>1. fdctx' = [f \in Fd |-> fdctx'[f]] /\ call' = [f \in Fd |-> call'[f]]
    BY ZenonT(60) DEF Disconnect, MarkBad
  <2>2. \A f \in Fd : fdctx'[f] \in CtxRec /\ call'[f] \in CallRec
    BY <1>2, BadCtx, UnwoundCall
  <2> QED BY <1>1, <2>1, <2>2 DEF Types
<1>4. WalkOK' BY <1>1 DEF WalkOK
<1>5. ASSUME NEW f \in Fd PROVE (Placed(f) /\ Answered(f) /\ Fresh(f))'
  <2>1. /\ fdctx'[f].alive = fdctx[f].alive
        /\ fdctx'[f].reopen_done = fdctx[f].reopen_done
        /\ fdctx'[f].remote_fd = Bad
    <3>1. CASE f \in saved_fds BY <1>2, <3>1, BadCtx, ZenonT(60)
    <3>2. CASE f \notin saved_fds
      BY <1>2, <3>2 DEF Placed
    <3> QED BY <3>1, <3>2
  <2>2. /\ call'[f].kind = call[f].kind
        /\ call'[f].st = "counted" => call[f].st = "counted"
        /\ call'[f].ok => call[f].ok /\ call[f].st \notin {"sent", "served"}
        /\ call'[f].st # "sent"
    BY <1>2, UnwoundCall, ZenonT(60)
  <2>3. ~call'[f].ok
    BY <2>2 DEF Disconnect, Drained, Running, Answered, Current
  <2> QED BY <1>1, <2>1, <2>2, <2>3 DEF Placed, Answered, Fresh
<1> QED BY <1>3, <1>4, <1>5

(* SetvolumeMark and PostHandshake: what the handshake does to the list    *)
LEMMA HandshakeStep ==
  ASSUME FdInv, SetvolumeMark \/ PostHandshake
  PROVE  FdInv'
<1> USE DEF FdInv
<1>1. CASE SetvolumeMark
  <2>1. /\ UNCHANGED <<cur, net, saved_fds, todo, call>> /\ hs' = "take"
        /\ todo = {} /\ net # "down"
    BY <1>1 DEF SetvolumeMark, link, calls, WalkOK
  <2>2. \A f \in Fd : /\ fdctx[f] \in CtxRec
                      /\ fdctx'[f] = IF f \in saved_fds
                                     THEN [fdctx[f] EXCEPT !.remote_fd = Bad]
                                     ELSE fdctx[f]
    BY <1>1 DEF SetvolumeMark, MarkBad, Types
  <2>3. Types'
    <3>1. fdctx' = [f \in Fd |-> fdctx'[f]] BY <1>1 DEF SetvolumeMark, MarkBad
    <3>2. \A f \in Fd : fdctx'[f] \in CtxRec BY <2>2, BadCtx
    <3> QED BY <2>1, <3>1, <3>2 DEF Types
  <2>4. WalkOK' BY <2>1 DEF WalkOK
  <2>5. ASSUME NEW f \in Fd PROVE (Placed(f) /\ Answered(f) /\ Fresh(f))'
    <3>1. /\ fdctx'[f].alive = fdctx[f].alive
          /\ fdctx'[f].reopen_done = fdctx[f].reopen_done
          /\ fdctx'[f].remote_fd \in {Bad, fdctx[f].remote_fd}
      BY <2>2, BadCtx
    <3> QED BY <2>1, <3>1 DEF Placed, Answered, Current, Fresh
  <2> QED BY <2>3, <2>4, <2>5
<1>2. CASE PostHandshake
  <2> DEFINE bad == {f \in saved_fds : fdctx[f].remote_fd = Bad}
  <2>1. /\ UNCHANGED <<cur, net, call>> /\ hs' \in {"done", "count"}
        /\ hs' = "done" => bad = {}
        /\ todo = {} /\ net # "down" /\ todo' = bad
        /\ saved_fds' = saved_fds \ bad
    BY <1>2 DEF PostHandshake, link, calls, WalkOK
  <2>2. \A f \in Fd : /\ fdctx[f] \in CtxRec
                      /\ fdctx'[f] = IF f \in bad
                           THEN [fdctx[f] EXCEPT !.reopen_done = "child_up"]
                           ELSE fdctx[f]
    BY <1>2 DEF PostHandshake, Types
  <2>3. Types'
    <3>1. fdctx' = [f \in Fd |-> fdctx'[f]] BY <1>2 DEF PostHandshake
    <3>2. \A f \in Fd : fdctx'[f] \in CtxRec BY <2>2, ZenonT(60) DEF CtxRec
    <3> QED BY <2>1, <3>1, <3>2 DEF Types
  <2>4. WalkOK' BY <2>1 DEF WalkOK
  <2>5. ASSUME NEW f \in Fd PROVE (Placed(f) /\ Answered(f) /\ Fresh(f))'
    <3>1. /\ fdctx'[f].alive = fdctx[f].alive
          /\ fdctx'[f].remote_fd = fdctx[f].remote_fd
          /\ fdctx'[f].reopen_done = IF f \in bad THEN "child_up"
                                     ELSE fdctx[f].reopen_done
      BY <2>2 DEF CtxRec
    <3>2. f \in bad <=> f \in saved_fds /\ fdctx[f].remote_fd = Bad
      OBVIOUS
    <3> HIDE DEF bad
    <3> QED BY <2>1, <3>1, <3>2 DEF Placed, Answered, Current, Fresh
  <2> QED BY <2>3, <2>4, <2>5
<1> QED BY <1>1, <1>2

(* The calls: these steps move no context                                  *)
LEMMA CallOnly ==
  ASSUME FdInv, NEW f \in Fd, NEW d \in CallRec,
         call' = [call EXCEPT ![f] = d], UNCHANGED <<link, hs, todo, files>>,
         d.kind = call[f].kind, d.st = "counted" => d.kind = "reopen",
         (d.st = "sent" \/ d.ok) => Current(d)
  PROVE  FdInv'
<1>1. /\ fdctx[f] \in CtxRec /\ Placed(f) /\ Answered(f) /\ Fresh(f) /\ Types
      /\ fdctx' = [fdctx EXCEPT ![f] = fdctx[f]] /\ call'[f] = d
  BY DEF FdInv, Types, files
<1>2. (Placed(f) /\ Answered(f) /\ Fresh(f))'
  BY <1>1, SMT DEF Placed, Answered, Fresh, Current, files, link
<1>3. saved_fds' = saved_fds /\ saved_fds \subseteq Fd /\ todo' = todo
  BY <1>1 DEF files, Types
<1> QED BY <1>1, <1>2, <1>3, OneFd

LEMMA CallStep ==
  ASSUME FdInv, NEW f \in Fd,
         Reply(f) \/ Unwind(f) \/ ReopenCbk(f)
         \/ \E ok \in BOOLEAN : ServeOpen(f, ok)
  PROVE  FdInv'
<1>1. call[f] \in CallRec /\ call \in [Fd -> CallRec] /\ Answered(f)
  BY DEF FdInv, Types
<1>2. UNCHANGED <<link, hs, todo, files>>
  BY DEF Reply, Unwind, ReopenCbk, ServeOpen, handshake
<1>3. CASE Reply(f)
  <2> DEFINE d == [call[f] EXCEPT !.st = "cbk", !.by = "reply"]
  <2>1. /\ d \in CallRec /\ d.kind = call[f].kind /\ d.st = "cbk"
        /\ d.ok = call[f].ok /\ d.by = "reply" /\ d.s = call[f].s
    BY <1>1 DEF CallRec
  <2>2. call' = [call EXCEPT ![f] = d] BY <1>1, <1>3 DEF Reply, CallRec
  <2> HIDE DEF d
  <2>3. d.ok => Current(d) BY <1>1, <2>1 DEF Answered, Current
  <2> QED BY <1>2, <2>1, <2>2, <2>3, CallOnly
<1>4. CASE Unwind(f)
  <2> DEFINE d == [call[f] EXCEPT !.st = "cbk", !.by = "unwind"]
  <2>1. /\ d \in CallRec /\ d.kind = call[f].kind /\ d.st = "cbk"
        /\ d.ok = call[f].ok
    BY <1>1 DEF CallRec
  <2>2. call' = [call EXCEPT ![f] = d] BY <1>1, <1>4 DEF Unwind, CallRec
  <2> HIDE DEF d
  <2>3. ~d.ok BY <1>1, <1>4, <2>1 DEF Unwind, Answered, Current
  <2> QED BY <1>2, <2>1, <2>2, <2>3, CallOnly
<1>5. CASE ReopenCbk(f)
  <2>1. PICK last \in BOOLEAN :
          call' = [call EXCEPT ![f].st = "counted", ![f].last = last]
    <3>1. CASE fdctx[f].reopen_done = "child_up"
      BY <1>5, <3>1 DEF ReopenCbk
    <3>2. CASE fdctx[f].reopen_done # "child_up"
      <4>1. call[f].last \in BOOLEAN BY <1>1 DEF CallRec
      <4>2. call' = [call EXCEPT ![f].st = "counted", ![f].last = call[f].last]
        BY <1>1, <1>5, <3>2 DEF ReopenCbk, CallRec
      <4> QED BY <4>1, <4>2
    <3> QED BY <3>1, <3>2
  <2> DEFINE d == [call[f] EXCEPT !.st = "counted", !.last = last]
  <2>2. /\ d \in CallRec /\ d.kind = call[f].kind /\ d.st = "counted"
        /\ d.ok = call[f].ok /\ d.by = call[f].by /\ d.s = call[f].s
    BY <1>1 DEF CallRec
  <2>3. call' = [call EXCEPT ![f] = d] BY <1>1, <2>1 DEF CallRec
  <2> HIDE DEF d
  <2>4. d.ok => Current(d) BY <1>1, <2>2 DEF Answered, Current
  <2>5. d.kind = "reopen" BY <1>5, <2>2 DEF ReopenCbk
  <2> QED BY <1>2, <2>2, <2>3, <2>4, <2>5, CallOnly
<1>6. ASSUME NEW ok \in BOOLEAN, ServeOpen(f, ok) PROVE FdInv'
  <2> DEFINE d == [call[f] EXCEPT !.st = "served", !.ok = ok]
  <2>1. /\ d \in CallRec /\ d.kind = call[f].kind /\ d.st = "served"
        /\ d.by = call[f].by /\ d.s = call[f].s
    BY <1>1 DEF CallRec
  <2>2. call' = [call EXCEPT ![f] = d]
    BY <1>1, <1>6, ZenonT(60) DEF ServeOpen, CallRec
  <2> HIDE DEF d
  <2>3. Current(d) BY <1>1, <1>6, <2>1 DEF ServeOpen, Answered, Current
  <2> QED BY <1>2, <2>1, <2>2, <2>3, CallOnly
<1> QED BY <1>3, <1>4, <1>5, <1>6

LEMMA NoneIs ==
  /\ NoCall \in CallRec /\ NoCall.kind = "none" /\ NoCall.st = "none"
  /\ ~NoCall.ok
  /\ NoCtx \in CtxRec /\ ~NoCtx.alive /\ NoCtx.remote_fd = Bad
BY DEF NoCall, NoCtx, CallRec, CtxRec, Bad

LEMMA OpenCbkStep ==
  ASSUME FdInv, NEW f \in Fd, OpenCbk(f)
  PROVE  FdInv'
<1>1. /\ fdctx[f] \in CtxRec /\ call[f] \in CallRec /\ Types
      /\ Placed(f) /\ Answered(f) /\ Fresh(f)
  BY DEF FdInv, Types
<1>2. /\ UNCHANGED <<link, hs, todo>> /\ call' = [call EXCEPT ![f] = NoCall]
      /\ call[f].kind = "open" /\ cur' = cur /\ net' = net /\ call'[f] = NoCall
  BY <1>1 DEF OpenCbk, handshake, link, Types
<1>3. ~fdctx[f].alive /\ f \notin saved_fds /\ f \notin todo
  BY <1>1, <1>2 DEF Placed
<1>4. CASE call[f].ok
  <2> DEFINE x == [NoCtx EXCEPT !.alive = TRUE, !.remote_fd = call[f].s]
  <2>1. /\ x \in CtxRec /\ x.alive /\ x.remote_fd = call[f].s
        /\ x.reopen_done = "default"
    BY <1>1 DEF CtxRec, NoCtx, CallRec
  <2>2. fdctx' = [fdctx EXCEPT ![f] = x] /\ saved_fds' = saved_fds \cup {f}
    BY <1>4 DEF OpenCbk
  <2> HIDE DEF x
  <2>3. fdctx'[f] = x /\ f \in saved_fds' BY <1>1, <2>2 DEF Types
  <2>4. call[f].s = cur /\ net # "down" BY <1>1, <1>4 DEF Answered, Current
  <2>5. Placed(f)' BY <1>2, <1>3, <2>1, <2>3, NoneIs DEF Placed
  <2>6. Answered(f)' BY <1>2, NoneIs DEF Answered
  <2>7. Fresh(f)' BY <1>2, <2>1, <2>3, <2>4 DEF Fresh
  <2>8. /\ saved_fds' \subseteq Fd /\ saved_fds' \ {f} = saved_fds \ {f}
    BY <1>1, <2>2 DEF Types
  <2> QED BY <1>2, <2>1, <2>2, <2>5, <2>6, <2>7, <2>8, NoneIs, OneFd
<1>5. CASE ~call[f].ok
  <2>1. /\ fdctx' = [fdctx EXCEPT ![f] = fdctx[f]] /\ fdctx'[f] = fdctx[f]
        /\ saved_fds' = saved_fds
    BY <1>1, <1>5 DEF OpenCbk, files, Types
  <2>2. (Placed(f) /\ Answered(f) /\ Fresh(f))'
    BY <1>1, <1>2, <1>3, <2>1, NoneIs DEF Placed, Answered, Fresh
  <2> QED BY <1>1, <1>2, <2>1, <2>2, NoneIs, OneFd DEF Types
<1> QED BY <1>4, <1>5

LEMMA ReopenDoneStep ==
  ASSUME FdInv, NEW f \in Fd, ReopenDone(f)
  PROVE  FdInv'
<1>1. /\ fdctx[f] \in CtxRec /\ call[f] \in CallRec /\ Types
      /\ Placed(f) /\ Answered(f) /\ Fresh(f)
  BY DEF FdInv, Types
<1>2. /\ UNCHANGED <<link, hs, todo>> /\ call' = [call EXCEPT ![f] = NoCall]
      /\ call[f].st = "counted" /\ cur' = cur /\ net' = net
      /\ call'[f] = NoCall
  BY <1>1 DEF ReopenDone, handshake, link, Types
<1>3. fdctx[f].alive /\ f \notin saved_fds /\ f \notin todo
  BY <1>1, <1>2 DEF Placed
<1>4. CASE Destroy(f)
  <2>1. /\ fdctx' = [fdctx EXCEPT ![f] = NoCtx] /\ saved_fds' = saved_fds
        /\ fdctx'[f] = NoCtx
    BY <1>1, <1>4 DEF ReopenDone, Types
  <2>2. (Placed(f) /\ Answered(f) /\ Fresh(f))'
    BY <1>2, <1>3, <2>1, NoneIs DEF Placed, Answered, Fresh
  <2> QED BY <1>1, <1>2, <2>1, <2>2, NoneIs, OneFd DEF Types
<1>5. CASE ~Destroy(f)
  <2> DEFINE rfd == IF call[f].ok THEN call[f].s ELSE Bad
             x == [fdctx[f] EXCEPT !.remote_fd = rfd,
                     !.reopen_done = "default", !.attempts = 0]
  <2>1. rfd \in Nat /\ (rfd # Bad => rfd = cur /\ net # "down")
    BY <1>1 DEF CallRec, Answered, Current, Bad
  <2>2. fdctx' = [fdctx EXCEPT ![f] = x] /\ saved_fds' = saved_fds \cup {f}
    BY <1>1, <1>5 DEF ReopenDone, Types, CtxRec
  <2> HIDE DEF rfd
  <2>3. /\ x \in CtxRec /\ x.alive = fdctx[f].alive /\ x.remote_fd = rfd
        /\ x.reopen_done = "default"
    BY <1>1, <2>1 DEF CtxRec
  <2> HIDE DEF x
  <2>4. fdctx'[f] = x /\ f \in saved_fds' BY <1>1, <2>2 DEF Types
  <2>5. Placed(f)' BY <1>2, <1>3, <2>3, <2>4, NoneIs DEF Placed
  <2>6. Answered(f)' BY <1>2, NoneIs DEF Answered
  <2>7. Fresh(f)' BY <1>2, <2>1, <2>3, <2>4 DEF Fresh
  <2>8. /\ saved_fds' \subseteq Fd /\ saved_fds' \ {f} = saved_fds \ {f}
    BY <1>1, <2>2 DEF Types
  <2> QED BY <1>2, <2>2, <2>3, <2>5, <2>6, <2>7, <2>8, NoneIs, OneFd
<1> QED BY <1>4, <1>5

(* The calls a fop or the handshake submits                                *)
LEMMA SubmitStep ==
  ASSUME FdInv, NEW f \in Fd, Open(f) \/ ReopenNext(f)
  PROVE  FdInv'
<1>1. /\ fdctx[f] \in CtxRec /\ Types
      /\ Placed(f) /\ Answered(f) /\ Fresh(f)
  BY DEF FdInv, Types
<1>2. /\ UNCHANGED <<link, hs>> /\ cur' = cur /\ net' = net
      /\ fdctx' = [fdctx EXCEPT ![f] = fdctx[f]] /\ fdctx'[f] = fdctx[f]
      /\ saved_fds' = saved_fds
  BY <1>1 DEF Open, ReopenNext, handshake, link, files, Types
<1>3. PICK kind \in {"open", "reopen"} :
        /\ call' = [call EXCEPT ![f] = Submit(kind)]
        /\ call'[f] = Submit(kind)
        /\ kind = "open" => /\ ~fdctx[f].alive /\ todo' = todo
                            /\ f \notin todo
        /\ kind = "reopen" => f \in todo /\ todo' = todo \ {f}
  <2>1. CASE Open(f)
    <3>1. ~fdctx[f].alive /\ todo' = todo BY <2>1 DEF Open, handshake
    <3>2. f \notin todo BY <1>1, <3>1 DEF Placed
    <3> QED BY <1>1, <2>1, <3>1, <3>2 DEF Open, Types
  <2>2. CASE ReopenNext(f) BY <1>1, <2>2 DEF ReopenNext, Types
  <2> QED BY <2>1, <2>2
<1>4. /\ Submit(kind) \in CallRec /\ Submit(kind).kind = kind
      /\ ~Submit(kind).ok /\ Submit(kind).st \in {"sent", "cbk"}
      /\ Submit(kind).st = "sent" => Current(Submit(kind))
  BY <1>1, SubmitIs DEF Types
<1>5. Placed(f)'
  BY <1>1, <1>2, <1>3, <1>4 DEF Placed
<1>6. Answered(f)' BY <1>2, <1>3, <1>4 DEF Answered, Current
<1>7. Fresh(f)' BY <1>1, <1>2 DEF Fresh
<1>8. todo' \subseteq todo /\ todo' \ {f} = todo \ {f} BY <1>3
<1> QED
  BY <1>1, <1>2, <1>3, <1>4, <1>5, <1>6, <1>7, <1>8, OneFd DEF Types

LEMMA AttemptReopenStep ==
  ASSUME FdInv, NEW f \in Fd, AttemptReopen(f)
  PROVE  FdInv'
<1>1. /\ fdctx[f] \in CtxRec /\ call[f] \in CallRec /\ Types
      /\ Placed(f) /\ Answered(f) /\ Fresh(f)
  BY DEF FdInv, Types
<1>2. /\ UNCHANGED <<link, hs, todo>> /\ cur' = cur /\ net' = net
      /\ fdctx[f].alive /\ fdctx[f].reopen_done = "default"
      /\ fdctx[f].remote_fd = Bad
  BY DEF AttemptReopen, handshake, link
<1>3. f \in saved_fds /\ f \notin todo BY <1>1, <1>2 DEF Placed
<1>4. CASE Exhausted(f)
  <2> DEFINE x == [fdctx[f] EXCEPT !.reopen_done = "single"]
             c == Submit("reopen")
  <2>1. /\ x \in CtxRec /\ x.alive = fdctx[f].alive /\ x.remote_fd = Bad
        /\ x.reopen_done = "single"
    BY <1>1, <1>2 DEF CtxRec
  <2>2. /\ fdctx' = [fdctx EXCEPT ![f] = x] /\ saved_fds' = saved_fds \ {f}
        /\ call' = [call EXCEPT ![f] = c]
    BY <1>1, <1>4 DEF AttemptReopen, Types, CtxRec
  <2>3. /\ c \in CallRec /\ c.kind = "reopen" /\ ~c.ok
        /\ c.st \in {"sent", "cbk"} /\ c.st = "sent" => Current(c)
    BY <1>1, SubmitIs DEF Types
  <2> HIDE DEF x, c
  <2>4. fdctx'[f] = x /\ call'[f] = c /\ f \notin saved_fds'
    BY <1>1, <2>2 DEF Types
  <2>5. Placed(f)' BY <1>2, <1>3, <2>1, <2>3, <2>4 DEF Placed
  <2>6. Answered(f)' BY <1>2, <2>3, <2>4 DEF Answered, Current
  <2>7. Fresh(f)' BY <2>1, <2>4 DEF Fresh
  <2>8. /\ saved_fds' \subseteq Fd /\ saved_fds' \ {f} = saved_fds \ {f}
    BY <1>1, <2>2 DEF Types
  <2> QED BY <1>2, <2>1, <2>2, <2>3, <2>5, <2>6, <2>7, <2>8, OneFd
<1>5. CASE ~Exhausted(f)
  <2> DEFINE x == [fdctx[f] EXCEPT !.attempts = @ + 1]
  <2>1. /\ x \in CtxRec /\ x.alive = fdctx[f].alive /\ x.remote_fd = Bad
        /\ x.reopen_done = "default"
    <3> DEFINE n == fdctx[f].attempts + 1
    <3>1. n \in Nat BY <1>1, SMT DEF CtxRec
    <3>2. x = [fdctx[f] EXCEPT !.attempts = n] OBVIOUS
    <3> HIDE DEF n
    <3> QED BY <1>1, <1>2, <3>1, <3>2 DEF CtxRec
  <2>2. /\ fdctx' = [fdctx EXCEPT ![f] = x] /\ saved_fds' = saved_fds
        /\ call' = [call EXCEPT ![f] = call[f]] /\ call' = call
    BY <1>1, <1>5 DEF AttemptReopen, Types, CtxRec, calls
  <2> HIDE DEF x
  <2>3. fdctx'[f] = x BY <1>1, <2>2 DEF Types
  <2>4. (Placed(f) /\ Answered(f) /\ Fresh(f))'
    BY <1>1, <1>2, <2>1, <2>2, <2>3 DEF Placed, Answered, Current, Fresh
  <2> QED BY <1>1, <1>2, <2>1, <2>2, <2>4, OneFd DEF Types
<1> QED BY <1>4, <1>5

LEMMA ReleaseStep ==
  ASSUME FdInv, NEW f \in Fd, Release(f)
  PROVE  FdInv'
<1>1. /\ fdctx[f] \in CtxRec /\ call[f] \in CallRec /\ Types
      /\ Placed(f) /\ Answered(f) /\ Fresh(f)
  BY DEF FdInv, Types
<1>2. /\ UNCHANGED <<link, hs, todo>> /\ cur' = cur /\ net' = net
      /\ fdctx[f].alive /\ call' = call /\ call' = [call EXCEPT ![f] = call[f]]
  BY <1>1 DEF Release, handshake, link, calls, Types
<1>3. CASE Reopening(f)
  <2> DEFINE x == [fdctx[f] EXCEPT !.released = TRUE]
  <2>1. /\ x \in CtxRec /\ x.alive = fdctx[f].alive
        /\ x.remote_fd = fdctx[f].remote_fd
        /\ x.reopen_done = fdctx[f].reopen_done
    BY <1>1 DEF CtxRec
  <2>2. fdctx' = [fdctx EXCEPT ![f] = x] /\ saved_fds' = saved_fds
    BY <1>1, <1>3 DEF Release, Types, CtxRec
  <2> HIDE DEF x
  <2>3. fdctx'[f] = x BY <1>1, <2>2 DEF Types
  <2>4. (Placed(f) /\ Answered(f) /\ Fresh(f))'
    BY <1>1, <1>2, <2>1, <2>2, <2>3 DEF Placed, Answered, Current, Fresh
  <2> QED BY <1>1, <1>2, <2>1, <2>2, <2>4, OneFd DEF Types
<1>4. CASE ~Reopening(f)
  <2>1. /\ fdctx' = [fdctx EXCEPT ![f] = NoCtx] /\ fdctx'[f] = NoCtx
        /\ saved_fds' = saved_fds \ {f}
    BY <1>1, <1>4 DEF Release, Types
  <2>2. fdctx[f].reopen_done = "default"
    BY <1>1, <1>4 DEF Reopening, Placed
  <2>3. f \notin todo /\ call[f].kind # "reopen"
    BY <1>1, <2>2 DEF Placed
  <2>4. Placed(f)' BY <1>1, <1>2, <2>1, <2>3, NoneIs DEF Placed
  <2>5. Answered(f)' BY <1>1, <1>2 DEF Answered, Current
  <2>6. Fresh(f)' BY <2>1, NoneIs DEF Fresh
  <2>7. /\ saved_fds' \subseteq Fd /\ saved_fds' \ {f} = saved_fds \ {f}
    BY <1>1, <2>1 DEF Types
  <2> QED BY <1>1, <1>2, <2>1, <2>4, <2>5, <2>6, <2>7, NoneIs, OneFd
<1> QED BY <1>3, <1>4

LEMMA NextFdInv ==
  ASSUME FdInv, [Next]_vars
  PROVE  FdInv'
<1>1. CASE \/ Connect \/ PollErr \/ Ping \/ SetvolumeRefused
           \/ SetvolumeUnwound \/ SetvolumeCbk \/ CountFds \/ HandshakeDone
           \/ NotifyUp \/ \E ok \in BOOLEAN : ServeSetvolume(ok)
           \/ \E f \in Fd : FdctxDestroy(f)
  <2>1. UNCHANGED <<files, call, todo>>
    BY <1>1 DEF Connect, PollErr, Ping, SetvolumeRefused, SetvolumeUnwound,
       SetvolumeFailed, SetvolumeCbk, CountFds, HandshakeDone, NotifyUp,
       ServeSetvolume, FdctxDestroy, handshake, calls
  <2> QED BY <1>1, <2>1, LinkStep
<1>2. CASE Disconnect \/ SetvolumeMark \/ PostHandshake
  BY <1>2, DisconnectStep, HandshakeStep
<1>3. ASSUME NEW f \in Fd,
             \/ Answer(f) \/ Open(f) \/ ReopenNext(f) \/ AttemptReopen(f)
             \/ Release(f) \/ \E ok \in BOOLEAN : ServeOpen(f, ok)
      PROVE  FdInv'
  BY <1>3, CallStep, OpenCbkStep, ReopenDoneStep, SubmitStep,
     AttemptReopenStep, ReleaseStep DEF Answer
<1>4. CASE UNCHANGED vars
  <2>1. UNCHANGED <<cur, net, hs, todo, fdctx, saved_fds, call>>
    BY <1>4 DEF vars, link, handshake, files, calls
  <2> QED BY <2>1 DEF FdInv, Types, WalkOK, Placed, Answered, Current, Fresh
<1> QED BY <1>1, <1>2, <1>3, <1>4 DEF Next, Handshake

(* An fd context is in the list of saved fds or belongs to one reopen call,*)
(* and a freed one is in neither, whatever is released or lost while       *)
(* client_post_handshake walks the list.                                   *)
THEOREM ContextHeldOnce == Spec => []HeldOnce
<1>1. FdInv => HeldOnce
  <2> SUFFICES ASSUME FdInv, NEW f \in Fd
      PROVE  Cardinality({p \in {"saved", "todo", "call"} :
                  \/ p = "saved" /\ f \in saved_fds
                  \/ p = "todo" /\ f \in todo
                  \/ p = "call" /\ call[f].kind = "reopen"})
             = IF fdctx[f].alive THEN 1 ELSE 0
    BY DEF HeldOnce
  <2> DEFINE held == {p \in {"saved", "todo", "call"} :
                  \/ p = "saved" /\ f \in saved_fds
                  \/ p = "todo" /\ f \in todo
                  \/ p = "call" /\ call[f].kind = "reopen"}
  <2>1. Placed(f) /\ fdctx[f].alive \in BOOLEAN
    BY DEF FdInv, Types, CtxRec
  <2>2. CASE ~fdctx[f].alive
    <3>1. f \notin saved_fds /\ f \notin todo /\ call[f].kind # "reopen"
      BY <2>1, <2>2 DEF Placed
    <3>2. held = {} BY <3>1
    <3> QED BY <2>2, <3>2, FS_EmptySet
  <2>3. CASE fdctx[f].alive
    <3>1. \E p \in {"saved", "todo", "call"} : held = {p}
      <4>1. CASE f \in saved_fds
        <5>1. f \notin todo /\ call[f].kind # "reopen"
          BY <2>1, <4>1 DEF Placed
        <5> QED BY <4>1, <5>1
      <4>2. CASE f \notin saved_fds
        <5>1. f \in todo \/ call[f].kind = "reopen"
          BY <2>1, <2>3, <4>2 DEF Placed
        <5>2. ~(f \in todo /\ call[f].kind = "reopen")
          BY <2>1 DEF Placed
        <5> QED BY <4>2, <5>1, <5>2
      <4> QED BY <4>1, <4>2
    <3>2. Cardinality(held) = 1 BY <3>1, FS_Singleton
    <3> QED BY <2>3, <3>2
  <2> QED BY <2>1, <2>2, <2>3
<1> QED BY <1>1, InitFdInv, NextFdInv, PTL DEF Spec

(* No fd number outlives its connection: one that client_get_remote_fd may *)
(* give out was opened on the connection that is up or not yet reported    *)
(* lost, for any number of reconnects.                                     *)
THEOREM RemoteFdsFresh == Spec => []RemoteFdFresh
<1>1. FdInv => RemoteFdFresh BY DEF FdInv, Fresh, RemoteFdFresh
<1> QED BY <1>1, InitFdInv, NextFdInv, PTL DEF Spec

----------------------------------------------------------------------------
(* NoServerLeak, when parents open files only after the handshake (what    *)
(* client_setvolume_cbk marks bad was then not opened on this connection). *)

Past == {"take", "count", "reopen", "done"}
Bit(b) == IF b THEN 1 ELSE 0

(* Who will release what the server holds for f                            *)
Cover(f) == Bit(fdctx[f].remote_fd = cur /\ ~fdctx[f].released)
            + Bit(call[f].ok /\ call[f].s = cur) + Bit(rel[f] = cur)

LinkOK == /\ net # "down" => cur # Bad
          /\ net = "up" => connected
          /\ handles \in [Fd -> Nat] /\ rel \in [Fd -> Nat]

(* A context that is being freed is gone, and nothing is opened on a       *)
(* connection before its handshake.                                        *)
Covered(f) ==
  /\ call[f].kind = "none" => call[f].st # "sent" /\ ~call[f].ok
  /\ call[f].st = "sent" => ~call[f].ok
  /\ rel[f] # Bad => ~fdctx[f].alive /\ call[f].kind # "open"
  /\ net = "up" /\ hs \notin Past => call[f].st # "sent" /\ handles[f] = 0
  /\ net = "down" => handles[f] = 0
  /\ net = "up" => handles[f] <= Cover(f)

LeakInv == FdInv /\ LinkOK /\ \A f \in Fd : Covered(f)

LEMMA InitLeakInv == Init => LeakInv
<1> SUFFICES ASSUME Init PROVE LeakInv
  OBVIOUS
<1>1. FdInv BY InitFdInv
<1>2. LinkOK BY DEF Init, LinkOK, Bad
<1>3. ASSUME NEW f \in Fd PROVE Covered(f)
  BY DEF Init, Covered, NoCall, NoCtx
<1> QED BY <1>1, <1>2, <1>3 DEF LeakInv

LEMMA CoverNat == ASSUME NEW f \in Fd PROVE Cover(f) \in Nat
BY SMT DEF Cover, Bit

(* An fd no part of which changes                                          *)
LEMMA SameCover ==
  ASSUME NEW f \in Fd, Covered(f), fdctx'[f] = fdctx[f], call'[f] = call[f],
         rel'[f] = rel[f], handles[f] \in Nat, handles'[f] \in Nat,
         handles'[f] <= handles[f], cur' = cur,
         net' = "up" => net = "up", net' = "down" => net = "down",
         hs \in Past => hs' \in Past \/ net' # "up"
  PROVE  Covered(f)'
<1>1. Cover(f)' = Cover(f) BY DEF Cover
<1>2. Cover(f) \in Nat BY CoverNat
<1> QED BY <1>1, <1>2, SMT DEF Covered

(* The steps that touch no fd and no file of the server                    *)
LEMMA LinkLeak ==
  ASSUME LeakInv, FdInv', UNCHANGED <<files, call, rel, handles>>,
         \/ PollErr \/ Ping \/ SetvolumeRefused \/ SetvolumeUnwound
         \/ SetvolumeCbk \/ CountFds \/ HandshakeDone \/ NotifyUp
         \/ \E ok \in BOOLEAN : ServeSetvolume(ok)
  PROVE  LeakInv'
<1>1. /\ cur' = cur /\ (net' = "up" => net = "up") /\ (net' = "down" <=> net = "down")
      /\ hs \in Past => hs' \in Past \/ net' # "up"
      /\ connected' = connected \/ connected' = TRUE
  BY DEF PollErr, Ping, SetvolumeRefused, SetvolumeUnwound, SetvolumeFailed,
     SetvolumeCbk, CountFds, HandshakeDone, NotifyUp, ServeSetvolume, link,
     handshake, Past
<1>2. LinkOK' BY <1>1, SMT DEF LeakInv, LinkOK
<1>3. ASSUME NEW f \in Fd PROVE Covered(f)'
  <2>1. Covered(f) /\ handles[f] \in Nat BY DEF LeakInv, LinkOK
  <2>2. /\ fdctx'[f] = fdctx[f] /\ call'[f] = call[f] /\ rel'[f] = rel[f]
        /\ handles'[f] = handles[f]
    BY DEF files
  <2> QED BY <1>1, <2>1, <2>2, SameCover, SMT
<1> QED BY <1>2, <1>3 DEF LeakInv

LEMMA ConnectLeak ==
  ASSUME LeakInv, FdInv', Connect
  PROVE  LeakInv'
<1>1. /\ net = "down" /\ net' = "up" /\ cur' = cur + 1 /\ connected' = TRUE
      /\ rel' = rel /\ handles' = handles /\ fdctx' = fdctx /\ call' = call
      /\ cur \in Nat
  BY DEF Connect, files, calls, LeakInv, FdInv, Types
<1>2. LinkOK' BY <1>1, SMT DEF LeakInv, LinkOK, Bad
<1>3. ASSUME NEW f \in Fd PROVE Covered(f)'
  <2>1. Covered(f) /\ handles[f] = 0 /\ call[f].st # "sent"
    BY <1>1 DEF LeakInv, Covered, FdInv, Answered, Current
  <2>2. Cover(f)' \in Nat BY SMT DEF Cover, Bit
  <2> QED BY <1>1, <2>1, <2>2, SMT DEF Covered
<1> QED BY <1>2, <1>3 DEF LeakInv

LEMMA DisconnectLeak ==
  ASSUME LeakInv, FdInv', Disconnect
  PROVE  LeakInv'
<1>1. /\ net' = "down" /\ rel' = rel /\ handles' = [f \in Fd |-> 0]
  BY DEF Disconnect
<1>2. LinkOK' BY <1>1 DEF LeakInv, LinkOK
<1>3. ASSUME NEW f \in Fd PROVE Covered(f)'
  <2>1. /\ fdctx'[f] = IF f \in saved_fds
                       THEN [fdctx[f] EXCEPT !.remote_fd = Bad]
                       ELSE fdctx[f]
        /\ call'[f] = IF call[f].st \in {"sent", "served"}
                      THEN [call[f] EXCEPT !.st = "unw", !.ok = FALSE]
                      ELSE call[f]
        /\ fdctx[f] \in CtxRec /\ call[f] \in CallRec
    BY DEF Disconnect, MarkBad, LeakInv, FdInv, Types
  <2>2. fdctx'[f].alive = fdctx[f].alive
    BY <2>1, BadCtx
  <2>3. /\ call'[f].kind = call[f].kind /\ call'[f].st # "sent"
        /\ call'[f].ok => call[f].ok
    BY <2>1, UnwoundCall, ZenonT(60)
  <2>4. Covered(f) BY DEF LeakInv
  <2>5. handles'[f] = 0 /\ rel'[f] = rel[f] BY <1>1
  <2> QED BY <1>1, <2>2, <2>3, <2>4, <2>5 DEF Covered
<1> QED BY <1>2, <1>3 DEF LeakInv

(* SetvolumeMark finds nothing open on this connection                     *)
LEMMA MarkLeak ==
  ASSUME LeakInv, FdInv', SetvolumeMark
  PROVE  LeakInv'
<1>1. /\ hs = "mark" /\ hs' = "take" /\ net' = net /\ cur' = cur
      /\ connected' = connected /\ call' = call /\ rel' = rel
      /\ handles' = handles
  BY DEF SetvolumeMark, link, calls
<1>2. LinkOK' BY <1>1 DEF LeakInv, LinkOK
<1>3. ASSUME NEW f \in Fd PROVE Covered(f)'
  <2>1. /\ fdctx[f] \in CtxRec
        /\ fdctx'[f] = IF f \in saved_fds
                       THEN [fdctx[f] EXCEPT !.remote_fd = Bad]
                       ELSE fdctx[f]
    BY DEF SetvolumeMark, MarkBad, LeakInv, FdInv, Types
  <2>2. fdctx'[f].alive = fdctx[f].alive
    BY <2>1, BadCtx, SMT
  <2>3. Covered(f) BY DEF LeakInv
  <2>4. Cover(f)' \in Nat BY SMT DEF Cover, Bit
  <2> QED BY <1>1, <2>2, <2>3, <2>4, SMT DEF Covered, Past
<1> QED BY <1>2, <1>3 DEF LeakInv

LEMMA PostLeak ==
  ASSUME LeakInv, FdInv', PostHandshake
  PROVE  LeakInv'
<1>1. /\ hs = "take" /\ hs' \in {"done", "count"} /\ net' = net /\ cur' = cur
      /\ connected' = connected /\ call' = call /\ rel' = rel
      /\ handles' = handles
  BY DEF PostHandshake, link, calls
<1>2. LinkOK' BY <1>1 DEF LeakInv, LinkOK
<1>3. ASSUME NEW f \in Fd PROVE Covered(f)'
  <2>1. /\ fdctx[f] \in CtxRec
        /\ \/ fdctx'[f] = fdctx[f]
           \/ fdctx'[f] = [fdctx[f] EXCEPT !.reopen_done = "child_up"]
    BY DEF PostHandshake, LeakInv, FdInv, Types
  <2>2. /\ fdctx'[f].alive = fdctx[f].alive
        /\ fdctx'[f].remote_fd = fdctx[f].remote_fd
        /\ fdctx'[f].released = fdctx[f].released
    BY <2>1 DEF CtxRec
  <2>3. Covered(f) BY DEF LeakInv
  <2>4. Cover(f)' = Cover(f) BY <1>1, <2>2 DEF Cover
  <2> QED BY <1>1, <2>2, <2>3, <2>4 DEF Covered, Past
<1> QED BY <1>2, <1>3 DEF LeakInv

(* A step of one fd on a connection that stays as it is                    *)
LEMMA OneCover ==
  ASSUME LeakInv, FdInv', NEW f \in Fd, UNCHANGED <<link, hs, connected>>,
         handles' \in [Fd -> Nat], rel' \in [Fd -> Nat],
         \A g \in Fd \ {f} : /\ fdctx'[g] = fdctx[g] /\ call'[g] = call[g]
                             /\ rel'[g] = rel[g] /\ handles'[g] <= handles[g],
         Covered(f)'
  PROVE  LeakInv'
<1>1. net' = net /\ cur' = cur /\ hs' = hs BY DEF link
<1>2. LinkOK' BY <1>1 DEF LeakInv, LinkOK
<1>3. ASSUME NEW g \in Fd, g # f PROVE Covered(g)'
  <2>1. Covered(g) /\ handles[g] \in Nat /\ handles'[g] \in Nat
    BY DEF LeakInv, LinkOK
  <2> QED BY <1>1, <1>3, <2>1, SameCover
<1> QED BY <1>2, <1>3 DEF LeakInv

(* The answers on their way                                                *)
LEMMA AnswerLeak ==
  ASSUME LeakInv, FdInv', NEW f \in Fd, Reply(f) \/ Unwind(f) \/ ReopenCbk(f)
  PROVE  LeakInv'
<1>1. /\ call[f] \in CallRec /\ call \in [Fd -> CallRec] /\ Covered(f)
      /\ handles \in [Fd -> Nat] /\ rel \in [Fd -> Nat]
  BY DEF LeakInv, FdInv, Types, LinkOK
<1>2. /\ UNCHANGED <<link, hs, connected, fdctx, rel, handles>>
      /\ net' = net /\ cur' = cur
  BY DEF Reply, Unwind, ReopenCbk, handshake, files, link
<1>3. /\ call'[f].st # "sent" /\ call'[f].ok = call[f].ok
      /\ call'[f].s = call[f].s /\ call'[f].kind = call[f].kind
      /\ \A g \in Fd \ {f} : call'[g] = call[g]
  <2>1. CASE Reply(f) BY <1>1, <2>1, ZenonT(60) DEF Reply, CallRec
  <2>2. CASE Unwind(f) BY <1>1, <2>2, ZenonT(60) DEF Unwind, CallRec
  <2>3. CASE ReopenCbk(f)
    <3>1. CASE fdctx[f].reopen_done = "child_up"
      <4>1. PICK last :
              call' = [call EXCEPT ![f].st = "counted", ![f].last = last]
        BY <2>3, <3>1 DEF ReopenCbk
      <4> QED BY <1>1, <4>1, ZenonT(60) DEF CallRec
    <3>2. CASE fdctx[f].reopen_done # "child_up"
      <4>1. call' = [call EXCEPT ![f].st = "counted"]
        BY <2>3, <3>2 DEF ReopenCbk
      <4> QED BY <1>1, <4>1, ZenonT(60) DEF CallRec
    <3> QED BY <3>1, <3>2
  <2> QED BY <2>1, <2>2, <2>3
<1>4. Cover(f)' = Cover(f) BY <1>2, <1>3 DEF Cover
<1>5. Covered(f)' BY <1>1, <1>2, <1>3, <1>4 DEF Covered
<1>6. \A g \in Fd \ {f} : /\ fdctx'[g] = fdctx[g] /\ call'[g] = call[g]
                          /\ rel'[g] = rel[g] /\ handles'[g] <= handles[g]
  BY <1>1, <1>2, <1>3, SMT
<1> QED BY <1>1, <1>2, <1>5, <1>6, OneCover

LEMMA ServeLeak ==
  ASSUME LeakInv, FdInv', NEW f \in Fd, NEW ok \in BOOLEAN, ServeOpen(f, ok)
  PROVE  LeakInv'
<1>1. /\ call[f] \in CallRec /\ call \in [Fd -> CallRec] /\ Covered(f)
      /\ handles \in [Fd -> Nat] /\ rel \in [Fd -> Nat] /\ Answered(f)
  BY DEF LeakInv, FdInv, Types, LinkOK
<1>2. /\ UNCHANGED <<link, hs, connected, fdctx, rel>>
      /\ net' = net /\ cur' = cur /\ net = "up" /\ call[f].st = "sent"
      /\ handles' = [handles EXCEPT ![f] = IF ok THEN @ + 1 ELSE @]
  BY DEF ServeOpen, handshake, files, link
<1>3. /\ call'[f].st = "served" /\ call'[f].ok = ok
      /\ call'[f].s = call[f].s /\ call'[f].kind = call[f].kind
      /\ \A g \in Fd \ {f} : call'[g] = call[g]
  BY <1>1, ZenonT(60) DEF ServeOpen, CallRec
<1>4. ~call[f].ok /\ call[f].kind # "none"
  BY <1>1, <1>2 DEF Covered
<1>5. call[f].s = cur /\ hs \in Past
  BY <1>1, <1>2 DEF Answered, Current, Covered
<1>6. Cover(f)' = IF ok THEN Cover(f) + 1 ELSE Cover(f)
  BY <1>2, <1>3, <1>4, <1>5, SMT DEF Cover, Bit
<1>7. Cover(f) \in Nat /\ handles[f] <= Cover(f) /\ handles[f] \in Nat
  BY <1>1, <1>2, CoverNat DEF Covered
<1>8. handles'[f] <= Cover(f)'
  BY <1>1, <1>2, <1>6, <1>7, SMT
<1>9. Covered(f)'
  BY <1>1, <1>2, <1>3, <1>4, <1>5, <1>8 DEF Covered
<1>10. \A g \in Fd \ {f} : /\ fdctx'[g] = fdctx[g] /\ call'[g] = call[g]
                           /\ rel'[g] = rel[g] /\ handles'[g] <= handles[g]
  BY <1>1, <1>2, <1>3, SMT
<1>11. handles' \in [Fd -> Nat] BY <1>1, <1>2, SMT
<1> QED BY <1>1, <1>2, <1>9, <1>10, <1>11, OneCover

LEMMA SubmitLeak ==
  ASSUME LeakInv, FdInv', OpenAfterHandshake, NEW f \in Fd,
         Open(f) \/ ReopenNext(f)
  PROVE  LeakInv'
<1>1. /\ call \in [Fd -> CallRec] /\ cur \in Nat /\ Covered(f) /\ Placed(f)
      /\ handles \in [Fd -> Nat] /\ rel \in [Fd -> Nat]
  BY DEF LeakInv, FdInv, Types, LinkOK
<1>2. /\ UNCHANGED <<link, hs, connected, fdctx, rel, handles>>
      /\ net' = net /\ cur' = cur
  BY DEF Open, ReopenNext, handshake, files, link
<1>3. /\ call'[f].ok = FALSE /\ call'[f].kind \in {"open", "reopen"}
      /\ \A g \in Fd \ {f} : call'[g] = call[g]
      /\ hs \in Past /\ ~call[f].ok
      /\ rel[f] # Bad => call'[f].kind # "open"
  <2>1. CASE Open(f)
    <3>1. /\ call' = [call EXCEPT ![f] = Submit("open")] /\ rel[f] = Bad
          /\ call[f] = NoCall
      BY <2>1 DEF Open
    <3>2. Submit("open").kind = "open" /\ ~Submit("open").ok
      BY <1>1, SubmitIs
    <3>3. call'[f] = Submit("open") BY <1>1, <3>1
    <3>4. hs = "done" BY <3>1, <3>2, <3>3, NoneIs DEF OpenAfterHandshake
    <3> QED BY <1>1, <3>1, <3>2, <3>3, <3>4, NoneIs, SMT DEF Past
  <2>2. CASE ReopenNext(f)
    <3>1. /\ call' = [call EXCEPT ![f] = Submit("reopen")] /\ f \in todo
          /\ hs = "reopen"
      BY <2>2 DEF ReopenNext
    <3>2. Submit("reopen").kind = "reopen" /\ ~Submit("reopen").ok
      BY <1>1, SubmitIs
    <3>3. call'[f] = Submit("reopen") BY <1>1, <3>1
    <3>4. call[f].kind # "reopen" /\ call[f].kind # "open"
      BY <1>1, <3>1 DEF Placed
    <3>5. ~call[f].ok BY <1>1, <3>4 DEF CallRec, Covered
    <3> QED BY <1>1, <3>1, <3>2, <3>3, <3>5, SMT DEF Past
  <2> QED BY <2>1, <2>2
<1>4. Cover(f)' = Cover(f) BY <1>2, <1>3 DEF Cover
<1>5. Covered(f)' BY <1>1, <1>2, <1>3, <1>4 DEF Covered
<1>6. \A g \in Fd \ {f} : /\ fdctx'[g] = fdctx[g] /\ call'[g] = call[g]
                          /\ rel'[g] = rel[g] /\ handles'[g] <= handles[g]
  BY <1>1, <1>2, <1>3, SMT
<1> QED BY <1>1, <1>2, <1>5, <1>6, OneCover

LEMMA AttemptLeak ==
  ASSUME LeakInv, FdInv', NEW f \in Fd, AttemptReopen(f)
  PROVE  LeakInv'
<1>1. /\ call \in [Fd -> CallRec] /\ fdctx \in [Fd -> CtxRec] /\ cur \in Nat
      /\ Covered(f) /\ Placed(f) /\ handles \in [Fd -> Nat]
      /\ rel \in [Fd -> Nat] /\ (net = "up" => cur # Bad)
      /\ fdctx[f] \in CtxRec
  BY DEF LeakInv, FdInv, Types, LinkOK
<1>2. /\ UNCHANGED <<link, hs, connected, rel, handles>> /\ net' = net
      /\ cur' = cur /\ hs \in Past /\ fdctx[f].alive
      /\ fdctx[f].reopen_done = "default" /\ fdctx[f].remote_fd = Bad
  BY DEF AttemptReopen, handshake, link, Past
<1>3. /\ fdctx'[f].alive /\ fdctx'[f].remote_fd = Bad
      /\ \A g \in Fd \ {f} : fdctx'[g] = fdctx[g]
  <2>1. CASE Exhausted(f)
    <3>1. fdctx' = [fdctx EXCEPT ![f].reopen_done = "single"]
      BY <2>1 DEF AttemptReopen
    <3> QED BY <1>1, <1>2, <3>1, ZenonT(60) DEF CtxRec
  <2>2. CASE ~Exhausted(f)
    <3>1. PICK n : fdctx' = [fdctx EXCEPT ![f].attempts = n]
      BY <2>2 DEF AttemptReopen
    <3> QED BY <1>1, <1>2, <3>1, ZenonT(60) DEF CtxRec
  <2> QED BY <2>1, <2>2
<1>4. call[f].kind # "reopen" /\ call[f].kind # "open"
  BY <1>1, <1>2 DEF Placed
<1>5. ~call[f].ok /\ call[f].kind = "none" /\ call[f].st # "sent"
  BY <1>1, <1>4 DEF CallRec, Covered
<1>6. /\ call'[f].ok = FALSE
      /\ \/ call'[f].kind = "none" /\ call'[f].st # "sent"
         \/ call'[f].kind = "reopen"
      /\ \A g \in Fd \ {f} : call'[g] = call[g]
  <2>1. CASE Exhausted(f)
    <3>1. call' = [call EXCEPT ![f] = Submit("reopen")]
      BY <2>1 DEF AttemptReopen
    <3>2. Submit("reopen").kind = "reopen" /\ Submit("reopen").ok = FALSE
      BY <1>1, SubmitIs DEF CallRec
    <3> QED BY <1>1, <3>1, <3>2
  <2>2. CASE ~Exhausted(f)
    <3>1. call' = call BY <2>2 DEF AttemptReopen, calls
    <3>2. call[f].ok = FALSE BY <1>1, <1>5 DEF CallRec
    <3> QED BY <1>5, <3>1, <3>2
  <2> QED BY <2>1, <2>2
<1>7. net = "up" => Cover(f)' = Cover(f)
  BY <1>1, <1>2, <1>3, <1>5, <1>6 DEF Cover
<1>8. rel[f] = Bad BY <1>1, <1>2 DEF Covered
<1>9. Covered(f)' BY <1>1, <1>2, <1>6, <1>7, <1>8 DEF Covered
<1>10. \A g \in Fd \ {f} : /\ fdctx'[g] = fdctx[g] /\ call'[g] = call[g]
                           /\ rel'[g] = rel[g] /\ handles'[g] <= handles[g]
  BY <1>1, <1>2, <1>3, <1>6, SMT
<1> QED BY <1>1, <1>2, <1>9, <1>10, OneCover

LEMMA ReleaseLeak ==
  ASSUME LeakInv, FdInv', NEW f \in Fd, Release(f)
  PROVE  LeakInv'
<1>1. /\ fdctx \in [Fd -> CtxRec] /\ fdctx[f] \in CtxRec /\ cur \in Nat
      /\ Covered(f) /\ Placed(f) /\ handles \in [Fd -> Nat]
      /\ rel \in [Fd -> Nat] /\ (net = "up" => cur # Bad)
  BY DEF LeakInv, FdInv, Types, LinkOK
<1>2. /\ UNCHANGED <<link, hs, connected, call, handles>> /\ net' = net
      /\ cur' = cur /\ fdctx[f].alive /\ ~fdctx[f].released
  BY DEF Release, handshake, link, calls
<1>3. rel[f] = Bad BY <1>1, <1>2 DEF Covered
<1>4. CASE Reopening(f)
  <2>1. fdctx' = [fdctx EXCEPT ![f].released = TRUE] /\ rel' = rel
    BY <1>4 DEF Release
  <2>2. /\ fdctx'[f].remote_fd = Bad /\ fdctx[f].remote_fd = Bad
        /\ \A g \in Fd \ {f} : fdctx'[g] = fdctx[g]
    BY <1>1, <1>4, <2>1, ZenonT(60) DEF CtxRec, Reopening
  <2>3. net = "up" => Cover(f)' = Cover(f)
    BY <1>1, <1>2, <2>1, <2>2 DEF Cover
  <2>4. Covered(f)' BY <1>1, <1>2, <1>3, <2>1, <2>3 DEF Covered
  <2>5. \A g \in Fd \ {f} : /\ fdctx'[g] = fdctx[g] /\ call'[g] = call[g]
                            /\ rel'[g] = rel[g] /\ handles'[g] <= handles[g]
    BY <1>1, <1>2, <2>1, <2>2, SMT
  <2> QED BY <1>1, <1>2, <2>1, <2>4, <2>5, OneCover
<1>5. CASE ~Reopening(f)
  <2>1. /\ fdctx' = [fdctx EXCEPT ![f] = NoCtx]
        /\ rel' = [rel EXCEPT ![f] = fdctx[f].remote_fd]
    BY <1>5 DEF Release
  <2>2. /\ fdctx'[f] = NoCtx /\ rel'[f] = fdctx[f].remote_fd
        /\ \A g \in Fd \ {f} : fdctx'[g] = fdctx[g] /\ rel'[g] = rel[g]
        /\ fdctx[f].remote_fd \in Nat
    BY <1>1, <2>1 DEF CtxRec
  <2>3. net = "up" => Cover(f)' = Cover(f)
    BY <1>1, <1>2, <1>3, <2>2, NoneIs, SMT DEF Cover, Bit
  <2>4. call[f].kind # "open" BY <1>1, <1>2 DEF Placed
  <2>5. Covered(f)' BY <1>1, <1>2, <2>2, <2>3, <2>4, NoneIs DEF Covered
  <2>6. rel' \in [Fd -> Nat] BY <1>1, <2>1, <2>2
  <2>7. \A g \in Fd \ {f} : /\ fdctx'[g] = fdctx[g] /\ call'[g] = call[g]
                            /\ rel'[g] = rel[g] /\ handles'[g] <= handles[g]
    BY <1>1, <1>2, <2>2, SMT
  <2> QED BY <1>1, <1>2, <2>5, <2>6, <2>7, OneCover
<1> QED BY <1>4, <1>5

LEMMA OpenCbkLeak ==
  ASSUME LeakInv, FdInv', NEW f \in Fd, OpenCbk(f)
  PROVE  LeakInv'
<1>1. /\ fdctx \in [Fd -> CtxRec] /\ call \in [Fd -> CallRec]
      /\ call[f] \in CallRec /\ cur \in Nat /\ Covered(f) /\ Placed(f)
      /\ Answered(f) /\ handles \in [Fd -> Nat] /\ rel \in [Fd -> Nat]
      /\ (net = "up" => cur # Bad)
  BY DEF LeakInv, FdInv, Types, LinkOK
<1>2. /\ UNCHANGED <<link, hs, connected, rel, handles>> /\ net' = net
      /\ cur' = cur /\ call' = [call EXCEPT ![f] = NoCall]
      /\ call[f].kind = "open"
  BY DEF OpenCbk, handshake, link
<1>3. /\ call'[f] = NoCall /\ \A g \in Fd \ {f} : call'[g] = call[g]
  BY <1>1, <1>2
<1>4. fdctx[f].remote_fd = Bad /\ rel[f] = Bad
  BY <1>1, <1>2 DEF Placed, Covered
<1>5. /\ \A g \in Fd \ {f} : fdctx'[g] = fdctx[g]
      /\ net = "up" => Cover(f)' = Cover(f)
  <2>1. CASE call[f].ok
    <3> DEFINE x == [NoCtx EXCEPT !.alive = TRUE, !.remote_fd = call[f].s]
    <3>1. x.remote_fd = call[f].s /\ ~x.released BY DEF NoCtx
    <3>2. fdctx' = [fdctx EXCEPT ![f] = x] BY <2>1 DEF OpenCbk
    <3> HIDE DEF x
    <3>3. fdctx'[f] = x /\ \A g \in Fd \ {f} : fdctx'[g] = fdctx[g]
      BY <1>1, <3>2
    <3>4. call[f].s = cur BY <1>1, <2>1 DEF Answered, Current
    <3> QED BY <1>1, <1>2, <1>3, <1>4, <2>1, <3>1, <3>3, <3>4, NoneIs, SMT
            DEF Cover, Bit
  <2>2. CASE ~call[f].ok
    <3>1. fdctx' = fdctx BY <2>2 DEF OpenCbk, files
    <3> QED BY <1>2, <1>3, <2>2, <3>1, NoneIs DEF Cover
  <2> QED BY <2>1, <2>2
<1>6. Covered(f)' BY <1>1, <1>2, <1>3, <1>4, <1>5, NoneIs DEF Covered
<1>7. \A g \in Fd \ {f} : /\ fdctx'[g] = fdctx[g] /\ call'[g] = call[g]
                          /\ rel'[g] = rel[g] /\ handles'[g] <= handles[g]
  BY <1>1, <1>2, <1>3, <1>5, SMT
<1> QED BY <1>1, <1>2, <1>6, <1>7, OneCover

(* RELEASE on this connection gives up what the freed context covered      *)
LEMMA SendReleaseIs ==
  ASSUME NEW f \in Fd, NEW r, SendRelease(f, r), handles \in [Fd -> Nat]
  PROVE  /\ handles' \in [Fd -> Nat] /\ handles'[f] <= handles[f]
         /\ \A g \in Fd \ {f} : handles'[g] = handles[g]
         /\ connected /\ net = "up" /\ r = cur /\ handles[f] > 0
              => handles'[f] = handles[f] - 1
BY SMT DEF SendRelease

LEMMA ReopenDoneLeak ==
  ASSUME LeakInv, FdInv', NEW f \in Fd, ReopenDone(f)
  PROVE  LeakInv'
<1> DEFINE rfd == IF call[f].ok THEN call[f].s ELSE Bad
<1>1. /\ fdctx \in [Fd -> CtxRec] /\ fdctx[f] \in CtxRec
      /\ call \in [Fd -> CallRec] /\ call[f] \in CallRec /\ cur \in Nat
      /\ Covered(f) /\ Placed(f) /\ Answered(f) /\ handles \in [Fd -> Nat]
      /\ rel \in [Fd -> Nat] /\ (net = "up" => cur # Bad /\ connected)
  BY DEF LeakInv, FdInv, Types, LinkOK
<1>2. /\ UNCHANGED <<link, hs, connected, rel>> /\ net' = net
      /\ cur' = cur /\ call' = [call EXCEPT ![f] = NoCall]
      /\ call[f].st = "counted"
  BY DEF ReopenDone, handshake, link
<1>3. /\ call'[f] = NoCall /\ \A g \in Fd \ {f} : call'[g] = call[g]
  BY <1>1, <1>2
<1>4. fdctx[f].alive /\ fdctx[f].remote_fd = Bad /\ rel[f] = Bad
  <2>1. fdctx[f].alive /\ fdctx[f].reopen_done # "default"
    BY <1>1, <1>2 DEF Placed
  <2> QED BY <1>1, <2>1 DEF Placed, Covered
<1>5. call[f].ok => call[f].s = cur BY <1>1 DEF Answered, Current
<1>6. CASE Destroy(f)
  <2>1. fdctx' = [fdctx EXCEPT ![f] = NoCtx] /\ SendRelease(f, rfd)
    BY <1>6 DEF ReopenDone
  <2>2. fdctx'[f] = NoCtx /\ \A g \in Fd \ {f} : fdctx'[g] = fdctx[g]
    BY <1>1, <2>1
  <2>3. /\ handles' \in [Fd -> Nat] /\ handles'[f] <= handles[f]
        /\ \A g \in Fd \ {f} : handles'[g] = handles[g]
        /\ connected /\ net = "up" /\ rfd = cur /\ handles[f] > 0
             => handles'[f] = handles[f] - 1
    BY <1>1, <2>1, SendReleaseIs
  <2>4. net = "up" => handles'[f] <= Cover(f)'
    <3> SUFFICES ASSUME net = "up" PROVE handles'[f] <= Cover(f)'
      OBVIOUS
    <3>1. Cover(f) = Bit(call[f].ok) /\ handles[f] <= Cover(f)
      BY <1>1, <1>4, <1>5, SMT DEF Cover, Bit, Covered
    <3>2. Cover(f)' = 0
      BY <1>1, <1>2, <1>3, <1>4, <2>2, NoneIs, SMT DEF Cover, Bit
    <3>3. handles[f] \in Nat /\ handles'[f] \in Nat BY <1>1, <2>3
    <3> QED BY <1>1, <1>5, <2>3, <3>1, <3>2, <3>3, SMT DEF Bit
  <2>5. handles[f] \in Nat /\ handles'[f] \in Nat BY <1>1, <2>3
  <2>6. Covered(f)'
    BY <1>1, <1>2, <1>3, <1>4, <2>3, <2>4, <2>5, NoneIs, SMT DEF Covered
  <2>7. \A g \in Fd \ {f} : /\ fdctx'[g] = fdctx[g] /\ call'[g] = call[g]
                            /\ rel'[g] = rel[g] /\ handles'[g] <= handles[g]
    BY <1>1, <1>2, <1>3, <2>2, <2>3, SMT
  <2> QED BY <1>1, <1>2, <2>3, <2>6, <2>7, OneCover
<1>7. CASE ~Destroy(f)
  <2>1. /\ handles' = handles
        /\ fdctx' = [fdctx EXCEPT ![f].remote_fd = rfd,
                       ![f].reopen_done = "default", ![f].attempts = 0]
    BY <1>7 DEF ReopenDone
  <2>2. ~fdctx[f].released BY <1>7 DEF Destroy
  <2>3. rfd = IF call[f].ok THEN call[f].s ELSE Bad OBVIOUS
  <2> HIDE DEF rfd
  <2>4. /\ fdctx'[f].remote_fd = rfd /\ ~fdctx'[f].released
        /\ \A g \in Fd \ {f} : fdctx'[g] = fdctx[g]
    BY <1>1, <2>1, <2>2, ZenonT(60) DEF CtxRec
  <2>5. net = "up" => Cover(f)' = Cover(f)
    BY <1>1, <1>2, <1>3, <1>4, <1>5, <2>3, <2>4, NoneIs, SMT DEF Cover, Bit
  <2>6. Covered(f)'
    BY <1>1, <1>2, <1>3, <1>4, <2>1, <2>5, NoneIs DEF Covered
  <2>7. \A g \in Fd \ {f} : /\ fdctx'[g] = fdctx[g] /\ call'[g] = call[g]
                            /\ rel'[g] = rel[g] /\ handles'[g] <= handles[g]
    BY <1>1, <1>2, <1>3, <2>1, <2>4, SMT
  <2> QED BY <1>1, <1>2, <2>1, <2>6, <2>7, OneCover
<1> QED BY <1>6, <1>7

LEMMA FdctxDestroyLeak ==
  ASSUME LeakInv, FdInv', NEW f \in Fd, FdctxDestroy(f)
  PROVE  LeakInv'
<1>1. /\ cur \in Nat /\ Covered(f) /\ handles \in [Fd -> Nat]
      /\ rel \in [Fd -> Nat] /\ (net = "up" => cur # Bad /\ connected)
      /\ handles[f] \in Nat /\ Cover(f) \in Nat
  BY CoverNat DEF LeakInv, FdInv, Types, LinkOK
<1>2. /\ UNCHANGED <<link, hs, connected, fdctx, call>> /\ net' = net
      /\ cur' = cur /\ rel[f] # Bad /\ rel' = [rel EXCEPT ![f] = Bad]
  BY DEF FdctxDestroy, handshake, link, files, calls
<1>3. /\ rel' \in [Fd -> Nat] /\ rel'[f] = Bad
      /\ \A g \in Fd \ {f} : rel'[g] = rel[g]
  BY <1>1, <1>2 DEF Bad
<1>4. /\ handles' \in [Fd -> Nat] /\ \A g \in Fd : handles'[g] <= handles[g]
      /\ net = "up" /\ rel[f] = cur /\ handles[f] > 0
           => handles'[f] = handles[f] - 1
  <2>1. CASE SendRelease(f, rel[f])
    <3>1. /\ handles' \in [Fd -> Nat] /\ handles'[f] <= handles[f]
          /\ \A g \in Fd \ {f} : handles'[g] = handles[g]
          /\ connected /\ net = "up" /\ rel[f] = cur /\ handles[f] > 0
               => handles'[f] = handles[f] - 1
      BY <1>1, <2>1, SendReleaseIs
    <3>2. \A g \in Fd : handles'[g] <= handles[g] BY <1>1, <3>1, SMT
    <3> QED BY <1>1, <3>1, <3>2
  <2>2. CASE ~SendRelease(f, rel[f])
    <3>1. /\ rel[f] # cur
          /\ \E g \in Fd : /\ handles[g] > 0
                           /\ handles' = [handles EXCEPT ![g] = @ - 1]
      BY <2>2 DEF FdctxDestroy
    <3> QED BY <1>1, <3>1, SMT
  <2> QED BY <2>1, <2>2
<1>5. net = "up" => handles'[f] <= Cover(f)'
  <2> SUFFICES ASSUME net = "up" PROVE handles'[f] <= Cover(f)'
    OBVIOUS
  <2>1. /\ handles[f] <= Cover(f) /\ handles'[f] <= handles[f]
        /\ handles'[f] \in Nat
    BY <1>1, <1>4 DEF Covered
  <2>2. Cover(f)' = IF rel[f] = cur THEN Cover(f) - 1 ELSE Cover(f)
    BY <1>1, <1>2, <1>3, SMT DEF Cover, Bit
  <2>3. Cover(f)' \in Nat BY SMT DEF Cover, Bit
  <2> QED BY <1>1, <1>4, <2>1, <2>2, <2>3, SMT
<1>6. handles'[f] \in Nat /\ handles'[f] <= handles[f] BY <1>4
<1>7. Covered(f)' BY <1>1, <1>2, <1>3, <1>5, <1>6, SMT DEF Covered
<1> QED BY <1>1, <1>2, <1>3, <1>4, <1>7, OneCover

LEMMA NextLeakInv ==
  ASSUME LeakInv, [Next /\ OpenAfterHandshake]_vars
  PROVE  LeakInv'
<1>1. FdInv'
  <2>1. FdInv /\ [Next]_vars BY DEF LeakInv
  <2> QED BY <2>1, NextFdInv
<1>2. CASE \/ PollErr \/ Ping \/ SetvolumeRefused \/ SetvolumeUnwound
           \/ SetvolumeCbk \/ CountFds \/ HandshakeDone \/ NotifyUp
           \/ \E ok \in BOOLEAN : ServeSetvolume(ok)
  <2>1. UNCHANGED <<files, call, rel, handles>>
    BY <1>2 DEF PollErr, Ping, SetvolumeRefused, SetvolumeUnwound,
       SetvolumeFailed, SetvolumeCbk, CountFds, HandshakeDone, NotifyUp,
       ServeSetvolume, calls
  <2> QED BY <1>1, <1>2, <2>1, LinkLeak
<1>3. CASE Connect \/ Disconnect \/ SetvolumeMark \/ PostHandshake
  BY <1>1, <1>3, ConnectLeak, DisconnectLeak, MarkLeak, PostLeak
<1>4. ASSUME NEW f \in Fd, OpenAfterHandshake, Open(f) \/ ReopenNext(f)
      PROVE  LeakInv'
  BY <1>1, <1>4, SubmitLeak
<1>5. ASSUME NEW f \in Fd, \/ Answer(f) \/ AttemptReopen(f) \/ Release(f)
                           \/ FdctxDestroy(f)
                           \/ \E ok \in BOOLEAN : ServeOpen(f, ok)
      PROVE  LeakInv'
  BY <1>1, <1>5, AnswerLeak, OpenCbkLeak, ReopenDoneLeak, AttemptLeak,
     ReleaseLeak, FdctxDestroyLeak, ServeLeak DEF Answer
<1>6. CASE UNCHANGED vars
  <2>1. /\ UNCHANGED <<cur, net, hs, connected, fdctx, call, rel, handles>>
    BY <1>6 DEF vars, link, handshake, files, calls
  <2>2. LinkOK' BY <2>1 DEF LeakInv, LinkOK
  <2>3. ASSUME NEW f \in Fd PROVE Covered(f)'
    BY <2>1 DEF LeakInv, Covered, Cover
  <2> QED BY <1>1, <2>2, <2>3 DEF LeakInv
<1> QED BY <1>2, <1>3, <1>4, <1>5, <1>6 DEF Next, Handshake

(* Cover counts what NoServerLeak counts                                   *)
LEMMA ThreeBits ==
  ASSUME NEW a \in BOOLEAN, NEW b \in BOOLEAN, NEW c \in BOOLEAN
  PROVE  Cardinality({p \in {"ctx", "call", "rel"} :
                        \/ p = "ctx" /\ a
                        \/ p = "call" /\ b
                        \/ p = "rel" /\ c}) = Bit(a) + Bit(b) + Bit(c)
<1> DEFINE A == IF a THEN {"ctx"} ELSE {}
           B == IF b THEN A \cup {"call"} ELSE A
           C == IF c THEN B \cup {"rel"} ELSE B
<1>1. IsFiniteSet(A) /\ Cardinality(A) = Bit(a)
  BY FS_EmptySet, FS_Singleton DEF Bit
<1>2. IsFiniteSet(B) /\ Cardinality(B) = Bit(a) + Bit(b)
  <2>1. "call" \notin A OBVIOUS
  <2> HIDE DEF A
  <2> QED BY <1>1, <2>1, FS_AddElement, SMT DEF Bit
<1>3. Cardinality(C) = Bit(a) + Bit(b) + Bit(c)
  <2>1. "rel" \notin B OBVIOUS
  <2> HIDE DEF A, B
  <2> QED BY <1>2, <2>1, FS_AddElement, SMT DEF Bit
<1> DEFINE S == {p \in {"ctx", "call", "rel"} :
                   \/ p = "ctx" /\ a
                   \/ p = "call" /\ b
                   \/ p = "rel" /\ c}
<1>4. \A p : p \in S <=> p \in C OBVIOUS
<1> HIDE DEF C, S
<1>5. S = C BY <1>4
<1> QED BY <1>3, <1>5 DEF S

(* A file that the server holds open for a connection that is up has a     *)
(* context, an answer on its way or a client_fdctx_destroy under way that  *)
(* will release it, for any number of files, reconnects and reopen         *)
(* attempts, when files are opened only after client_setvolume_cbk.        *)
THEOREM ServerFdsReleased == HandshakenSpec => []NoServerLeak
<1>1. LeakInv => NoServerLeak
  <2> SUFFICES ASSUME LeakInv, net = "up", NEW f \in Fd
      PROVE  handles[f] <= Cardinality({p \in {"ctx", "call", "rel"} :
                    \/ p = "ctx" /\ fdctx[f].remote_fd = cur
                                 /\ ~fdctx[f].released
                    \/ p = "call" /\ call[f].ok /\ call[f].s = cur
                    \/ p = "rel" /\ rel[f] = cur})
    BY DEF NoServerLeak
  <2> DEFINE a == fdctx[f].remote_fd = cur /\ ~fdctx[f].released
             b == call[f].ok /\ call[f].s = cur
             c == rel[f] = cur
             S == {p \in {"ctx", "call", "rel"} :
                     \/ p = "ctx" /\ a
                     \/ p = "call" /\ b
                     \/ p = "rel" /\ c}
  <2>1. handles[f] <= Cover(f) BY DEF LeakInv, Covered
  <2>2. Cover(f) = Bit(a) + Bit(b) + Bit(c) BY DEF Cover
  <2>3. a \in BOOLEAN /\ b \in BOOLEAN /\ c \in BOOLEAN
    BY DEF LeakInv, FdInv, Types, CallRec
  <2> DEFINE T == {p \in {"ctx", "call", "rel"} :
                     \/ p = "ctx" /\ fdctx[f].remote_fd = cur
                                  /\ ~fdctx[f].released
                     \/ p = "call" /\ call[f].ok /\ call[f].s = cur
                     \/ p = "rel" /\ rel[f] = cur}
  <2>4. \A p : p \in S <=> p \in T OBVIOUS
  <2> HIDE DEF a, b, c
  <2>5. Cardinality(S) = Bit(a) + Bit(b) + Bit(c)
    BY <2>3, ThreeBits
  <2> HIDE DEF S, T
  <2>6. S = T BY <2>4
  <2>7. handles[f] <= Cardinality(T) BY <2>1, <2>2, <2>5, <2>6
  <2> QED BY <2>7 DEF T
<1> QED BY <1>1, InitLeakInv, NextLeakInv, PTL DEF HandshakenSpec
============================================================================
