------------------------------ MODULE RpcClnt ------------------------------
(***************************************************************************)
(* The RPC client of rpc-clnt.c and rpc-clnt-ping.c over a socket: calls   *)
(* wait for their reply as saved frames, and are answered by the reply, by *)
(* the bail-out timer, by the cleanup that follows a disconnect, or at     *)
(* once when they cannot be sent.  Pings notice a silent server, a timer   *)
(* chain reconnects, and every timer keeps the client alive by a reference.*)
(* A section under conn->lock is one action.                               *)
(***************************************************************************)
EXTENDS Integers, Sequences, FiniteSets

CONSTANTS
  App,         \* calls of the application
  Ping,        \* names for the pings under way
  Sock,        \* bound: the sockets the transport can open, one by one
  NoSock       \* priv->sock is -1

ASSUME RpcAssumption ==
  /\ IsFiniteSet(Sock) /\ {NoSock, "timer"} \cap Sock = {}
  /\ App \cap Ping = {}
  /\ Ping \cap {"bail", "bailed", "reconnect", "start", "expired"} = {}

(***************************************************************************)
(* A socket is an incarnation of priv->sock.  The threads that answer      *)
(* frames other than by a reply are the poller that closes a socket, named *)
(* by that socket, and the timer thread.                                   *)
(***************************************************************************)
Call == App \cup Ping
Thread == Sock \cup {"timer"}

VARIABLES
  conn,      \* rpc_clnt_connection_t and the rpc_clnt around it
  sock,      \* priv->sock
  sstate,    \* each socket, and how far the poller that closes it has come
  shaken,    \* sockets on which the handshake has been completed
  cleaned,   \* pollers for which cleanup_gen moved since they read it
  sent,      \* the socket a call under way was sent on
  replied,   \* calls whose reply is on the way back
  inprog,    \* replies read whose callback has not returned
  unw,       \* frames a thread has taken off to answer with an error
  lockfop,   \* the calls of the application that are lock fops
  answer,    \* the callbacks a call of the application has had
  apc,       \* the thread submitting a call
  tpc,       \* the timer thread
  opc        \* the translator that owns the client

transport == <<sock, sstate, shaken>>
messages == <<sent, replied>>
answers == <<inprog, unw, answer>>
vars == <<conn, transport, cleaned, messages, answers, apc, tpc, opc, lockfop>>

InitConn ==
  [sf |-> <<>>, lk_sf |-> <<>>, connected |-> FALSE, disabled |-> FALSE,
   timer |-> "none", reconnect |-> "none", ping_timer |-> "none",
   ping_started |-> FALSE, active |-> FALSE, ref |-> 1]

Init ==
  /\ conn = InitConn
  /\ sock = NoSock /\ sstate = [s \in Sock |-> "none"]
  /\ shaken = {} /\ cleaned = {}
  /\ sent = [c \in Call |-> NoSock] /\ replied = {} /\ inprog = {}
  /\ unw = [t \in Thread |-> <<>>] /\ answer = [c \in App |-> <<>>]
  /\ apc = [c \in Call |-> IF c \in App THEN "new" ELSE "off"]
  /\ tpc = "idle" /\ opc = "init" /\ lockfop \in SUBSET App

----------------------------------------------------------------------------
(* Operators on the connection record k.                                    *)

Owns(pointer) == IF pointer = "none" THEN 0 ELSE 1
(* Mutant: the reference of a timer that has fired is dropped as well.      *)
Cancelled_Fired(pointer) == IF pointer = "none" THEN 0 ELSE 1

Cancelled(pointer) == IF pointer = "armed" THEN 1 ELSE 0

Ref(k, n) == [k EXCEPT !.ref = @ + n]

(* rpc_clnt_remove_ping_timer_locked; the reference of the timer goes to    *)
(* whoever removes it, even when the timer has already fired.               *)
RemovePing(k) ==
  [k EXCEPT !.ping_timer = "none",
            !.ping_started = @ /\ k.ping_timer = "none",
            !.active = FALSE]

DropPing(k) == Ref(RemovePing(k), - Owns(k.ping_timer))

(* __rpc_clnt_rearm_ping_timer                                              *)
Rearm(k, cbk) ==
  [Ref(k, 1) EXCEPT !.ping_timer = cbk, !.ping_started = TRUE]

(* Mutant: lock fops do not count as calls that wait for the server.        *)
FrameCount_NoLocks(k) == Len(k.sf)

FrameCount(k) == Len(k.sf) + Len(k.lk_sf)

(* rpc_clnt_start_ping up to the ping itself                                *)
PingDue(k) == FrameCount(k) > 0 /\ k.connected
(* Mutant: when no ping is due the timer that fired is left in conn.        *)
StartPing_Early(k) == IF PingDue(k) THEN Rearm(DropPing(k), "expired") ELSE k

StartPing(k) == IF PingDue(k) THEN Rearm(DropPing(k), "expired")
                              ELSE DropPing(k)

(* rpc_clnt_ping_cbk                                                        *)
PingCbk(k, ok) ==
  IF ok THEN Rearm(DropPing(k), "start")
        ELSE [DropPing(k) EXCEPT !.ping_started = FALSE]

(* __save_frame: lock fops go to the list that is never bailed out          *)
SaveFrame(k, c) ==
  LET q == IF c \in lockfop THEN [k EXCEPT !.lk_sf = Append(@, c)]
                             ELSE [k EXCEPT !.sf = Append(@, c)]
  IN  IF q.timer = "none" THEN [Ref(q, 1) EXCEPT !.timer = "armed"] ELSE q

(* Mutant: the bail-out timer runs once.                                    *)
BailRearm_Once(k) == [k EXCEPT !.timer = "none"]

(* call_bail re-arms its timer, cancelling one armed since it fired         *)
BailRearm(k) ==
  IF k.timer = "none" THEN k ELSE [Ref(k, 1) EXCEPT !.timer = "armed"]

Elems(s) == {s[i] : i \in DOMAIN s}
Saved(k, c) == c \in Elems(k.sf) \cup Elems(k.lk_sf)

(* list_del_init of the frame of c, if it is on the list s                  *)
Unlink(s, c) ==
  IF c \in Elems(s)
  THEN LET i == CHOOSE j \in DOMAIN s : s[j] = c
       IN  SubSeq(s, 1, i - 1) \o SubSeq(s, i + 1, Len(s))
  ELSE s

(* Mutant: the frame of a reply stays in the list.                          *)
Forget_Kept(k, c) == k

(* __saved_frame_get: the frame with the xid is taken off the list it is on *)
Forget(k, c) ==
  IF c \in Elems(k.sf) THEN [k EXCEPT !.sf = Unlink(@, c)]
                       ELSE [k EXCEPT !.lk_sf = Unlink(@, c)]

(* rpc_clnt_reconnect under conn->lock, its own reference included: a timer *)
(* that is armed at this point is cancelled and its reference stays behind. *)
Retry(k) == ~k.connected /\ ~k.disabled

(* Mutant: conn->reconnect is not reset when the chain ends.                *)
ReconnectSection_Stale(k) ==
  IF Retry(k) THEN [k EXCEPT !.reconnect = "armed"] ELSE Ref(k, -1)

ReconnectSection(k) ==
  IF Retry(k) THEN [k EXCEPT !.reconnect = "armed"]
              ELSE Ref([k EXCEPT !.reconnect = "none"], -1)

(* rpc_clnt_connection_cleanup under conn->lock: the frames it takes, and   *)
(* what it leaves, net of the references it drops once they are answered.   *)
Taken(k) == k.lk_sf \o k.sf
Cleanup(k) ==
  Ref([DropPing(k) EXCEPT !.sf = <<>>, !.lk_sf = <<>>, !.timer = "none",
                          !.connected = FALSE],
      - Cancelled(k.timer))

(* rpc_clnt_disable                                                         *)
Disabled(k) ==
  Ref([DropPing(k) EXCEPT !.disabled = TRUE, !.timer = "none",
                          !.reconnect = "none", !.connected = FALSE],
      - Cancelled(k.timer) - Cancelled(k.reconnect))

----------------------------------------------------------------------------
(* The transport.                                                           *)

(* socket_connect: a socket is opened only if there is none; f is what the  *)
(* caller leaves of the others                                              *)
Unused == {s \in Sock : sstate[s] = "none"}
SocketConnect(f) ==
  IF sock = NoSock /\ Unused # {}
  THEN \E s \in {CHOOSE u \in Unused : TRUE} :
         sock' = s /\ sstate' = [f EXCEPT ![s] = "connecting"]
  ELSE sstate' = f /\ UNCHANGED sock

ConnectIf(retry, f) ==
  IF retry THEN SocketConnect(f) ELSE sstate' = f /\ UNCHANGED sock

Up == sock # NoSock /\ sstate[sock] = "up"

(* __socket_disconnect: shut down, the poller will see the error            *)
Shut == sstate' = IF sock = NoSock THEN sstate
                  ELSE [sstate EXCEPT ![sock] = "shut"]

(* socket_connect_finish                                                    *)
ConnectFinish(s) ==
  /\ sstate[s] = "connecting"
  /\ sstate' = [sstate EXCEPT ![s] = "up"]
  /\ UNCHANGED <<lockfop, conn, sock, shaken, cleaned, messages, answers, apc,
                 tpc, opc>>

(* client_setvolume_cbk calls rpc_clnt_set_connected, in the callback of a  *)
(* reply: at the latest while the poller that closes the socket waits for   *)
(* the callbacks.                                                           *)
SetConnected(s) ==
  /\ sstate[s] \in {"up", "shut", "wait"} /\ s \notin shaken
  /\ shaken' = shaken \cup {s}
  /\ conn' = [conn EXCEPT !.connected = TRUE]
  /\ UNCHANGED <<lockfop, sock, sstate, cleaned, messages, answers, apc,
                 tpc, opc>>

(* The server answers a call, late or never                                 *)
Serve(c) ==
  /\ sent[c] # NoSock /\ c \notin replied \cup inprog
  /\ replied' = replied \cup {c}
  /\ UNCHANGED <<lockfop, conn, transport, cleaned, sent, answers, apc,
                 tpc, opc>>

----------------------------------------------------------------------------
(* Calls.                                                                   *)

(* rpc_clnt_submit up to the unlock                                         *)
Submit(c) ==
  /\ apc[c] = "new"
  /\ c \in App => opc \in {"up", "disabled"}
  /\ IF Up
     THEN /\ conn' = SaveFrame(conn, c)
          /\ sent' = [sent EXCEPT ![c] = sock]
          /\ apc' = [apc EXCEPT ![c] = "check"]
          /\ UNCHANGED <<sock, sstate>>
     ELSE /\ ConnectIf(Retry(conn), sstate)
          /\ apc' = [apc EXCEPT ![c] = "fail"]
          /\ UNCHANGED <<conn, sent>>
  /\ UNCHANGED <<lockfop, shaken, cleaned, replied, answers, tpc, opc>>

(* rpc_clnt_check_and_start_ping                                            *)
CheckPing(c) ==
  /\ apc[c] = "check"
  /\ apc' = [apc EXCEPT ![c] = IF conn.ping_started THEN "off" ELSE "start"]
  /\ UNCHANGED <<lockfop, conn, transport, cleaned, messages, answers, tpc,
                 opc>>

(* Names of pings that are not under way; a ping sent beside as many as     *)
(* there are names is not told from them.                                   *)
FreePing == {p \in Ping : /\ apc[p] = "off" /\ sent[p] = NoSock
                          /\ ~Saved(conn, p) /\ p \notin inprog
                          /\ \A t \in Thread : p \notin Elems(unw[t])}

(* rpc_clnt_start_ping, called after a submit: the thread goes on as the    *)
(* one that submits the ping.                                               *)
BeginPing(c) ==
  /\ apc[c] = "start"
  /\ conn' = StartPing(conn)
  /\ IF PingDue(conn) /\ FreePing # {}
     THEN \E p \in FreePing : apc' = [apc EXCEPT ![c] = "off", ![p] = "new"]
     ELSE apc' = [apc EXCEPT ![c] = "off"]
  /\ UNCHANGED <<lockfop, transport, cleaned, messages, answers, tpc, opc>>

(* The callback of a call                                                   *)
Deliver(c, ok) ==
  IF c \in App THEN /\ answer' = [answer EXCEPT ![c] = Append(@, ok)]
                    /\ UNCHANGED conn
               ELSE conn' = PingCbk(conn, ok) /\ UNCHANGED answer

(* rpc_clnt_submit after the unlock, for a call that was not sent           *)
SubmitFailed(c) ==
  /\ apc[c] = "fail"
  /\ apc' = [apc EXCEPT ![c] = "off"]
  /\ Deliver(c, FALSE)
  /\ UNCHANGED <<lockfop, transport, cleaned, messages, inprog, unw, tpc,
                 opc>>

(* rpc_clnt_handle_reply: lookup_frame, then the callback outside the lock. *)
(* A reply that finds no frame is dropped.                                  *)
HandleReply(c) ==
  /\ c \in replied /\ Up /\ sent[c] = sock
  /\ replied' = replied \ {c}
  /\ sent' = IF Saved(conn, c) THEN sent ELSE [sent EXCEPT ![c] = NoSock]
  /\ conn' = [Forget(conn, c) EXCEPT !.active = conn.ping_timer # "none"]
  /\ inprog' = IF Saved(conn, c) THEN inprog \cup {c} ELSE inprog
  /\ UNCHANGED <<lockfop, transport, cleaned, unw, answer, apc, tpc, opc>>

ReplyCbk(c) ==
  /\ c \in inprog
  /\ inprog' = inprog \ {c} /\ sent' = [sent EXCEPT ![c] = NoSock]
  /\ Deliver(c, TRUE)
  /\ UNCHANGED <<lockfop, transport, cleaned, replied, unw, apc, tpc, opc>>

----------------------------------------------------------------------------
(* The timer thread, gf_timer_proc, runs one callback at a time.            *)

Fire(kind) ==
  /\ tpc = "idle"
  /\ \/ /\ kind = "bail" /\ conn.timer = "armed"
        /\ conn' = [conn EXCEPT !.timer = "fired"]
        /\ tpc' = "bail"
     \/ /\ kind = "reconnect" /\ conn.reconnect = "armed"
        /\ conn' = [conn EXCEPT !.reconnect = "fired"]
        /\ tpc' = "reconnect"
     \/ /\ kind = "ping" /\ conn.ping_timer \in {"start", "expired"}
        /\ conn' = [conn EXCEPT !.ping_timer = "fired"]
        /\ tpc' = conn.ping_timer
  /\ UNCHANGED <<lockfop, transport, cleaned, messages, answers, apc, opc>>

(* call_bail: re-arm, and take the n oldest frames, those that timed out.   *)
(* A ping is never that old: its own timer, much shorter than the frame     *)
(* timeout, has ended it or the connection.                                 *)
CallBail(n) ==
  /\ tpc = "bail" /\ n \in 0 .. Len(conn.sf)
  /\ \A i \in 1 .. n : conn.sf[i] \notin Ping
  /\ conn' = [BailRearm(conn) EXCEPT !.sf = SubSeq(@, n + 1, Len(@))]
  /\ unw' = [unw EXCEPT !["timer"] = [i \in 1 .. n |-> conn.sf[n + 1 - i]]]
  /\ tpc' = "bailed"
  /\ UNCHANGED <<lockfop, transport, cleaned, messages, inprog, answer,
                 apc, opc>>

BailEnd ==
  /\ tpc = "bailed" /\ unw["timer"] = <<>>
  /\ conn' = Ref(conn, -1) /\ tpc' = "idle"
  /\ UNCHANGED <<lockfop, transport, cleaned, messages, answers, apc, opc>>

(* rpc_clnt_reconnect from its timer                                        *)
Reconnect ==
  /\ tpc = "reconnect" /\ tpc' = "idle"
  /\ ConnectIf(Retry(conn), sstate)
  /\ conn' = ReconnectSection(conn)
  /\ UNCHANGED <<lockfop, shaken, cleaned, messages, answers, apc, opc>>

(* rpc_clnt_start_ping from its timer                                       *)
PingStart ==
  /\ tpc = "start"
  /\ conn' = StartPing(conn)
  /\ IF PingDue(conn) /\ FreePing # {}
     THEN \E p \in FreePing : apc' = [apc EXCEPT ![p] = "new"] /\ tpc' = p
     ELSE tpc' = "idle" /\ UNCHANGED apc
  /\ UNCHANGED <<lockfop, transport, cleaned, messages, answers, opc>>

PingSubmitted ==
  /\ tpc \in Ping /\ apc[tpc] = "off" /\ tpc' = "idle"
  /\ UNCHANGED <<lockfop, conn, transport, cleaned, messages, answers, apc,
                 opc>>

(* rpc_clnt_ping_timer_expired: any traffic since it was armed lets the     *)
(* connection live on, otherwise the thread goes on to disconnect it.       *)
PingExpired ==
  /\ tpc = "expired"
  /\ IF conn.active
     THEN conn' = Rearm(DropPing(conn), "expired") /\ tpc' = "idle"
     ELSE /\ conn' = [DropPing(conn) EXCEPT !.ping_started = FALSE]
          /\ tpc' = "disconnect"
  /\ UNCHANGED <<lockfop, transport, cleaned, messages, answers, apc, opc>>

PingDisconnect ==
  /\ tpc = "disconnect" /\ tpc' = "idle"
  /\ Shut
  /\ UNCHANGED <<lockfop, conn, sock, shaken, cleaned, messages, answers,
                 apc, opc>>

----------------------------------------------------------------------------
(* The poller that closes a socket: socket_event_poll_err, then             *)
(* rpc_clnt_handle_disconnect.                                              *)

(* An error on the socket, of its own or after a shutdown; what was sent or *)
(* answered on it and not yet read is gone.                                 *)
PollErr(s) ==
  /\ s = sock
  /\ sock' = NoSock /\ sstate' = [sstate EXCEPT ![s] = "wait"]
  /\ sent' = [c \in Call |-> IF sent[c] = s /\ c \notin inprog THEN NoSock
                                                              ELSE sent[c]]
  /\ replied' = {c \in replied : sent[c] # s}
  /\ UNCHANGED <<lockfop, conn, shaken, cleaned, answers, apc, tpc, opc>>

(* The pollers that have read pre_notify_gen and not yet compared it        *)
Notifying == {s \in Sock : sstate[s] \in {"quick", "restart", "post"}}

CleanupSection(s) ==
  /\ conn' = Cleanup(conn)
  /\ unw' = [unw EXCEPT ![s] = Taken(conn)]
  /\ cleaned' = cleaned \cup (Notifying \ {s})

(* Mutant: the poller does not wait for the callbacks of replies.           *)
Drained_NoWait == TRUE

(* notify.in_progress is down to 0                                          *)
Drained == inprog = {}

(* The callbacks of replies drain; then client_rpc_notify, which after a    *)
(* portmap query reconnects quickly with rpc_clnt_cleanup_and_start.        *)
Notify(s) ==
  /\ sstate[s] = "wait" /\ Drained
  /\ shaken' = shaken \ {s}
  /\ \/ /\ s \notin shaken
        /\ CleanupSection(s)
        /\ sstate' = [sstate EXCEPT ![s] = "quick"]
     \/ /\ sstate' = [sstate EXCEPT ![s] = "post"]
        /\ UNCHANGED <<conn, unw, cleaned>>
  /\ UNCHANGED <<lockfop, sock, messages, inprog, answer, apc, tpc, opc>>

QuickEnable(s) ==
  /\ sstate[s] = "quick" /\ unw[s] = <<>>
  /\ sstate' = [sstate EXCEPT ![s] = "restart"]
  /\ conn' = [Ref(conn, 1) EXCEPT !.disabled = FALSE]
  /\ UNCHANGED <<lockfop, sock, shaken, cleaned, messages, answers, apc,
                 tpc, opc>>

QuickStart(s) ==
  /\ sstate[s] = "restart"
  /\ ConnectIf(Retry(conn), [sstate EXCEPT ![s] = "rearm"])
  /\ conn' = ReconnectSection(conn)
  /\ cleaned' = cleaned \ {s}
  /\ UNCHANGED <<lockfop, shaken, messages, answers, apc, tpc, opc>>

(* post_notify_gen: clean up unless somebody did meanwhile                  *)
PostNotify(s) ==
  /\ sstate[s] = "post"
  /\ IF s \in cleaned
     THEN /\ sstate' = [sstate EXCEPT ![s] = "rearm"]
          /\ cleaned' = cleaned \ {s}
          /\ UNCHANGED <<conn, unw>>
     ELSE CleanupSection(s) /\ sstate' = [sstate EXCEPT ![s] = "unwind"]
  /\ UNCHANGED <<lockfop, sock, shaken, messages, inprog, answer, apc, tpc,
                 opc>>

(* saved_frames_unwind, and call_bail's loop over its own list              *)
UnwindOne(t) ==
  /\ unw[t] # <<>>
  /\ Deliver(Head(unw[t]), FALSE)
  /\ unw' = [unw EXCEPT ![t] = Tail(@)]
  /\ UNCHANGED <<lockfop, transport, cleaned, messages, inprog, apc, tpc,
                 opc>>

(* The end of rpc_clnt_handle_disconnect                                    *)
RearmReconnect(s) ==
  /\ sstate[s] \in {"unwind", "rearm"} /\ unw[s] = <<>>
  /\ conn' = IF ~conn.disabled /\ conn.reconnect = "none"
             THEN [Ref(conn, 1) EXCEPT !.reconnect = "armed"] ELSE conn
  /\ sstate' = [sstate EXCEPT ![s] = "gone"]
  /\ UNCHANGED <<lockfop, sock, shaken, cleaned, messages, answers, apc,
                 tpc, opc>>

----------------------------------------------------------------------------
(* The owner.                                                               *)

(* GF_EVENT_PARENT_UP: rpc_clnt_start                                       *)
Start ==
  /\ opc = "init" /\ opc' = "up"
  /\ SocketConnect(sstate)
  /\ conn' = ReconnectSection(Ref(conn, 1))
  /\ UNCHANGED <<lockfop, shaken, cleaned, messages, answers, apc, tpc>>

(* GF_EVENT_PARENT_DOWN: rpc_clnt_disable                                   *)
Disable ==
  /\ opc = "up" /\ opc' = "disabled"
  /\ conn' = Disabled(conn)
  /\ Shut
  /\ UNCHANGED <<lockfop, sock, shaken, cleaned, messages, answers, apc, tpc>>

----------------------------------------------------------------------------
TimerStep ==
  \/ \E n \in 0 .. Len(conn.sf) : CallBail(n)
  \/ BailEnd \/ Reconnect \/ PingStart \/ PingSubmitted \/ PingExpired
  \/ PingDisconnect

Closing(s) ==
  \/ Notify(s) \/ QuickEnable(s) \/ QuickStart(s) \/ PostNotify(s)
  \/ RearmReconnect(s)

Calling(c) == Submit(c) \/ CheckPing(c) \/ BeginPing(c) \/ SubmitFailed(c)

Next ==
  \/ \E s \in Sock : \/ ConnectFinish(s) \/ SetConnected(s) \/ PollErr(s)
                     \/ Closing(s)
  \/ \E c \in Call : Calling(c) \/ Serve(c) \/ HandleReply(c) \/ ReplyCbk(c)
  \/ \E kind \in {"bail", "reconnect", "ping"} : Fire(kind)
  \/ \E t \in Thread : UnwindOne(t)
  \/ TimerStep \/ Start \/ Disable

Spec == Init /\ [][Next]_vars

(***************************************************************************)
(* Threads and the timer thread go on, an armed timer fires, a socket that *)
(* was shut down is seen by a poller, and a call cannot stay younger than  *)
(* the frame timeout for ever.  Neither the server nor a connection        *)
(* attempt has to come to anything.                                        *)
(***************************************************************************)
Fairness ==
  /\ \A c \in Call : WF_vars(Calling(c)) /\ WF_vars(ReplyCbk(c))
  /\ \A kind \in {"bail", "reconnect", "ping"} : SF_vars(Fire(kind))
  /\ WF_vars(TimerStep)
  /\ SF_vars(\E n \in 1 .. Len(conn.sf) : CallBail(n))
  /\ \A s \in Sock : /\ WF_vars(Closing(s))
                     /\ WF_vars(sstate[s] = "shut" /\ PollErr(s))
  /\ \A t \in Thread : WF_vars(UnwindOne(t))

FairSpec == Spec /\ Fairness

----------------------------------------------------------------------------
(* Properties.                                                              *)

(* Types of the state; the reference count never goes below zero.          *)
TypeOK ==
  /\ conn.sf \in Seq(Call) /\ conn.lk_sf \in Seq(App) /\ conn.ref \in Nat
  /\ conn.timer \in {"none", "armed", "fired"}
  /\ conn.reconnect \in {"none", "armed", "fired"}
  /\ conn.ping_timer \in {"none", "start", "expired", "fired"}
  /\ sock \in Sock \cup {NoSock} /\ shaken \subseteq Sock
  /\ replied \cup inprog \subseteq Call /\ cleaned \subseteq Sock
  /\ \A t \in Thread : unw[t] \in Seq(Call)
  /\ apc \in [Call -> {"new", "check", "start", "fail", "off"}]

Has(where) == IF where THEN 1 ELSE 0

(* A call is answered exactly once: until its callback has run it is held  *)
(* in one place, and in none afterwards.  The reply, the bail-out timer,   *)
(* every cleanup and a failed submission compete for it                    *)
(* (__saved_frame_get, call_bail, rpc_clnt_connection_cleanup,             *)
(* rpc_clnt_submit).                                                       *)
AnsweredOnce ==
  \A c \in App :
    Has(apc[c] \in {"new", "fail"}) + Has(Saved(conn, c))
      + Has(c \in inprog) + Cardinality({t \in Thread : c \in Elems(unw[t])})
      = 1 - Len(answer[c])

(* Everyone who will drop a reference of the client has one: the owner,    *)
(* the armed timers, whoever clears conn->ping_timer, and the callbacks of *)
(* the bail-out and reconnect timers (rpc_clnt_ref before every            *)
(* gf_timer_call_after, unref only if the cancel succeeded).               *)
Users ==
  1 + Cancelled(conn.timer) + Cancelled(conn.reconnect) + Owns(conn.ping_timer)
    + (IF tpc \in {"bail", "bailed", "reconnect"} THEN 1 ELSE 0)
    + Cardinality({s \in Sock : sstate[s] = "restart"})

RefCovers == conn.ref >= Users

(* conn never points at a timer whose callback has returned, which         *)
(* gf_timer_proc has freed: every callback replaces or clears its pointer. *)
NoFreedTimer ==
  /\ conn.timer = "fired" => tpc = "bail"
  /\ conn.reconnect = "fired" => tpc = "reconnect"
  /\ conn.ping_timer = "fired" => tpc \in {"start", "expired"}

(* A reply is never handed to its caller after RPC_CLNT_DISCONNECT of the  *)
(* connection it came on (notify.in_progress in socket_event_poll_err):    *)
(* what the reply established, such as an open fd, would outlive the       *)
(* marking of that connection's fds as bad.                                *)
AnswersBeforeDown ==
  \A c \in inprog : sstate[sent[c]] \in {"up", "shut", "wait"}

(* The reconnect chain is never lost: a client that is enabled, has no     *)
(* socket and no poller at work on one has its reconnect timer armed       *)
(* (rpc_clnt_reconnect ends the chain once connected,                      *)
(* rpc_clnt_handle_disconnect starts a new one unless conn->reconnect is   *)
(* set).                                                                   *)
Closed == \A s \in Sock : sstate[s] \in {"none", "gone"}
ChainAlive ==
  (opc = "up" /\ ~conn.disabled /\ Closed /\ tpc # "reconnect")
    => conn.reconnect = "armed"

(* Every call that is not a lock fop is answered, whatever the server and  *)
(* the network do: if nothing else, call_bail ends it.                     *)
Answered ==
  \A c \in App : (c \notin lockfop /\ Saved(conn, c)) ~> (answer[c] # <<>>)

(* A lock fop, which is never bailed out, is answered if the server falls  *)
(* silent, provided it was submitted on a connected client or beside       *)
(* running pings: rpc_clnt_start_ping counts the lock frames too, the ping *)
(* expires, and the disconnect unwinds them.                               *)
Watched(c) == conn.ping_started \/ (apc[c] = "check" /\ conn.connected)
SilenceNoticed ==
  \A c \in App :
    <>[](replied = {}) =>
      ((c \in lockfop /\ Saved(conn, c) /\ Watched(c)) ~> (answer[c] # <<>>))
=============================================================================
