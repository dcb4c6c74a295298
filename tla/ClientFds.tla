----------------------------- MODULE ClientFds -----------------------------
(***************************************************************************)
(* Open files of protocol/client across reconnects.  An fd opened on one   *)
(* connection has no meaning on the next one: a disconnect marks all fds   *)
(* bad, the handshake of the next connection opens them again, and only    *)
(* then tells the parents that the brick is back.  Releases, opens and the *)
(* answers of calls that died with an old connection go on meanwhile.      *)
(* A section under conf->fd_lock or conf->rec_lock is one action.          *)
(***************************************************************************)
EXTENDS Integers, FiniteSets

CONSTANTS
  Fd,            \* files
  MaxSession,    \* bound: connections, numbered 1, 2, ...
  MaxAttempts    \* CLIENT_REOPEN_MAX_ATTEMPTS

ASSUME ClientAssumption == MaxSession \in Nat /\ MaxAttempts \in Nat

VARIABLES
  net,        \* "down", "up", or "closing": lost, RPC_CLNT_DISCONNECT to come
  cur,        \* the connection that is up or was the last one
  hs,         \* how far the SETVOLUME call of this connection has come
  todo,       \* reopen_head of client_post_handshake
  stale,      \* lost connections whose SETVOLUME call is still to be answered
  fdctx,      \* clnt_fd_ctx_t; remote_fd is the connection it was opened on
  saved_fds,  \* conf->saved_fds
  call,       \* the open or reopen call of each fd
  ups,        \* threads that are to report CHILD_UP for the last reopened fd
  rel,        \* remote_fd a thread in client_fdctx_destroy is to release
  count,      \* conf->reopen_fd_count
  connected,  \* conf->connected
  last_sent_event,
  told,       \* the last CHILD_UP or CHILD_DOWN the parents have seen
  handles     \* what the server holds open for this connection

link == <<net, cur>>
handshake == <<hs, todo, stale>>
files == <<fdctx, saved_fds>>
events == <<last_sent_event, told>>
calls == <<call, ups>>
vars == <<link, handshake, files, calls, rel, count, connected, events,
          handles>>

Bad == 0       \* remote_fd is -1
NoCtx == [alive |-> FALSE, remote_fd |-> Bad, reopen_done |-> "default",
          released |-> FALSE, attempts |-> 0]
NoCall == [st |-> "none", kind |-> "none", s |-> 0, ok |-> FALSE,
           by |-> "none", last |-> FALSE]

Init ==
  /\ net = "down" /\ cur = 0
  /\ hs = "none" /\ todo = {} /\ stale = {}
  /\ fdctx = [f \in Fd |-> NoCtx] /\ saved_fds = {}
  /\ call = [f \in Fd |-> NoCall] /\ ups = {} /\ rel = [f \in Fd |-> Bad]
  /\ count = 0 /\ connected = FALSE
  /\ last_sent_event = "none" /\ told = "none"
  /\ handles = [f \in Fd |-> 0]

----------------------------------------------------------------------------
(* client_notify_dispatch and client_notify_dispatch_uniq                   *)
Dispatch(event) ==
  /\ last_sent_event' = event
  /\ told' = IF event \in {"CHILD_UP", "CHILD_DOWN"} THEN event ELSE told

DispatchUniq(event) ==
  IF last_sent_event = event THEN UNCHANGED events ELSE Dispatch(event)

(* client_submit_request: a call that cannot be sent has its callback run   *)
(* at once by the thread that submits it                                    *)
Submit(kind) ==
  IF connected /\ net = "up"
  THEN [NoCall EXCEPT !.st = "sent", !.kind = kind, !.s = cur]
  ELSE [NoCall EXCEPT !.st = "cbk", !.kind = kind, !.s = cur, !.by = "submit"]

(* Calls whose callback is running, and the thread that runs it             *)
ThreadOf(f) == [s |-> call[f].s, by |-> call[f].by]
Running == {f \in Fd : call[f].st \in {"cbk", "counted"}}

(* Mutant: fds stay good when their connection is lost.                     *)
MarkBad_Not(ctx) == ctx

(* client_mark_fd_bad                                                       *)
MarkBad(ctx) ==
  [f \in Fd |-> IF f \in saved_fds THEN [ctx[f] EXCEPT !.remote_fd = Bad]
                                   ELSE ctx[f]]

----------------------------------------------------------------------------
(* The connection.                                                          *)

(* RPC_CLNT_CONNECT: client_handshake sends SETVOLUME                       *)
Connect ==
  /\ net = "down" /\ cur < MaxSession
  /\ net' = "up" /\ cur' = cur + 1 /\ hs' = "sent" /\ connected' = TRUE
  /\ UNCHANGED <<todo, stale, files, calls, rel, count, events, handles>>

PollErr ==
  /\ net = "up" /\ net' = "closing"
  /\ UNCHANGED <<cur, handshake, files, calls, rel, count, connected, events,
                 handles>>

(* The callbacks of replies have returned                                   *)
Drained ==
  /\ \A f \in Running : call[f].by = "unwind"
  /\ \A u \in ups : u.by = "unwind"
  /\ hs \notin {"mark", "take", "count", "reopen"}

(* RPC_CLNT_DISCONNECT, then rpc_clnt_connection_cleanup takes the calls    *)
(* that have had no reply                                                   *)
Disconnect ==
  /\ net = "closing" /\ Drained
  /\ net' = "down" /\ connected' = FALSE
  /\ fdctx' = MarkBad(fdctx)
  /\ DispatchUniq("CHILD_DOWN")
  /\ call' = [f \in Fd |-> IF call[f].st \in {"sent", "served"}
                           THEN [call[f] EXCEPT !.st = "unw", !.ok = FALSE]
                           ELSE call[f]]
  /\ stale' = IF hs \in {"sent", "ok", "err"} THEN stale \cup {cur} ELSE stale
  /\ hs' = "none" /\ handles' = [f \in Fd |-> 0]
  /\ UNCHANGED <<cur, todo, saved_fds, rel, count, ups>>

(* RPC_CLNT_PING: default_notify, not client_notify_dispatch_uniq           *)
Ping ==
  /\ net = "up" /\ hs \in {"count", "reopen", "done"}
  /\ Dispatch("CHILD_PING")
  /\ UNCHANGED <<link, handshake, files, calls, rel, count, connected,
                 handles>>

(* The server                                                               *)
ServeSetvolume(ok) ==
  /\ net = "up" /\ hs = "sent" /\ hs' = IF ok THEN "ok" ELSE "err"
  /\ UNCHANGED <<link, todo, stale, files, calls, rel, count, connected,
                 events, handles>>

ServeOpen(f, ok) ==
  /\ net = "up" /\ call[f].st = "sent"
  /\ ok => hs \notin {"sent", "err"}
  /\ call' = [call EXCEPT ![f].st = "served", ![f].ok = ok]
  /\ handles' = [handles EXCEPT ![f] = IF ok THEN @ + 1 ELSE @]
  /\ UNCHANGED <<link, handshake, files, rel, count, connected, events, ups>>

----------------------------------------------------------------------------
(* The handshake: client_setvolume_cbk.                                     *)

(* The connection is killed, whichever it is by now                         *)
SetvolumeFailed ==
  /\ Dispatch("CHILD_CONNECTING")
  /\ net' = IF net = "up" THEN "closing" ELSE net
  /\ UNCHANGED <<cur, todo, files, calls, rel, count, handles>>

SetvolumeRefused ==
  /\ net = "up" /\ hs = "err" /\ hs' = "none"
  /\ SetvolumeFailed /\ UNCHANGED <<stale, connected>>

SetvolumeUnwound ==
  /\ \E s \in stale : stale' = stale \ {s}
  /\ SetvolumeFailed /\ UNCHANGED <<hs, connected>>

SetvolumeCbk ==
  /\ net = "up" /\ hs = "ok" /\ hs' = "mark" /\ connected' = TRUE
  /\ UNCHANGED <<link, todo, stale, files, calls, rel, count, events, handles>>

SetvolumeMark ==
  /\ hs = "mark" /\ hs' = "take" /\ fdctx' = MarkBad(fdctx)
  /\ UNCHANGED <<link, todo, stale, saved_fds, calls, rel, count, connected,
                 events, handles>>

(* client_post_handshake                                                    *)
PostHandshake ==
  /\ hs = "take"
  /\ LET bad == {f \in saved_fds : fdctx[f].remote_fd = Bad}
     IN  /\ todo' = bad /\ saved_fds' = saved_fds \ bad
         /\ fdctx' = [f \in Fd |-> IF f \in bad
                        THEN [fdctx[f] EXCEPT !.reopen_done = "child_up"]
                        ELSE fdctx[f]]
         /\ IF bad = {} THEN hs' = "done" /\ DispatchUniq("CHILD_UP")
                        ELSE hs' = "count" /\ UNCHANGED events
  /\ UNCHANGED <<link, stale, calls, rel, count, connected, handles>>

(* Mutant: one fd too many is waited for.                                   *)
SaveNumberFds_OneMore == count' = Cardinality(todo) + 1

(* client_save_number_fds                                                   *)
SaveNumberFds == count' = Cardinality(todo)

CountFds ==
  /\ hs = "count" /\ hs' = "reopen" /\ SaveNumberFds
  /\ UNCHANGED <<link, todo, stale, files, calls, rel, connected, events,
                 handles>>

(* The callback of a reopen call that could not be sent runs first          *)
Submitting == \/ \E f \in Running : call[f].by = "submit"
              \/ \E u \in ups : u.by = "submit"

(* protocol_client_reopen for the next fd of the list                       *)
ReopenNext(f) ==
  /\ hs = "reopen" /\ f \in todo /\ ~Submitting
  /\ todo' = todo \ {f}
  /\ call' = [call EXCEPT ![f] = Submit("reopen")]
  /\ UNCHANGED <<link, hs, stale, files, rel, count, connected, events,
                 handles, ups>>

HandshakeDone ==
  /\ hs = "reopen" /\ todo = {} /\ hs' = "done" /\ ~Submitting
  /\ UNCHANGED <<link, todo, stale, files, calls, rel, count, connected,
                 events, handles>>

----------------------------------------------------------------------------
(* Answers to open and reopen calls.  The calls of a lost connection are    *)
(* unwound by its poller one after the other.                               *)
Reply(f) ==
  /\ call[f].st = "served" /\ net = "up"
  /\ call' = [call EXCEPT ![f].st = "cbk", ![f].by = "reply"]
  /\ UNCHANGED <<link, handshake, files, rel, count, connected, events,
                 handles, ups>>

Unwind(f) ==
  /\ call[f].st = "unw"
  /\ [s |-> call[f].s, by |-> "unwind"]
       \notin ups \cup {ThreadOf(g) : g \in Running}
  /\ call' = [call EXCEPT ![f].st = "cbk", ![f].by = "unwind"]
  /\ UNCHANGED <<link, handshake, files, rel, count, connected, events,
                 handles, ups>>

(* client3_3_open_cbk, client_add_fd_to_saved_fds                           *)
OpenCbk(f) ==
  /\ call[f].st = "cbk" /\ call[f].kind = "open"
  /\ call' = [call EXCEPT ![f] = NoCall]
  /\ IF call[f].ok
     THEN /\ fdctx' = [fdctx EXCEPT ![f] = [NoCtx EXCEPT !.alive = TRUE,
                                              !.remote_fd = call[f].s]]
          /\ saved_fds' = saved_fds \cup {f}
     ELSE UNCHANGED files
  /\ UNCHANGED <<link, handshake, rel, count, connected, events, handles, ups>>

(* client3_3_reopen_cbk, client3_3_reopendir_cbk: client_child_up_reopen_done*)
(* counts, client_reopen_done does not                                      *)
ReopenCbk(f) ==
  /\ call[f].st = "cbk" /\ call[f].kind = "reopen"
  /\ IF fdctx[f].reopen_done = "child_up"
     THEN /\ count' = count - 1
          /\ call' = [call EXCEPT ![f].st = "counted", ![f].last = count = 1]
     ELSE /\ call' = [call EXCEPT ![f].st = "counted"] /\ UNCHANGED count
  /\ UNCHANGED <<link, handshake, files, rel, connected, events, handles, ups>>

(* Mutant: an fd released meanwhile is put back on the list.                *)
Destroy_Never(f) == FALSE

(* fdctx->released                                                          *)
Destroy(f) == fdctx[f].released

(* RELEASE of the remote fd, on whatever connection is up                   *)
SendRelease(f, r) ==
  IF connected /\ net = "up" /\ r = cur /\ handles[f] > 0
  THEN handles' = [handles EXCEPT ![f] = @ - 1]
  ELSE UNCHANGED handles

(* client_reopen_done, client_fdctx_destroy                                 *)
ReopenDone(f) ==
  /\ call[f].st = "counted"
  /\ LET rfd == IF call[f].ok THEN call[f].s ELSE Bad
     IN  IF Destroy(f)
         THEN /\ fdctx' = [fdctx EXCEPT ![f] = NoCtx]
              /\ SendRelease(f, rfd) /\ UNCHANGED saved_fds
         ELSE /\ fdctx' = [fdctx EXCEPT ![f].remote_fd = rfd,
                             ![f].reopen_done = "default", ![f].attempts = 0]
              /\ saved_fds' = saved_fds \cup {f} /\ UNCHANGED handles
  /\ call' = [call EXCEPT ![f] = NoCall]
  /\ ups' = ups \cup (IF call[f].last THEN {ThreadOf(f)} ELSE {})
  /\ UNCHANGED <<link, handshake, rel, count, connected, events>>

(* After the last one: client_notify_parents_child_up                       *)
NotifyUp ==
  /\ \E u \in ups : ups' = ups \ {u}
  /\ DispatchUniq("CHILD_UP")
  /\ UNCHANGED <<link, handshake, files, call, rel, count, connected, handles>>

----------------------------------------------------------------------------
(* Fops.                                                                    *)

Open(f) ==
  /\ ~fdctx[f].alive /\ call[f] = NoCall /\ rel[f] = Bad
  /\ connected /\ net = "up"
  /\ call' = [call EXCEPT ![f] = Submit("open")]
  /\ UNCHANGED <<link, handshake, files, rel, count, connected, events,
                 handles, ups>>

Exhausted(f) == fdctx[f].attempts = MaxAttempts

(* client_attempt_reopen, from the callback of a fop that went through on   *)
(* an anonymous fd                                                          *)
AttemptReopen(f) ==
  /\ net \in {"up", "closing"} /\ hs \in {"take", "count", "reopen", "done"}
  /\ fdctx[f].alive /\ ~fdctx[f].released
  /\ fdctx[f].reopen_done = "default" /\ fdctx[f].remote_fd = Bad
  /\ IF Exhausted(f)
     THEN /\ fdctx' = [fdctx EXCEPT ![f].reopen_done = "single"]
          /\ saved_fds' = saved_fds \ {f}
          /\ call' = [call EXCEPT ![f] = Submit("reopen")]
     ELSE /\ fdctx' = [fdctx EXCEPT ![f].attempts = @ + 1]
          /\ UNCHANGED <<saved_fds, calls>>
  /\ UNCHANGED <<link, handshake, rel, count, connected, events, handles, ups>>

(* Mutant: an fd is destroyed while a reopen call refers to it.             *)
Reopening_Never(f) == FALSE

(* "fdctx->remote_fd == -1 indicates a reopen attempt in progress"          *)
Reopening(f) == fdctx[f].remote_fd = Bad

(* client3_3_release, client3_3_releasedir                                  *)
Release(f) ==
  /\ fdctx[f].alive /\ ~fdctx[f].released
  /\ IF Reopening(f)
     THEN /\ fdctx' = [fdctx EXCEPT ![f].released = TRUE]
          /\ UNCHANGED <<saved_fds, rel>>
     ELSE /\ saved_fds' = saved_fds \ {f}
          /\ rel' = [rel EXCEPT ![f] = fdctx[f].remote_fd]
          /\ fdctx' = [fdctx EXCEPT ![f] = NoCtx]
  /\ UNCHANGED <<link, handshake, calls, count, connected, events, handles>>

(* client_fdctx_destroy after the section: on a later connection the number *)
(* may be that of another fd                                                *)
FdctxDestroy(f) ==
  /\ rel[f] # Bad /\ rel' = [rel EXCEPT ![f] = Bad]
  /\ \/ SendRelease(f, rel[f])
     \/ /\ rel[f] # cur /\ connected /\ net = "up"
        /\ \E g \in Fd : /\ handles[g] > 0
                         /\ handles' = [handles EXCEPT ![g] = @ - 1]
  /\ UNCHANGED <<link, handshake, files, calls, count, connected, events>>

----------------------------------------------------------------------------
Handshake ==
  \/ SetvolumeRefused \/ SetvolumeUnwound \/ SetvolumeCbk \/ SetvolumeMark
  \/ PostHandshake \/ CountFds \/ HandshakeDone
  \/ \E f \in Fd : ReopenNext(f)

Answer(f) ==
  Reply(f) \/ Unwind(f) \/ OpenCbk(f) \/ ReopenCbk(f) \/ ReopenDone(f)

Next ==
  \/ Connect \/ PollErr \/ Disconnect \/ Ping \/ Handshake \/ NotifyUp
  \/ \E ok \in BOOLEAN : ServeSetvolume(ok)
  \/ \E f \in Fd : \/ Answer(f) \/ Open(f) \/ AttemptReopen(f) \/ Release(f)
                   \/ FdctxDestroy(f)
                   \/ \E ok \in BOOLEAN : ServeOpen(f, ok)

Spec == Init /\ [][Next]_vars

(***************************************************************************)
(* Threads go on, and a server whose connection stays up answers.          *)
(***************************************************************************)
Fairness ==
  /\ WF_vars(Handshake) /\ WF_vars(Disconnect) /\ WF_vars(Connect)
  /\ WF_vars(NotifyUp)
  /\ WF_vars(\E ok \in BOOLEAN : ServeSetvolume(ok))
  /\ \A f \in Fd : /\ WF_vars(Answer(f))
                   /\ WF_vars(\E ok \in BOOLEAN : ServeOpen(f, ok))

FairSpec == Spec /\ Fairness

(* Parents open files on a connection only once its handshake is over.     *)
OpenAfterHandshake ==
  \A f \in Fd : (call[f].kind # "open" /\ call'[f].kind = "open") => hs = "done"

HandshakenSpec == Init /\ [][Next /\ OpenAfterHandshake]_vars /\ Fairness

----------------------------------------------------------------------------
(* Properties.                                                              *)

TypeOK ==
  /\ net \in {"down", "up", "closing"} /\ cur \in 0 .. MaxSession
  /\ hs \in {"none", "sent", "ok", "err", "mark", "take", "count", "reopen",
             "done"}
  /\ todo \subseteq Fd /\ stale \subseteq 1 .. cur /\ saved_fds \subseteq Fd
  /\ \A f \in Fd : /\ fdctx[f].remote_fd \in 0 .. cur /\ rel[f] \in 0 .. cur
                   /\ fdctx[f].attempts \in 0 .. MaxAttempts
  /\ count \in Int /\ handles \in [Fd -> Nat]

(* client_get_remote_fd never gives out a number of a connection that the  *)
(* parents were told is gone: not by a late reopen answer, an open that    *)
(* was in flight, or an fd that was off the list while it was walked       *)
(* (client_mark_fd_bad, client_reopen_done).                               *)
RemoteFdFresh ==
  \A f \in Fd : (fdctx[f].reopen_done = "default" /\ fdctx[f].remote_fd # Bad)
                  => fdctx[f].remote_fd = cur /\ net # "down"

(* An fd context is in the list of saved fds or belongs to one reopen call,*)
(* and a context that was freed is in neither: none is lost, and no answer *)
(* works on a freed one (client3_3_release against client_reopen_done).    *)
HeldOnce ==
  \A f \in Fd :
    LET held == Cardinality({p \in {"saved", "todo", "call"} :
                  \/ p = "saved" /\ f \in saved_fds
                  \/ p = "todo" /\ f \in todo
                  \/ p = "call" /\ call[f].kind = "reopen"})
    IN  held = IF fdctx[f].alive THEN 1 ELSE 0

(* A brick that answers on a connection that stays up is reported up, in   *)
(* spite of calls of earlier connections that are counted down with the    *)
(* reopened fds (client_child_up_reopen_done).                             *)
ReportedUp == <>[](net = "up") => <>[](told = "CHILD_UP")

(* On a connection that is up the server holds no fd that nobody will      *)
(* release: it is that of an fd context, on its way to one, or about to be *)
(* released (client_fdctx_destroy for an fd released while reopened).      *)
NoServerLeak ==
  net = "up" => \A f \in Fd :
    handles[f] <= Cardinality({p \in {"ctx", "call", "rel"} :
                    \/ p = "ctx" /\ fdctx[f].remote_fd = cur
                                 /\ ~fdctx[f].released
                    \/ p = "call" /\ call[f].ok /\ call[f].s = cur
                    \/ p = "rel" /\ rel[f] = cur})
============================================================================
