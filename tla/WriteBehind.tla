---------------------------- MODULE WriteBehind ----------------------------
(***************************************************************************)
(* performance/write-behind for one inode.  A write is answered before the *)
(* server has it (a lie) as long as the window allows; requests wait in    *)
(* todo for the lies they depend on; adjacent writes are collapsed or sent *)
(* together; a write the server refuses is kept and tried again until a    *)
(* flush or fsync can report the error.  A section under wb_inode->lock is *)
(* one action; answering the application and winding to the server happen  *)
(* after the lock is dropped, in actions of their own.                     *)
(* A byte of data is the number of the write that brought it.              *)
(***************************************************************************)
EXTENDS Integers, FiniteSets, SequencesExt

CONSTANTS
  Cases,                   \* bound: the requests of an application, with the
                           \* cache-size and resync-failed-syncs-after-fsync
  MaxFault, MaxShort,      \* bounds: writes the server fails or cuts short
  FileEnd,                 \* bound: no request reaches beyond this offset
  AggregateSize, PageSize

NoFd == "none"

ASSUME WriteBehindAssumption ==
  /\ {MaxFault, MaxShort, AggregateSize, PageSize, FileEnd} \subseteq Nat
  /\ \A c \in Cases : /\ c.window \in Nat /\ AggregateSize <= c.window
                     /\ c.resync \in BOOLEAN

VARIABLES
  app,     \* requests the application is still to make
  wb,      \* the wb_inode_t and its requests, numbered as they arrive
  due,     \* threads that are about to call wb_process_queue
  syncs,   \* answered synchronous writes whose wb_writev_cbk is about to
  outs,    \* threads that have left the lock with their lists
  wire,    \* calls wound to the server and not called back
  file,    \* the file on the server
  faults   \* writes the server has failed or cut short

vars == <<app, wb, due, syncs, outs, wire, file, faults>>

Max2(a, b) == IF a > b THEN a ELSE b
Req == DOMAIN wb.req

Init ==
  /\ \E c \in Cases :
       /\ app = c.requests
       /\ wb = [conf |-> [window |-> c.window, resync |-> c.resync],
                req |-> <<>>, todo |-> <<>>, liability |-> <<>>,
                temptation |-> <<>>, wip |-> <<>>, window |-> 0,
                transit |-> 0, gen |-> 0, size |-> 0, dontsync |-> 0]
  /\ due = 0 /\ syncs = {} /\ outs = {} /\ wire = {}
  /\ file = [size |-> 0, data |-> [b \in 0..FileEnd - 1 |-> 0]]
  /\ faults = [err |-> 0, short |-> 0]

----------------------------------------------------------------------------
(* Overlap and conflict of requests                                        *)

(* wb_requests_overlap: a size of 0 reaches to the end of the file         *)
LastOf(o) == IF o.size # 0 THEN o.off + o.size - 1 ELSE FileEnd
Overlap(o, p) == LastOf(o) >= p.off /\ LastOf(p) >= o.off

(* Mutant: a request does not see the last lie told before it.             *)
Conflict_OffByOne(w, lie, r) ==
  LET l == w.req[lie] q == w.req[r] IN
  /\ lie # r /\ l.gen + 1 < q.gen
  /\ q.fd = NoFd \/ q.fd = l.fd
  /\ Overlap(l.ord, q.ord)

(* wb_requests_conflict                                                    *)
Conflict(w, lie, r) ==
  LET l == w.req[lie] q == w.req[r] IN
  /\ lie # r /\ l.gen < q.gen
  /\ q.fd = NoFd \/ q.fd = l.fd
  /\ Overlap(l.ord, q.ord)

(* wb_liability_has_conflict: the lies r waits for                         *)
LiabilityConflicts(w, r) ==
  SelectSeq(w.liability,
            LAMBDA l : Conflict(w, l, r) /\ ~w.req[l].fulfilled)

(* wb_wip_has_conflict                                                     *)
WipConflict(w, r) ==
  \E l \in ToSet(w.wip) \ {r} : Overlap(w.req[l].ord, w.req[r].ord)

----------------------------------------------------------------------------
(* The life of a request                                                   *)

(* Mutant: a destroyed request stays on the list of writes in progress.    *)
Destroy_KeepWip(w, r) ==
  LET v == [w EXCEPT !.todo = Remove(@, r), !.liability = Remove(@, r),
                     !.temptation = Remove(@, r)]
  IN IF \A i \in DOMAIN v.req : v.req[i].ref = 0
     THEN [v EXCEPT !.gen = 0, !.window = 0] ELSE v

(* __wb_request_unref: the last one takes the request off every list, and  *)
(* the last request resets the generation and the window                   *)
Destroy(w, r) ==
  LET v == [w EXCEPT !.todo = Remove(@, r), !.liability = Remove(@, r),
                     !.temptation = Remove(@, r), !.wip = Remove(@, r)]
  IN IF \A i \in DOMAIN v.req : v.req[i].ref = 0
     THEN [v EXCEPT !.gen = 0, !.window = 0] ELSE v

Unref(w, r) ==
  LET v == [w EXCEPT !.req[r].ref = @ - 1]
  IN CASE w.req[r].ref <= 0 -> w
       [] w.req[r].ref = 1  -> Destroy(v, r)
       [] OTHER             -> v

(* STACK_UNWIND to the application                                         *)
Answer(w, r, reply) ==
  [w EXCEPT !.req[r].reply = IF @ = "none" THEN reply ELSE "twice"]

(* wb_enqueue_common                                                       *)
Ordering(s) ==
  IF s.fop = "write" /\ wb.size < s.off
  THEN [off |-> wb.size, size |-> s.off + s.size - wb.size]
  ELSE [off |-> s.off, size |-> IF s.fop \in {"write", "read"} THEN s.size
                                                               ELSE 0]

SizeAfter(s) ==
  CASE s.fop = "write"    -> Max2(wb.size, s.off + s.size)
    [] s.fop = "truncate" -> s.off
    [] OTHER              -> wb.size

NewRequest(s) ==
  LET n == Len(wb.req) + 1
      tempted == s.fop = "write" /\ ~s.sync
  IN [fop |-> s.fop, fd |-> s.fd, tempted |-> tempted, at |-> s.off,
      off |-> s.off, data |-> IF s.fop = "write" THEN [i \in 1..s.size |-> n]
                                                 ELSE <<>>,
      ord |-> Ordering(s), orig |-> s.size, total |-> 0, gen |-> wb.gen,
      ref |-> IF tempted THEN 2 ELSE 1, lied |-> FALSE, fulfilled |-> FALSE,
      go |-> FALSE, failed |-> FALSE, reply |-> "none", got |-> <<>>,
      before |-> {i \in Req : wb.req[i].reply # "none"}]

(* wb_writev, wb_readv, wb_flush, wb_fsync, wb_truncate, wb_ftruncate,     *)
(* wb_lookup and the fops handled like it                                  *)
Enqueue ==
  /\ app # <<>> /\ app' = Tail(app)
  /\ LET s == Head(app) n == Len(wb.req) + 1 q == NewRequest(s) IN
     wb' = [wb EXCEPT !.req = Append(@, q), !.todo = Append(@, n),
                      !.temptation = IF q.tempted THEN Append(@, n) ELSE @,
                      !.size = SizeAfter(s)]
  /\ due' = due + 1
  /\ UNCHANGED <<syncs, outs, wire, file, faults>>

----------------------------------------------------------------------------
(* The answer to a write that was sent.  c holds the head and the requests *)
(* on its winds list                                                       *)

(* __wb_fulfill_request                                                    *)
FulfillRequest(w, r) ==
  LET q == w.req[r] IN
  Unref([w EXCEPT !.req[r].fulfilled = TRUE, !.window = @ - q.total,
                  !.transit = @ - q.total,
                  !.liability = IF q.lied THEN Remove(@, r) ELSE @], r)

(* __wb_add_request_for_retry                                              *)
AddForRetry(w, r) ==
  [w EXCEPT !.transit = @ - w.req[r].total, !.req[r].total = 0,
            !.req[r].go = FALSE, !.wip = Remove(@, r),
            !.todo = <<r>> \o Remove(@, r)]

(* __wb_request_waiting_on: flushes and fsyncs of the same fd in todo      *)
WaitingOn(w, r) ==
  SelectSeq(w.todo, LAMBDA t : /\ w.req[t].fd = w.req[r].fd
                               /\ w.req[t].fop \in {"flush", "fsync"}
                               /\ w.req[t].gen >= w.req[r].gen)

(* Mutant: a failed lie is forgotten although nobody waits for it.         *)
FulfillRequestErr_Forget(w, r) ==
  FulfillRequest([w EXCEPT !.req[r].failed = TRUE], r)

(* __wb_fulfill_request_err: the error goes to the application while it is *)
(* still waiting for this write, else to a flush or fsync that waits       *)
FulfillRequestErr(w, r) ==
  LET lied == w.req[r].lied
      waiters == WaitingOn(w, r)
      told == lied /\ waiters # <<>>
      v == [w EXCEPT !.req[r].failed = TRUE]
      x == IF told THEN [v EXCEPT !.req[waiters[1]].failed = TRUE] ELSE v
      forget == \/ ~lied
                \/ told /\ ~(/\ w.req[waiters[1]].fop = "fsync"
                             /\ w.conf.resync)
  IN IF forget THEN FulfillRequest(x, r) ELSE AddForRetry(x, r)

(* wb_head_done, __wb_fulfill_err                                          *)
HeadDone(w, c) == FoldLeft(FulfillRequest, w, Tail(c) \o <<Head(c)>>)

FulfillErr(w, c) ==
  FoldLeft(FulfillRequestErr, [w EXCEPT !.dontsync = @ + 1],
           Reverse(Tail(c)) \o <<Head(c)>>)

(* The bytes of the first i requests of c                                  *)
Bytes(w, c, i) == FoldLeft(LAMBDA n, r : n + Len(w.req[r].data), 0,
                           SubSeq(c, 1, i))

(* wb_fulfill_short_write: what the n bytes cover is fulfilled, the rest   *)
(* is tried again.  Requests that are fulfilled but not yet answered are   *)
(* still on the winds list and go back to todo as well                     *)
ShortWrite(w, c, n) ==
  LET k == CHOOSE i \in 1..Len(c) : Bytes(w, c, i - 1) <= n
                                    /\ n < Bytes(w, c, i)
      cut == n - Bytes(w, c, k - 1)
      v == FoldLeft(FulfillRequest, w, SubSeq(c, 1, k - 1))
      x == [v EXCEPT !.req[c[k]].off = @ + cut,
                     !.req[c[k]].data = SubSeq(@, cut + 1, Len(@))]
      linked == SelectSeq(SubSeq(c, 1, k - 1), LAMBDA r : x.req[r].ref > 0)
  IN FoldLeft(AddForRetry, x,
              Reverse(SubSeq(c, k + 1, Len(c)) \o linked) \o <<c[k]>>)

----------------------------------------------------------------------------
(* wb_process_queue under the lock                                         *)

(* Mutant: the holder's range does not grow with its data.                 *)
Collapse_Range(w, h, r) ==
  FulfillRequest([w EXCEPT !.req[h].data = @ \o w.req[r].data,
                           !.todo = Remove(@, r)], r)

(* __wb_collapse_small_writes, and the request counts as wound             *)
Collapse(w, h, r) ==
  FulfillRequest([w EXCEPT !.req[h].data = @ \o w.req[r].data,
                           !.req[h].ord.size = @ + Len(w.req[r].data),
                           !.todo = Remove(@, r)], r)

Collapsible(w, h, r) ==
  LET p == w.req[h] q == w.req[r] IN
  /\ q.off = p.off + Len(p.data) /\ q.fd = p.fd
  /\ PageSize - Len(p.data) >= Len(q.data)

SyncAgain(n) == IF n > 0 THEN n - 1 ELSE n

(* __wb_preprocess_winds: holder, the last write in line, waits for more   *)
(* unless something depends on it or nothing is on its way (trickling)     *)
Preprocess(w0) ==
  LET step(a, r) ==
        LET w == a.w h == a.holder q == w.req[r] IN
        IF w0.dontsync > 0 /\ q.lied THEN a
        ELSE IF ~q.tempted
        THEN IF h # 0 /\ Conflict(w, h, r)
             THEN [a EXCEPT !.w.req[h].go = TRUE] ELSE a
        ELSE CASE h = 0 -> [a EXCEPT !.holder = r]
               [] h # 0 /\ Collapsible(w, h, r) ->
                    [a EXCEPT !.w = Collapse(w, h, r)]
               [] OTHER -> [a EXCEPT !.w.req[h].go = TRUE, !.holder = r]
      end == FoldLeft(step, [w |-> w0, holder |-> 0], w0.todo)
      v == [end.w EXCEPT !.dontsync = SyncAgain(@)]
  IN IF v.transit = 0 /\ end.holder # 0
     THEN [v EXCEPT !.req[end.holder].go = TRUE] ELSE v

(* Mutant: a write answered with an error can still be lied about.         *)
FailedConflict_KeepLie(a, r, lie) ==
  LET q == a.w.req[r]
      v == [a.w EXCEPT !.req[r].failed = TRUE, !.todo = Remove(@, r)]
  IN IF /\ q.fop # "flush" /\ (q.fop # "fsync" \/ a.w.conf.resync)
        /\ ~q.lied /\ lie \notin ToSet(a.w.wip)
     THEN [a EXCEPT !.tasks = Append(@, r),
                    !.w = IF q.tempted THEN FulfillRequest(v, r) ELSE v]
     ELSE a

(* __wb_handle_failed_conflict: r depends on a lie the server has refused  *)
FailedConflict(a, r, lie) ==
  LET q == a.w.req[r]
      v == [a.w EXCEPT !.req[r].failed = TRUE, !.todo = Remove(@, r),
                       !.temptation = Remove(@, r)]
  IN IF /\ q.fop # "flush" /\ (q.fop # "fsync" \/ a.w.conf.resync)
        /\ ~q.lied /\ lie \notin ToSet(a.w.wip)
     THEN [a EXCEPT !.tasks = Append(@, r),
                    !.w = IF q.tempted THEN FulfillRequest(v, r) ELSE v]
     ELSE a

(* __wb_pick_winds                                                         *)
PickWinds(w0) ==
  LET take(a, r) ==
        LET q == a.w.req[r]
            ref == IF q.fop = "write" /\ ~q.tempted THEN 1 ELSE 0
            wip == IF q.fop = "write" THEN Append(a.w.wip, r) ELSE a.w.wip
            v == [a.w EXCEPT !.req[r].ref = @ + ref, !.wip = wip,
                             !.todo = Remove(@, r)]
        IN IF q.tempted THEN [a EXCEPT !.w = v, !.liabs = Append(@, r)]
                        ELSE [a EXCEPT !.w = v, !.tasks = Append(@, r)]
      step(a, r) ==
        LET conflicts == LiabilityConflicts(a.w, r) q == a.w.req[r] IN
        IF conflicts # <<>>
        THEN IF a.w.req[conflicts[1]].failed
             THEN FailedConflict(a, r, conflicts[1]) ELSE a
        ELSE IF \/ q.tempted /\ ~q.go
                \/ q.fop = "write" /\ WipConflict(a.w, r)
             THEN a ELSE take(a, r)
  IN FoldLeft(step, [w |-> w0, tasks |-> <<>>, liabs |-> <<>>], w0.todo)

(* __wb_pick_unwinds                                                       *)
PickUnwinds(w0) ==
  LET step(a, r) ==
        LET w == a.w q == w.req[r]
            v == [w EXCEPT !.temptation = Remove(@, r),
                           !.window = @ + q.orig]
        IN IF ~q.fulfilled /\ w.window > w.conf.window THEN a
           ELSE [w |-> IF q.fulfilled THEN v
                       ELSE [v EXCEPT !.liability = Append(@, r),
                                      !.req[r].lied = TRUE, !.gen = @ + 1],
                 lies |-> Append(a.lies, r)]
  IN FoldLeft(step, [w |-> w0, lies |-> <<>>], w0.temptation)

NoAck == [r |-> 0, reply |-> "none"]
Idle == [lies |-> <<>>, tasks |-> <<>>, liabs |-> <<>>, ack |-> NoAck]

ProcessQueue(ack) ==
  LET winds == PickWinds(Preprocess(wb))
      unwinds == PickUnwinds(winds.w)
      out == [lies |-> unwinds.lies, tasks |-> winds.tasks,
              liabs |-> winds.liabs, ack |-> ack]
  IN /\ wb' = unwinds.w
     /\ outs' = outs \cup ({out} \ {Idle})
     /\ UNCHANGED <<app, wire, file, faults>>

Process ==
  /\ due > 0 /\ due' = due - 1
  /\ ProcessQueue(NoAck) /\ UNCHANGED syncs

ProcessSync(a) ==
  /\ syncs' = syncs \ {a}
  /\ ProcessQueue(a) /\ UNCHANGED due

----------------------------------------------------------------------------
(* The rest of wb_process_queue, without the lock                          *)

(* wb_do_unwinds                                                           *)
DoUnwind(o) ==
  /\ o.lies # <<>>
  /\ LET r == Head(o.lies) IN
     wb' = Unref(Answer(wb, r, IF wb.req[r].failed THEN "err" ELSE "ok"), r)
  /\ outs' = (outs \ {o}) \cup ({[o EXCEPT !.lies = Tail(@)]} \ {Idle})
  /\ UNCHANGED <<app, due, syncs, wire, file, faults>>

(* wb_fulfill: a write joins the head when it starts where the head itself *)
(* ends and what has joined stays within the aggregate size                *)
Joins(w, c, r) ==
  LET h == w.req[c[1]] q == w.req[r] IN
  /\ q.fd = h.fd /\ q.off = h.off + Len(h.data)
  /\ Bytes(w, c, Len(c)) - Len(h.data) + Len(q.data) <= AggregateSize

Heads(w, liabs) ==
  LET step(gs, r) ==
        IF gs # <<>> /\ Joins(w, Last(gs), r)
        THEN Front(gs) \o <<Append(Last(gs), r)>> ELSE Append(gs, <<r>>)
  IN ToSet(FoldLeft(step, <<>>, liabs))

Call(w, c) ==
  [c |-> c, off |-> w.req[c[1]].off, n |-> 0, st |-> "sent",
   data |-> FlattenSeq([i \in DOMAIN c |-> w.req[c[i]].data])]

(* wb_fulfill_head                                                         *)
FulfillHead(w, c) ==
  [w EXCEPT !.req[c[1]].total = Bytes(w, c, Len(c)),
            !.transit = @ + Bytes(w, c, Len(c))]

(* wb_do_winds: a request that is to fail, and with flush-behind a flush,  *)
(* is answered here                                                        *)
DoWind(w, r) ==
  LET q == w.req[r] IN
  Unref(CASE q.failed                     -> Answer(w, r, "err")
          [] ~q.failed /\ q.fop = "flush" -> Answer(w, r, "ok")
          [] OTHER                        -> w, r)

DoWinds(o) ==
  LET liabs == SelectSeq(o.liabs, LAMBDA r : wb.req[r].ref > 0)
      heads == Heads(wb, liabs)
      wound == {r \in ToSet(o.tasks) : /\ ~wb.req[r].failed
                                       /\ wb.req[r].fop # "flush"}
  IN /\ o.lies = <<>> /\ (o.tasks # <<>> \/ o.liabs # <<>>)
     /\ wb' = FoldSet(LAMBDA c, w : FulfillHead(w, c),
                      FoldLeft(DoWind, wb, o.tasks), heads)
     /\ wire' = wire \cup {Call(wb, c) : c \in heads}
                    \cup {Call(wb, <<r>>) : r \in wound}
     /\ outs' = (outs \ {o}) \cup
                ({[o EXCEPT !.tasks = <<>>, !.liabs = <<>>]} \ {Idle})
     /\ UNCHANGED <<app, due, syncs, file, faults>>

(* The end of wb_writev_cbk                                                *)
UnwindSync(o) ==
  /\ o.lies = <<>> /\ o.tasks = <<>> /\ o.liabs = <<>>
  /\ wb' = Answer(wb, o.ack.r, o.ack.reply)
  /\ outs' = outs \ {o}
  /\ UNCHANGED <<app, due, syncs, wire, file, faults>>

----------------------------------------------------------------------------
(* The server                                                              *)

Fop(m) == wb.req[m.c[1]].fop
Tempted(m) == wb.req[m.c[1]].tempted
Store(m, n) ==
  [size |-> Max2(file.size, m.off + n),
   data |-> [b \in DOMAIN file.data |->
               IF b \in m.off..m.off + n - 1 THEN m.data[b - m.off + 1]
                                             ELSE file.data[b]]]
Cut(size) ==
  [size |-> size, data |-> [b \in DOMAIN file.data |->
                              IF b < size THEN file.data[b] ELSE 0]]

Done(m, st, n) == wire' = (wire \ {m}) \cup {[m EXCEPT !.st = st, !.n = n]}

ServeWrite(m) ==
  /\ m.st = "sent" /\ Fop(m) = "write"
  /\ file' = Store(m, Len(m.data)) /\ Done(m, "ok", Len(m.data))
  /\ UNCHANGED <<app, wb, due, syncs, outs, faults>>

FailWrite(m) ==
  /\ m.st = "sent" /\ Fop(m) = "write" /\ faults.err < MaxFault
  /\ faults' = [faults EXCEPT !.err = @ + 1] /\ Done(m, "err", 0)
  /\ UNCHANGED <<app, wb, due, syncs, outs, file>>

ShortenWrite(m) ==
  /\ m.st = "sent" /\ Fop(m) = "write" /\ Tempted(m)
  /\ faults.short < MaxShort
  /\ faults' = [faults EXCEPT !.short = @ + 1]
  /\ \E n \in 0..Len(m.data) - 1 :
       /\ file' = IF n = 0 THEN file ELSE Store(m, n)
       /\ Done(m, "short", n)
  /\ UNCHANGED <<app, wb, due, syncs, outs>>

ServeTruncate(m) ==
  /\ m.st = "sent" /\ Fop(m) = "truncate"
  /\ file' = Cut(m.off) /\ Done(m, "ok", m.off)
  /\ UNCHANGED <<app, wb, due, syncs, outs, faults>>

ServeLookup(m) ==
  /\ m.st = "sent" /\ Fop(m) = "lookup"
  /\ Done(m, "ok", file.size)
  /\ UNCHANGED <<app, wb, due, syncs, outs, file, faults>>

(* A read is answered with the bytes there are, an fsync with success      *)
ServeQuery(m) ==
  LET r == m.c[1]
      end == Min({file.size, m.off + wb.req[r].orig})
      got == [i \in 1..Max2(end - m.off, 0) |-> file.data[m.off + i - 1]]
  IN /\ m.st = "sent" /\ Fop(m) \in {"read", "fsync"}
     /\ wb' = Answer([wb EXCEPT !.req[r].got = got], r, "ok")
     /\ wire' = wire \ {m}
     /\ UNCHANGED <<app, due, syncs, outs, file, faults>>

----------------------------------------------------------------------------
(* Callbacks                                                               *)

(* wb_fulfill_cbk                                                          *)
FulfillCbk(m) ==
  /\ m.st # "sent" /\ Fop(m) = "write" /\ Tempted(m)
  /\ wb' = CASE m.st = "ok"    -> HeadDone(wb, m.c)
             [] m.st = "err"   -> FulfillErr(wb, m.c)
             [] m.st = "short" -> ShortWrite(wb, m.c, m.n)
  /\ wire' = wire \ {m} /\ due' = due + 1
  /\ UNCHANGED <<app, syncs, outs, file, faults>>

(* Mutant: the queue is not looked at when a synchronous write is done.    *)
WritevCbk_NoProcess(m) ==
  /\ m.st # "sent" /\ Fop(m) = "write" /\ ~Tempted(m)
  /\ wb' = Answer(Unref(wb, m.c[1]), m.c[1], m.st)
  /\ wire' = wire \ {m}
  /\ UNCHANGED <<app, due, syncs, outs, file, faults>>

(* wb_writev_cbk                                                           *)
WritevCbk(m) ==
  /\ m.st # "sent" /\ Fop(m) = "write" /\ ~Tempted(m)
  /\ wb' = Unref(wb, m.c[1])
  /\ syncs' = syncs \cup {[r |-> m.c[1], reply |-> m.st]}
  /\ wire' = wire \ {m}
  /\ UNCHANGED <<app, due, outs, file, faults>>

(* wb_truncate_cbk, wb_ftruncate_cbk, wb_lookup_cbk                        *)
SizeCbk(m) ==
  /\ m.st # "sent" /\ Fop(m) \in {"truncate", "lookup"}
  /\ wb' = Answer([wb EXCEPT !.size = m.n, !.req[m.c[1]].got = <<m.n>>],
                  m.c[1], "ok")
  /\ wire' = wire \ {m}
  /\ UNCHANGED <<app, due, syncs, outs, file, faults>>

----------------------------------------------------------------------------
Thread == \/ Process \/ \E a \in syncs : ProcessSync(a)
          \/ \E o \in outs : DoUnwind(o) \/ DoWinds(o) \/ UnwindSync(o)
Server == \E m \in wire :
            \/ ServeWrite(m) \/ FailWrite(m) \/ ShortenWrite(m)
            \/ ServeTruncate(m) \/ ServeLookup(m) \/ ServeQuery(m)
Callback == \E m \in wire : FulfillCbk(m) \/ WritevCbk(m) \/ SizeCbk(m)
Next == Enqueue \/ Thread \/ Server \/ Callback

Spec == Init /\ [][Next]_vars

----------------------------------------------------------------------------
(* What the application may rely on                                        *)

Extent(w) == wb.req[w].at..wb.req[w].at + wb.req[w].orig - 1
Kind(fops, reply) == {r \in Req : wb.req[r].fop \in fops
                                  /\ wb.req[r].reply = reply}
SameFd(r, w) == wb.req[r].fd \in {NoFd, wb.req[w].fd}

(* A flush or fsync tells the application, or will, that w may be lost     *)
Reported(w) ==
  \E f \in Req : /\ wb.req[f].fop \in {"flush", "fsync"} /\ SameFd(f, w)
                 /\ wb.req[f].failed /\ wb.req[f].reply # "ok"
                 /\ f \notin wb.req[w].before

(* Writes r must take notice of: answered with success before r was made   *)
Due(r) == {w \in Kind({"write"}, "ok") : /\ w \in wb.req[r].before
                                         /\ SameFd(r, w) /\ ~Reported(w)}

TruncatedAt(w, b) == \E t \in Req : /\ wb.req[t].fop = "truncate"
                                    /\ wb.req[t].off <= b
                                    /\ t \notin wb.req[w].before

(* Byte b holds v: w's data, or that of a write not older than w           *)
Shown(w, b, v) == IF v = 0 THEN TruncatedAt(w, b)
                  ELSE v = w \/ v \notin wb.req[w].before

(* Once a flush or fsync has succeeded, every write of its fd that was     *)
(* answered with success before it was made is on the server and stays     *)
(* there, however often its sync failed, unless some flush or fsync has    *)
(* reported the error (__wb_fulfill_request_err, wb_requests_conflict).    *)
FlushStores ==
  \A f \in Kind({"flush", "fsync"}, "ok") : \A w \in Due(f) :
    \A b \in Extent(w) : Shown(w, b, file.data[b])

(* A read gets the bytes of every write of its fd that was answered before *)
(* the read was made, or newer ones, and zeros rather than an early end of *)
(* file below such a write (liability, and wb_inode->size at enqueue).  A  *)
(* lookup, which has no fd, gets a size that takes in every write of any   *)
(* fd answered before it (wb_requests_conflict with req->fd NULL).         *)
ReadSees ==
  /\ \A r \in Kind({"read"}, "ok") : \A w \in Due(r) :
       LET q == wb.req[r] IN
       \A b \in Extent(r) :
         /\ b > Max(Extent(w)) \/ b < q.off + Len(q.got) \/ TruncatedAt(w, b)
         /\ b \notin Extent(w) \/ b >= q.off + Len(q.got)
            \/ Shown(w, b, q.got[b - q.off + 1])
  /\ \A r \in Kind({"lookup"}, "ok") : \A w \in Due(r) :
       wb.req[r].got[1] > Max(Extent(w)) \/ TruncatedAt(w, Max(Extent(w)))

(* No two writes that overlap are with the server at the same time, as     *)
(* AFR's eager lock relies on (wb_inode->wip), also after writes were      *)
(* collapsed, joined, cut short or sent again.                             *)
NoOverlapInFlight ==
  \A m, n \in {k \in wire : Fop(k) = "write"} :
    m = n \/ \A i \in DOMAIN m.data : \A j \in DOMAIN n.data :
               m.off + i # n.off + j

(* No request is answered twice: not by the lie and by its failure, not by *)
(* a failed conflict and by the lie (__wb_handle_failed_conflict).         *)
AnsweredOnce == \A r \in Req : wb.req[r].reply # "twice"

(* Requests on some list, or of a write with the server                    *)
InUse == ToSet(wb.todo \o wb.liability \o wb.temptation \o wb.wip)
         \cup UNION {ToSet(o.lies \o o.tasks) : o \in outs}
         \cup UNION {ToSet(m.c) : m \in {k \in wire : Fop(k) = "write"}}
(* A request is not freed while a list, a thread that is to answer or wind *)
(* it, or a write that is with the server still refers to it.              *)
HeldWhileUsed == \A r \in InUse : wb.req[r].ref > 0

(* The types of the state.  window and transit may fall below zero for a   *)
(* while; the counters of wb_inode_t that must not are naturals.           *)
TypeOK ==
  /\ due \in Nat /\ wb.dontsync \in Nat /\ wb.gen \in Nat
  /\ wb.size \in 0..FileEnd /\ file.size \in 0..FileEnd
  /\ wb.window \in Int /\ wb.transit \in Int
  /\ \A r \in Req : /\ wb.req[r].ref \in 0..2
                    /\ wb.req[r].lied => wb.req[r].tempted
  /\ \A l \in {wb.todo, wb.liability, wb.temptation, wb.wip} :
       ToSet(l) \subseteq Req /\ Cardinality(ToSet(l)) = Len(l)
  /\ \A m \in wire : ToSet(m.c) \subseteq Req

(* No thread is in write-behind and nothing is with the server             *)
Quiet == due = 0 /\ syncs = {} /\ outs = {} /\ wire = {}

(* When everything has come to rest no request is left unanswered: nobody  *)
(* waits in todo for an event that will not come.  Every behaviour comes   *)
(* to rest, since dontsync stops a failed sync from trying itself again.   *)
(* And if no sync has failed nothing is held back either: the last write   *)
(* in line is not waiting for a neighbour.                                 *)
NobodyStranded ==
  Quiet => /\ \A r \in Req : wb.req[r].reply # "none"
           /\ faults.err = 0 => wb.todo = <<>> /\ wb.liability = <<>>
============================================================================
