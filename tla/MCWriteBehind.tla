--------------------------- MODULE MCWriteBehind ---------------------------
(* Small instances of WriteBehind for TLC.                                 *)
EXTENDS WriteBehind

Write(off, size) == [fop |-> "write", fd |-> "f", off |-> off,
                     size |-> size, sync |-> FALSE]
SyncWrite(off, size) == [Write(off, size) EXCEPT !.sync = TRUE]
Read(off, size) == [Write(off, size) EXCEPT !.fop = "read"]
Flush == [Write(0, 0) EXCEPT !.fop = "flush"]
Fsync == [Write(0, 0) EXCEPT !.fop = "fsync"]
Lookup == [Write(0, 0) EXCEPT !.fop = "lookup", !.fd = NoFd]
Truncate(off) == [Write(off, 0) EXCEPT !.fop = "truncate", !.fd = NoFd]

Case(requests, window, resync) ==
  [requests |-> requests, window |-> window, resync |-> resync]
Narrow == 2
Roomy == 8

Mixed ==
  {Case(r, w, FALSE) :
     w \in {Narrow, Roomy},
     r \in {<<Write(0, 2), Write(1, 1), Flush, Read(0, 3)>>,
           <<Write(2, 2), Lookup, Read(0, 3)>>,
           <<Write(0, 2), Write(2, 2), Flush>>,
           <<Write(0, 2), Truncate(1), Write(2, 1), Lookup>>,
           <<SyncWrite(1, 2), Write(0, 2), Fsync, Read(0, 3)>>,
           <<Write(0, 2), Fsync, Write(1, 1), Flush>>,
           <<Write(2, 1), Write(3, 1), SyncWrite(3, 1)>>}}
  \cup {Case(<<Write(0, 2), Write(1, 1), Fsync, Read(0, 3)>>, Roomy, TRUE)}

(* The application does not write over a buffered write it has no answer   *)
(* for and, when the window is narrow, has one write unanswered at most.   *)
Orderly ==
  (app # app' /\ Head(app).fop = "write") =>
    \A r \in Req :
      (wb.req[r].fop = "write" /\ wb.req[r].reply = "none") =>
         /\ wb.conf.window # Narrow
         /\ wb.req[r].tempted => ~Overlap(wb.req[r].ord, Ordering(Head(app)))

OrderlySpec == Init /\ [][Next /\ Orderly]_vars

(* Several unanswered writes with a narrow window                          *)
Crowded ==
  {Case(<<Write(0, 3), Write(3, 1), Write(4, 1), Read(4, 1)>>, Narrow, FALSE)}
============================================================================
