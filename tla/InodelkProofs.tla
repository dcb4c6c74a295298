--------------------------- MODULE InodelkProofs ---------------------------
(***************************************************************************)
(* Inodelk for any set of requests, clients, domains and threads, with     *)
(* clear-locks and revocation on or off: types, mutual exclusion, and that *)
(* no owner waits for itself.                                              *)
(***************************************************************************)
EXTENDS Inodelk, TLAPS

(* Leaves are first-order reasoning unless they cite SMT.                  *)
USE Zenon

----------------------------------------------------------------------------
(* Lists                                                                   *)

LEMMA ElementIs ==
  ASSUME NEW S, NEW s \in Seq(S), NEW i \in 1 .. Len(s)
  PROVE  s[i] \in S
BY SMT

LEMMA EmptyIs ==
  ASSUME NEW S
  PROVE  /\ <<>> \in Seq(S) /\ Len(<<>>) = 0
         /\ \A s \in Seq(S) : s # <<>> => Len(s) \in Nat \ {0}
BY SMT

LEMMA LenIs ==
  ASSUME NEW S, NEW s \in Seq(S)
  PROVE  Len(s) \in Nat /\ DOMAIN s = 1 .. Len(s) /\ s \in [1 .. Len(s) -> S]
BY SMT

LEMMA AppendIs ==
  ASSUME NEW S, NEW s \in Seq(S), NEW l \in S
  PROVE  /\ Append(s, l) \in Seq(S) /\ Len(Append(s, l)) = Len(s) + 1
         /\ Append(s, l)[Len(s) + 1] = l
         /\ \A i \in 1 .. Len(s) : Append(s, l)[i] = s[i]
BY SMT

LEMMA HeadTailIs ==
  ASSUME NEW S, NEW s \in Seq(S), s # <<>>
  PROVE  /\ Head(s) \in S /\ Tail(s) \in Seq(S)
         /\ Len(Tail(s)) = Len(s) - 1
         /\ \A i \in 1 .. Len(Tail(s)) : Tail(s)[i] = s[i + 1]
BY SMT

LEMMA SubSeqIs ==
  ASSUME NEW S, NEW s \in Seq(S),
         NEW m \in 1 .. Len(s) + 1, NEW n \in 0 .. Len(s)
  PROVE  /\ SubSeq(s, m, n) \in Seq(S)
         /\ Len(SubSeq(s, m, n)) = IF m <= n THEN n - m + 1 ELSE 0
         /\ \A i \in 1 .. n - m + 1 : SubSeq(s, m, n)[i] = s[m + i - 1]
BY SMT

LEMMA ConcatIs ==
  ASSUME NEW S, NEW s \in Seq(S), NEW r \in Seq(S)
  PROVE  /\ s \o r \in Seq(S) /\ Len(s \o r) = Len(s) + Len(r)
         /\ \A i \in 1 .. Len(s) + Len(r) :
              (s \o r)[i] = IF i <= Len(s) THEN s[i] ELSE r[i - Len(s)]
BY SMT

(* The members of a list are members of the set it is over.                *)
LEMMA ElemsType ==
  ASSUME NEW S, NEW s \in Seq(S)
  PROVE  Elems(s) \subseteq S
  BY ElementIs, LenIs DEF Elems

----------------------------------------------------------------------------
(* Type correctness                                                        *)

ClrPC == {"clr_blkd", "clr_blkd_loop", "clr_unwind", "clr_granted",
          "clr_granted_loop", "clr_read", "clr_write"}

(* What the arguments of a thread are, by where it is: the request it      *)
(* works on, the domain of its grant pass, the client it cleans up after.  *)
PlaceOK ==
  \A t \in Thread :
    /\ pc[t] \in {"prune", "pruning", "setlk", "cleanup_unref"}
         \/ ret[t] \in {"setlk", "cleanup_unref"} => arg[t].lock \in Lock
    /\ pc[t] \in {"prune", "pruning", "grant", "granting", "unwinding"} \cup ClrPC
         => arg[t].dom \in Domain
    /\ pc[t] \in {"cleanup", "cleanup_unwind", "cleanup_unref"}
         \/ ret[t] = "cleanup_unref" => arg[t].client \in Client
    /\ pc[t] = "clr_write" => cursor[t] \in Lock

TypeInv == TypeOK /\ PlaceOK

LEMMA FieldTypes ==
  ASSUME NEW l \in Lock
  PROVE  /\ dom(l) \in Domain
         /\ attr[l].client \in Client
         /\ attr[l].fl_start \in Nat
         /\ attr[l].fl_end \in Nat
  BY LockAssumption DEF Fields, dom

LEMMA InitTypeInv == Init => TypeInv
<1> SUFFICES ASSUME Init PROVE TypeInv
  OBVIOUS
<1> USE DEF Init
<1>1. ObjsOK /\ ListsOK /\ SharedOK
  BY EmptyIs, SMT DEF ObjsOK, ListsOK, SharedOK
<1>2. RunOK /\ LocalsOK
  BY EmptyIs, SMT DEF RunOK, LocalsOK, NoArg, NoClr, Arg, ArgType, PC
<1>3. PlaceOK
  BY DEF PlaceOK, ClrPC
<1> QED BY <1>1, <1>2, <1>3 DEF TypeInv, TypeOK

LEMMA StepTypeInv == TypeInv /\ [Next]_vars => TypeInv'
(* Dropping one element of a list leaves a list of the same kind.          *)
<1>RemoveIndexType.
      ASSUME NEW S, NEW s \in Seq(S), NEW i \in DOMAIN s
      PROVE  RemoveIndex(s, i) \in Seq(S)
  BY <1>RemoveIndexType, SubSeqIs, ConcatIs, SMT DEF RemoveIndex

(* list_del_init keeps the kind of the list.                               *)
<1>UnlinkType.
      ASSUME NEW S, NEW s \in Seq(S), NEW l
      PROVE  Unlink(s, l) \in Seq(S)
  BY <1>UnlinkType, <1>RemoveIndexType DEF Unlink

(* A local set of locks that gains a lock is still a set of locks.         *)
<1>AddType.
      ASSUME NEW S, NEW T, NEW f \in [T -> SUBSET S], NEW t \in T, NEW l \in S
      PROVE  [f EXCEPT ![t] = @ \cup {l}] \in [T -> SUBSET S]
  BY <1>AddType

(* The cursor of a cleanup is a lock or the end of the list.               *)
<1>CursorType.
      ASSUME NEW S, NEW s \in Seq(S), NEW l
      PROVE  /\ First(s) \in S \cup {NoLock}
             /\ l \in Elems(s) => NextOf(s, l) \in S \cup {NoLock}
  <2> USE <1>CursorType
  <2>1. First(s) \in S \cup {NoLock}
    BY ElementIs, LenIs, EmptyIs, SMT DEF First
  <2>2. ASSUME l \in Elems(s) PROVE NextOf(s, l) \in S \cup {NoLock}
    <3> DEFINE i == CHOOSE j \in DOMAIN s : s[j] = l
    <3>1. i \in DOMAIN s
      BY <2>2 DEF Elems
    <3>2. i < Len(s) => s[i + 1] \in S
      BY <3>1, ElementIs, LenIs, SMT
    <3> QED BY <3>2 DEF NextOf
  <2> QED BY <2>1, <2>2

<1>SetlkTypeInv.
      ASSUME TypeInv, NEW t \in Thread,
             SetlkStep(t) \/ \E l \in Lock : Request(t, l) \/ Unlock(t, l)
      PROVE  TypeInv'
  <2> USE <1>SetlkTypeInv
  <2> USE DEF TypeInv, TypeOK
  <2>1. ASSUME NEW l \in Lock, Request(t, l)
        PROVE  TypeInv'
    <3>1. dom(l) \in Domain /\ attr[l].client \in Client
      BY FieldTypes
    <3>2. (IF Revocation THEN "prune" ELSE "setlk") \in {"prune", "setlk"}
      OBVIOUS
    <3>3. ListsOK' /\ LocalsOK'
      BY <2>1 DEF Request, ListsOK, LocalsOK, objs, lists, shared, run, locals
    <3>4. ObjsOK'
      BY <2>1, SMT DEF Request, ObjsOK
    <3>5. SharedOK'
      BY <2>1, SMT DEF Request, SharedOK
    <3>6. RunOK'
      BY <2>1, <3>1, <3>2 DEF Request, RunOK, Call, Arg, NoArg, Return, Goto, ArgType, PC
    <3>7. PlaceOK'
      BY <2>1, <3>1, <3>2 DEF Request, PlaceOK, RunOK, Call, Arg, NoArg, Return, Goto, ClrPC, locals
    <3> QED BY <3>3, <3>4, <3>5, <3>6, <3>7 DEF TypeInv, TypeOK
  <2>2. ASSUME NEW l \in Lock, Unlock(t, l)
        PROVE  TypeInv'
    <3>1. dom(l) \in Domain /\ attr[l].client \in Client
      BY FieldTypes
    <3>2. Unlink(client_list[attr[l].client], l) \in Seq(Lock)
      BY <3>1, <1>UnlinkType DEF ListsOK
    <3>3. SharedOK' /\ LocalsOK'
      BY <2>2 DEF Unlock, SharedOK, LocalsOK, objs, lists, shared, run, locals
    <3>4. ObjsOK'
      BY <2>2, SMT DEF Unlock, ObjsOK, __pl_inodelk_unref
    <3>5. ListsOK'
      BY <2>2, <3>2 DEF Unlock, ListsOK
    <3>6. RunOK'
      BY <2>2, <3>1 DEF Unlock, RunOK, Call, Arg, NoArg, Return, Goto, ArgType, PC
    <3>7. PlaceOK'
      BY <2>2, <3>1 DEF Unlock, PlaceOK, RunOK, Call, Arg, NoArg, Return, Goto, ClrPC, locals
    <3> QED BY <3>3, <3>4, <3>5, <3>6, <3>7 DEF TypeInv, TypeOK
  <2>3. CASE PruneNothing(t)
    <3>1. ObjsOK' /\ ListsOK' /\ SharedOK' /\ LocalsOK'
      BY <2>3 DEF PruneNothing, ObjsOK, ListsOK, SharedOK, LocalsOK, objs, lists, shared, run, locals
    <3>2. RunOK'
      BY <2>3 DEF PruneNothing, RunOK, Call, Arg, NoArg, Return, Goto, ArgType, PC
    <3>3. PlaceOK'
      BY <2>3 DEF PruneNothing, PlaceOK, RunOK, Call, Arg, NoArg, Return, Goto, ClrPC, locals
    <3> QED BY <3>1, <3>2, <3>3 DEF TypeInv, TypeOK
  <2>4. CASE PruneRevoke(t)
    <3>1. arg[t] \in ArgType /\ arg[t].lock \in Lock /\ arg[t].dom \in Domain
      BY <2>4 DEF PruneRevoke, RunOK, PlaceOK
    <3>2. PICK kind \in SUBSET {"blocked", "granted"} :
            /\ Call(t, ClrStart(kind), "setlk", arg[t])
            /\ clr' = [clr EXCEPT ![t] = [kind |-> kind, range |-> Lock]]
      BY <2>4 DEF PruneRevoke
    <3>3. ClrStart(kind) \in {"clr_blkd", "clr_granted"}
      BY DEF ClrStart
    <3>4. ObjsOK' /\ ListsOK' /\ SharedOK' /\ LocalsOK'
      BY <2>4 DEF PruneRevoke, ObjsOK, ListsOK, SharedOK, LocalsOK, objs, lists, shared, run, locals
    <3>5. RunOK'
      BY <2>4, <3>1, <3>2, <3>3, SMT DEF PruneRevoke, RunOK, Call, Arg, NoArg,
         Return, Goto, ArgType, PC
    <3>6. PlaceOK'
      BY <2>4, <3>1, <3>2, <3>3, SMT DEF PruneRevoke, PlaceOK, RunOK, Call,
         Arg, NoArg, Return, Goto, ClrPC, locals
    <3> QED BY <3>4, <3>5, <3>6 DEF TypeInv, TypeOK
  <2>5. CASE SetlkGrant(t)
    <3>1. arg[t].lock \in Lock
      BY <2>5 DEF SetlkGrant, PlaceOK
    <3>2. attr[arg[t].lock].client \in Client
      BY <3>1, FieldTypes
    <3>3. Append(client_list[attr[arg[t].lock].client], arg[t].lock) \in Seq(Lock)
      BY <3>1, <3>2, AppendIs DEF ListsOK
    <3>4. SharedOK' /\ LocalsOK'
      BY <2>5 DEF SetlkGrant, SharedOK, LocalsOK, objs, lists, shared, run, locals
    <3>5. ObjsOK'
      <4>1. STACK_UNWIND(arg[t].lock) /\ UNCHANGED ref
        BY <2>5 DEF SetlkGrant
      <4> QED BY <3>1, <4>1, SMT DEF ObjsOK, STACK_UNWIND
    <3>6. ListsOK'
      BY <2>5, <3>1, <3>2, <3>3 DEF SetlkGrant, ListsOK
    <3>7. RunOK'
      BY <2>5 DEF SetlkGrant, RunOK, Call, Arg, NoArg, Return, Goto, ArgType, PC
    <3>8. PlaceOK'
      BY <2>5 DEF SetlkGrant, PlaceOK, RunOK, Call, Arg, NoArg, Return, Goto, ClrPC, locals
    <3> QED BY <3>4, <3>5, <3>6, <3>7, <3>8 DEF TypeInv, TypeOK
  <2>6. CASE SetlkBlock(t)
    <3>1. arg[t].lock \in Lock
      BY <2>6 DEF SetlkBlock, PlaceOK
    <3>2. attr[arg[t].lock].client \in Client /\ dom(arg[t].lock) \in Domain
      BY <3>1, FieldTypes
    <3>3. /\ Append(client_list[attr[arg[t].lock].client], arg[t].lock) \in Seq(Lock)
          /\ Append(blocked_inodelks[dom(arg[t].lock)], arg[t].lock) \in Seq(Lock)
      BY <3>1, <3>2, AppendIs DEF ListsOK
    <3>4. ObjsOK' /\ SharedOK' /\ LocalsOK'
      BY <2>6 DEF SetlkBlock, ObjsOK, SharedOK, LocalsOK, objs, lists, shared, run, locals
    <3>5. ListsOK'
      BY <2>6, <3>1, <3>2, <3>3 DEF SetlkBlock, ListsOK
    <3>6. RunOK'
      BY <2>6 DEF SetlkBlock, RunOK, Call, Arg, NoArg, Return, Goto, ArgType, PC
    <3>7. PlaceOK'
      BY <2>6 DEF SetlkBlock, PlaceOK, RunOK, Call, Arg, NoArg, Return, Goto, ClrPC, locals
    <3> QED BY <3>4, <3>5, <3>6, <3>7 DEF TypeInv, TypeOK
  <2>7. CASE SetlkEagain(t)
    <3>1. arg[t].lock \in Lock
      BY <2>7 DEF SetlkEagain, PlaceOK
    <3>2. ListsOK' /\ LocalsOK'
      BY <2>7 DEF SetlkEagain, ListsOK, LocalsOK, objs, lists, shared, run, locals
    <3>3. ObjsOK'
      BY <2>7, <3>1, SMT DEF SetlkEagain, ObjsOK, STACK_UNWIND,
         __pl_inodelk_unref
    <3>4. SharedOK'
      BY <2>7, SMT DEF SetlkEagain, SharedOK, inode_unref
    <3>5. RunOK'
      BY <2>7 DEF SetlkEagain, RunOK, Call, Arg, NoArg, Return, Goto, ArgType, PC
    <3>6. PlaceOK'
      BY <2>7 DEF SetlkEagain, PlaceOK, RunOK, Call, Arg, NoArg, Return, Goto, ClrPC, locals
    <3> QED BY <3>2, <3>3, <3>4, <3>5, <3>6 DEF TypeInv, TypeOK
  <2>8. CASE UnlockReturn(t)
    <3>1. ObjsOK' /\ ListsOK' /\ LocalsOK'
      BY <2>8 DEF UnlockReturn, ObjsOK, ListsOK, LocalsOK, objs, lists, shared, run, locals
    <3>2. SharedOK'
      BY <2>8, SMT DEF UnlockReturn, SharedOK, inode_unref
    <3>3. RunOK'
      BY <2>8 DEF UnlockReturn, RunOK, Call, Arg, NoArg, Return, Goto, ArgType, PC
    <3>4. PlaceOK'
      BY <2>8 DEF UnlockReturn, PlaceOK, RunOK, Call, Arg, NoArg, Return, Goto, ClrPC, locals
    <3> QED BY <3>1, <3>2, <3>3, <3>4 DEF TypeInv, TypeOK
  <2>9. CASE PruneCheck(t)
    <3>1. \E label \in {"setlk", "pruning"} : Goto(t, label)
      BY <2>9 DEF PruneCheck
    <3>2. pc[t] = "prune" /\ arg[t].lock \in Lock /\ arg[t].dom \in Domain
      BY <2>9 DEF PruneCheck, PlaceOK
    <3>3. ObjsOK' /\ ListsOK' /\ SharedOK' /\ LocalsOK'
      BY <2>9 DEF PruneCheck, ObjsOK, ListsOK, SharedOK, LocalsOK, objs, lists, shared, run, locals
    <3>4. RunOK'
      BY <2>9, <3>1 DEF PruneCheck, RunOK, Goto, PC
    <3>5. PlaceOK'
      BY <2>9, <3>1, <3>2 DEF PruneCheck, PlaceOK, RunOK, Goto, ClrPC, locals
    <3> QED BY <3>3, <3>4, <3>5 DEF TypeInv, TypeOK
  <2> QED BY <2>1, <2>2, <2>3, <2>4, <2>5, <2>6, <2>7, <2>8, <2>9 DEF SetlkStep

<1>GrantTypeInv.
      ASSUME TypeInv, NEW t \in Thread,
             GrantStep(t)
      PROVE  TypeInv'
  <2> USE <1>GrantTypeInv
  <2> USE DEF TypeInv, TypeOK
  <2>1. CASE GrantEnter(t)
    <3>1. arg[t].dom \in Domain
      BY <2>1 DEF GrantEnter, PlaceOK
    <3>2. blocked_inodelks[arg[t].dom] \in Seq(Lock) /\ <<>> \in Seq(Lock)
      BY <3>1, EmptyIs DEF ListsOK
    <3>3. ObjsOK'
      BY <2>1 DEF GrantEnter, ObjsOK, objs, lists, shared, run, locals
    <3>4. ListsOK'
      BY <2>1, <3>1, <3>2 DEF GrantEnter, ListsOK
    <3>5. SharedOK'
      BY <2>1 DEF GrantEnter, SharedOK
    <3>6. RunOK'
      BY <2>1 DEF GrantEnter, RunOK, Call, Arg, NoArg, Return, Goto, ArgType, PC
    <3>7. LocalsOK'
      BY <2>1, <3>2 DEF GrantEnter, LocalsOK
    <3>8. PlaceOK'
      BY <2>1, <3>1 DEF GrantEnter, PlaceOK, RunOK, Call, Arg, NoArg, Return, Goto, ClrPC, LocalsOK
    <3> QED BY <3>3, <3>4, <3>5, <3>6, <3>7, <3>8 DEF TypeInv, TypeOK
  <2>2. CASE GrantOne(t)
    <3>1. Head(blocked_list[t]) \in Lock /\ Tail(blocked_list[t]) \in Seq(Lock)
      BY <2>2, HeadTailIs DEF GrantOne, LocalsOK
    <3>2. SharedOK' /\ RunOK'
      BY <2>2 DEF GrantOne, SharedOK, RunOK, objs, lists, shared, run, locals
    <3>3. ObjsOK'
      BY <2>2, <3>1, SMT DEF GrantOne, ObjsOK, __pl_inodelk_ref
    <3>4. ListsOK'
      BY <2>2, <3>1 DEF GrantOne, ListsOK
    <3>5. LocalsOK'
      BY <2>2, <3>1 DEF GrantOne, LocalsOK
    <3>6. PlaceOK'
      BY <2>2 DEF GrantOne, PlaceOK, run, LocalsOK
    <3> QED BY <3>2, <3>3, <3>4, <3>5, <3>6 DEF TypeInv, TypeOK
  <2>3. CASE GrantRequeue(t)
    <3>1. Head(blocked_list[t]) \in Lock /\ Tail(blocked_list[t]) \in Seq(Lock)
      BY <2>3, HeadTailIs DEF GrantRequeue, LocalsOK
    <3>2. dom(Head(blocked_list[t])) \in Domain
      BY <3>1, FieldTypes
    <3>3. Append(blocked_inodelks[dom(Head(blocked_list[t]))], Head(blocked_list[t])) \in Seq(Lock)
      BY <3>1, <3>2, AppendIs DEF ListsOK
    <3>4. ObjsOK' /\ SharedOK' /\ RunOK'
      BY <2>3 DEF GrantRequeue, ObjsOK, SharedOK, RunOK, objs, lists, shared, run, locals
    <3>5. ListsOK'
      BY <2>3, <3>2, <3>3 DEF GrantRequeue, ListsOK
    <3>6. LocalsOK'
      BY <2>3, <3>1 DEF GrantRequeue, LocalsOK
    <3>7. PlaceOK'
      BY <2>3 DEF GrantRequeue, PlaceOK, run, LocalsOK
    <3> QED BY <3>4, <3>5, <3>6, <3>7 DEF TypeInv, TypeOK
  <2>4. CASE GrantLeave(t)
    <3>1. ObjsOK' /\ ListsOK' /\ LocalsOK'
      BY <2>4 DEF GrantLeave, ObjsOK, ListsOK, LocalsOK, objs, lists, shared, run, locals
    <3>2. SharedOK'
      BY <2>4 DEF GrantLeave, SharedOK
    <3>3. RunOK'
      BY <2>4 DEF GrantLeave, RunOK, Call, Arg, NoArg, Return, Goto, ArgType, PC
    <3>4. PlaceOK'
      BY <2>4 DEF GrantLeave, PlaceOK, RunOK, Call, Arg, NoArg, Return, Goto, ClrPC, locals
    <3> QED BY <3>1, <3>2, <3>3, <3>4 DEF TypeInv, TypeOK
  <2>5. CASE GrantUnwind(t)
    <3>1. PICK l \in unwind[t] : STACK_UNWIND(l) /\ unwind' = [unwind EXCEPT ![t] = @ \ {l}]
      BY <2>5 DEF GrantUnwind
    <3>2. l \in Lock
      BY DEF LocalsOK
    <3>3. ListsOK' /\ SharedOK' /\ RunOK'
      BY <2>5 DEF GrantUnwind, ListsOK, SharedOK, RunOK, objs, lists, shared, run, locals
    <3>4. ObjsOK'
      BY <2>5, <3>1, <3>2, SMT DEF GrantUnwind, ObjsOK, STACK_UNWIND
    <3>5. LocalsOK'
      BY <2>5, <3>1 DEF GrantUnwind, LocalsOK
    <3>6. PlaceOK'
      BY <2>5 DEF GrantUnwind, PlaceOK, run, LocalsOK
    <3> QED BY <3>3, <3>4, <3>5, <3>6 DEF TypeInv, TypeOK
  <2>6. CASE GrantUnref(t)
    <3>1. ObjsOK' /\ ListsOK' /\ SharedOK' /\ LocalsOK'
      BY <2>6, SMT DEF GrantUnref, ObjsOK, ListsOK, SharedOK, LocalsOK, lists,
         shared
    <3>2. clr' \in [Thread -> [kind: SUBSET {"blocked", "granted"}, range: SUBSET Lock]]
      BY <2>6 DEF GrantUnref, RunOK, NoClr
    <3>3. CASE ret[t] = "idle"
      <4>1. Return(t) /\ UNCHANGED cursor
        BY <2>6, <3>3 DEF GrantUnref
      <4>2. RunOK'
        BY <3>2, <4>1 DEF RunOK, Return, Call, NoArg, Arg, ArgType, PC
      <4>3. PlaceOK'
        BY <4>1 DEF PlaceOK, RunOK, Return, Call, ClrPC
      <4> QED BY <3>1, <4>2, <4>3 DEF TypeInv, TypeOK
    <3>4. CASE ret[t] # "idle"
      <4>1. Goto(t, ret[t]) /\ UNCHANGED cursor
        BY <2>6, <3>4 DEF GrantUnref
      <4>2. ret[t] \in {"setlk", "unlocked", "cleanup_unref"}
        BY <3>4 DEF RunOK
      <4>3. RunOK'
        BY <3>2, <4>1, <4>2 DEF RunOK, Goto, PC
      <4>4. PlaceOK'
        BY <4>1, <4>2 DEF PlaceOK, RunOK, Goto, ClrPC
      <4> QED BY <3>1, <4>3, <4>4 DEF TypeInv, TypeOK
    <3> QED BY <3>3, <3>4
  <2> QED BY <2>1, <2>2, <2>3, <2>4, <2>5, <2>6 DEF GrantStep

<1>CleanupTypeInv.
      ASSUME TypeInv, NEW t \in Thread,
             CleanupStep(t) \/ \E c \in Client : Disconnect(t, c) \/ Destroy(t, c)
      PROVE  TypeInv'
  <2> USE <1>CleanupTypeInv
  <2> USE DEF TypeInv, TypeOK
  <2>1. ASSUME NEW c \in Client, NEW state \in {"disconnected", "destroying"},
               Cleanup(t, c, state)
        PROVE  TypeInv'
    <3>1. First(client_list[c]) \in Lock \cup {NoLock}
      BY <1>CursorType DEF ListsOK
    <3>2. ObjsOK' /\ ListsOK'
      BY <2>1 DEF Cleanup, ObjsOK, ListsOK, objs, lists, shared, run, locals
    <3>3. SharedOK'
      BY <2>1 DEF Cleanup, SharedOK
    <3>4. RunOK'
      BY <2>1 DEF Cleanup, RunOK, Call, Arg, NoArg, Return, Goto, ArgType, PC
    <3>5. LocalsOK'
      BY <2>1, <3>1 DEF Cleanup, LocalsOK
    <3>6. PlaceOK'
      BY <2>1 DEF Cleanup, PlaceOK, RunOK, Call, Arg, NoArg, Return, Goto, ClrPC, LocalsOK
    <3> QED BY <3>2, <3>3, <3>4, <3>5, <3>6 DEF TypeInv, TypeOK
  <2>2. CASE CleanupOne(t)
    <3>1. arg[t].client \in Client /\ client_list[arg[t].client] \in Seq(Lock)
      BY <2>2 DEF CleanupOne, PlaceOK, ListsOK
    <3>2. cursor[t] \in Lock
      BY <2>2, <3>1, ElemsType DEF CleanupOne
    <3>3. dom(cursor[t]) \in Domain
      BY <3>2, FieldTypes
    <3>4. NextOf(client_list[arg[t].client], cursor[t]) \in Lock \cup {NoLock}
      BY <2>2, <3>1, <1>CursorType DEF CleanupOne
    <3>5. /\ Unlink(client_list[arg[t].client], cursor[t]) \in Seq(Lock)
          /\ Unlink(blocked_inodelks[dom(cursor[t])], cursor[t]) \in Seq(Lock)
      BY <3>1, <3>3, <1>UnlinkType DEF ListsOK
    <3>6. /\ unwind' = [unwind EXCEPT ![t] = @ \cup {cursor[t]}] \/ unwind' = unwind
          /\ released' = [released EXCEPT ![t] = @ \cup {cursor[t]}] \/ released' = released
          /\ cursor' = [cursor EXCEPT ![t] = NextOf(client_list[arg[t].client], cursor[t])]
          /\ UNCHANGED <<blocked_list, granted, seen>>
      BY <2>2 DEF CleanupOne
    <3>7. ObjsOK' /\ SharedOK' /\ RunOK'
      BY <2>2 DEF CleanupOne, ObjsOK, SharedOK, RunOK, objs, lists, shared, run, locals
    <3>8. ListsOK'
      BY <2>2, <3>1, <3>3, <3>5 DEF CleanupOne, ListsOK
    <3>9. LocalsOK'
      <4>1. /\ [unwind EXCEPT ![t] = @ \cup {cursor[t]}] \in [Thread -> SUBSET Lock]
            /\ [released EXCEPT ![t] = @ \cup {cursor[t]}] \in [Thread -> SUBSET Lock]
        BY <3>2, <1>AddType, SMT DEF LocalsOK
      <4>2. unwind' \in [Thread -> SUBSET Lock] /\ released' \in [Thread -> SUBSET Lock]
        BY <3>6, <4>1 DEF LocalsOK
      <4>3. cursor' \in [Thread -> Lock \cup {NoLock}]
        BY <3>4, <3>6 DEF LocalsOK
      <4> QED BY <3>6, <4>1, <4>2, <4>3 DEF LocalsOK
    <3>10. PlaceOK'
      BY <2>2 DEF CleanupOne, PlaceOK, run, LocalsOK
    <3> QED BY <3>7, <3>8, <3>9, <3>10 DEF TypeInv, TypeOK
  <2>3. CASE CleanupLeave(t)
    <3>1. ObjsOK' /\ ListsOK' /\ LocalsOK'
      BY <2>3 DEF CleanupLeave, ObjsOK, ListsOK, LocalsOK, objs, lists, shared, run, locals
    <3>2. SharedOK'
      BY <2>3 DEF CleanupLeave, SharedOK
    <3>3. RunOK'
      BY <2>3 DEF CleanupLeave, RunOK, Call, Arg, NoArg, Return, Goto, ArgType, PC
    <3>4. PlaceOK'
      BY <2>3 DEF CleanupLeave, PlaceOK, RunOK, Call, Arg, NoArg, Return, Goto, ClrPC, locals
    <3> QED BY <3>1, <3>2, <3>3, <3>4 DEF TypeInv, TypeOK
  <2>4. CASE CleanupUnwind(t)
    <3>1. PICK l \in unwind[t] :
            /\ IF frame[l] = "wait" THEN STACK_UNWIND(l) ELSE UNCHANGED <<frame, replies>>
            /\ unwind' = [unwind EXCEPT ![t] = @ \ {l}]
            /\ released' = [released EXCEPT ![t] = @ \cup {l}]
      BY <2>4 DEF CleanupUnwind
    <3>2. l \in Lock
      BY DEF LocalsOK
    <3>3. ListsOK' /\ SharedOK' /\ RunOK'
      BY <2>4 DEF CleanupUnwind, ListsOK, SharedOK, RunOK, objs, lists, shared, run, locals
    <3>4. ObjsOK'
      BY <2>4, <3>1, <3>2, SMT DEF CleanupUnwind, ObjsOK, STACK_UNWIND
    <3>5. LocalsOK'
      BY <2>4, <3>1, <3>2 DEF CleanupUnwind, LocalsOK
    <3>6. PlaceOK'
      BY <2>4 DEF CleanupUnwind, PlaceOK, run, LocalsOK
    <3> QED BY <3>3, <3>4, <3>5, <3>6 DEF TypeInv, TypeOK
  <2>5. CASE CleanupGrant(t)
    <3>1. PICK l \in released[t] :
            Call(t, "grant", "cleanup_unref", Arg(l, dom(l), arg[t].client))
      BY <2>5 DEF CleanupGrant
    <3>2. l \in Lock /\ dom(l) \in Domain
      BY FieldTypes DEF LocalsOK
    <3>3. arg[t].client \in Client
      BY <2>5 DEF CleanupGrant, PlaceOK
    <3>4. ObjsOK' /\ ListsOK' /\ SharedOK' /\ LocalsOK'
      BY <2>5 DEF CleanupGrant, ObjsOK, ListsOK, SharedOK, LocalsOK, objs, lists, shared, run, locals
    <3>5. RunOK'
      BY <2>5, <3>1, <3>2, <3>3 DEF CleanupGrant, RunOK, Call, Arg, NoArg, Return, Goto, ArgType, PC
    <3>6. PlaceOK'
      BY <2>5, <3>1, <3>2, <3>3 DEF CleanupGrant, PlaceOK, RunOK, Call, Arg, NoArg, Return, Goto, ClrPC, locals
    <3> QED BY <3>4, <3>5, <3>6 DEF TypeInv, TypeOK
  <2>6. CASE CleanupUnref(t)
    <3>1. arg[t].lock \in Lock /\ arg[t].client \in Client
      BY <2>6 DEF CleanupUnref, PlaceOK
    <3>2. ListsOK'
      BY <2>6 DEF CleanupUnref, ListsOK, objs, lists, shared, run, locals
    <3>3. ObjsOK'
      BY <2>6, <3>1, SMT DEF CleanupUnref, ObjsOK, __pl_inodelk_unref
    <3>4. SharedOK'
      BY <2>6, SMT DEF CleanupUnref, SharedOK, inode_unref
    <3>5. RunOK'
      BY <2>6, <3>1 DEF CleanupUnref, RunOK, Call, Arg, NoArg, Return, Goto, ArgType, PC
    <3>6. LocalsOK'
      BY <2>6 DEF CleanupUnref, LocalsOK
    <3>7. PlaceOK'
      BY <2>6, <3>1 DEF CleanupUnref, PlaceOK, RunOK, Call, Arg, NoArg, Return, Goto, ClrPC, LocalsOK
    <3> QED BY <3>2, <3>3, <3>4, <3>5, <3>6, <3>7 DEF TypeInv, TypeOK
  <2>7. CASE CleanupReturn(t)
    <3>1. ObjsOK' /\ ListsOK' /\ LocalsOK'
      BY <2>7 DEF CleanupReturn, ObjsOK, ListsOK, LocalsOK, objs, lists, shared, run, locals
    <3>2. SharedOK'
      BY <2>7 DEF CleanupReturn, SharedOK
    <3>3. RunOK'
      BY <2>7 DEF CleanupReturn, RunOK, Call, Arg, NoArg, Return, Goto, ArgType, PC
    <3>4. PlaceOK'
      BY <2>7 DEF CleanupReturn, PlaceOK, RunOK, Call, Arg, NoArg, Return, Goto, ClrPC, locals
    <3> QED BY <3>1, <3>2, <3>3, <3>4 DEF TypeInv, TypeOK
  <2> QED BY <2>1, <2>2, <2>3, <2>4, <2>5, <2>6, <2>7 DEF CleanupStep, Disconnect, Destroy

<1>ClrTypeInv.
      ASSUME TypeInv, NEW t \in Thread,
             \/ ClrStep(t)
             \/ \E d \in Domain, kind \in ClearLocks, range \in ClrRanges :
                  Clrlk(t, d, kind, range)
      PROVE  TypeInv'
  <2> USE <1>ClrTypeInv
  <2> USE DEF TypeInv, TypeOK
  <2>1. ASSUME NEW d \in Domain, NEW kind \in ClearLocks, NEW range \in ClrRanges,
               Clrlk(t, d, kind, range)
        PROVE  TypeInv'
    <3>1. kind \in SUBSET {"blocked", "granted"} /\ range \in SUBSET Lock
      BY LockAssumption DEF ClrRanges
    <3>2. ClrStart(kind) \in {"clr_blkd", "clr_granted"}
      BY DEF ClrStart
    <3>3. ObjsOK' /\ ListsOK' /\ SharedOK' /\ LocalsOK'
      BY <2>1 DEF Clrlk, ObjsOK, ListsOK, SharedOK, LocalsOK, objs, lists, shared, run, locals
    <3>4. RunOK'
      BY <2>1, <3>1, <3>2 DEF Clrlk, RunOK, Call, Arg, NoArg, Return, Goto, ArgType, PC
    <3>5. PlaceOK'
      BY <2>1, <3>2 DEF Clrlk, PlaceOK, RunOK, Call, Arg, NoArg, Return, Goto, ClrPC, locals
    <3> QED BY <3>3, <3>4, <3>5 DEF TypeInv, TypeOK
  <2>2. CASE ClrEnter(t)
    <3>1. \E label \in {"clr_blkd_loop", "clr_granted_loop"} : Goto(t, label)
      BY <2>2 DEF ClrEnter
    <3>2. arg[t].dom \in Domain
      BY <2>2 DEF ClrEnter, PlaceOK, ClrPC
    <3>3. ObjsOK' /\ ListsOK' /\ LocalsOK'
      BY <2>2 DEF ClrEnter, ObjsOK, ListsOK, LocalsOK, objs, lists, shared, run, locals
    <3>4. SharedOK'
      BY <2>2 DEF ClrEnter, SharedOK
    <3>5. RunOK'
      BY <2>2, <3>1 DEF ClrEnter, RunOK, Call, Arg, NoArg, Return, Goto, ArgType, PC
    <3>6. PlaceOK'
      BY <2>2, <3>1, <3>2 DEF ClrEnter, PlaceOK, RunOK, Call, Arg, NoArg, Return, Goto, ClrPC, locals
    <3> QED BY <3>3, <3>4, <3>5, <3>6 DEF TypeInv, TypeOK
  <2>3. CASE ClrBlocked(t)
    <3>1. PICK i \in DOMAIN blocked_inodelks[arg[t].dom] :
            LET l == blocked_inodelks[arg[t].dom][i] IN
            /\ blocked_inodelks' = [blocked_inodelks EXCEPT ![arg[t].dom] = RemoveIndex(@, i)]
            /\ client_list' = [client_list EXCEPT ![attr[l].client] = Unlink(@, l)]
            /\ unwind' = [unwind EXCEPT ![t] = @ \cup {l}]
      BY <2>3 DEF ClrBlocked
    <3>2. arg[t].dom \in Domain /\ blocked_inodelks[arg[t].dom] \in Seq(Lock)
      BY <2>3 DEF ClrBlocked, PlaceOK, ClrPC, ListsOK
    <3>3. blocked_inodelks[arg[t].dom][i] \in Lock
      BY <3>2, ElementIs, LenIs
    <3>4. attr[blocked_inodelks[arg[t].dom][i]].client \in Client
      BY <3>3, FieldTypes
    <3>5. /\ RemoveIndex(blocked_inodelks[arg[t].dom], i) \in Seq(Lock)
          /\ \A c \in Client : Unlink(client_list[c], blocked_inodelks[arg[t].dom][i]) \in Seq(Lock)
      BY <3>2, <1>RemoveIndexType, <1>UnlinkType DEF ListsOK
    <3>6. ObjsOK' /\ SharedOK' /\ RunOK'
      BY <2>3 DEF ClrBlocked, ObjsOK, SharedOK, RunOK, objs, lists, shared, run, locals
    <3>7. ListsOK'
      BY <2>3, <3>1, <3>2, <3>4, <3>5 DEF ClrBlocked, ListsOK
    <3>8. LocalsOK'
      BY <2>3, <3>1, <3>3 DEF ClrBlocked, LocalsOK
    <3>9. PlaceOK'
      BY <2>3 DEF ClrBlocked, PlaceOK, run, LocalsOK
    <3> QED BY <3>6, <3>7, <3>8, <3>9 DEF TypeInv, TypeOK
  <2>4. CASE ClrBlockedLeave(t)
    <3>1. ObjsOK' /\ ListsOK' /\ LocalsOK'
      BY <2>4 DEF ClrBlockedLeave, ObjsOK, ListsOK, LocalsOK, objs, lists, shared, run, locals
    <3>2. SharedOK'
      BY <2>4 DEF ClrBlockedLeave, SharedOK
    <3>3. RunOK'
      BY <2>4 DEF ClrBlockedLeave, RunOK, Call, Arg, NoArg, Return, Goto, ArgType, PC
    <3>4. PlaceOK'
      BY <2>4 DEF ClrBlockedLeave, PlaceOK, RunOK, Call, Arg, NoArg, Return, Goto, ClrPC, locals
    <3> QED BY <3>1, <3>2, <3>3, <3>4 DEF TypeInv, TypeOK
  <2>5. CASE ClrUnwind(t)
    <3>1. PICK l \in unwind[t] :
            /\ STACK_UNWIND(l) /\ __pl_inodelk_unref(l)
            /\ unwind' = [unwind EXCEPT ![t] = @ \ {l}]
      BY <2>5 DEF ClrUnwind
    <3>2. l \in Lock
      BY DEF LocalsOK
    <3>3. ListsOK' /\ SharedOK' /\ RunOK'
      BY <2>5 DEF ClrUnwind, ListsOK, SharedOK, RunOK, objs, lists, shared, run, locals
    <3>4. ObjsOK'
      BY <2>5, <3>1, <3>2, SMT DEF ClrUnwind, ObjsOK, STACK_UNWIND,
         __pl_inodelk_unref
    <3>5. LocalsOK'
      BY <2>5, <3>1 DEF ClrUnwind, LocalsOK
    <3>6. PlaceOK'
      BY <2>5 DEF ClrUnwind, PlaceOK, run, LocalsOK
    <3> QED BY <3>3, <3>4, <3>5, <3>6 DEF TypeInv, TypeOK
  <2>6. CASE ClrUnwound(t)
    <3>1. \E label \in {"clr_granted", "grant"} : Goto(t, label)
      BY <2>6 DEF ClrUnwound
    <3>2. arg[t].dom \in Domain
      BY <2>6 DEF ClrUnwound, PlaceOK, ClrPC
    <3>3. ObjsOK' /\ ListsOK' /\ SharedOK' /\ LocalsOK'
      BY <2>6 DEF ClrUnwound, ObjsOK, ListsOK, SharedOK, LocalsOK, objs, lists, shared, run, locals
    <3>4. RunOK'
      BY <2>6, <3>1 DEF ClrUnwound, RunOK, Call, Arg, NoArg, Return, Goto, ArgType, PC
    <3>5. PlaceOK'
      BY <2>6, <3>1, <3>2 DEF ClrUnwound, PlaceOK, RunOK, Call, Arg, NoArg, Return, Goto, ClrPC, locals
    <3> QED BY <3>3, <3>4, <3>5 DEF TypeInv, TypeOK
  <2>7. CASE ClrGranted(t)
    <3>1. PICK l \in Granted(arg[t].dom) :
            /\ inodelk_list' = inodelk_list \ {l}
            /\ client_list' = [client_list EXCEPT ![attr[l].client] = Unlink(@, l)]
            /\ released' = [released EXCEPT ![t] = @ \cup {l}]
      BY <2>7 DEF ClrGranted
    <3>2. l \in Lock
      BY DEF Granted, ListsOK
    <3>3. attr[l].client \in Client
      BY <3>2, FieldTypes
    <3>4. Unlink(client_list[attr[l].client], l) \in Seq(Lock)
      BY <3>3, <1>UnlinkType DEF ListsOK
    <3>5. ObjsOK' /\ SharedOK' /\ RunOK'
      BY <2>7 DEF ClrGranted, ObjsOK, SharedOK, RunOK, objs, lists, shared, run, locals
    <3>6. ListsOK'
      BY <2>7, <3>1, <3>3, <3>4 DEF ClrGranted, ListsOK
    <3>7. LocalsOK'
      BY <2>7, <3>1, <3>2 DEF ClrGranted, LocalsOK
    <3>8. PlaceOK'
      BY <2>7 DEF ClrGranted, PlaceOK, run, LocalsOK
    <3> QED BY <3>5, <3>6, <3>7, <3>8 DEF TypeInv, TypeOK
  <2>8. CASE ClrGrantedLeave(t)
    <3>1. ObjsOK' /\ ListsOK' /\ LocalsOK'
      BY <2>8 DEF ClrGrantedLeave, ObjsOK, ListsOK, LocalsOK, objs, lists, shared, run, locals
    <3>2. SharedOK'
      BY <2>8 DEF ClrGrantedLeave, SharedOK
    <3>3. RunOK'
      BY <2>8 DEF ClrGrantedLeave, RunOK, Call, Arg, NoArg, Return, Goto, ArgType, PC
    <3>4. PlaceOK'
      BY <2>8 DEF ClrGrantedLeave, PlaceOK, RunOK, Call, Arg, NoArg, Return, Goto, ClrPC, locals
    <3> QED BY <3>1, <3>2, <3>3, <3>4 DEF TypeInv, TypeOK
  <2>9. CASE ClrRead(t)
    <3>1. PICK l \in released[t] :
            /\ cursor' = [cursor EXCEPT ![t] = l]
            /\ seen' = [seen EXCEPT ![t] = ref[l]]
      BY <2>9 DEF ClrRead
    <3>2. l \in Lock /\ ref[l] \in Int
      BY DEF LocalsOK, ObjsOK
    <3>3. ObjsOK' /\ ListsOK' /\ SharedOK'
      BY <2>9 DEF ClrRead, ObjsOK, ListsOK, SharedOK, objs, lists, shared, run, locals
    <3>4. RunOK'
      BY <2>9 DEF ClrRead, RunOK, Call, Arg, NoArg, Return, Goto, ArgType, PC
    <3>5. LocalsOK'
      BY <2>9, <3>1, <3>2 DEF ClrRead, LocalsOK
    <3>6. PlaceOK'
      BY <2>9, <3>1, <3>2 DEF ClrRead, PlaceOK, RunOK, Call, Arg, NoArg, Return, Goto, ClrPC, LocalsOK
    <3> QED BY <3>3, <3>4, <3>5, <3>6 DEF TypeInv, TypeOK
  <2>10. CASE ClrWrite(t)
    <3>1. cursor[t] \in Lock
      BY <2>10 DEF ClrWrite, PlaceOK
    <3>2. ListsOK' /\ SharedOK'
      BY <2>10 DEF ClrWrite, ListsOK, SharedOK, objs, lists, shared, run, locals
    <3>3. ObjsOK'
      BY <2>10, <3>1, SMT DEF ClrWrite, ObjsOK, LocalsOK
    <3>4. RunOK'
      BY <2>10 DEF ClrWrite, RunOK, Call, Arg, NoArg, Return, Goto, ArgType, PC
    <3>5. LocalsOK'
      BY <2>10, SMT DEF ClrWrite, LocalsOK
    <3>6. PlaceOK'
      BY <2>10 DEF ClrWrite, PlaceOK, RunOK, Call, Arg, NoArg, Return, Goto, ClrPC, LocalsOK
    <3> QED BY <3>2, <3>3, <3>4, <3>5, <3>6 DEF TypeInv, TypeOK
  <2>11. CASE ClrReleased(t)
    <3>1. ObjsOK' /\ ListsOK' /\ SharedOK' /\ LocalsOK'
      BY <2>11 DEF ClrReleased, ObjsOK, ListsOK, SharedOK, LocalsOK, objs, lists, shared, run, locals
    <3>2. RunOK'
      BY <2>11 DEF ClrReleased, RunOK, Call, Arg, NoArg, Return, Goto, ArgType, PC
    <3>3. PlaceOK'
      BY <2>11 DEF ClrReleased, PlaceOK, RunOK, Call, Arg, NoArg, Return, Goto, ClrPC, locals
    <3> QED BY <3>1, <3>2, <3>3 DEF TypeInv, TypeOK
  <2> QED BY <2>1, <2>2, <2>3, <2>4, <2>5, <2>6, <2>7, <2>8, <2>9, <2>10, <2>11 DEF ClrStep

<1> SUFFICES ASSUME TypeInv, [Next]_vars PROVE TypeInv'
  OBVIOUS
<1>1. CASE UNCHANGED vars
  BY <1>1 DEF TypeInv, TypeOK, ObjsOK, ListsOK, SharedOK, RunOK, LocalsOK,
              PlaceOK, vars, objs, lists, shared, run, locals
<1>2. CASE Next
  BY <1>2, <1>SetlkTypeInv, <1>GrantTypeInv, <1>CleanupTypeInv, <1>ClrTypeInv DEF Next, Continue
<1> QED BY <1>1, <1>2

(* The lists, the counts and the locals keep their types: no list ever     *)
(* holds a dangling entry and no thread works on a lock or a domain that   *)
(* its place in inodelk.c does not provide.                                *)
THEOREM TypeCorrect == Spec => []TypeOK
<1>1. Spec => []TypeInv
  BY InitTypeInv, StepTypeInv, PTL DEF Spec
<1> QED BY <1>1, PTL DEF TypeInv

----------------------------------------------------------------------------
(* Mutual exclusion                                                        *)

(* No two clients or owners hold conflicting inode locks, whatever the     *)
(* requests, disconnects, revocations and clear-locks commands interleave. *)
THEOREM MutualExclusion == Spec => []Exclusive
<1>ConflictSymmetric.
      ASSUME NEW l \in Lock, NEW g \in Lock
      PROVE  /\ inodelk_conflict(l, g) <=> inodelk_conflict(g, l)
             /\ same_inodelk_owner(l, g) <=> same_inodelk_owner(g, l)
             /\ same_inodelk_owner(l, l)
  BY <1>ConflictSymmetric, FieldTypes DEF inodelk_conflict, inodelk_overlap, inodelk_type_conflict,
                      same_inodelk_owner

(* The only check made before a lock joins inodelk_list is enough.         *)
<1>GrantExclusive.
      ASSUME Exclusive, ListsOK, NEW l \in Lock, CanLock(l),
             inodelk_list' = inodelk_list \cup {l}
      PROVE  Exclusive'
  <2> USE <1>GrantExclusive
  <2> SUFFICES ASSUME NEW g \in inodelk_list', NEW h \in inodelk_list',
                      dom(g) = dom(h), inodelk_conflict(g, h)
               PROVE  same_inodelk_owner(g, h)
    BY DEF Exclusive
  <2>1. ASSUME NEW k \in inodelk_list, dom(k) = dom(l), inodelk_conflict(l, k)
        PROVE  same_inodelk_owner(l, k)
    BY <2>1 DEF CanLock, __inodelk_grantable
  <2>2. g \in Lock /\ h \in Lock
    BY DEF ListsOK
  <2>3. CASE g \in inodelk_list /\ h \in inodelk_list
    BY <2>3 DEF Exclusive
  <2>4. CASE g = l /\ h \in inodelk_list
    BY <2>1, <2>4
  <2>5. CASE g \in inodelk_list /\ h = l
    BY <2>1, <2>2, <2>5, <1>ConflictSymmetric
  <2>6. CASE g = l /\ h = l
    BY <2>6, <1>ConflictSymmetric
  <2> QED BY <2>3, <2>4, <2>5, <2>6

<1>StepExclusive. TypeInv /\ Exclusive /\ [Next]_vars => Exclusive'
  <2> SUFFICES ASSUME TypeInv, Exclusive, [Next]_vars PROVE Exclusive'
    OBVIOUS
  <2>1. ASSUME inodelk_list' \subseteq inodelk_list PROVE Exclusive'
    BY <2>1 DEF Exclusive
  <2>2. CASE UNCHANGED vars
    BY <2>1, <2>2 DEF vars, lists
  <2>3. ASSUME NEW t \in Thread, NEW l \in Lock, Request(t, l) \/ Unlock(t, l)
        PROVE  inodelk_list' \subseteq inodelk_list
    BY <2>3 DEF Request, Unlock, lists
  <2>4. ASSUME NEW t \in Thread, NEW c \in Client, Disconnect(t, c) \/ Destroy(t, c)
        PROVE  inodelk_list' \subseteq inodelk_list
    BY <2>4 DEF Disconnect, Destroy, Cleanup, lists
  <2>5. ASSUME NEW t \in Thread, NEW d \in Domain, NEW kind \in ClearLocks,
               NEW range \in ClrRanges, Clrlk(t, d, kind, range)
        PROVE  inodelk_list' \subseteq inodelk_list
    BY <2>5 DEF Clrlk, lists
  <2>6. ASSUME NEW t \in Thread, SetlkStep(t) PROVE Exclusive'
    <3>1. CASE SetlkGrant(t)
      <4>1. arg[t].lock \in Lock
        BY <3>1 DEF SetlkGrant, TypeInv, PlaceOK
      <4>2. CanLock(arg[t].lock) /\ inodelk_list' = inodelk_list \cup {arg[t].lock}
        BY <3>1 DEF SetlkGrant
      <4> QED BY <4>1, <4>2, <1>GrantExclusive DEF TypeInv, TypeOK
    <3>2. CASE PruneCheck(t) \/ PruneNothing(t) \/ PruneRevoke(t) \/ UnlockReturn(t)
      BY <2>1, <3>2 DEF PruneCheck, PruneNothing, PruneRevoke, UnlockReturn, lists
    <3>3. CASE SetlkBlock(t) \/ SetlkEagain(t)
      BY <2>1, <3>3 DEF SetlkBlock, SetlkEagain, lists
    <3> QED BY <2>6, <3>1, <3>2, <3>3 DEF SetlkStep
  <2>7. ASSUME NEW t \in Thread, GrantStep(t) PROVE Exclusive'
    <3>1. CASE GrantOne(t)
      <4>1. Head(blocked_list[t]) \in Lock
        BY <3>1, HeadTailIs DEF GrantOne, TypeInv, TypeOK, LocalsOK
      <4>2. /\ CanLock(Head(blocked_list[t]))
            /\ inodelk_list' = inodelk_list \cup {Head(blocked_list[t])}
        BY <3>1 DEF GrantOne
      <4> QED BY <4>1, <4>2, <1>GrantExclusive DEF TypeInv, TypeOK
    <3>2. CASE GrantEnter(t) \/ GrantRequeue(t) \/ GrantLeave(t)
      BY <2>1, <3>2 DEF GrantEnter, GrantRequeue, GrantLeave, lists
    <3>3. CASE GrantUnwind(t) \/ GrantUnref(t)
      BY <2>1, <3>3 DEF GrantUnwind, GrantUnref, lists
    <3> QED BY <2>7, <3>1, <3>2, <3>3 DEF GrantStep
  <2>8. ASSUME NEW t \in Thread, CleanupStep(t) PROVE Exclusive'
    <3>1. CASE CleanupOne(t)
      <4>1. inodelk_list' = inodelk_list \ {cursor[t]} \/ inodelk_list' = inodelk_list
        BY <3>1 DEF CleanupOne
      <4> QED BY <2>1, <4>1
    <3>2. CASE CleanupLeave(t) \/ CleanupUnwind(t) \/ CleanupGrant(t)
      BY <2>1, <3>2 DEF CleanupLeave, CleanupUnwind, CleanupGrant, lists
    <3>3. CASE CleanupUnref(t) \/ CleanupReturn(t)
      BY <2>1, <3>3 DEF CleanupUnref, CleanupReturn, lists
    <3> QED BY <2>8, <3>1, <3>2, <3>3 DEF CleanupStep
  <2>9. ASSUME NEW t \in Thread, ClrStep(t) PROVE Exclusive'
    <3>1. CASE ClrGranted(t)
      <4>1. \E l : inodelk_list' = inodelk_list \ {l}
        BY <3>1 DEF ClrGranted
      <4> QED BY <2>1, <4>1
    <3>2. CASE ClrEnter(t) \/ ClrBlocked(t) \/ ClrBlockedLeave(t)
      BY <2>1, <3>2 DEF ClrEnter, ClrBlocked, ClrBlockedLeave, lists
    <3>3. CASE ClrUnwind(t) \/ ClrUnwound(t) \/ ClrGrantedLeave(t)
      BY <2>1, <3>3 DEF ClrUnwind, ClrUnwound, ClrGrantedLeave, lists
    <3>4. CASE ClrRead(t) \/ ClrWrite(t) \/ ClrReleased(t)
      BY <2>1, <3>4 DEF ClrRead, ClrWrite, ClrReleased, lists
    <3> QED BY <2>9, <3>1, <3>2, <3>3, <3>4 DEF ClrStep
  <2> QED BY <2>1, <2>2, <2>3, <2>4, <2>5, <2>6, <2>7, <2>8, <2>9
          DEF Next, Continue

<1>1. Init => Exclusive
  BY DEF Init, Exclusive
<1>2. Spec => []TypeInv
  BY InitTypeInv, StepTypeInv, PTL DEF Spec
<1> QED BY <1>1, <1>2, <1>StepExclusive, PTL DEF Spec

(* A list that links each lock at most once                                *)
NoDup(s) == \A i, j \in DOMAIN s : s[i] = s[j] => i = j

LEMMA AppendElems ==
  ASSUME NEW S, NEW s \in Seq(S), NEW l \in S
  PROVE  /\ Elems(Append(s, l)) = Elems(s) \cup {l}
         /\ NoDup(s) /\ l \notin Elems(s) => NoDup(Append(s, l))
<1>1. /\ Append(s, l) \in Seq(S) /\ Len(Append(s, l)) = Len(s) + 1
      /\ DOMAIN s = 1 .. Len(s) /\ DOMAIN Append(s, l) = 1 .. (Len(s) + 1)
      /\ \A i \in 1 .. Len(s) : Append(s, l)[i] = s[i]
      /\ Append(s, l)[Len(s) + 1] = l /\ Len(s) \in Nat
  BY AppendIs, LenIs, SMT
<1>2. ASSUME NEW x PROVE x \in Elems(Append(s, l)) <=> x \in Elems(s) \cup {l}
  BY <1>1, SMT DEF Elems
<1>3. Elems(Append(s, l)) = Elems(s) \cup {l} BY <1>2
<1>4. ASSUME NoDup(s), l \notin Elems(s) PROVE NoDup(Append(s, l))
  BY <1>1, <1>4, SMT DEF Elems, NoDup
<1> QED BY <1>3, <1>4

LEMMA TailElems ==
  ASSUME NEW S, NEW s \in Seq(S), s # <<>>
  PROVE  /\ Head(s) \in S /\ Head(s) \in Elems(s) /\ Tail(s) \in Seq(S)
         /\ Elems(s) = Elems(Tail(s)) \cup {Head(s)}
         /\ NoDup(s) => NoDup(Tail(s)) /\ Head(s) \notin Elems(Tail(s))
<1>1. /\ Tail(s) \in Seq(S) /\ Len(Tail(s)) = Len(s) - 1 /\ Head(s) = s[1]
      /\ DOMAIN s = 1 .. Len(s) /\ DOMAIN Tail(s) = 1 .. (Len(s) - 1)
      /\ \A i \in 1 .. (Len(s) - 1) : Tail(s)[i] = s[i + 1]
      /\ Len(s) \in Nat /\ Len(s) >= 1 /\ Head(s) \in S
  BY HeadTailIs, LenIs, EmptyIs, SMT
<1>2. ASSUME NEW x PROVE x \in Elems(s) <=> x \in Elems(Tail(s)) \cup {Head(s)}
  <2>1. ASSUME NEW i \in 1 .. Len(s), x = s[i]
        PROVE  x = Head(s) \/ \E j \in 1 .. (Len(s) - 1) : Tail(s)[j] = x
    <3>1. CASE i = 1 BY <1>1, <2>1, <3>1
    <3>2. CASE i # 1
      <4>1. i - 1 \in 1 .. (Len(s) - 1) /\ (i - 1) + 1 = i BY <1>1, <3>2, SMT
      <4>2. Tail(s)[i - 1] = s[i] BY <1>1, <4>1
      <4> QED BY <2>1, <4>1, <4>2
    <3> QED BY <3>1, <3>2
  <2>2. ASSUME NEW j \in 1 .. (Len(s) - 1) PROVE Tail(s)[j] \in Elems(s)
    <3>1. j + 1 \in 1 .. Len(s) BY <1>1, SMT
    <3> QED BY <1>1, <3>1 DEF Elems
  <2>3. Head(s) \in Elems(s) BY <1>1, SMT DEF Elems
  <2> QED BY <1>1, <2>1, <2>2, <2>3 DEF Elems
<1>3. Elems(s) = Elems(Tail(s)) \cup {Head(s)} BY <1>2
<1>4. ASSUME NoDup(s) PROVE NoDup(Tail(s)) /\ Head(s) \notin Elems(Tail(s))
  <2>1. \A i \in 1 .. (Len(s) - 1) : i + 1 \in 1 .. Len(s) /\ i + 1 # 1
    BY <1>1, SMT
  <2>2. NoDup(Tail(s)) BY <1>1, <1>4, <2>1, SMT DEF NoDup
  <2>3. Head(s) \notin Elems(Tail(s))
    BY <1>1, <1>4, <2>1, SMT DEF NoDup, Elems
  <2> QED BY <2>2, <2>3
<1> QED BY <1>1, <1>3, <1>4

LEMMA RemoveIndexElems ==
  ASSUME NEW S, NEW s \in Seq(S), NEW i \in DOMAIN s
  PROVE  /\ Elems(RemoveIndex(s, i)) \subseteq Elems(s)
         /\ NoDup(s) => /\ NoDup(RemoveIndex(s, i))
                        /\ Elems(RemoveIndex(s, i)) = Elems(s) \ {s[i]}
<1> DEFINE r == RemoveIndex(s, i)
           a == SubSeq(s, 1, i - 1)
           b == SubSeq(s, i + 1, Len(s))
<1>1. Len(s) \in Nat /\ DOMAIN s = 1 .. Len(s) /\ i \in 1 .. Len(s)
  BY LenIs
<1>2. /\ a \in Seq(S) /\ Len(a) = i - 1
      /\ \A j \in 1 .. (i - 1) : a[j] = s[j]
  <2>1. i - 1 \in Nat /\ 1 \in 1 .. Len(s) + 1 /\ i - 1 \in 0 .. Len(s)
    BY <1>1, SMT
  <2> QED BY <1>1, <2>1, SubSeqIs, SMT
<1>3. /\ b \in Seq(S) /\ Len(b) = Len(s) - i
      /\ \A j \in 1 .. (Len(s) - i) : b[j] = s[i + j]
  <2>1. /\ i + 1 \in Int /\ Len(s) \in Int
        /\ \A j \in (i + 1) .. Len(s) : s[j] \in S
    BY <1>1, SMT
  <2>2. /\ b \in Seq(S)
        /\ Len(b) = IF i + 1 <= Len(s) THEN Len(s) - (i + 1) + 1 ELSE 0
        /\ \A j \in 1 .. Len(s) - (i + 1) + 1 : b[j] = s[(i + 1) + j - 1]
    BY <2>1, SubSeqIs, SMT
  <2> HIDE DEF b
  <2>3. Len(b) = Len(s) - i BY <1>1, <2>2, SMT
  <2>4. ASSUME NEW j \in 1 .. (Len(s) - i) PROVE b[j] = s[i + j]
    <3>1. j \in 1 .. Len(s) - (i + 1) + 1 /\ (i + 1) + j - 1 = i + j BY <1>1,
                                                                        SMT
    <3> QED BY <2>2, <3>1
  <2> QED BY <2>2, <2>3, <2>4
<1>4. /\ r \in Seq(S) /\ Len(r) = Len(s) - 1
      /\ DOMAIN r = 1 .. (Len(s) - 1)
      /\ \A j \in 1 .. (Len(s) - 1) :
           r[j] = IF j < i THEN s[j] ELSE s[j + 1]
  <2>1. r = a \o b BY DEF RemoveIndex
  <2> HIDE DEF r, a, b
  <2>2. /\ r \in Seq(S) /\ Len(r) = Len(a) + Len(b)
        /\ \A j \in 1 .. Len(a) + Len(b) :
             r[j] = IF j <= Len(a) THEN a[j] ELSE b[j - Len(a)]
    BY <1>2, <1>3, <2>1, ConcatIs
  <2>3. Len(r) = Len(s) - 1 BY <1>1, <1>2, <1>3, <2>2, SMT
  <2>4. DOMAIN r = 1 .. (Len(s) - 1) BY <2>2, <2>3, LenIs
  <2>5. ASSUME NEW j \in 1 .. (Len(s) - 1)
        PROVE  r[j] = IF j < i THEN s[j] ELSE s[j + 1]
    <3>1. CASE j < i
      <4>1. j \in 1 .. (i - 1) /\ j <= Len(a) /\ j \in 1 .. Len(a) + Len(b)
        BY <1>1, <1>2, <1>3, <3>1, SMT
      <4> QED BY <1>2, <2>2, <3>1, <4>1
    <3>2. CASE ~(j < i)
      <4>1. /\ j - Len(a) \in 1 .. (Len(s) - i) /\ ~(j <= Len(a))
            /\ j \in 1 .. Len(a) + Len(b) /\ i + (j - Len(a)) = j + 1
        BY <1>1, <1>2, <1>3, <3>2, SMT
      <4>2. r[j] = b[j - Len(a)] BY <2>2, <4>1
      <4>3. b[j - Len(a)] = s[i + (j - Len(a))] BY <1>3, <4>1
      <4> QED BY <3>2, <4>1, <4>2, <4>3
    <3> QED BY <3>1, <3>2
  <2> QED BY <2>2, <2>3, <2>4, <2>5
<1> HIDE DEF r
<1>5. Elems(r) \subseteq Elems(s)
  <2> SUFFICES ASSUME NEW j \in 1 .. (Len(s) - 1) PROVE r[j] \in Elems(s)
    BY <1>4 DEF Elems
  <2>1. j \in 1 .. Len(s) /\ j + 1 \in 1 .. Len(s) BY <1>1, SMT
  <2> QED BY <1>1, <1>4, <2>1 DEF Elems
<1>6. ASSUME NoDup(s) PROVE NoDup(r) /\ Elems(r) = Elems(s) \ {s[i]}
  <2> DEFINE k(j) == IF j < i THEN j ELSE j + 1
  <2>1. \A j \in 1 .. (Len(s) - 1) :
          k(j) \in 1 .. Len(s) /\ k(j) # i /\ r[j] = s[k(j)]
    BY <1>1, <1>4, SMT
  <2>2. \A j, m \in 1 .. (Len(s) - 1) : k(j) = k(m) => j = m
    BY <1>1, SMT
  <2>3. ASSUME NEW n \in 1 .. Len(s), n # i
        PROVE  \E j \in 1 .. (Len(s) - 1) : k(j) = n
    <3>1. CASE n < i BY <1>1, <3>1, SMT
    <3>2. CASE n > i
      <4>1. n - 1 \in 1 .. (Len(s) - 1) /\ k(n - 1) = n BY <1>1, <3>2, SMT
      <4> QED BY <4>1
    <3> QED BY <1>1, <2>3, <3>1, <3>2, SMT
  <2> HIDE DEF k
  <2>4. NoDup(r)
    <3> SUFFICES ASSUME NEW j \in 1 .. (Len(s) - 1),
                        NEW m \in 1 .. (Len(s) - 1), r[j] = r[m]
        PROVE  j = m
      BY <1>4 DEF NoDup
    <3>1. /\ k(j) \in 1 .. Len(s) /\ r[j] = s[k(j)]
          /\ k(m) \in 1 .. Len(s) /\ r[m] = s[k(m)]
      BY <2>1
    <3>2. k(j) = k(m) BY <1>1, <1>6, <3>1 DEF NoDup
    <3> QED BY <2>2, <3>2
  <2>5. ASSUME NEW x \in Elems(s), x # s[i] PROVE x \in Elems(r)
    <3>1. PICK n \in 1 .. Len(s) : s[n] = x BY <1>1, <2>5 DEF Elems
    <3>2. PICK j \in 1 .. (Len(s) - 1) : k(j) = n BY <2>3, <2>5, <3>1
    <3> QED BY <1>4, <2>1, <3>1, <3>2 DEF Elems
  <2>6. s[i] \notin Elems(r) BY <1>1, <1>4, <1>6, <2>1, SMT DEF NoDup, Elems
  <2> QED BY <1>5, <2>4, <2>5, <2>6
<1> QED BY <1>5, <1>6 DEF r

LEMMA UnlinkElems ==
  ASSUME NEW S, NEW s \in Seq(S), NEW l
  PROVE  /\ Elems(Unlink(s, l)) \subseteq Elems(s)
         /\ NoDup(s) => /\ NoDup(Unlink(s, l))
                        /\ Elems(Unlink(s, l)) = Elems(s) \ {l}
<1>1. CASE \E i \in DOMAIN s : s[i] = l
  <2> DEFINE i == CHOOSE j \in DOMAIN s : s[j] = l
  <2>1. i \in DOMAIN s /\ s[i] = l BY <1>1
  <2>2. Unlink(s, l) = RemoveIndex(s, i) BY <1>1 DEF Unlink
  <2> HIDE DEF i
  <2> QED BY <2>1, <2>2, RemoveIndexElems, SMT
<1>2. CASE ~\E i \in DOMAIN s : s[i] = l
  <2>1. Unlink(s, l) = s BY <1>2 DEF Unlink
  <2>2. l \notin Elems(s) BY <1>2 DEF Elems
  <2> QED BY <2>1, <2>2
<1> QED BY <1>1, <1>2

(* An inode lock nested in an exclusive lock of its owner is never queued: *)
(* __lock_inodelk lets it past the waiters, and a lock it conflicts with   *)
(* cannot be held by another owner.  Neither pl_inode_setlk nor the        *)
(* requeueing of grant_blocked_inode_locks makes an owner wait for itself. *)
THEOREM NestedGoesAhead == Spec => NestedNotBlocked
(* A request that __lock_inodelk refuses is not nested in an exclusive     *)
(* lock of its owner.                                                      *)
<1>RefusedNotNested.
      ASSUME TypeInv, Exclusive, NEW l \in Lock, ~CanLock(l),
             NEW g \in Granted(dom(l)), same_inodelk_owner(g, l), Covers(g, l)
      PROVE  attr[g].fl_type # "F_WRLCK"
  <2> USE <1>RefusedNotNested
  <2> SUFFICES ASSUME attr[g].fl_type = "F_WRLCK" PROVE FALSE
    OBVIOUS
  <2>1. g \in inodelk_list /\ dom(g) = dom(l) /\ inodelk_list \subseteq Lock
    BY DEF Granted, TypeInv, TypeOK, ListsOK
  <2>2. __owner_has_lock(l) BY <2>1 DEF __owner_has_lock
  <2>3. PICK h \in inodelk_list : /\ dom(h) = dom(l) /\ inodelk_conflict(l, h)
                                  /\ ~same_inodelk_owner(l, h)
    BY <2>2 DEF CanLock, __inodelk_grantable
  <2>4. inodelk_overlap(g, h)
    <3>1. /\ attr[l].fl_start \in Nat /\ attr[l].fl_end \in Nat
          /\ attr[g].fl_start \in Nat /\ attr[g].fl_end \in Nat
          /\ attr[h].fl_start \in Nat /\ attr[h].fl_end \in Nat
      BY <2>1, FieldTypes
    <3> QED BY <2>3, <3>1, SMT DEF inodelk_conflict, inodelk_overlap, Covers
  <2>5. inodelk_conflict(g, h)
    BY <2>4 DEF inodelk_conflict, inodelk_type_conflict
  <2>6. same_inodelk_owner(g, h) BY <2>1, <2>3, <2>5 DEF Exclusive
  <2> QED BY <2>3, <2>6 DEF same_inodelk_owner

(* Only these steps queue a request, and only one that was refused         *)
<1>OnlyRefusedQueue.
      ASSUME TypeInv, [Next]_vars, NEW d \in Domain,
             NEW l \in Elems(blocked_inodelks'[d]) \ Elems(blocked_inodelks[d])
      PROVE  l \in Lock /\ dom(l) = d /\ ~CanLock(l)
  <2> USE <1>OnlyRefusedQueue
  <2> USE DEF TypeInv, TypeOK
  <2>1. CASE UNCHANGED blocked_inodelks BY <2>1
  <2>2. blocked_inodelks \in [Domain -> Seq(Lock)] /\ blocked_inodelks[d] \in Seq(Lock)
    BY DEF ListsOK
  <2>3. ASSUME NEW k \in Lock, ~CanLock(k),
               blocked_inodelks' = [blocked_inodelks EXCEPT ![dom(k)] = Append(@, k)]
        PROVE  l \in Lock /\ dom(l) = d /\ ~CanLock(l)
    <3>1. CASE dom(k) = d
      <4>1. Elems(blocked_inodelks'[d]) = Elems(blocked_inodelks[d]) \cup {k}
        BY <2>2, <2>3, <3>1, AppendElems, SMT
      <4> QED BY <2>3, <3>1, <4>1
    <3>2. CASE dom(k) # d BY <2>2, <2>3, <3>2
    <3> QED BY <3>1, <3>2
  <2>4. CASE UNCHANGED vars BY <2>1, <2>4 DEF vars, lists
  <2>5. ASSUME NEW t \in Thread, SetlkBlock(t)
        PROVE  l \in Lock /\ dom(l) = d /\ ~CanLock(l)
    <3>1. arg[t].lock \in Lock BY <2>5 DEF SetlkBlock, PlaceOK
    <3>2. /\ ~CanLock(arg[t].lock)
          /\ blocked_inodelks' = [blocked_inodelks EXCEPT
                   ![dom(arg[t].lock)] = Append(@, arg[t].lock)]
      BY <2>5 DEF SetlkBlock
    <3> QED BY <2>3, <3>1, <3>2
  <2>6. ASSUME NEW t \in Thread, GrantRequeue(t)
        PROVE  l \in Lock /\ dom(l) = d /\ ~CanLock(l)
    <3>1. Head(blocked_list[t]) \in Lock
      BY <2>6, HeadTailIs DEF GrantRequeue, LocalsOK
    <3>2. /\ ~CanLock(Head(blocked_list[t]))
          /\ blocked_inodelks' = [blocked_inodelks EXCEPT
                   ![dom(Head(blocked_list[t]))] = Append(@, Head(blocked_list[t]))]
      BY <2>6 DEF GrantRequeue
    <3> QED BY <2>3, <3>1, <3>2
  <2>7. ASSUME NEW t \in Thread, GrantEnter(t) PROVE FALSE
    <3>1. blocked_inodelks' = [blocked_inodelks EXCEPT ![arg[t].dom] = <<>>]
      BY <2>7 DEF GrantEnter
    <3>2. blocked_inodelks'[d] = blocked_inodelks[d] \/ blocked_inodelks'[d] = <<>>
      BY <2>2, <3>1
    <3>3. Elems(<<>>) = {} BY EmptyIs, SMT DEF Elems
    <3> QED BY <3>2, <3>3
  <2>8. ASSUME NEW t \in Thread, CleanupOne(t) \/ ClrBlocked(t) PROVE FALSE
    <3>1. Elems(blocked_inodelks'[d]) \subseteq Elems(blocked_inodelks[d])
      <4>1. CASE CleanupOne(t)
        <5>1. \/ blocked_inodelks' = blocked_inodelks
              \/ \E e : blocked_inodelks' =
                       [blocked_inodelks EXCEPT ![e] = Unlink(@, cursor[t])]
          BY <4>1 DEF CleanupOne
        <5>2. \/ blocked_inodelks'[d] = blocked_inodelks[d]
              \/ blocked_inodelks'[d] = Unlink(blocked_inodelks[d], cursor[t])
          BY <2>2, <5>1
        <5> QED BY <2>2, <5>2, UnlinkElems
      <4>2. CASE ClrBlocked(t)
        <5>1. PICK i \in DOMAIN blocked_inodelks[arg[t].dom] : blocked_inodelks' =
                [blocked_inodelks EXCEPT ![arg[t].dom] = RemoveIndex(@, i)]
          BY <4>2 DEF ClrBlocked
        <5>2. \/ blocked_inodelks'[d] = blocked_inodelks[d]
              \/ /\ d = arg[t].dom
                 /\ blocked_inodelks'[d] = RemoveIndex(blocked_inodelks[d], i)
          BY <2>2, <5>1
        <5> QED BY <2>2, <5>1, <5>2, RemoveIndexElems
      <4> QED BY <2>8, <4>1, <4>2
    <3> QED BY <3>1
  <2>9. ASSUME NEW t \in Thread,
               \/ \E k \in Lock : Request(t, k) \/ Unlock(t, k)
               \/ \E c \in Client : Disconnect(t, c) \/ Destroy(t, c)
               \/ \E e \in Domain, kind \in ClearLocks, range \in ClrRanges :
                    Clrlk(t, e, kind, range)
               \/ PruneCheck(t) \/ PruneNothing(t) \/ PruneRevoke(t)
               \/ SetlkGrant(t) \/ SetlkEagain(t) \/ UnlockReturn(t)
        PROVE  UNCHANGED blocked_inodelks
    BY <2>9 DEF Request, Unlock, Disconnect, Destroy, Cleanup, Clrlk,
       PruneCheck, PruneNothing, PruneRevoke, SetlkGrant, SetlkEagain,
       UnlockReturn, lists
  <2>10. ASSUME NEW t \in Thread,
               \/ GrantOne(t) \/ GrantLeave(t) \/ GrantUnwind(t) \/ GrantUnref(t)
               \/ CleanupLeave(t) \/ CleanupUnwind(t) \/ CleanupGrant(t)
               \/ CleanupUnref(t) \/ CleanupReturn(t)
        PROVE  UNCHANGED blocked_inodelks
    BY <2>10 DEF GrantOne, GrantLeave, GrantUnwind, GrantUnref,
       CleanupLeave, CleanupUnwind, CleanupGrant, CleanupUnref, CleanupReturn,
       lists
  <2>11. ASSUME NEW t \in Thread,
               \/ ClrEnter(t) \/ ClrBlockedLeave(t) \/ ClrUnwind(t)
               \/ ClrUnwound(t) \/ ClrGranted(t) \/ ClrGrantedLeave(t)
               \/ ClrRead(t) \/ ClrWrite(t) \/ ClrReleased(t)
        PROVE  UNCHANGED blocked_inodelks
    BY <2>11 DEF ClrEnter, ClrBlockedLeave, ClrUnwind, ClrUnwound,
       ClrGranted, ClrGrantedLeave, ClrRead, ClrWrite, ClrReleased, lists
  <2>12. ASSUME NEW t \in Thread,
                \/ \E k \in Lock : Request(t, k) \/ Unlock(t, k)
                \/ \E c \in Client : Disconnect(t, c) \/ Destroy(t, c)
                \/ \E e \in Domain, kind \in ClearLocks, range \in ClrRanges :
                     Clrlk(t, e, kind, range)
                \/ Continue(t)
         PROVE  l \in Lock /\ dom(l) = d /\ ~CanLock(l)
    BY <2>1, <2>5, <2>6, <2>7, <2>8, <2>9, <2>10, <2>11, <2>12
       DEF Continue, SetlkStep, GrantStep, CleanupStep, ClrStep
  <2> QED BY <2>4, <2>12 DEF Next

<1>1. TypeInv /\ Exclusive /\ [Next]_vars => QueuesNoNested
  <2> SUFFICES ASSUME TypeInv, Exclusive, [Next]_vars, NEW d \in Domain,
                      NEW l \in Elems(blocked_inodelks'[d])
                                 \ Elems(blocked_inodelks[d]),
                      NEW g \in Granted(d), same_inodelk_owner(g, l),
                      Covers(g, l)
      PROVE  attr[g].fl_type # "F_WRLCK"
    BY DEF QueuesNoNested
  <2>1. l \in Lock /\ dom(l) = d /\ ~CanLock(l)
    BY <1>OnlyRefusedQueue
  <2> QED BY <2>1, <1>RefusedNotNested
<1>2. Spec => []TypeInv
  BY InitTypeInv, StepTypeInv, PTL DEF Spec
<1> QED BY <1>1, <1>2, MutualExclusion, PTL DEF Spec, NestedNotBlocked
============================================================================
