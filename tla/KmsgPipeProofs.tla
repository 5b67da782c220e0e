--------------------------- MODULE KmsgPipeProofs ---------------------------
(***************************************************************************)
(* Safety of the file operations, for every capacity, every number of      *)
(* threads, and with signals, faults and failing allocations: types,       *)
(* mutual exclusion, and the shape of the buffer.                          *)
(*                                                                         *)
(* The lemmas speak of steps of Next from states of which they say only    *)
(* what they need; in particular they leave open who else may own the      *)
(* mutex, so that they also hold for these threads beside the worker of    *)
(* lab4.                                                                   *)
(***************************************************************************)
EXTENDS KmsgPipe, KmsgRingProofs

\* The types of all variables but the mutex.
DataOK ==
    /\ rb \in Ring
    /\ waitq \in [Ops -> SUBSET Threads]
    /\ waiting \in [Ops -> Int]
    /\ now \in Nat
    /\ pc \in [Threads -> Labels]
    /\ local \in [Threads -> Locals]

\* What the typing needs besides: a thread inside read or write knows which of
\* the two it is in, and a loop over the slots has counted no more messages
\* than it has seen slots.
CallsTyped ==
    \A p \in Threads :
        /\ pc[p] \notin {"idle", "stats"} => local[p].op \in Ops
        /\ local[p].seen <= local[p].next

TypeInv == DataOK /\ CallsTyped

LEMMA ErrorNumbers ==
    /\ -EINVAL \in Int /\ -ENOMEM \in Int /\ -ERESTARTSYS \in Int /\ -EAGAIN \in Int
    /\ -EFAULT \in Int /\ -EMSGSIZE \in Int /\ -ENOSPC \in Int /\ -ENODATA \in Int
    /\ -EACCES \in Int
BY DEF EINVAL, ENOMEM, ERESTARTSYS, EAGAIN, EFAULT, EMSGSIZE, ENOSPC, ENODATA, EACCES

LEMMA InitType == Init => TypeInv
<1> SUFFICES ASSUME Init PROVE TypeInv
  OBVIOUS
<1>1. NoCall \in Locals
  BY CapacityAssumption DEF NoCall, Locals, Lengths, LenRange
<1>2. rb \in Ring
  BY EmptyRingFacts DEF Init
<1>3. DataOK
  BY <1>1, <1>2 DEF Init, DataOK, Ops, Labels
<1>4. CallsTyped
  BY DEF Init, CallsTyped, NoCall
<1> QED BY <1>3, <1>4 DEF TypeInv

\* A step that gives thread p a label and new local variables of the right type
\* leaves pc, local and CallsTyped in order.
LEMMA LocalStep ==
    ASSUME TypeInv, NEW p \in Threads, NEW label \in Labels, NEW l \in Locals,
           pc' = [pc EXCEPT ![p] = label],
           local' = [local EXCEPT ![p] = l],
           label \notin {"idle", "stats"} => l.op \in Ops,
           l.seen <= l.next
    PROVE  /\ pc' \in [Threads -> Labels]
           /\ local' \in [Threads -> Locals]
           /\ CallsTyped'
BY DEF TypeInv, DataOK, CallsTyped

LEMMA ReturnStep ==
    ASSUME TypeInv, NEW p \in Threads, NEW r \in Int, pc[p] \notin {"idle", "stats"},
           ReturnFreeing(p, r) \/ ReturnKeeping(p, r)
    PROVE  /\ pc' \in [Threads -> Labels]
           /\ local' \in [Threads -> Locals]
           /\ CallsTyped'
<1>1. CASE ReturnFreeing(p, r)
  <2> DEFINE l == [local[p] EXCEPT !.ret = r, !.buf = NoBuffer]
  <2>1. l \in Locals /\ l.op = local[p].op /\ l.seen = local[p].seen /\ l.next = local[p].next
    <3>1. local[p] \in Locals
      BY DEF TypeInv, DataOK
    <3> QED BY <3>1 DEF Locals
  <2>2. local' = [local EXCEPT ![p] = l] /\ pc' = [pc EXCEPT ![p] = "return"]
    BY <1>1 DEF ReturnFreeing, Goto
  <2> HIDE DEF l
  <2>3. "return" \in Labels
    BY DEF Labels
  <2>4. local[p].op \in Ops /\ local[p].seen <= local[p].next
    BY DEF TypeInv, CallsTyped
  <2> QED BY <2>1, <2>2, <2>3, <2>4, LocalStep
<1>2. CASE ReturnKeeping(p, r)
  <2> DEFINE l == [local[p] EXCEPT !.ret = r]
  <2>1. l \in Locals /\ l.op = local[p].op /\ l.seen = local[p].seen /\ l.next = local[p].next
    BY DEF TypeInv, DataOK, Locals
  <2>2. local' = [local EXCEPT ![p] = l] /\ pc' = [pc EXCEPT ![p] = "return"]
    BY <1>2 DEF ReturnKeeping, Goto
  <2> HIDE DEF l
  <2>3. "return" \in Labels
    BY DEF Labels
  <2>4. local[p].op \in Ops /\ local[p].seen <= local[p].next
    BY DEF TypeInv, CallsTyped
  <2> QED BY <2>1, <2>2, <2>3, <2>4, LocalStep
<1> QED BY <1>1, <1>2

\* A step that only moves thread p, from and to a label inside read or write.
LEMMA MoveStep ==
    ASSUME TypeInv, NEW p \in Threads, NEW label \in Labels, Goto(p, label),
           UNCHANGED local,
           label \notin {"idle", "stats"} => pc[p] \notin {"idle", "stats"}
    PROVE  /\ pc' \in [Threads -> Labels]
           /\ local' \in [Threads -> Locals]
           /\ CallsTyped'
BY DEF TypeInv, DataOK, CallsTyped, Goto

LEMMA EnterType ==
    ASSUME TypeInv, NEW p \in Threads, NEW op \in Ops, NEW count \in Nat,
           NEW nonblock \in BOOLEAN, NEW data \in Payloads \cup {Zero},
           Enter(p, op, count, nonblock, data)
    PROVE  TypeInv'
<1> DEFINE args == [NoCall EXCEPT !.op = op, !.count = count,
                                  !.nonblock = nonblock, !.data = data]
<1> DEFINE tooLarge == [args EXCEPT !.ret = -EINVAL]
<1> DEFINE noMemory == [args EXCEPT !.ret = -ENOMEM]
<1> DEFINE entered == [args EXCEPT !.buf = Zero]
<1>1. /\ tooLarge \in Locals /\ tooLarge.op = op /\ tooLarge.seen <= tooLarge.next
      /\ noMemory \in Locals /\ noMemory.op = op /\ noMemory.seen <= noMemory.next
      /\ entered \in Locals /\ entered.op = op /\ entered.seen <= entered.next
  <2>1. /\ 0 \in 0 .. Capacity /\ 0 \in Lengths
        /\ -EINVAL \in Int /\ -ENOMEM \in Int
    BY ErrorNumbers, CapacityAssumption DEF Lengths, LenRange
  <2> DEFINE fresh == NoCall
  <2>6. fresh \in Locals /\ fresh.seen = 0 /\ fresh.next = 0
    BY <2>1 DEF NoCall, Locals
  <2> HIDE DEF fresh
  <2>7. args = [fresh EXCEPT !.op = op, !.count = count, !.nonblock = nonblock,
                             !.data = data]
    BY DEF fresh
  <2> HIDE DEF args
  <2>2. args \in Locals /\ args.op = op /\ args.seen = 0 /\ args.next = 0
    BY <2>6, <2>7 DEF Locals
  <2> HIDE DEF args
  <2>3. tooLarge \in Locals /\ tooLarge.op = op /\ tooLarge.seen = 0 /\ tooLarge.next = 0
    BY <2>1, <2>2 DEF Locals
  <2>4. noMemory \in Locals /\ noMemory.op = op /\ noMemory.seen = 0 /\ noMemory.next = 0
    BY <2>1, <2>2 DEF Locals
  <2>5. entered \in Locals /\ entered.op = op /\ entered.seen = 0 /\ entered.next = 0
    BY <2>2 DEF Locals
  <2> QED BY <2>3, <2>4, <2>5
<1>2. \/ /\ pc' = [pc EXCEPT ![p] = "return"]
         /\ local' = [local EXCEPT ![p] = tooLarge]
      \/ /\ pc' = [pc EXCEPT ![p] = "return"]
         /\ local' = [local EXCEPT ![p] = noMemory]
      \/ /\ pc' = [pc EXCEPT ![p] = "lock"]
         /\ local' = [local EXCEPT ![p] = entered]
  BY DEF Enter, Goto
<1> HIDE DEF args, tooLarge, noMemory, entered
<1>3. "return" \in Labels /\ "lock" \in Labels
  BY DEF Labels
<1>4. pc' \in [Threads -> Labels] /\ local' \in [Threads -> Locals] /\ CallsTyped'
  BY <1>1, <1>2, <1>3, LocalStep
<1>5. UNCHANGED <<rb, mutex, waitq, waiting, now>>
  BY DEF Enter
<1> QED BY <1>4, <1>5 DEF TypeInv, DataOK

LEMMA CountSlotType ==
    ASSUME TypeInv, NEW p \in Threads, CountSlot(p), UNCHANGED pc
    PROVE  local' \in [Threads -> Locals] /\ CallsTyped'
<1> DEFINE seen == IF rb.records[local[p].next].valid THEN local[p].seen + 1
                   ELSE local[p].seen
<1> DEFINE l == [local[p] EXCEPT !.next = @ + 1, !.seen = seen]
<1>1. /\ local[p].next \in 0 .. Capacity /\ local[p].seen \in 0 .. Capacity
      /\ local[p].next < Capacity /\ local[p].seen <= local[p].next
      /\ local[p] \in Locals
  BY DEF TypeInv, DataOK, Locals, CountSlot, CallsTyped
<1>2. seen \in 0 .. Capacity /\ seen <= local[p].next + 1
  BY <1>1, CapacityAssumption
<1>3. local' = [local EXCEPT ![p] = l]
  BY DEF CountSlot, TypeInv, DataOK
<1>4. local[p].next + 1 \in 0 .. Capacity
  BY <1>1, CapacityAssumption
<1> HIDE DEF seen
<1>5. l \in Locals /\ l.op = local[p].op /\ l.seen = seen /\ l.next = local[p].next + 1
  BY <1>1, <1>2, <1>4 DEF Locals
<1> HIDE DEF l
<1> QED BY <1>2, <1>3, <1>5 DEF TypeInv, DataOK, CallsTyped

LEMMA RecountType ==
    ASSUME TypeInv, NEW p \in Threads, Recount(p), NEW label \in Labels, Goto(p, label),
           label \notin {"idle", "stats"} => pc[p] \notin {"idle", "stats"}
    PROVE  /\ pc' \in [Threads -> Labels]
           /\ local' \in [Threads -> Locals]
           /\ CallsTyped'
<1> DEFINE l == [local[p] EXCEPT !.next = 0, !.seen = 0]
<1>1. l \in Locals /\ l.op = local[p].op /\ l.seen = 0 /\ l.next = 0
  <2>1. 0 \in 0 .. Capacity /\ local[p] \in Locals
    BY CapacityAssumption DEF TypeInv, DataOK
  <2> QED BY <2>1 DEF Locals
<1>2. local' = [local EXCEPT ![p] = l] /\ pc' = [pc EXCEPT ![p] = label]
  BY DEF Recount, Goto
<1> HIDE DEF l
<1>3. label \notin {"idle", "stats"} => local[p].op \in Ops
  BY DEF TypeInv, CallsTyped
<1>4. l.seen <= l.next
  BY <1>1
<1> QED BY <1>1, <1>2, <1>3, <1>4, LocalStep

LEMMA QueueType ==
    ASSUME TypeInv, NEW p \in Threads, pc[p] \notin {"idle", "stats"}
    PROVE  /\ JoinQueue(p) => waitq' \in [Ops -> SUBSET Threads]
           /\ LeaveQueue(p) => /\ waitq' \in [Ops -> SUBSET Threads]
                               /\ waiting' \in [Ops -> Int]
<1>1. local[p].op \in Ops
  BY DEF TypeInv, CallsTyped
<1>2. waitq \in [Ops -> SUBSET Threads] /\ waiting \in [Ops -> Int]
  BY DEF TypeInv, DataOK
<1> QED BY <1>1, <1>2 DEF JoinQueue, LeaveQueue

\* One step of the system, action by action.
LEMMA TypeStep == TypeInv /\ [Next]_vars => TypeInv'
<1> SUFFICES ASSUME TypeInv, [Next]_vars PROVE TypeInv'
  OBVIOUS
<1>1. /\ rb \in Ring /\ now \in Nat
      /\ waitq \in [Ops -> SUBSET Threads] /\ waiting \in [Ops -> Int]
      /\ pc \in [Threads -> Labels] /\ local \in [Threads -> Locals]
      /\ CallsTyped
  BY DEF TypeInv, DataOK
<1>2. CASE UNCHANGED vars
  BY <1>1, <1>2 DEF vars, TypeInv, DataOK, CallsTyped
<1>3. CASE Tick
  BY <1>1, <1>3 DEF Tick, TypeInv, DataOK, CallsTyped
<1>4. ASSUME NEW p \in Threads, kmsgpipe_read(p)
      PROVE  TypeInv'
  <2>1. PICK count \in ReadCounts, nonblock \in BlockModes :
            Enter(p, "read", count, nonblock, Zero)
    BY <1>4 DEF kmsgpipe_read
  <2>2. count \in Nat /\ nonblock \in BOOLEAN /\ "read" \in Ops
    BY CallAssumption DEF Ops
  <2> QED BY <2>1, <2>2, EnterType
<1>5. ASSUME NEW p \in Threads, kmsgpipe_write(p)
      PROVE  TypeInv'
  <2>1. PICK count \in WriteCounts, nonblock \in BlockModes, data \in Payloads :
            Enter(p, "write", count, nonblock, data)
    BY <1>5 DEF kmsgpipe_write
  <2>2. count \in Nat /\ nonblock \in BOOLEAN /\ "write" \in Ops
    BY CallAssumption DEF Ops
  <2> QED BY <2>1, <2>2, EnterType
<1>6. ASSUME NEW p \in Threads, StatsLock(p)
      PROVE  TypeInv'
  <2>1. pc' \in [Threads -> Labels] /\ local' \in [Threads -> Locals] /\ CallsTyped'
    <3>1. "stats" \in Labels
      BY DEF Labels
    <3> QED BY <3>1, <1>6, MoveStep DEF StatsLock
  <2> QED BY <1>1, <1>6, <2>1 DEF StatsLock, TypeInv, DataOK
<1>7. ASSUME NEW p \in Threads, InKernel(p)
      PROVE  TypeInv'
  <2> DEFINE Rest == /\ pc' \in [Threads -> Labels]
                     /\ local' \in [Threads -> Locals]
                     /\ CallsTyped'
  <2>1. \A label \in Labels : Goto(p, label) /\ UNCHANGED local
            /\ pc[p] \notin {"idle", "stats"} => Rest
    BY MoveStep
  <2>2. \A r \in Int : (ReturnFreeing(p, r) \/ ReturnKeeping(p, r))
            /\ pc[p] \notin {"idle", "stats"} => Rest
    BY ReturnStep
  <2>3. \A label \in Labels : Recount(p) /\ Goto(p, label)
            /\ (label \in {"idle", "stats"} \/ pc[p] \notin {"idle", "stats"}) => Rest
    BY RecountType
  <2>4. CountSlot(p) /\ UNCHANGED pc => Rest
    BY <1>1, CountSlotType
  <2>5. local[p].ret \in Int /\ local[p] \in Locals
    BY <1>1 DEF Locals
  <2>6. pc[p] \notin {"idle", "stats"} =>
            /\ local[p].op \in Ops
            /\ JoinQueue(p) => waitq' \in [Ops -> SUBSET Threads]
            /\ LeaveQueue(p) => /\ waitq' \in [Ops -> SUBSET Threads]
                                /\ waiting' \in [Ops -> Int]
    BY <1>1, QueueType DEF CallsTyped
  <2> HIDE DEF Rest
  <2>7. CASE Lock(p)
    <3>1. "test" \in Labels /\ pc[p] \notin {"idle", "stats"}
      BY <2>7 DEF Lock, At, Labels
    <3>2. Rest
      BY <2>1, <2>7, <3>1 DEF Lock
    <3> QED BY <1>1, <2>7, <3>2 DEF Rest, Lock, TypeInv, DataOK
  <2>8. CASE LockInterrupted(p)
    <3>1. pc[p] \notin {"idle", "stats"}
      BY <2>8 DEF LockInterrupted, At
    <3>2. Rest
      BY <2>2, <2>8, <3>1, ErrorNumbers DEF LockInterrupted
    <3> QED BY <1>1, <2>8, <3>2 DEF Rest, LockInterrupted, TypeInv, DataOK
  <2>9. CASE TestPasses(p)
    <3>1. pc[p] \notin {"idle", "stats"} /\ local[p].op \in Labels
      BY <2>6, <2>9 DEF TestPasses, At, Labels, Ops
    <3>2. Rest
      BY <2>1, <2>9, <3>1 DEF TestPasses
    <3> QED BY <1>1, <2>9, <3>2 DEF Rest, TestPasses, TypeInv, DataOK
  <2>10. CASE TestFails(p)
    <3>1. pc[p] \notin {"idle", "stats"} /\ "wait" \in Labels
      BY <2>10 DEF TestFails, At, Labels
    <3>2. Rest
      BY <2>1, <2>2, <2>10, <3>1, ErrorNumbers DEF TestFails
    <3> QED BY <1>1, <2>10, <3>2 DEF Rest, TestFails, TypeInv, DataOK
  <2>11. CASE Wait(p)
    <3>1. pc[p] \notin {"idle", "stats"} /\ "scan" \in Labels
      BY <2>11 DEF Wait, At, Labels
    <3>2. Rest
      BY <2>1, <2>11, <3>1 DEF Wait
    <3>3. waitq' \in [Ops -> SUBSET Threads] /\ waiting' \in [Ops -> Int]
      BY <1>1, <2>6, <2>11, <3>1 DEF Wait
    <3> QED BY <1>1, <2>11, <3>2, <3>3 DEF Rest, Wait, TypeInv, DataOK
  <2>12. CASE ScanSlot(p)
    <3>1. Rest
      BY <2>4, <2>12 DEF ScanSlot
    <3> QED BY <1>1, <2>12, <3>1 DEF Rest, ScanSlot, TypeInv, DataOK
  <2>13. CASE WaitOver(p)
    <3>1. pc[p] \notin {"idle", "stats"} /\ "relock" \in Labels
      BY <2>13 DEF WaitOver, ScanDone, At, Labels
    <3>2. Rest
      BY <2>3, <2>13, <3>1 DEF WaitOver
    <3> QED BY <1>1, <2>6, <2>13, <3>1, <3>2 DEF Rest, WaitOver, TypeInv, DataOK
  <2>14. CASE WaitInterrupted(p)
    <3>1. pc[p] \notin {"idle", "stats"}
      BY <2>14 DEF WaitInterrupted, ScanDone, At
    <3>2. Rest
      BY <2>2, <2>14, <3>1, ErrorNumbers DEF WaitInterrupted
    <3> QED BY <1>1, <2>6, <2>14, <3>1, <3>2 DEF Rest, WaitInterrupted, TypeInv, DataOK
  <2>15. CASE Sleep(p)
    <3>1. pc[p] \notin {"idle", "stats"} /\ "sleep" \in Labels
      BY <2>15 DEF Sleep, ScanDone, At, Labels
    <3>2. Rest
      BY <2>3, <2>15, <3>1 DEF Sleep
    <3> QED BY <1>1, <2>15, <3>2 DEF Rest, Sleep, TypeInv, DataOK
  <2>16. CASE Woken(p)
    <3>1. pc[p] \notin {"idle", "stats"} /\ "scan" \in Labels
      BY <2>16 DEF Woken, At, Labels
    <3>2. Rest
      BY <2>1, <2>16, <3>1 DEF Woken
    <3> QED BY <1>1, <2>6, <2>16, <3>1, <3>2 DEF Rest, Woken, TypeInv, DataOK
  <2>17. CASE CopyFromUserFaults(p)
    <3>1. pc[p] \notin {"idle", "stats"}
      BY <2>17 DEF CopyFromUserFaults, At
    <3>2. Rest
      BY <2>2, <2>17, <3>1, ErrorNumbers DEF CopyFromUserFaults
    <3> QED BY <1>1, <2>17, <3>2 DEF Rest, CopyFromUserFaults, TypeInv, DataOK
  <2>18. CASE PushCopy(p)
    <3> DEFINE l == [local[p] EXCEPT !.stamp = now, !.buf = local[p].data]
    <3>1. /\ l \in Locals /\ l.op = local[p].op
          /\ l.seen = local[p].seen /\ l.next = local[p].next
      BY <1>1, <2>5 DEF Locals
    <3>2. pc' = [pc EXCEPT ![p] = "fill"] /\ local' = [local EXCEPT ![p] = l]
      BY <1>1, <2>18 DEF PushCopy, Goto
    <3> HIDE DEF l
    <3>3. "fill" \in Labels /\ pc[p] \notin {"idle", "stats"}
      BY <2>18 DEF PushCopy, At, Labels
    <3>4. Rest
      BY <1>1, <2>6, <3>1, <3>2, <3>3, LocalStep DEF Rest, CallsTyped
    <3>5. rb' \in Ring
      BY <1>1, <2>5, <2>18, CopyInType DEF PushCopy, Locals
    <3> QED BY <1>1, <2>18, <3>4, <3>5 DEF Rest, PushCopy, TypeInv, DataOK
  <2>19. CASE PushRefused(p)
    <3> DEFINE l == [local[p] EXCEPT !.ret = PushError(rb, local[p].count)]
    <3>1. PushError(rb, local[p].count) \in Int
      BY ErrorNumbers DEF PushError
    <3>2. /\ l \in Locals /\ l.op = local[p].op
          /\ l.seen = local[p].seen /\ l.next = local[p].next
      BY <2>5, <3>1 DEF Locals
    <3>3. pc' = [pc EXCEPT ![p] = "unlock"] /\ local' = [local EXCEPT ![p] = l]
      BY <1>1, <2>19 DEF PushRefused, Goto
    <3> HIDE DEF l
    <3>4. "unlock" \in Labels /\ pc[p] \notin {"idle", "stats"}
      BY <2>19 DEF PushRefused, At, Labels
    <3>5. Rest
      BY <1>1, <2>6, <3>2, <3>3, <3>4, LocalStep DEF Rest, CallsTyped
    <3> QED BY <1>1, <2>19, <3>5 DEF Rest, PushRefused, TypeInv, DataOK
  <2>20. CASE PushFill(p)
    <3>1. pc[p] \notin {"idle", "stats"} /\ "advance_head" \in Labels
      BY <2>20 DEF PushFill, At, Labels
    <3>2. Rest
      BY <2>1, <2>20, <3>1 DEF PushFill
    <3>3. local[p].count \in Nat /\ local[p].stamp \in Nat /\ Cred[p] \in Creds
      BY <2>5, ThreadAssumption DEF Locals
    <3>4. rb' \in Ring
      BY <1>1, <2>20, <3>3, FillRecordType DEF PushFill
    <3> QED BY <1>1, <2>20, <3>2, <3>4 DEF Rest, PushFill, TypeInv, DataOK
  <2>21. CASE PushAdvance(p)
    <3> DEFINE l == [local[p] EXCEPT !.ret = local[p].count]
    <3>1. /\ l \in Locals /\ l.op = local[p].op
          /\ l.seen = local[p].seen /\ l.next = local[p].next
      BY <2>5 DEF Locals
    <3>2. pc' = [pc EXCEPT ![p] = "wake_readers"] /\ local' = [local EXCEPT ![p] = l]
      BY <1>1, <2>21 DEF PushAdvance, Goto
    <3> HIDE DEF l
    <3>3. "wake_readers" \in Labels /\ pc[p] \notin {"idle", "stats"}
      BY <2>21 DEF PushAdvance, At, Labels
    <3>4. Rest
      BY <1>1, <2>6, <3>1, <3>2, <3>3, LocalStep DEF Rest, CallsTyped
    <3>5. rb' \in Ring
      BY <1>1, <2>21, AdvanceType DEF PushAdvance
    <3> QED BY <1>1, <2>21, <3>4, <3>5 DEF Rest, PushAdvance, TypeInv, DataOK
  <2>22. CASE WakeReaders(p)
    <3>1. pc[p] \notin {"idle", "stats"} /\ "unlock" \in Labels
      BY <2>22 DEF WakeReaders, At, Labels
    <3>2. Rest
      BY <2>1, <2>22, <3>1 DEF WakeReaders
    <3> QED BY <1>1, <2>22, <3>2 DEF Rest, WakeReaders, TypeInv, DataOK
  <2>23. CASE Unlock(p)
    <3>1. pc[p] \notin {"idle", "stats"}
      BY <2>23 DEF Unlock, At
    <3>2. Rest
      BY <2>2, <2>5, <2>23, <3>1 DEF Unlock
    <3> QED BY <1>1, <2>23, <3>2 DEF Rest, Unlock, TypeInv, DataOK
  <2>24. CASE PopRefused(p)
    <3>1. pc[p] \notin {"idle", "stats"} /\ PopError(rb, Cred[p]) \in Int
      BY <2>24, ErrorNumbers DEF PopRefused, At, PopError
    <3>2. Rest
      BY <2>2, <2>24, <3>1 DEF PopRefused
    <3> QED BY <1>1, <2>24, <3>2 DEF Rest, PopRefused, TypeInv, DataOK
  <2>25. CASE PopCopy(p)
    <3> DEFINE m == MessageAt(rb, rb.tail)
    <3> DEFINE l == [local[p] EXCEPT !.buf = m.data, !.len = m.len]
    <3>1. m.data \in Payloads \cup {Zero} /\ m.len \in Lengths
      BY <1>1, MessageAtType DEF Ring
    <3>2. pc' = [pc EXCEPT ![p] = "release"] /\ local' = [local EXCEPT ![p] = l]
      BY <1>1, <2>25 DEF PopCopy, Goto
    <3> HIDE DEF m
    <3>3. /\ l \in Locals /\ l.op = local[p].op
          /\ l.seen = local[p].seen /\ l.next = local[p].next
      BY <2>5, <3>1 DEF Locals
    <3> HIDE DEF l
    <3>4. "release" \in Labels /\ pc[p] \notin {"idle", "stats"}
      BY <2>25 DEF PopCopy, At, Labels
    <3>5. Rest
      BY <1>1, <2>6, <3>2, <3>3, <3>4, LocalStep DEF Rest, CallsTyped
    <3> QED BY <1>1, <2>25, <3>5 DEF Rest, PopCopy, TypeInv, DataOK
  <2>26. CASE PopRelease(p)
    <3> DEFINE l == [local[p] EXCEPT !.ret = rb.records[rb.tail].len]
    <3>1. rb.records[rb.tail].len \in Int
      <4>1. rb.tail \in Slots
        BY <1>1 DEF Ring
      <4>2. rb.records[rb.tail].len \in Lengths
        BY <1>1, <4>1, MessageAtType
      <4> QED BY <4>2 DEF Lengths
    <3>2. /\ l \in Locals /\ l.op = local[p].op
          /\ l.seen = local[p].seen /\ l.next = local[p].next
      BY <2>5, <3>1 DEF Locals
    <3>3. pc' = [pc EXCEPT ![p] = "advance_tail"] /\ local' = [local EXCEPT ![p] = l]
      BY <1>1, <2>26 DEF PopRelease, Goto
    <3> HIDE DEF l
    <3>4. "advance_tail" \in Labels /\ pc[p] \notin {"idle", "stats"}
      BY <2>26 DEF PopRelease, At, Labels
    <3>5. Rest
      BY <1>1, <2>6, <3>2, <3>3, <3>4, LocalStep DEF Rest, CallsTyped
    <3>6. rb' \in Ring
      BY <1>1, <2>26, ReleaseTailType DEF PopRelease
    <3> QED BY <1>1, <2>26, <3>5, <3>6 DEF Rest, PopRelease, TypeInv, DataOK
  <2>27. CASE PopAdvance(p)
    <3>1. pc[p] \notin {"idle", "stats"} /\ "wake_writers" \in Labels
      BY <2>27 DEF PopAdvance, At, Labels
    <3>2. Rest
      BY <2>1, <2>27, <3>1 DEF PopAdvance
    <3>3. rb' \in Ring
      BY <1>1, <2>27, AdvanceType DEF PopAdvance
    <3> QED BY <1>1, <2>27, <3>2, <3>3 DEF Rest, PopAdvance, TypeInv, DataOK
  <2>28. CASE WakeWriters(p)
    <3>1. pc[p] \notin {"idle", "stats"} /\ "copyout" \in Labels
      BY <2>28 DEF WakeWriters, At, Labels
    <3>2. Rest
      BY <2>1, <2>28, <3>1 DEF WakeWriters
    <3> QED BY <1>1, <2>28, <3>2 DEF Rest, WakeWriters, TypeInv, DataOK
  <2>29. CASE CopyToUser(p)
    <3>1. pc[p] \notin {"idle", "stats"}
      BY <2>29 DEF CopyToUser, At
    <3>2. Rest
      BY <2>2, <2>5, <2>29, <3>1, ErrorNumbers DEF CopyToUser
    <3> QED BY <1>1, <2>29, <3>2 DEF Rest, CopyToUser, TypeInv, DataOK
  <2>30. CASE Return(p)
    <3>1. NoCall \in Locals /\ NoCall.seen <= NoCall.next
      BY CapacityAssumption DEF NoCall, Locals, Lengths, LenRange
    <3>2. "idle" \in Labels
      BY DEF Labels
    <3>3. Rest
      BY <1>1, <2>30, <3>1, <3>2, LocalStep DEF Rest, Return, Goto
    <3> QED BY <1>1, <2>30, <3>3 DEF Rest, Return, TypeInv, DataOK
  <2>31. CASE StatsCount(p)
    <3>1. Rest
      BY <2>4, <2>31 DEF StatsCount
    <3> QED BY <1>1, <2>31, <3>1 DEF Rest, StatsCount, TypeInv, DataOK
  <2>32. CASE StatsShow(p)
    <3>1. "idle" \in Labels
      BY DEF Labels
    <3>2. Rest
      BY <2>3, <2>32, <3>1 DEF StatsShow
    <3> QED BY <1>1, <2>32, <3>2 DEF Rest, StatsShow, TypeInv, DataOK
  <2> QED BY <1>7, <2>7, <2>8, <2>9, <2>10, <2>11, <2>12, <2>13, <2>14, <2>15, <2>16,
             <2>17, <2>18, <2>19, <2>20, <2>21, <2>22, <2>23, <2>24, <2>25, <2>26,
             <2>27, <2>28, <2>29, <2>30, <2>31, <2>32 DEF InKernel, PushBegin
<1> QED BY <1>2, <1>3, <1>4, <1>5, <1>6, <1>7 DEF Next, Calls

-----------------------------------------------------------------------------
(* The window of the buffer is not inductive alone: a push is safe because *)
(* the slot at head is free, which the thread knows from its test of the   *)
(* message count, made earlier under the same mutex.  RingInv remembers    *)
(* that knowledge from the test up to the step that uses it.               *)

Moving == {"advance_head", "advance_tail"}

\* Between the test of the count and the step that sets or clears a record.
Pushing == {"write", "fill"}
Popping == {"read", "release"}

RingInv ==
    /\ IsWindow(SettledRing)
    /\ \A p \in Threads : pc[p] \in Pushing => ~ rb.records[rb.head].valid
    /\ \A p \in Threads : pc[p] \in Popping => rb.records[rb.tail].valid

SafeInv == TypeInv /\ MutexHeldInside /\ RingInv /\ NoSpuriousError

\* The buffer r as the thread at a label, the only one inside, will leave it.
SettledAs(label, r) ==
    IF label = "advance_head" THEN AdvanceHead(r)
    ELSE IF label = "advance_tail" THEN AdvanceTail(r)
    ELSE r

-----------------------------------------------------------------------------
(* Mutual exclusion *)

\* Two threads are never inside together.
LEMMA OneInside ==
    ASSUME MutexHeldInside, NEW p \in Threads, NEW q \in Threads,
           pc[p] \in Critical, pc[q] \in Critical
    PROVE  p = q
BY DEF MutexHeldInside

LEMMA MutexKept ==
    ASSUME TypeInv, MutexHeldInside, NEW p \in Threads, NEW label,
           pc' = [pc EXCEPT ![p] = label], mutex' = mutex,
           label \in Critical <=> pc[p] \in Critical
    PROVE  MutexHeldInside'
BY DEF TypeInv, DataOK, MutexHeldInside

LEMMA MutexTaken ==
    ASSUME TypeInv, MutexHeldInside, NEW p \in Threads, NEW label \in Critical,
           pc' = [pc EXCEPT ![p] = label], mutex = Free, mutex' = p
    PROVE  MutexHeldInside'
<1>1. \A q \in Threads : pc[q] \notin Critical
  BY ThreadAssumption DEF MutexHeldInside
<1> QED BY <1>1 DEF TypeInv, DataOK, MutexHeldInside

LEMMA MutexReleased ==
    ASSUME TypeInv, MutexHeldInside, NEW p \in Threads, NEW label, label \notin Critical,
           pc' = [pc EXCEPT ![p] = label], pc[p] \in Critical, mutex' = Free
    PROVE  MutexHeldInside'
<1>1. \A q \in Threads : q # p => pc[q] \notin Critical
  BY OneInside
<1> QED BY <1>1, ThreadAssumption DEF TypeInv, DataOK, MutexHeldInside

\* What every step does to the mutex and to the label of its thread.
LEMMA MutexStep ==
    ASSUME TypeInv, MutexHeldInside, [Next]_vars
    PROVE  MutexHeldInside'
<1>1. CASE UNCHANGED vars \/ Tick
  BY <1>1 DEF vars, Tick, MutexHeldInside
<1>2. ASSUME NEW p \in Threads, Calls(p)
      PROVE  MutexHeldInside'
  <2>1. CASE kmsgpipe_read(p) \/ kmsgpipe_write(p)
    <3>1. /\ pc[p] \notin Critical /\ mutex' = mutex
          /\ \/ pc' = [pc EXCEPT ![p] = "return"]
             \/ pc' = [pc EXCEPT ![p] = "lock"]
      BY <2>1 DEF kmsgpipe_read, kmsgpipe_write, Enter, At, Goto, Critical
    <3>2. "return" \notin Critical /\ "lock" \notin Critical
      BY DEF Critical
    <3> QED BY <3>1, <3>2, MutexKept
  <2>2. CASE StatsLock(p)
    <3>1. "stats" \in Critical
      BY DEF Critical
    <3> QED BY <2>2, <3>1, MutexTaken DEF StatsLock, Goto
  <2> QED BY <1>2, <2>1, <2>2 DEF Calls
<1>3. ASSUME NEW p \in Threads, InKernel(p)
      PROVE  MutexHeldInside'
  <2> DEFINE Kept(label) == /\ pc' = [pc EXCEPT ![p] = label] /\ mutex' = mutex
                            /\ label \in Critical <=> pc[p] \in Critical
  <2> DEFINE Released(label) == /\ pc' = [pc EXCEPT ![p] = label] /\ mutex' = Free
                                /\ label \notin Critical /\ pc[p] \in Critical
  <2>1. \A label : Kept(label) \/ Released(label) => MutexHeldInside'
    BY MutexKept, MutexReleased
  <2>2. CASE Lock(p)
    <3>1. "test" \in Critical
      BY DEF Critical
    <3> QED BY <2>2, <3>1, MutexTaken DEF Lock, Goto
  <2>3. CASE \/ LockInterrupted(p) \/ WaitInterrupted(p)
    <3>1. Kept("return")
      BY <2>3 DEF LockInterrupted, WaitInterrupted, ScanDone, ReturnFreeing, ReturnKeeping,
                  At, Goto, Critical
    <3> QED BY <2>1, <3>1
  <2>4. CASE TestPasses(p)
    <3>1. local[p].op \in {"read", "write"}
      BY <2>4 DEF TestPasses, At, TypeInv, CallsTyped, Ops
    <3>2. Kept(local[p].op)
      BY <2>4, <3>1 DEF TestPasses, At, Goto, Critical
    <3> QED BY <2>1, <3>2
  <2>5. CASE TestFails(p)
    <3>1. Released("return") \/ Released("wait")
      BY <2>5 DEF TestFails, ReturnKeeping, At, Goto, Critical
    <3> QED BY <2>1, <3>1
  <2>6. CASE Wait(p) \/ Woken(p)
    <3>1. Kept("scan")
      BY <2>6 DEF Wait, Woken, At, Goto, Critical
    <3> QED BY <2>1, <3>1
  <2>7. CASE ScanSlot(p) \/ StatsCount(p)
    BY <2>7 DEF ScanSlot, StatsCount, MutexHeldInside
  <2>8. CASE WaitOver(p)
    <3>1. Kept("relock")
      BY <2>8 DEF WaitOver, ScanDone, At, Goto, Critical
    <3> QED BY <2>1, <3>1
  <2>9. CASE Sleep(p)
    <3>1. Kept("sleep")
      BY <2>9 DEF Sleep, ScanDone, At, Goto, Critical
    <3> QED BY <2>1, <3>1
  <2>10. CASE CopyFromUserFaults(p) \/ Unlock(p) \/ PopRefused(p) \/ CopyToUser(p)
    <3>1. Released("return")
      BY <2>10 DEF CopyFromUserFaults, Unlock, PopRefused, CopyToUser, ReturnFreeing, At,
                   Goto, Critical
    <3> QED BY <2>1, <3>1
  <2>11. CASE PushCopy(p) \/ PushFill(p) \/ PushAdvance(p)
    <3>1. Kept("fill") \/ Kept("advance_head") \/ Kept("wake_readers")
      BY <2>11 DEF PushCopy, PushFill, PushAdvance, At, Goto, Critical
    <3> QED BY <2>1, <3>1
  <2>12. CASE PushRefused(p) \/ WakeReaders(p)
    <3>1. Kept("unlock")
      BY <2>12 DEF PushRefused, WakeReaders, At, Goto, Critical
    <3> QED BY <2>1, <3>1
  <2>13. CASE PopCopy(p) \/ PopRelease(p) \/ PopAdvance(p) \/ WakeWriters(p)
    <3>1. Kept("release") \/ Kept("advance_tail") \/ Kept("wake_writers") \/ Kept("copyout")
      BY <2>13 DEF PopCopy, PopRelease, PopAdvance, WakeWriters, At, Goto, Critical
    <3> QED BY <2>1, <3>1
  <2>14. CASE Return(p)
    <3>1. Kept("idle")
      BY <2>14 DEF Return, At, Goto, Critical
    <3> QED BY <2>1, <3>1
  <2>15. CASE StatsShow(p)
    <3>1. Released("idle")
      BY <2>15 DEF StatsShow, At, Goto, Critical
    <3> QED BY <2>1, <3>1
  <2> QED BY <1>3, <2>2, <2>3, <2>4, <2>5, <2>6, <2>7, <2>8, <2>9, <2>10, <2>11, <2>12,
             <2>13, <2>14, <2>15 DEF InKernel, PushBegin
<1> QED BY <1>1, <1>2, <1>3 DEF Next

\* Only its owner gives the mutex back, and only a thread that finds it free
\* takes it.
MutexMoves ==
    \/ mutex' = mutex
    \/ mutex = Free /\ mutex' \in Threads
    \/ mutex \in Threads /\ mutex' = Free

LEMMA MutexMoved ==
    ASSUME MutexHeldInside, [Next]_vars
    PROVE  MutexMoves
<1>1. CASE UNCHANGED vars \/ Tick
  BY <1>1 DEF vars, Tick, MutexMoves
<1>2. ASSUME NEW p \in Threads, Calls(p)
      PROVE  MutexMoves
  BY <1>2 DEF Calls, kmsgpipe_read, kmsgpipe_write, Enter, StatsLock, MutexMoves
<1>3. ASSUME NEW p \in Threads, InKernel(p)
      PROVE  MutexMoves
  <2> DEFINE GivenBack == mutex' = Free /\ pc[p] \in Critical
  <2>1. GivenBack => MutexMoves
    BY DEF MutexHeldInside, MutexMoves
  <2>2. CASE Lock(p)
    BY <2>2 DEF Lock, MutexMoves
  <2>3. CASE \/ TestFails(p) \/ CopyFromUserFaults(p) \/ Unlock(p) \/ PopRefused(p)
             \/ CopyToUser(p) \/ StatsShow(p)
    <3>1. GivenBack
      BY <2>3 DEF TestFails, CopyFromUserFaults, Unlock, PopRefused, CopyToUser, StatsShow,
                  At, Critical
    <3> QED BY <2>1, <3>1
  <2>4. CASE \/ LockInterrupted(p) \/ TestPasses(p) \/ Wait(p) \/ ScanSlot(p) \/ WaitOver(p)
             \/ WaitInterrupted(p) \/ Sleep(p) \/ Woken(p) \/ PushBegin(p) \/ PushFill(p)
             \/ PushAdvance(p) \/ WakeReaders(p) \/ PopCopy(p) \/ PopRelease(p)
             \/ PopAdvance(p) \/ WakeWriters(p) \/ Return(p) \/ StatsCount(p)
    <3>1. mutex' = mutex
      BY <2>4 DEF LockInterrupted, TestPasses, Wait, ScanSlot, WaitOver, WaitInterrupted,
                  Sleep, Woken, PushBegin, PushCopy, PushRefused, PushFill, PushAdvance,
                  WakeReaders, PopCopy, PopRelease, PopAdvance, WakeWriters, Return, StatsCount
    <3> QED BY <3>1 DEF MutexMoves
  <2> HIDE DEF GivenBack
  <2> QED BY <1>3, <2>2, <2>3, <2>4 DEF InKernel
<1> QED BY <1>1, <1>2, <1>3 DEF Next

\* Every variable keeps its type in every execution.
THEOREM TypeCorrect == Spec => []TypeOK
<1> DEFINE Typed == TypeInv /\ MutexHeldInside /\ mutex \in Threads \cup {Free}
<1>1. Init => Typed
  BY InitType, ThreadAssumption DEF Init, MutexHeldInside, Critical
<1>2. Typed /\ [Next]_vars => Typed'
  <2>1. Typed /\ [Next]_vars => MutexMoves
    BY MutexMoved
  <2>2. Typed /\ MutexMoves => (mutex \in Threads \cup {Free})'
    BY DEF MutexMoves
  <2> QED BY <2>1, <2>2, TypeStep, MutexStep
<1>3. Typed => TypeOK
  BY DEF TypeInv, DataOK, TypeOK
<1> HIDE DEF Typed
<1> QED BY <1>1, <1>2, <1>3, PTL DEF Spec

\* The mutex is held exactly by the thread between lock and unlock, in every
\* execution, on every path through read, write and stats_show.
THEOREM MutualExclusion == Spec => []MutexHeldInside
<1>1. Init => TypeInv /\ MutexHeldInside
  BY InitType, ThreadAssumption DEF Init, MutexHeldInside, Critical
<1>2. TypeInv /\ MutexHeldInside /\ [Next]_vars => TypeInv' /\ MutexHeldInside'
  BY TypeStep, MutexStep
<1> QED BY <1>1, <1>2, PTL DEF Spec

-----------------------------------------------------------------------------
(* The shape of the buffer *)

LEMMA LabelSets ==
    /\ Pushing \subseteq Critical /\ Popping \subseteq Critical /\ Moving \subseteq Critical
    /\ Moving \cap (Pushing \cup Popping) = {}
BY DEF Pushing, Popping, Moving, Critical

\* With a thread inside, the others do not matter for the settled buffer.
LEMMA SettledInside ==
    ASSUME MutexHeldInside, NEW p \in Threads, pc[p] \in Critical
    PROVE  SettledRing = SettledAs(pc[p], rb)
<1>1. \A q \in Threads : pc[q] \in Moving => q = p
  BY OneInside, LabelSets
<1> QED BY <1>1 DEF SettledRing, SettledAs, Moving, At

\* ... nor once that thread has made a step.
LEMMA SettledAfter ==
    ASSUME TypeInv, MutexHeldInside, NEW p \in Threads, pc[p] \in Critical, NEW label,
           pc' = [pc EXCEPT ![p] = label]
    PROVE  /\ SettledRing' = SettledAs(label, rb')
           /\ \A q \in Threads : q # p => pc'[q] \notin Moving \cup Pushing \cup Popping
<1>1. \A q \in Threads : q # p => pc'[q] \notin Critical
  <2>1. \A q \in Threads : q # p => pc[q] \notin Critical /\ pc'[q] = pc[q]
    BY OneInside DEF TypeInv, DataOK
  <2> QED BY <2>1
<1>2. pc'[p] = label
  BY DEF TypeInv, DataOK
<1>3. \A q \in Threads : q # p => pc'[q] \notin Moving \cup Pushing \cup Popping
  BY <1>1, LabelSets
<1>4. SettledRing' = SettledAs(label, rb')
  BY <1>2, <1>3 DEF SettledRing, SettledAs, Moving, At
<1> QED BY <1>3, <1>4

\* A thread that moves no index does not matter for it at all.
LEMMA SettledOutside ==
    ASSUME TypeInv, NEW p \in Threads, NEW label,
           pc' = [pc EXCEPT ![p] = label], rb' = rb,
           pc[p] \notin Moving, label \notin Moving
    PROVE  SettledRing' = SettledRing
<1>1. \A q \in Threads : pc'[q] = IF q = p THEN label ELSE pc[q]
  BY DEF TypeInv, DataOK
<1>2. \A m \in Moving : (\E q \in Threads : pc'[q] = m) <=> (\E q \in Threads : pc[q] = m)
  BY <1>1
<1> QED BY <1>2 DEF SettledRing, Moving, At

\* A step of the thread inside re-establishes RingInv if the buffer as that
\* thread will leave it is a window, and its own knowledge is right.
LEMMA InsideStep ==
    ASSUME TypeInv, MutexHeldInside, NEW p \in Threads, pc[p] \in Critical, NEW label,
           pc' = [pc EXCEPT ![p] = label],
           IsWindow(SettledAs(label, rb')),
           label \in Pushing => ~ rb'.records[rb'.head].valid,
           label \in Popping => rb'.records[rb'.tail].valid
    PROVE  RingInv'
<1>1. /\ SettledRing' = SettledAs(label, rb')
      /\ \A q \in Threads : q # p => pc'[q] \notin Pushing \cup Popping
  BY SettledAfter
<1>2. pc'[p] = label
  BY DEF TypeInv, DataOK
<1>3. IsWindow(SettledRing)'
  <2>1. IsWindow(SettledRing)' <=> IsWindow(SettledRing')
    BY DEF IsWindow, HoldsWindow
  <2> QED BY <1>1, <2>1
<1> QED BY <1>1, <1>2, <1>3 DEF RingInv

\* A step that leaves the buffer alone, by a thread that neither moves an index
\* before or after it nor has learnt anything.
LEMMA OutsideStep ==
    ASSUME TypeInv, RingInv, NEW p \in Threads, NEW label,
           pc' = [pc EXCEPT ![p] = label], rb' = rb,
           pc[p] \notin Moving, label \notin Moving \cup Pushing \cup Popping
    PROVE  RingInv'
<1>1. \A q \in Threads : pc'[q] = IF q = p THEN label ELSE pc[q]
  BY DEF TypeInv, DataOK
<1>2. SettledRing' = SettledRing
  BY SettledOutside
<1>3. IsWindow(SettledRing)'
  <2>1. IsWindow(SettledRing)' <=> IsWindow(SettledRing')
    BY DEF IsWindow, HoldsWindow
  <2> QED BY <1>2, <2>1 DEF RingInv
<1> QED BY <1>1, <1>3 DEF RingInv

LEMMA StillStep ==
    ASSUME RingInv, UNCHANGED <<pc, rb>>
    PROVE  RingInv'
BY DEF RingInv, SettledRing, At, IsWindow, HoldsWindow

LEMMA RingStep ==
    ASSUME SafeInv, [Next]_vars
    PROVE  RingInv'
<1>1. TypeInv /\ MutexHeldInside /\ RingInv
  BY DEF SafeInv
<1>2. rb \in Ring /\ local \in [Threads -> Locals]
  BY <1>1 DEF TypeInv, DataOK
<1>3. CASE UNCHANGED vars \/ Tick
  BY <1>1, <1>3, StillStep DEF vars, Tick
<1>4. ASSUME NEW p \in Threads, Calls(p)
      PROVE  RingInv'
  <2> DEFINE Outside(label) == /\ pc' = [pc EXCEPT ![p] = label] /\ rb' = rb
                               /\ pc[p] \notin Moving
                               /\ label \notin Moving \cup Pushing \cup Popping
  <2>1. Outside("return") \/ Outside("lock") \/ Outside("stats")
    BY <1>4 DEF Calls, kmsgpipe_read, kmsgpipe_write, StatsLock, Enter, At, Goto, Moving,
                Pushing, Popping
  <2> QED BY <1>1, <2>1, OutsideStep
<1>5. ASSUME NEW p \in Threads, InKernel(p)
      PROVE  RingInv'
  <2> DEFINE Outside(label) == /\ pc' = [pc EXCEPT ![p] = label] /\ rb' = rb
                               /\ pc[p] \notin Moving
                               /\ label \notin Moving \cup Pushing \cup Popping
  <2>1. \A label : Outside(label) => RingInv'
    BY <1>1, OutsideStep
  <2>2. pc[p] \in Critical => SettledRing = SettledAs(pc[p], rb)
    BY <1>1, SettledInside
  <2>3. IsWindow(SettledRing)
    BY <1>1 DEF RingInv
  <2>4. CASE \/ Lock(p) \/ LockInterrupted(p) \/ TestFails(p) \/ Wait(p)
             \/ WaitOver(p) \/ WaitInterrupted(p) \/ Sleep(p) \/ Woken(p)
    <3>1. \/ Outside("test") \/ Outside("return") \/ Outside("wait") \/ Outside("scan")
          \/ Outside("relock") \/ Outside("sleep")
      BY <2>4 DEF Lock, LockInterrupted, TestFails, Wait, WaitOver, WaitInterrupted, Sleep,
                  Woken, ScanDone, ReturnFreeing, ReturnKeeping, At, Goto, Moving, Pushing,
                  Popping
    <3> QED BY <2>1, <3>1
  <2>5. CASE \/ CopyFromUserFaults(p) \/ PushRefused(p) \/ WakeReaders(p) \/ Unlock(p)
             \/ PopRefused(p) \/ WakeWriters(p) \/ CopyToUser(p) \/ Return(p)
             \/ StatsShow(p)
    <3>1. \/ Outside("return") \/ Outside("unlock") \/ Outside("copyout") \/ Outside("idle")
      BY <2>5 DEF CopyFromUserFaults, PushRefused, WakeReaders, Unlock, PopRefused,
                  WakeWriters, CopyToUser, Return, StatsShow, ReturnFreeing, At, Goto,
                  Moving, Pushing, Popping
    <3> QED BY <2>1, <3>1
  <2>6. CASE ScanSlot(p) \/ StatsCount(p)
    BY <1>1, <2>6, StillStep DEF ScanSlot, StatsCount
  <2>7. CASE TestPasses(p)
    <3>1. /\ pc[p] = "test" /\ rb' = rb /\ pc' = [pc EXCEPT ![p] = local[p].op]
          /\ ~ MustWait(local[p].op, MessageCount(rb)) /\ pc[p] \in Critical
      BY <2>7 DEF TestPasses, At, Goto, Critical
    <3>2. local[p].op \in {"read", "write"}
      BY <1>1, <3>1 DEF TypeInv, CallsTyped, Ops
    <3>3. SettledRing = rb
      BY <2>2, <3>1 DEF SettledAs
    <3>4. PICK n \in 0 .. Capacity : HoldsWindow(rb, n)
      BY <2>3, <3>3 DEF IsWindow
    <3>5. /\ local[p].op = "read" => rb.records[rb.tail].valid
          /\ local[p].op = "write" => ~ rb.records[rb.head].valid
      <4>1. /\ MessageCount(rb) = Capacity <=> n = Capacity
            /\ MessageCount(rb) = 0 <=> n = 0
        BY <1>2, <3>4, CountOfWindow
      <4>2. /\ rb.records[rb.head].valid <=> n = Capacity
            /\ rb.records[rb.tail].valid <=> n > 0
        BY <1>2, <3>4, WindowEnds
      <4> QED BY <3>1, <4>1, <4>2 DEF MustWait
    <3>6. SettledAs(local[p].op, rb') = rb
      BY <3>1, <3>2 DEF SettledAs
    <3>7. IsWindow(SettledAs(local[p].op, rb'))
      BY <2>3, <3>3, <3>6
    <3>8. local[p].op \in Pushing => ~ rb'.records[rb'.head].valid
      BY <3>1, <3>2, <3>5 DEF Pushing
    <3>9. local[p].op \in Popping => rb'.records[rb'.tail].valid
      BY <3>1, <3>2, <3>5 DEF Popping
    <3> QED BY <1>1, <3>1, <3>7, <3>8, <3>9, InsideStep
  <2>8. CASE PushCopy(p)
    <3> DEFINE f == CopyIn(rb, local[p].data, local[p].count)
    <3>1. /\ pc[p] = "write" /\ pc[p] \in Critical /\ pc' = [pc EXCEPT ![p] = "fill"]
          /\ rb' = f
      BY <2>8 DEF PushCopy, At, Goto, Critical
    <3>2. PICK n \in 0 .. Capacity : HoldsWindow(rb, n)
      BY <2>2, <2>3, <3>1 DEF SettledAs, IsWindow
    <3>3. local[p].data \in Payloads \cup {Zero}
      BY <1>2 DEF Locals
    <3>4. /\ HoldsWindow(f, n)
          /\ f.records = rb.records /\ f.head = rb.head
      BY <1>2, <3>2, <3>3, CopyInWindow
    <3>5. ~ rb.records[rb.head].valid
      BY <1>1, <3>1 DEF RingInv, Pushing
    <3> HIDE DEF f
    <3>6. SettledAs("fill", rb') = rb' /\ "fill" \notin Popping
      BY DEF SettledAs, Popping
    <3>7. IsWindow(SettledAs("fill", rb')) /\ ~ rb'.records[rb'.head].valid
      BY <3>1, <3>4, <3>5, <3>6 DEF IsWindow
    <3> QED BY <1>1, <3>1, <3>6, <3>7, InsideStep
  <2>9. CASE PushFill(p)
    <3>1. /\ pc[p] = "fill" /\ pc[p] \in Critical
          /\ pc' = [pc EXCEPT ![p] = "advance_head"]
          /\ rb' = FillRecord(rb, local[p].count, Cred[p], local[p].stamp)
      BY <2>9 DEF PushFill, At, Goto, Critical
    <3>2. PICK n \in 0 .. Capacity : HoldsWindow(rb, n)
      BY <2>2, <2>3, <3>1 DEF SettledAs, IsWindow
    <3>3. ~ rb.records[rb.head].valid
      BY <1>1, <3>1 DEF RingInv, Pushing
    <3>4. n < Capacity /\ n + 1 \in 0 .. Capacity
      <4>1. n # Capacity
        BY <1>2, <3>2, <3>3, WindowEnds
      <4> QED BY <4>1, CapacityAssumption
    <3>5. HoldsWindow(AdvanceHead(rb'), n + 1)
      BY <1>2, <3>1, <3>2, <3>4, PushWindow
    <3>6. /\ SettledAs("advance_head", rb') = AdvanceHead(rb')
          /\ "advance_head" \notin Pushing /\ "advance_head" \notin Popping
      BY DEF SettledAs, Pushing, Popping
    <3>7. IsWindow(SettledAs("advance_head", rb'))
      BY <3>4, <3>5, <3>6 DEF IsWindow
    <3> QED BY <1>1, <3>1, <3>6, <3>7, InsideStep
  <2>10. CASE PushAdvance(p)
    <3>1. /\ pc[p] = "advance_head" /\ pc[p] \in Critical
          /\ pc' = [pc EXCEPT ![p] = "wake_readers"] /\ rb' = AdvanceHead(rb)
      BY <2>10 DEF PushAdvance, At, Goto, Critical
    <3>2. /\ SettledAs("wake_readers", rb') = SettledAs("advance_head", rb)
          /\ "wake_readers" \notin Pushing /\ "wake_readers" \notin Popping
      BY <3>1 DEF SettledAs, Pushing, Popping
    <3>3. IsWindow(SettledAs("wake_readers", rb'))
      BY <2>2, <2>3, <3>1, <3>2
    <3> QED BY <1>1, <3>1, <3>2, <3>3, InsideStep
  <2>11. CASE PopCopy(p)
    <3>1. /\ pc[p] = "read" /\ pc[p] \in Critical /\ pc' = [pc EXCEPT ![p] = "release"]
          /\ rb' = rb
      BY <2>11 DEF PopCopy, At, Goto, Critical
    <3>2. /\ SettledAs("release", rb') = SettledAs("read", rb) /\ "release" \notin Pushing
      BY <3>1 DEF SettledAs, Pushing
    <3>3. IsWindow(SettledAs("release", rb'))
      BY <2>2, <2>3, <3>1, <3>2
    <3>4. rb'.records[rb'.tail].valid
      BY <1>1, <3>1 DEF RingInv, Popping
    <3> QED BY <1>1, <3>1, <3>2, <3>3, <3>4, InsideStep
  <2>12. CASE PopRelease(p)
    <3>1. /\ pc[p] = "release" /\ pc[p] \in Critical
          /\ pc' = [pc EXCEPT ![p] = "advance_tail"] /\ rb' = ReleaseTail(rb)
      BY <2>12 DEF PopRelease, At, Goto, Critical
    <3>2. PICK n \in 0 .. Capacity : HoldsWindow(rb, n)
      BY <2>2, <2>3, <3>1 DEF SettledAs, IsWindow
    <3>3. rb.records[rb.tail].valid
      BY <1>1, <3>1 DEF RingInv, Popping
    <3>4. n > 0 /\ n - 1 \in 0 .. Capacity
      <4>1. n > 0
        BY <1>2, <3>2, <3>3, WindowEnds
      <4> QED BY <4>1, CapacityAssumption
    <3>5. HoldsWindow(AdvanceTail(rb'), n - 1)
      BY <1>2, <3>1, <3>2, <3>4, PopWindow
    <3>6. /\ SettledAs("advance_tail", rb') = AdvanceTail(rb')
          /\ "advance_tail" \notin Pushing /\ "advance_tail" \notin Popping
      BY DEF SettledAs, Pushing, Popping
    <3>7. IsWindow(SettledAs("advance_tail", rb'))
      BY <3>4, <3>5, <3>6 DEF IsWindow
    <3> QED BY <1>1, <3>1, <3>6, <3>7, InsideStep
  <2>13. CASE PopAdvance(p)
    <3>1. /\ pc[p] = "advance_tail" /\ pc[p] \in Critical
          /\ pc' = [pc EXCEPT ![p] = "wake_writers"] /\ rb' = AdvanceTail(rb)
      BY <2>13 DEF PopAdvance, At, Goto, Critical
    <3>2. /\ SettledAs("wake_writers", rb') = SettledAs("advance_tail", rb)
          /\ "wake_writers" \notin Pushing /\ "wake_writers" \notin Popping
      BY <3>1 DEF SettledAs, Pushing, Popping
    <3>3. IsWindow(SettledAs("wake_writers", rb'))
      BY <2>2, <2>3, <3>1, <3>2
    <3> QED BY <1>1, <3>1, <3>2, <3>3, InsideStep
  <2> QED BY <1>5, <2>4, <2>5, <2>6, <2>7, <2>8, <2>9, <2>10, <2>11, <2>12, <2>13 DEF InKernel, PushBegin
<1> QED BY <1>3, <1>4, <1>5 DEF Next

-----------------------------------------------------------------------------
(* What the calls return *)

Spurious == {-ENOSPC, -ENODATA}

LEMMA NotSpurious ==
    /\ -EINVAL \notin Spurious /\ -ENOMEM \notin Spurious /\ -ERESTARTSYS \notin Spurious
    /\ -EAGAIN \notin Spurious /\ -EFAULT \notin Spurious /\ -EMSGSIZE \notin Spurious
    /\ -EACCES \notin Spurious /\ \A n \in Nat : n \notin Spurious
BY DEF Spurious, EINVAL, ENOMEM, ERESTARTSYS, EAGAIN, EFAULT, EMSGSIZE, EACCES, ENOSPC,
       ENODATA

\* A step after which the thread's return value is one that is allowed.
LEMMA ReturnValueStep ==
    ASSUME TypeInv, NoSpuriousError, NEW p \in Threads, NEW l, l.ret \notin Spurious,
           local' = [local EXCEPT ![p] = l]
    PROVE  NoSpuriousError'
BY DEF TypeInv, DataOK, NoSpuriousError, Spurious

LEMMA ErrorStep ==
    ASSUME SafeInv, [Next]_vars
    PROVE  NoSpuriousError'
<1>1. TypeInv /\ MutexHeldInside /\ RingInv /\ NoSpuriousError
  BY DEF SafeInv
<1>2. rb \in Ring /\ local \in [Threads -> Locals]
  BY <1>1 DEF TypeInv, DataOK
<1>3. CASE UNCHANGED vars \/ Tick
  BY <1>1, <1>3 DEF vars, Tick, NoSpuriousError
<1>4. ASSUME NEW p \in Threads, Calls(p)
      PROVE  NoSpuriousError'
  <2>1. CASE StatsLock(p)
    BY <1>1, <2>1 DEF StatsLock, NoSpuriousError
  <2>2. ASSUME NEW op, NEW count, NEW nonblock, NEW data,
               Enter(p, op, count, nonblock, data)
        PROVE  NoSpuriousError'
    <3> DEFINE args == [NoCall EXCEPT !.op = op, !.count = count,
                                      !.nonblock = nonblock, !.data = data]
    <3> DEFINE tooLarge == [args EXCEPT !.ret = -EINVAL]
    <3> DEFINE noMemory == [args EXCEPT !.ret = -ENOMEM]
    <3> DEFINE entered == [args EXCEPT !.buf = Zero]
    <3>1. tooLarge.ret = -EINVAL /\ noMemory.ret = -ENOMEM /\ entered.ret = 0
      BY DEF NoCall
    <3>2. \/ local' = [local EXCEPT ![p] = tooLarge]
          \/ local' = [local EXCEPT ![p] = noMemory]
          \/ local' = [local EXCEPT ![p] = entered]
      BY <2>2 DEF Enter
    <3> HIDE DEF args, tooLarge, noMemory, entered
    <3>3. /\ tooLarge.ret \notin Spurious /\ noMemory.ret \notin Spurious
          /\ entered.ret \notin Spurious
      BY <3>1, NotSpurious
    <3> QED BY <1>1, <3>2, <3>3, ReturnValueStep
  <2> QED BY <1>4, <2>1, <2>2 DEF Calls, kmsgpipe_read, kmsgpipe_write
<1>5. ASSUME NEW p \in Threads, InKernel(p)
      PROVE  NoSpuriousError'
  <2> DEFINE Returns(r) == ReturnFreeing(p, r) \/ ReturnKeeping(p, r)
  <2>1. \A r : Returns(r) /\ r \notin Spurious => NoSpuriousError'
    <3> SUFFICES ASSUME NEW r, Returns(r), r \notin Spurious PROVE NoSpuriousError'
      OBVIOUS
    <3>1. local[p] \in Locals
      BY <1>2
    <3>2. /\ [local[p] EXCEPT !.ret = r, !.buf = NoBuffer].ret = r
          /\ [local[p] EXCEPT !.ret = r].ret = r
      BY <3>1 DEF Locals
    <3>3. \/ local' = [local EXCEPT ![p] = [local[p] EXCEPT !.ret = r, !.buf = NoBuffer]]
          \/ local' = [local EXCEPT ![p] = [local[p] EXCEPT !.ret = r]]
      BY DEF ReturnFreeing, ReturnKeeping
    <3>4. PICK l : local' = [local EXCEPT ![p] = l] /\ l.ret \notin Spurious
      BY <3>2, <3>3
    <3> QED BY <1>1, <3>4, ReturnValueStep
  <2>2. local[p] \in Locals /\ local[p].ret \notin Spurious /\ local[p].count \in Nat
    BY <1>1, <1>2 DEF NoSpuriousError, Spurious, Locals
  <2>3. CASE \/ Lock(p) \/ TestPasses(p) \/ Wait(p) \/ Woken(p) \/ PushFill(p)
             \/ WakeReaders(p) \/ PopAdvance(p) \/ WakeWriters(p)
    BY <1>1, <2>3 DEF Lock, TestPasses, Wait, Woken, PushFill, WakeReaders, PopAdvance,
                      WakeWriters, NoSpuriousError
  <2>4. CASE \/ LockInterrupted(p) \/ WaitInterrupted(p) \/ CopyFromUserFaults(p)
             \/ Unlock(p) \/ CopyToUser(p)
    <3>1. \/ Returns(-ERESTARTSYS) \/ Returns(-EFAULT) \/ Returns(local[p].ret)
      BY <2>4 DEF LockInterrupted, WaitInterrupted, CopyFromUserFaults, Unlock, CopyToUser
    <3> QED BY <2>1, <2>2, <3>1, NotSpurious
  <2>5. CASE TestFails(p)
    <3>1. Returns(-EAGAIN) \/ UNCHANGED local
      BY <2>5 DEF TestFails
    <3> QED BY <1>1, <2>1, <3>1, NotSpurious DEF NoSpuriousError
  <2>6. CASE ScanSlot(p) \/ StatsCount(p) \/ WaitOver(p) \/ Sleep(p) \/ StatsShow(p)
    <3>1. PICK a, b : local' = [local EXCEPT ![p] = [local[p] EXCEPT !.next = a, !.seen = b]]
      <4>1. CountSlot(p) \/ Recount(p)
        BY <2>6 DEF ScanSlot, StatsCount, WaitOver, Sleep, StatsShow
      <4>2. CASE Recount(p)
        BY <4>2 DEF Recount
      <4>3. CASE CountSlot(p)
        BY <1>2, <4>3 DEF CountSlot
      <4> QED BY <4>1, <4>2, <4>3
    <3>2. [local[p] EXCEPT !.next = a, !.seen = b].ret = local[p].ret
      BY <2>2 DEF Locals
    <3> QED BY <1>1, <2>2, <3>1, <3>2, ReturnValueStep
  <2>7. CASE PushCopy(p) \/ PopCopy(p)
    <3> DEFINE pushed == [local[p] EXCEPT !.stamp = now, !.buf = local[p].data]
    <3> DEFINE popped == [local[p] EXCEPT !.buf = MessageAt(rb, rb.tail).data,
                                          !.len = MessageAt(rb, rb.tail).len]
    <3>1. \/ local' = [local EXCEPT ![p] = pushed]
          \/ local' = [local EXCEPT ![p] = popped]
      BY <1>2, <2>7 DEF PushCopy, PopCopy
    <3>2. pushed.ret = local[p].ret /\ popped.ret = local[p].ret
      BY <2>2 DEF Locals
    <3> HIDE DEF pushed, popped
    <3> QED BY <1>1, <2>2, <3>1, <3>2, ReturnValueStep
  <2>8. CASE PushRefused(p) \/ PushAdvance(p) \/ PopRelease(p)
    <3>1. PICK r : /\ local' = [local EXCEPT ![p] = [local[p] EXCEPT !.ret = r]]
                   /\ r \notin Spurious
      <4>1. CASE PushRefused(p)
        <5>1. pc[p] = "write" /\ PushError(rb, local[p].count) # 0
          BY <4>1 DEF PushRefused, At
        <5>2. ~ rb.records[rb.head].valid
          BY <1>1, <5>1 DEF RingInv, Pushing
        <5>3. PushError(rb, local[p].count) = -EMSGSIZE
          BY <5>1, <5>2 DEF PushError
        <5> QED BY <1>2, <4>1, <5>3, NotSpurious DEF PushRefused
      <4>2. CASE PushAdvance(p)
        BY <1>2, <2>2, <4>2, NotSpurious DEF PushAdvance
      <4>3. CASE PopRelease(p)
        <5>1. rb.tail \in Slots
          BY <1>2 DEF Ring
        <5>2. rb.records[rb.tail].len \in Nat
          BY <1>2, <5>1, MessageAtType DEF Lengths
        <5> QED BY <1>2, <4>3, <5>2, NotSpurious DEF PopRelease
      <4> QED BY <2>8, <4>1, <4>2, <4>3
    <3>2. [local[p] EXCEPT !.ret = r].ret = r
      BY <2>2 DEF Locals
    <3> QED BY <1>1, <3>1, <3>2, ReturnValueStep
  <2>9. CASE PopRefused(p)
    <3>1. pc[p] = "read" /\ PopError(rb, Cred[p]) # 0 /\ Returns(PopError(rb, Cred[p]))
      BY <2>9 DEF PopRefused, At
    <3>2. rb.records[rb.tail].valid
      BY <1>1, <3>1 DEF RingInv, Popping
    <3>3. PopError(rb, Cred[p]) = -EACCES
      BY <3>1, <3>2 DEF PopError
    <3> QED BY <2>1, <3>1, <3>3, NotSpurious
  <2>10. CASE Return(p)
    <3>1. local' = [local EXCEPT ![p] = NoCall] /\ NoCall.ret \notin Spurious
      BY <2>10, NotSpurious DEF Return, NoCall
    <3> QED BY <1>1, <3>1, ReturnValueStep
  <2> QED BY <1>5, <2>3, <2>4, <2>5, <2>6, <2>7, <2>8, <2>9, <2>10 DEF InKernel, PushBegin
<1> QED BY <1>3, <1>4, <1>5 DEF Next

-----------------------------------------------------------------------------

LEMMA InitSafe == Init => SafeInv
<1> SUFFICES ASSUME Init PROVE SafeInv
  OBVIOUS
<1>1. TypeInv
  BY InitType
<1>2. MutexHeldInside
  BY ThreadAssumption DEF Init, MutexHeldInside, Critical
<1>3. RingInv
  <2>1. SettledRing = EmptyRing
    BY DEF Init, SettledRing, At
  <2>2. IsWindow(EmptyRing)
    BY EmptyRingFacts, CapacityAssumption DEF IsWindow
  <2> QED BY <2>1, <2>2 DEF Init, RingInv, Pushing, Popping
<1>4. NoSpuriousError
  BY NotSpurious DEF Init, NoCall, NoSpuriousError, Spurious
<1> QED BY <1>1, <1>2, <1>3, <1>4 DEF SafeInv

\* The invariant and the two theorems for which it is made.
THEOREM Safe == Spec => []SafeInv
<1>1. Init => SafeInv
  BY InitSafe
<1>2. SafeInv /\ [Next]_vars => SafeInv'
  <2> SUFFICES ASSUME SafeInv, [Next]_vars PROVE SafeInv'
    OBVIOUS
  <2>1. TypeInv' /\ MutexHeldInside'
    BY TypeStep, MutexStep DEF SafeInv
  <2>2. RingInv' /\ NoSpuriousError'
    BY RingStep, ErrorStep
  <2> QED BY <2>1, <2>2 DEF SafeInv
<1> QED BY <1>1, <1>2, PTL DEF Spec

\* In every execution the valid records are one contiguous run of slots from
\* tail on, up to the index that is being moved.
THEOREM WindowAlwaysKept == Spec => []WindowKept
<1>1. SafeInv => WindowKept
  BY DEF SafeInv, RingInv, WindowKept
<1> QED BY <1>1, Safe, PTL

\* In no execution a thread that got past the wait loop is told that the buffer
\* is full or empty.
THEOREM NeverSpuriousError == Spec => []NoSpuriousError
<1>1. SafeInv => NoSpuriousError
  BY DEF SafeInv
<1> QED BY <1>1, Safe, PTL

=============================================================================
