-------------------------- MODULE KmsgPipeWakeups --------------------------
(***************************************************************************)
(* The wait queues of the file operations: who is counted as waiting, and  *)
(* why no wake-up is lost.  The condition of a wait is evaluated slot by   *)
(* slot and without the mutex, so that the invariant speaks of the slots   *)
(* that the loop has already passed.  And the same loop under the mutex,   *)
(* for the stats file, where it is exact.                                  *)
(***************************************************************************)
EXTENDS KmsgPipeProofs

\* The labels of a thread inside wait_event_interruptible, and those at which
\* get_message_count has not begun.
Asleep == {"scan", "sleep"}
NotScanning == {"lock", "test", "wait", "sleep", "relock"}

Sleepers(op) == {p \in Threads : pc[p] \in Asleep /\ local[p].op = op}

CountInv ==
    \A op \in Ops :
        /\ IsFiniteSet(Sleepers(op))
        /\ waiting[op] = Cardinality(Sleepers(op))
        /\ waitq[op] \subseteq Sleepers(op)

\* Slot i is no reason for a thread in op to go on.
Blocked(op, i) == rb.records[i].valid <=> op = "write"

\* Somebody has still to wake the threads in op.
WakerOnItsWay(op) == \E q \in Threads : pc[q] \in WillWake(op)

\* What a count of n slots without a reason to go on comes to.
NoReason(op, n) == IF op = "read" THEN 0 ELSE n

\* Outside its loop a thread has its counters at 0.
Zeroed(p) == pc[p] \in NotScanning => local[p].next = 0 /\ local[p].seen = 0

\* A queued thread whose count has found no reason to go on: there is still none
\* in the slots it has passed, or a waker is on its way.
ScanInv(p) ==
    LET op == local[p].op
    IN  /\ Zeroed(p)
        /\ At(p, "scan") /\ p \in waitq[op] /\ local[p].seen = NoReason(op, local[p].next) =>
                \/ \A i \in Slots : i < local[p].next => Blocked(op, i)
                \/ WakerOnItsWay(op)
        /\ At(p, "sleep") /\ p \in waitq[op] =>
                \/ \A i \in Slots : Blocked(op, i)
                \/ WakerOnItsWay(op)

WakeInv == TypeInv /\ \A p \in Threads : ScanInv(p)

-----------------------------------------------------------------------------
(* What the step of one thread does to the others *)

Alone(p) == \A q \in Threads \ {p} : pc'[q] = pc[q] /\ local'[q] = local[q]

LEMMA StepAlone ==
    ASSUME TypeInv, NEW p \in Threads, InKernel(p) \/ Calls(p)
    PROVE  Alone(p)
<1>1. pc \in [Threads -> Labels] /\ local \in [Threads -> Locals]
  BY DEF TypeInv, DataOK
<1>2. CASE Calls(p)
  BY <1>1, <1>2 DEF Alone, Calls, kmsgpipe_read, kmsgpipe_write, Enter, StatsLock, Goto
<1>3. CASE \/ Lock(p) \/ LockInterrupted(p) \/ TestPasses(p) \/ TestFails(p) \/ Wait(p)
           \/ Woken(p) \/ WakeReaders(p) \/ Unlock(p) \/ CopyFromUserFaults(p)
  BY <1>1, <1>3 DEF Alone, Lock, LockInterrupted, TestPasses, TestFails, Wait, Woken,
        WakeReaders, Unlock, CopyFromUserFaults, Goto, ReturnFreeing, ReturnKeeping
<1>4. CASE \/ ScanSlot(p) \/ WaitOver(p) \/ WaitInterrupted(p) \/ Sleep(p)
           \/ StatsCount(p) \/ StatsShow(p)
  BY <1>1, <1>4 DEF Alone, ScanSlot, WaitOver, WaitInterrupted, Sleep, StatsCount,
        StatsShow, CountSlot, Recount, Goto, ReturnKeeping
<1>5. CASE PushBegin(p) \/ PushFill(p) \/ PushAdvance(p)
  BY <1>1, <1>5 DEF Alone, PushBegin, PushCopy, PushRefused, PushFill, PushAdvance, Goto
<1>6. CASE \/ PopRefused(p) \/ PopCopy(p) \/ PopRelease(p) \/ PopAdvance(p)
           \/ WakeWriters(p) \/ CopyToUser(p) \/ Return(p)
  BY <1>1, <1>6 DEF Alone, PopRefused, PopCopy, PopRelease, PopAdvance, WakeWriters,
        CopyToUser, Return, Goto, ReturnFreeing
<1> QED BY <1>2, <1>3, <1>4, <1>5, <1>6 DEF InKernel

-----------------------------------------------------------------------------
(* The counters *)

\* Nobody goes into the wait or out of it.
LEMMA CountStays ==
    ASSUME TypeInv, CountInv, NEW p \in Threads, Alone(p), waiting' = waiting,
           pc'[p] \in Asleep <=> pc[p] \in Asleep,
           pc[p] \in Asleep => local'[p].op = local[p].op,
           \A op \in Ops : waitq'[op] \subseteq waitq[op] \cup Sleepers(op)
    PROVE  CountInv'
<1>1. \A op : Sleepers(op)' = Sleepers(op)
  BY DEF Alone, Sleepers
<1> QED BY <1>1 DEF CountInv

LEMMA CountJoins ==
    ASSUME TypeInv, CountInv, NEW p \in Threads, Wait(p)
    PROVE  CountInv'
<1>0. PICK mine \in Ops : mine = local[p].op
  BY DEF Wait, At, TypeInv, CallsTyped
<1>1. mine \in Ops /\ pc[p] \notin Asleep /\ pc' = [pc EXCEPT ![p] = "scan"]
  BY DEF Wait, At, Goto, Asleep
<1>2. waitq' = [waitq EXCEPT ![mine] = @ \cup {p}] /\ local' = local
  BY <1>0 DEF Wait, JoinQueue
<1>3. waiting' = [waiting EXCEPT ![mine] = @ + 1]
  BY <1>0 DEF Wait
<1>4. pc \in [Threads -> Labels] /\ waiting \in [Ops -> Int] /\ waitq \in [Ops -> SUBSET Threads]
  BY DEF TypeInv, DataOK
<1>5. ASSUME NEW op \in Ops, op # mine
      PROVE  Sleepers(op)' = Sleepers(op)
  BY <1>0, <1>1, <1>2, <1>4, <1>5 DEF Sleepers
<1>6. Sleepers(mine)' = Sleepers(mine) \cup {p} /\ p \notin Sleepers(mine)
  BY <1>0, <1>1, <1>2, <1>4 DEF Sleepers, Asleep
<1>7. ASSUME NEW op \in Ops, op # mine
      PROVE  /\ IsFiniteSet(Sleepers(op)')
             /\ waiting'[op] = Cardinality(Sleepers(op)')
             /\ waitq'[op] \subseteq Sleepers(op)'
  BY <1>1, <1>2, <1>3, <1>4, <1>5, <1>7 DEF CountInv
<1>8. /\ IsFiniteSet(Sleepers(mine)')
      /\ waiting'[mine] = Cardinality(Sleepers(mine)')
      /\ waitq'[mine] \subseteq Sleepers(mine)'
  <2>1. IsFiniteSet(Sleepers(mine)) /\ waiting[mine] = Cardinality(Sleepers(mine))
    BY <1>1 DEF CountInv
  <2>2. /\ IsFiniteSet(Sleepers(mine) \cup {p})
        /\ Cardinality(Sleepers(mine) \cup {p}) = Cardinality(Sleepers(mine)) + 1
    BY <2>1, <1>6, FS_AddElement
  <2>3. waiting'[mine] = waiting[mine] + 1
    BY <1>1, <1>3, <1>4
  <2>4. waitq'[mine] \subseteq Sleepers(mine) \cup {p}
    BY <1>1, <1>2, <1>4 DEF CountInv
  <2> QED BY <2>1, <2>2, <2>3, <2>4, <1>6
<1>9. ASSUME NEW op \in Ops
      PROVE  /\ IsFiniteSet(Sleepers(op)')
             /\ waiting'[op] = Cardinality(Sleepers(op)')
             /\ waitq'[op] \subseteq Sleepers(op)'
  <2>1. CASE op = mine
    BY <2>1, <1>8
  <2>2. CASE op # mine
    BY <2>2, <1>7
  <2> QED BY <2>1, <2>2
<1> QED BY <1>9 DEF CountInv

LEMMA CountLeaves ==
    ASSUME TypeInv, CountInv, NEW p \in Threads, Alone(p), LeaveQueue(p),
           pc[p] \in Asleep, pc'[p] \notin Asleep
    PROVE  CountInv'
<1>1. PICK mine \in Ops : mine = local[p].op
  BY DEF TypeInv, CallsTyped, Asleep
<1>2. /\ waitq' = [waitq EXCEPT ![mine] = @ \ {p}]
      /\ waiting' = [waiting EXCEPT ![mine] = @ - 1]
  BY <1>1 DEF LeaveQueue
<1>4. waiting \in [Ops -> Int] /\ waitq \in [Ops -> SUBSET Threads]
  BY DEF TypeInv, DataOK
<1>5. ASSUME NEW op \in Ops, op # mine
      PROVE  Sleepers(op)' = Sleepers(op)
  BY <1>1, <1>5 DEF Sleepers, Alone
<1>6. Sleepers(mine)' = Sleepers(mine) \ {p} /\ p \in Sleepers(mine)
  BY <1>1 DEF Sleepers, Alone
<1>7. ASSUME NEW op \in Ops, op # mine
      PROVE  /\ IsFiniteSet(Sleepers(op)')
             /\ waiting'[op] = Cardinality(Sleepers(op)')
             /\ waitq'[op] \subseteq Sleepers(op)'
  BY <1>1, <1>2, <1>4, <1>5, <1>7 DEF CountInv
<1>8. /\ IsFiniteSet(Sleepers(mine)')
      /\ waiting'[mine] = Cardinality(Sleepers(mine)')
      /\ waitq'[mine] \subseteq Sleepers(mine)'
  <2>1. IsFiniteSet(Sleepers(mine)) /\ waiting[mine] = Cardinality(Sleepers(mine))
    BY <1>1 DEF CountInv
  <2>2. /\ IsFiniteSet(Sleepers(mine) \ {p})
        /\ Cardinality(Sleepers(mine) \ {p}) = Cardinality(Sleepers(mine)) - 1
    BY <2>1, <1>6, FS_RemoveElement
  <2>3. waiting'[mine] = waiting[mine] - 1
    BY <1>1, <1>2, <1>4
  <2>4. waitq'[mine] \subseteq Sleepers(mine) \ {p}
    BY <1>1, <1>2, <1>4 DEF CountInv
  <2> QED BY <2>1, <2>2, <2>3, <2>4, <1>6
<1>9. ASSUME NEW op \in Ops
      PROVE  /\ IsFiniteSet(Sleepers(op)')
             /\ waiting'[op] = Cardinality(Sleepers(op)')
             /\ waitq'[op] \subseteq Sleepers(op)'
  <2>1. CASE op = mine
    BY <2>1, <1>8
  <2>2. CASE op # mine
    BY <2>2, <1>7
  <2> QED BY <2>1, <2>2
<1> QED BY <1>9 DEF CountInv

LEMMA CountersStep == TypeInv /\ CountInv /\ [Next]_vars => CountInv'
<1> SUFFICES ASSUME TypeInv, CountInv, [Next]_vars PROVE CountInv'
  OBVIOUS
<1>1. CASE UNCHANGED vars \/ Tick
  BY <1>1 DEF vars, Tick, CountInv, Sleepers
<1>2. ASSUME NEW p \in Threads, InKernel(p) \/ Calls(p)
      PROVE  CountInv'
  <2>1. /\ Alone(p) /\ pc \in [Threads -> Labels] /\ local \in [Threads -> Locals]
        /\ waitq \in [Ops -> SUBSET Threads]
    BY <1>2, StepAlone DEF TypeInv, DataOK
  <2> DEFINE Still == /\ waiting' = waiting
                      /\ pc'[p] \in Asleep <=> pc[p] \in Asleep
                      /\ pc[p] \in Asleep => local'[p].op = local[p].op
                      /\ \A op \in Ops : waitq'[op] \subseteq waitq[op] \cup Sleepers(op)
  <2>2. Still => CountInv'
    BY <2>1, CountStays
  <2>3. CASE Calls(p)
    <3>1. Still
      BY <2>1, <2>3 DEF Calls, kmsgpipe_read, kmsgpipe_write, Enter, StatsLock, At, Goto, Asleep
    <3> QED BY <2>2, <3>1
  <2>4. CASE Lock(p) \/ LockInterrupted(p) \/ TestFails(p)
    <3>1. Still
      BY <2>1, <2>4 DEF Lock, LockInterrupted, TestFails, At, Goto, ReturnFreeing,
            ReturnKeeping, Asleep
    <3> QED BY <2>2, <3>1
  <2>5. CASE TestPasses(p)
    <3>1. local[p].op \in {"read", "write"}
      BY <2>5 DEF TestPasses, At, TypeInv, CallsTyped, Ops
    <3>2. Still
      BY <2>1, <2>5, <3>1 DEF TestPasses, At, Goto, Asleep
    <3> QED BY <2>2, <3>2
  <2>6. CASE Wait(p)
    BY <2>6, CountJoins
  <2>7. CASE ScanSlot(p) \/ Sleep(p)
    <3>1. Still
      BY <2>1, <2>7 DEF ScanSlot, Sleep, ScanDone, CountSlot, Recount, At, Goto, Asleep, Locals
    <3> QED BY <2>2, <3>1
  <2>8. CASE Woken(p)
    <3>1. p \in Sleepers(local[p].op)
      BY <2>8 DEF Woken, At, Sleepers, Asleep
    <3>2. Still
      BY <2>1, <2>8, <3>1 DEF Woken, JoinQueue, At, Goto, Asleep
    <3> QED BY <2>2, <3>2
  <2>9. CASE WaitOver(p) \/ WaitInterrupted(p)
    <3>1. LeaveQueue(p) /\ pc[p] \in Asleep /\ pc'[p] \notin Asleep
      BY <2>1, <2>9 DEF WaitOver, WaitInterrupted, ScanDone, At, Goto, ReturnKeeping, Asleep
    <3> QED BY <2>1, <3>1, CountLeaves
  <2>10. CASE CopyFromUserFaults(p) \/ Unlock(p) \/ WakeReaders(p)
    <3>1. Still
      BY <2>1, <2>10 DEF CopyFromUserFaults, Unlock, WakeReaders, ReturnFreeing, At, Goto, Asleep
    <3> QED BY <2>2, <3>1
  <2>11. CASE PushBegin(p) \/ PushFill(p) \/ PushAdvance(p)
    <3>1. Still
      BY <2>1, <2>11 DEF PushBegin, PushCopy, PushRefused, PushFill, PushAdvance, At, Goto, Asleep
    <3> QED BY <2>2, <3>1
  <2>12. CASE PopRefused(p) \/ PopCopy(p) \/ PopRelease(p) \/ PopAdvance(p)
    <3>1. Still
      BY <2>1, <2>12 DEF PopRefused, PopCopy, PopRelease, PopAdvance, ReturnFreeing, At,
            Goto, Asleep
    <3> QED BY <2>2, <3>1
  <2>13. CASE WakeWriters(p) \/ CopyToUser(p) \/ Return(p)
    <3>1. Still
      BY <2>1, <2>13 DEF WakeWriters, CopyToUser, Return, ReturnFreeing, At, Goto, Asleep
    <3> QED BY <2>2, <3>1
  <2>14. CASE StatsCount(p) \/ StatsShow(p)
    <3>1. Still
      BY <2>1, <2>14 DEF StatsCount, StatsShow, At, Goto, Asleep
    <3> QED BY <2>2, <3>1
  <2> HIDE DEF Still
  <2> QED BY <1>2, <2>3, <2>4, <2>5, <2>6, <2>7, <2>8, <2>9, <2>10, <2>11, <2>12, <2>13,
             <2>14 DEF InKernel
<1> QED BY <1>1, <1>2 DEF Next

LEMMA InitCount == Init => CountInv
<1> SUFFICES ASSUME Init PROVE CountInv
  OBVIOUS
<1>1. \A op : Sleepers(op) = {}
  BY DEF Init, Sleepers, Asleep
<1> QED BY <1>1, FS_EmptySet DEF Init, CountInv

\* The numbers of waiting readers and writers are the numbers of threads inside
\* wait_event_interruptible, on every way into it and out of it.
THEOREM WaitersAlwaysCounted == Spec => []WaitersCounted
<1>1. Init => TypeInv /\ CountInv
  BY InitType, InitCount
<1>2. TypeInv /\ CountInv /\ [Next]_vars => TypeInv' /\ CountInv'
  BY TypeStep, CountersStep
<1>3. CountInv => WaitersCounted
  BY DEF CountInv, WaitersCounted, Sleepers, Asleep
<1> QED BY <1>1, <1>2, <1>3, PTL DEF Spec

-----------------------------------------------------------------------------
(* Wake-ups *)

\* For the threads in op, the step of p takes none of their reasons to wait away
\* and leaves their waker on its way, or p wakes them, now or in its next steps.
Harmless(p, op) ==
    /\ waitq'[op] \subseteq waitq[op] \cup {p}
    /\ \/ waitq'[op] \subseteq {p}
       \/ pc'[p] \in WillWake(op)
       \/ /\ pc[p] \notin WillWake(op)
          /\ \A i \in Slots : Blocked(op, i) => Blocked(op, i)'

LEMMA Shielded ==
    ASSUME TypeInv, NEW p \in Threads, NEW op \in Ops, pc' \in [Threads -> Labels],
           \A i \in Slots : rb'.records[i].valid = rb.records[i].valid,
           waitq'[op] \subseteq waitq[op] \cup {p},
           pc[p] \in WillWake(op) => pc'[p] \in WillWake(op)
    PROVE  Harmless(p, op)
BY DEF Harmless, Blocked

\* Which steps change a record, or wake somebody, and how.
LEMMA StepHarmless ==
    ASSUME TypeInv, NEW p \in Threads, InKernel(p) \/ Calls(p), NEW op \in Ops
    PROVE  Harmless(p, op)
<1>1. /\ pc \in [Threads -> Labels] /\ pc' \in [Threads -> Labels]
      /\ local \in [Threads -> Locals] /\ waitq \in [Ops -> SUBSET Threads]
      /\ rb \in Ring
  <2>1. TypeInv'
    BY TypeStep DEF Next
  <2> QED BY <2>1 DEF TypeInv, DataOK
<1>2. op = "read" \/ op = "write"
  BY DEF Ops
<1> DEFINE Still == /\ \A i \in Slots : rb'.records[i].valid = rb.records[i].valid
                    /\ waitq'[op] \subseteq waitq[op] \cup {p}
                    /\ pc[p] \in WillWake(op) => pc'[p] \in WillWake(op)
<1>3. Still => Harmless(p, op)
  BY <1>1, Shielded
<1>4. CASE Calls(p)
  <2>1. Still
    BY <1>1, <1>2, <1>4 DEF Calls, kmsgpipe_read, kmsgpipe_write, Enter, StatsLock, At,
          WillWake
  <2> QED BY <1>3, <2>1
<1>5. CASE \/ Lock(p) \/ LockInterrupted(p) \/ TestPasses(p) \/ TestFails(p)
           \/ CopyFromUserFaults(p) \/ Unlock(p)
  <2>1. Still
    BY <1>1, <1>2, <1>5 DEF Lock, LockInterrupted, TestPasses, TestFails,
          CopyFromUserFaults, Unlock, At, WillWake
  <2> QED BY <1>3, <2>1
<1>6. CASE \/ Wait(p) \/ Woken(p) \/ ScanSlot(p) \/ WaitOver(p) \/ WaitInterrupted(p)
           \/ Sleep(p)
  <2>1. Still
    BY <1>1, <1>2, <1>6 DEF Wait, Woken, JoinQueue, ScanSlot, WaitOver, WaitInterrupted,
          LeaveQueue, Sleep, ScanDone, At, WillWake
  <2> QED BY <1>3, <2>1
<1>7. CASE PushBegin(p)
  <2>1. rb'.records = rb.records
    BY <1>1, <1>7 DEF PushBegin, PushCopy, PushRefused, CopyIn, Ring
  <2>2. Still
    BY <1>1, <1>2, <1>7, <2>1 DEF PushBegin, PushCopy, PushRefused, At, WillWake
  <2> QED BY <1>3, <2>2
<1>8. CASE PushFill(p)
  <2>1. pc[p] = "fill" /\ pc'[p] = "advance_head" /\ waitq' = waitq
    BY <1>1, <1>8 DEF PushFill, At, Goto
  <2>2. \A i \in Slots : rb.records[i].valid => rb'.records[i].valid
    BY <1>1, <1>8 DEF PushFill, FillRecord, Ring
  <2> QED BY <1>2, <2>1, <2>2 DEF Harmless, Blocked, WillWake
<1>9. CASE PushAdvance(p)
  <2>1. rb'.records = rb.records /\ pc'[p] = "wake_readers" /\ waitq' = waitq
    BY <1>1, <1>9 DEF PushAdvance, AdvanceHead, Ring, Goto
  <2>2. Still
    BY <1>2, <1>9, <2>1 DEF PushAdvance, At, WillWake
  <2> QED BY <1>3, <2>2
<1>10. CASE WakeReaders(p)
  <2>1. waitq' = [waitq EXCEPT !["read"] = {}] /\ rb' = rb /\ pc[p] = "wake_readers"
    BY <1>10 DEF WakeReaders, At
  <2> QED BY <1>1, <1>2, <2>1 DEF Harmless, Blocked, WillWake
<1>11. CASE PopRefused(p) \/ PopCopy(p)
  <2>1. Still
    BY <1>1, <1>2, <1>11 DEF PopRefused, PopCopy, At, WillWake
  <2> QED BY <1>3, <2>1
<1>12. CASE PopRelease(p)
  <2>1. pc[p] = "release" /\ pc'[p] = "advance_tail" /\ waitq' = waitq
    BY <1>1, <1>12 DEF PopRelease, At, Goto
  <2>2. \A i \in Slots : rb'.records[i].valid => rb.records[i].valid
    BY <1>1, <1>12 DEF PopRelease, ReleaseTail, Ring, Record
  <2> QED BY <1>2, <2>1, <2>2 DEF Harmless, Blocked, WillWake
<1>13. CASE PopAdvance(p)
  <2>1. rb'.records = rb.records /\ pc'[p] = "wake_writers" /\ waitq' = waitq
    BY <1>1, <1>13 DEF PopAdvance, AdvanceTail, Ring, Goto
  <2>2. Still
    BY <1>2, <1>13, <2>1 DEF PopAdvance, At, WillWake
  <2> QED BY <1>3, <2>2
<1>14. CASE WakeWriters(p)
  <2>1. waitq' = [waitq EXCEPT !["write"] = {}] /\ rb' = rb /\ pc[p] = "wake_writers"
    BY <1>14 DEF WakeWriters, At
  <2> QED BY <1>1, <1>2, <2>1 DEF Harmless, Blocked, WillWake
<1>15. CASE CopyToUser(p) \/ Return(p) \/ StatsCount(p) \/ StatsShow(p)
  <2>1. Still
    BY <1>1, <1>2, <1>15 DEF CopyToUser, Return, StatsCount, StatsShow, At, WillWake
  <2> QED BY <1>3, <2>1
<1> HIDE DEF Still
<1> QED BY <1>4, <1>5, <1>6, <1>7, <1>8, <1>9, <1>10, <1>11, <1>12, <1>13, <1>14, <1>15
        DEF InKernel

\* What a harmless step of p leaves of a reason to wait.
LEMMA ReasonKept ==
    ASSUME TypeInv, NEW p \in Threads, Alone(p), NEW op \in Ops, Harmless(p, op),
           NEW S \in SUBSET Slots, NEW q \in Threads, q # p, q \in waitq'[op],
           (\A i \in S : Blocked(op, i)) \/ WakerOnItsWay(op)
    PROVE  (\A i \in S : Blocked(op, i)') \/ WakerOnItsWay(op)'
<1>1. pc'[p] \in WillWake(op) => WakerOnItsWay(op)'
  BY DEF WakerOnItsWay
<1>2. pc[p] \notin WillWake(op) /\ WakerOnItsWay(op) => WakerOnItsWay(op)'
  BY DEF WakerOnItsWay, Alone
<1> QED BY <1>1, <1>2 DEF Harmless

\* The threads that do not take the step ...
LEMMA OthersScan ==
    ASSUME TypeInv, NEW p \in Threads, NEW q \in Threads, q # p, ScanInv(q), Alone(p),
           \A op \in Ops : Harmless(p, op)
    PROVE  ScanInv(q)'
<1>1. pc'[q] = pc[q] /\ local'[q] = local[q]
  BY DEF Alone
<1>2. CASE pc[q] \notin Asleep
  BY <1>1, <1>2 DEF ScanInv, Zeroed, At, Asleep
<1>3. CASE pc[q] \in Asleep
  <2>1. PICK op \in Ops : op = local[q].op
    BY <1>3 DEF TypeInv, CallsTyped, Asleep
  <2>2. q \in waitq'[op] => q \in waitq[op]
    BY <2>1 DEF Harmless
  <2>3. CASE At(q, "scan")
    <3> DEFINE S == {i \in Slots : i < local[q].next}
    <3>1. /\ At(q, "scan") /\ q \in waitq[op] /\ local[q].seen = NoReason(op, local[q].next)
          => (\A i \in S : Blocked(op, i)) \/ WakerOnItsWay(op)
      BY <2>1 DEF ScanInv
    <3>2. /\ q \in waitq'[op]
          /\ (\A i \in S : Blocked(op, i)) \/ WakerOnItsWay(op)
          => (\A i \in S : Blocked(op, i)') \/ WakerOnItsWay(op)'
      <4>1. S \in SUBSET Slots
        OBVIOUS
      <4> HIDE DEF S
      <4> QED BY <4>1, <2>1, ReasonKept
    <3>3. /\ At(q, "scan") /\ q \in waitq'[op] /\ local[q].seen = NoReason(op, local[q].next)
          => (\A i \in Slots : i < local[q].next => Blocked(op, i)') \/ WakerOnItsWay(op)'
      BY <2>2, <3>1, <3>2
    <3> HIDE DEF S
    <3> QED BY <1>1, <2>1, <2>3, <3>3 DEF ScanInv, Zeroed, At, NotScanning, NoReason, WakerOnItsWay, Blocked
  <2>4. CASE At(q, "sleep")
    <3>1. q \in waitq[op] => (\A i \in Slots : Blocked(op, i)) \/ WakerOnItsWay(op)
      BY <2>1, <2>4 DEF ScanInv
    <3>2. /\ q \in waitq'[op]
          /\ (\A i \in Slots : Blocked(op, i)) \/ WakerOnItsWay(op)
          => (\A i \in Slots : Blocked(op, i)') \/ WakerOnItsWay(op)'
      <4>1. Slots \in SUBSET Slots
        OBVIOUS
      <4> QED BY <4>1, <2>1, ReasonKept
    <3>3. local[q].next = 0 /\ local[q].seen = 0
      BY <2>4 DEF ScanInv, Zeroed, At, NotScanning
    <3> QED BY <1>1, <2>1, <2>2, <2>4, <3>1, <3>2, <3>3 DEF ScanInv, Zeroed, At, WakerOnItsWay, Blocked
  <2> QED BY <1>3, <2>3, <2>4 DEF At, Asleep
<1> QED BY <1>2, <1>3

\* Apart from four steps, a thread goes where nothing is asked of it, or where
\* its counters are 0.
Settles(p) ==
    \/ pc'[p] \notin NotScanning \cup {"scan"}
    \/ /\ pc'[p] \in NotScanning \ {"sleep"}
       /\ local'[p].next = 0 /\ local'[p].seen = 0

LEMMA ScanOrSettle ==
    ASSUME TypeInv, NEW p \in Threads, Zeroed(p), InKernel(p) \/ Calls(p)
    PROVE  Settles(p) \/ Wait(p) \/ Woken(p) \/ ScanSlot(p) \/ Sleep(p)
<1>1. /\ pc \in [Threads -> Labels] /\ local \in [Threads -> Locals]
      /\ local[p] \in Locals
  BY DEF TypeInv, DataOK
<1>2. CASE kmsgpipe_read(p) \/ kmsgpipe_write(p)
  <2>1. \A op, count, nonblock, data : Enter(p, op, count, nonblock, data) => Settles(p)
    <3> TAKE op, count, nonblock, data
    <3> DEFINE args == [NoCall EXCEPT !.op = op, !.count = count,
                                      !.nonblock = nonblock, !.data = data]
    <3> HAVE Enter(p, op, count, nonblock, data)
    <3>1. CASE pc' = [pc EXCEPT ![p] = "return"]
      BY <1>1, <3>1 DEF Settles, NotScanning
    <3>2. CASE pc' = [pc EXCEPT ![p] = "lock"] /\ local' = [local EXCEPT ![p] = [args EXCEPT !.buf = Zero]]
      <4>1. local'[p] = [args EXCEPT !.buf = Zero] /\ pc'[p] = "lock"
        BY <1>1, <3>2
      <4>2. [args EXCEPT !.buf = Zero].next = 0 /\ [args EXCEPT !.buf = Zero].seen = 0
        BY DEF NoCall
      <4> QED BY <4>1, <4>2 DEF Settles, NotScanning
    <3> QED BY <3>1, <3>2 DEF Enter, Goto
  <2> QED BY <1>2, <2>1 DEF kmsgpipe_read, kmsgpipe_write
<1>3. CASE \/ StatsLock(p) \/ LockInterrupted(p) \/ WaitInterrupted(p)
           \/ CopyFromUserFaults(p) \/ Unlock(p) \/ PopRefused(p) \/ CopyToUser(p)
  BY <1>1, <1>3 DEF StatsLock, LockInterrupted, WaitInterrupted, CopyFromUserFaults, Unlock,
        PopRefused, CopyToUser, ReturnFreeing, ReturnKeeping, Goto, Settles, NotScanning
<1>4. CASE \/ PushBegin(p) \/ PushFill(p) \/ PushAdvance(p) \/ WakeReaders(p)
           \/ PopCopy(p) \/ PopRelease(p) \/ PopAdvance(p) \/ WakeWriters(p)
           \/ Return(p) \/ StatsCount(p) \/ StatsShow(p)
  BY <1>1, <1>4 DEF PushBegin, PushCopy, PushRefused, PushFill, PushAdvance, WakeReaders,
        PopCopy, PopRelease, PopAdvance, WakeWriters, Return, StatsCount, StatsShow, At, Goto,
        Settles, NotScanning
<1>5. CASE TestPasses(p)
  <2>1. local[p].op \in {"read", "write"}
    BY <1>5 DEF TestPasses, At, TypeInv, CallsTyped, Ops
  <2> QED BY <1>1, <1>5, <2>1 DEF TestPasses, Goto, Settles, NotScanning
<1>6. CASE Lock(p)
  BY <1>1, <1>6 DEF Lock, At, Goto, Zeroed, Settles, NotScanning
<1>7. CASE TestFails(p)
  BY <1>1, <1>7 DEF TestFails, ReturnKeeping, At, Goto, Zeroed, Settles, NotScanning
<1>8. CASE WaitOver(p)
  BY <1>1, <1>8 DEF WaitOver, Recount, Goto, Locals, Settles, NotScanning
<1> QED BY <1>2, <1>3, <1>4, <1>5, <1>6, <1>7, <1>8 DEF InKernel, Calls

LEMMA OwnZeroed ==
    ASSUME TypeInv, NEW p \in Threads, Zeroed(p), InKernel(p) \/ Calls(p)
    PROVE  Zeroed(p)'
<1>1. pc \in [Threads -> Labels] /\ local \in [Threads -> Locals]
  BY DEF TypeInv, DataOK
<1>2. CASE Settles(p)
  BY <1>2 DEF Settles, Zeroed
<1>3. CASE Wait(p) \/ Woken(p) \/ ScanSlot(p)
  BY <1>1, <1>3 DEF Wait, Woken, ScanSlot, At, Goto, Zeroed, NotScanning
<1>4. CASE Sleep(p)
  BY <1>1, <1>4 DEF Sleep, Recount, Goto, Locals, Zeroed
<1> QED BY <1>2, <1>3, <1>4, ScanOrSettle

\* ... and the one that does.
LEMMA OwnScan ==
    ASSUME TypeInv, NEW p \in Threads, ScanInv(p), InKernel(p) \/ Calls(p)
    PROVE  ScanInv(p)'
<1>1. /\ pc \in [Threads -> Labels] /\ local \in [Threads -> Locals]
      /\ waitq \in [Ops -> SUBSET Threads]
  BY DEF TypeInv, DataOK
<1>2. local[p].next \in 0 .. Capacity /\ local[p].seen \in 0 .. Capacity /\ local[p] \in Locals
  BY <1>1 DEF Locals
<1>3. Zeroed(p) /\ Zeroed(p)'
  BY OwnZeroed DEF ScanInv
<1>4. CASE Settles(p)
  BY <1>3, <1>4 DEF Settles, ScanInv, At, NotScanning
<1>5. CASE Wait(p) \/ Woken(p)
  <2>1. local' = local /\ local[p].next = 0 /\ pc'[p] = "scan"
    BY <1>1, <1>3, <1>5 DEF Wait, Woken, At, Goto, Zeroed, NotScanning
  <2>2. \A i \in Slots : ~ (i < local'[p].next)
    BY <2>1, CapacityAssumption DEF Slots
  <2> QED BY <1>3, <2>1, <2>2 DEF ScanInv, At
<1>6. CASE ScanSlot(p)
  <2> DEFINE n == local[p].next
  <2>1. PICK op \in Ops : op = local[p].op
    BY <1>6 DEF ScanSlot, At, TypeInv, CallsTyped
  <2>2. /\ local'[p].op = op
        /\ local'[p].next = n + 1
        /\ local'[p].seen = IF rb.records[n].valid THEN local[p].seen + 1 ELSE local[p].seen
        /\ rb' = rb /\ waitq' = waitq /\ pc' = pc /\ pc[p] = "scan" /\ n < Capacity
    BY <1>1, <1>2, <1>6, <2>1 DEF ScanSlot, CountSlot, At, Locals
  <2>3. n \in Slots /\ local[p].seen <= n
    BY <1>2, <2>2, CapacityAssumption DEF Slots, TypeInv, CallsTyped
  <2>4. ASSUME p \in waitq'[op], local'[p].seen = NoReason(op, n + 1)
        PROVE  (\A i \in Slots : i < n + 1 => Blocked(op, i)) \/ WakerOnItsWay(op)
    <3>1. local[p].seen = NoReason(op, n) /\ Blocked(op, n)
      BY <2>2, <2>3, <2>4, <1>2, <2>1 DEF NoReason, Blocked, Ops
    <3>2. (\A i \in Slots : i < n => Blocked(op, i)) \/ WakerOnItsWay(op)
      BY <2>1, <2>2, <2>4, <3>1 DEF ScanInv, At
    <3>3. \A i \in Slots : i < n + 1 => i < n \/ i = n
      BY <2>3 DEF Slots
    <3> QED BY <3>1, <3>2, <3>3
  <2>5. \A i : Blocked(op, i)' <=> Blocked(op, i)
    BY <2>2 DEF Blocked
  <2>6. WakerOnItsWay(op)' <=> WakerOnItsWay(op)
    BY <2>2 DEF WakerOnItsWay
  <2> HIDE DEF n
  <2>7. /\ p \in waitq'[op] /\ local'[p].seen = NoReason(op, local'[p].next)
        => (\A i \in Slots : i < local'[p].next => Blocked(op, i)') \/ WakerOnItsWay(op)'
    BY <2>2, <2>4, <2>5, <2>6
  <2> QED BY <1>3, <2>2, <2>7 DEF ScanInv, At, NoReason, Blocked, WakerOnItsWay
<1>7. CASE Sleep(p)
  <2>1. PICK op \in Ops : op = local[p].op
    BY <1>7 DEF Sleep, ScanDone, At, TypeInv, CallsTyped
  <2>2. /\ local'[p].op = op /\ local'[p].next = 0 /\ local'[p].seen = 0
        /\ rb' = rb /\ waitq' = waitq /\ pc[p] = "scan" /\ pc' = [pc EXCEPT ![p] = "sleep"]
        /\ local[p].next = Capacity /\ MustWait(op, local[p].seen)
    BY <1>1, <1>2, <1>7, <2>1 DEF Sleep, ScanDone, Recount, At, Goto, Locals
  <2>3. local[p].seen = NoReason(op, local[p].next)
    BY <2>1, <2>2 DEF MustWait, NoReason, Ops
  <2>4. p \in waitq[op] => (\A i \in Slots : Blocked(op, i)) \/ WakerOnItsWay(op)
    <3>1. \A i \in Slots : i < local[p].next
      BY <2>2, CapacityAssumption DEF Slots
    <3> QED BY <2>1, <2>2, <2>3, <3>1 DEF ScanInv, At
  <2>5. \A i : Blocked(op, i)' <=> Blocked(op, i)
    BY <2>2 DEF Blocked
  <2>6. WakerOnItsWay(op) => WakerOnItsWay(op)'
    <3>1. "scan" \notin WillWake(op)
      BY DEF WillWake
    <3> QED BY <1>1, <2>2, <3>1 DEF WakerOnItsWay
  <2>7. p \in waitq'[op] => (\A i \in Slots : Blocked(op, i)') \/ WakerOnItsWay(op)'
    BY <2>2, <2>4, <2>5, <2>6
  <2> QED BY <1>1, <1>3, <2>2, <2>7 DEF ScanInv, At, Blocked, WakerOnItsWay
<1> QED BY <1>3, <1>4, <1>5, <1>6, <1>7, ScanOrSettle

LEMMA WakeStep == WakeInv /\ [Next]_vars => WakeInv'
<1> SUFFICES ASSUME WakeInv, [Next]_vars PROVE WakeInv'
  OBVIOUS
<1>1. TypeInv /\ TypeInv' /\ \A q \in Threads : ScanInv(q)
  BY TypeStep DEF WakeInv
<1>2. CASE UNCHANGED vars \/ Tick
  <2>1. \A q \in Threads : ScanInv(q)'
    BY <1>1, <1>2 DEF vars, Tick, ScanInv, Zeroed, At, Blocked, WakerOnItsWay, NoReason
  <2> QED BY <1>1, <2>1 DEF WakeInv
<1>3. ASSUME NEW p \in Threads, InKernel(p) \/ Calls(p), NEW q \in Threads
      PROVE  ScanInv(q)'
  <2>1. CASE q = p
    BY <1>1, <1>3, <2>1, OwnScan
  <2>2. CASE q # p
    <3>1. Alone(p) /\ \A op \in Ops : Harmless(p, op)
      BY <1>1, <1>3, StepAlone, StepHarmless
    <3> QED BY <1>1, <2>2, <3>1, OthersScan
  <2> QED BY <2>1, <2>2
<1> QED BY <1>1, <1>2, <1>3 DEF Next, WakeInv

\* When every record blocks readers the count is 0, when every record blocks
\* writers it is the capacity.
LEMMA BlockedCount ==
    ASSUME rb \in Ring, NEW op \in Ops, \A i \in Slots : Blocked(op, i)
    PROVE  MustWait(op, MessageCount(rb))
<1>1. IsFiniteSet(Slots) /\ Cardinality(Slots) = Capacity
  BY FS_Interval, CapacityAssumption DEF Slots
<1>2. CASE op = "read"
  <2>1. {i \in Slots : rb.records[i].valid} = {}
    BY <1>2 DEF Blocked
  <2> QED BY <1>2, <2>1, FS_EmptySet DEF MustWait, MessageCount
<1>3. CASE op = "write"
  <2>1. {i \in Slots : rb.records[i].valid} = Slots
    BY <1>3 DEF Blocked
  <2> QED BY <1>1, <1>3, <2>1 DEF MustWait, MessageCount
<1> QED BY <1>2, <1>3 DEF Ops

\* No wake-up is ever lost: a thread that sleeps on a queue has reason to, or
\* somebody is about to wake it, whatever the others do while it counts slot by
\* slot without the mutex.
THEOREM WakeupNeverLost == Spec => []NoLostWakeup
<1>1. Init => WakeInv
  <2> SUFFICES ASSUME Init PROVE WakeInv
    OBVIOUS
  <2>1. \A p \in Threads : ScanInv(p)
    BY DEF Init, ScanInv, Zeroed, At, NotScanning
  <2> QED BY <2>1, InitType DEF WakeInv
<1>2. WakeInv /\ [Next]_vars => WakeInv'
  BY WakeStep
<1>3. WakeInv => NoLostWakeup
  <2> SUFFICES ASSUME WakeInv, NEW p \in Threads, At(p, "sleep"), Queued(p)
               PROVE  \/ MustWait(local[p].op, MessageCount(rb))
                      \/ \E q \in Threads : pc[q] \in WillWake(local[p].op)
    BY DEF NoLostWakeup
  <2>1. local[p].op \in Ops /\ rb \in Ring
    BY DEF WakeInv, TypeInv, DataOK, CallsTyped, At
  <2>2. (\A i \in Slots : Blocked(local[p].op, i)) \/ WakerOnItsWay(local[p].op)
    BY DEF WakeInv, ScanInv, Queued
  <2> QED BY <2>1, <2>2, BlockedCount DEF WakerOnItsWay
<1> QED BY <1>1, <1>2, <1>3, PTL DEF Spec

-----------------------------------------------------------------------------
(* stats *)

\* The valid records of r among the first n.
ValidBefore(r, n) == {i \in Slots : i < n /\ r.records[i].valid}

\* A thread in no call has its counters at 0, and the loop of stats_show has
\* counted the valid records among those it has passed.
Counting(p) ==
    /\ At(p, "idle") => local[p].next = 0 /\ local[p].seen = 0
    /\ At(p, "stats") => local[p].seen = Cardinality(ValidBefore(rb, local[p].next))

StatsInv == \A p \in Threads : Counting(p)

\* Only the thread inside changes the buffer.
LEMMA RingChangedInside ==
    ASSUME NEW p \in Threads, InKernel(p) \/ Calls(p), rb' # rb
    PROVE  pc[p] \in Critical
BY DEF InKernel, Calls, kmsgpipe_read, kmsgpipe_write, Enter, StatsLock, Lock,
       LockInterrupted, TestPasses, TestFails, Wait, ScanSlot, WaitOver, WaitInterrupted,
       Sleep, Woken, CopyFromUserFaults, PushBegin, PushCopy, PushRefused, PushFill,
       PushAdvance, WakeReaders, Unlock, PopRefused, PopCopy, PopRelease, PopAdvance,
       WakeWriters, CopyToUser, Return, StatsCount, StatsShow, At, Critical

LEMMA CountsOneMore ==
    ASSUME NEW r, NEW n \in Slots
    PROVE  Cardinality(ValidBefore(r, n + 1)) =
           IF r.records[n].valid THEN Cardinality(ValidBefore(r, n)) + 1
           ELSE Cardinality(ValidBefore(r, n))
<1>1. IsFiniteSet(ValidBefore(r, n))
  <2>1. IsFiniteSet(Slots) /\ ValidBefore(r, n) \in SUBSET Slots
    BY FS_Interval, CapacityAssumption DEF Slots, ValidBefore
  <2> QED BY <2>1, FS_Subset
<1>2. n \notin ValidBefore(r, n)
  BY DEF ValidBefore, Slots
<1>3. \A i \in Slots : i < n + 1 <=> i < n \/ i = n
  BY DEF Slots
<1>4. CASE r.records[n].valid
  <2>1. ValidBefore(r, n + 1) = ValidBefore(r, n) \cup {n}
    BY <1>3, <1>4 DEF ValidBefore
  <2> QED BY <1>1, <1>2, <1>4, <2>1, FS_AddElement
<1>5. CASE ~ r.records[n].valid
  <2>1. ValidBefore(r, n + 1) = ValidBefore(r, n)
    BY <1>3, <1>5 DEF ValidBefore
  <2> QED BY <1>5, <2>1
<1> QED BY <1>4, <1>5

LEMMA OwnCounting ==
    ASSUME TypeInv, NEW p \in Threads, Counting(p), InKernel(p) \/ Calls(p)
    PROVE  Counting(p)'
<1>1. /\ pc \in [Threads -> Labels] /\ local \in [Threads -> Locals]
      /\ local[p].next \in 0 .. Capacity
  BY DEF TypeInv, DataOK, Locals
<1> DEFINE Elsewhere == pc'[p] \notin {"idle", "stats"}
<1>2. Elsewhere => Counting(p)'
  BY DEF Counting, At
<1>3. CASE kmsgpipe_read(p) \/ kmsgpipe_write(p)
  <2>1. Elsewhere
    BY <1>1, <1>3 DEF kmsgpipe_read, kmsgpipe_write, Enter, Goto
  <2> QED BY <1>2, <2>1
<1>4. CASE StatsLock(p)
  <2>1. pc[p] = "idle" /\ local' = local /\ rb' = rb /\ pc'[p] = "stats"
    BY <1>1, <1>4 DEF StatsLock, At, Goto
  <2>2. local[p].next = 0 /\ local[p].seen = 0
    BY <2>1 DEF Counting, At
  <2>3. ValidBefore(rb, 0) = {}
    BY DEF ValidBefore, Slots
  <2> QED BY <2>1, <2>2, <2>3, FS_EmptySet DEF Counting, At
<1>5. CASE \/ Lock(p) \/ LockInterrupted(p) \/ TestFails(p) \/ Wait(p) \/ Woken(p)
           \/ WaitOver(p) \/ WaitInterrupted(p) \/ Sleep(p) \/ CopyFromUserFaults(p)
           \/ Unlock(p) \/ PopRefused(p) \/ CopyToUser(p)
  <2>1. Elsewhere
    BY <1>1, <1>5 DEF Lock, LockInterrupted, TestFails, Wait, Woken, WaitOver, WaitInterrupted,
          Sleep, CopyFromUserFaults, Unlock, PopRefused, CopyToUser, ReturnFreeing,
          ReturnKeeping, Goto
  <2> QED BY <1>2, <2>1
<1>6. CASE \/ ScanSlot(p) \/ PushBegin(p) \/ PushFill(p) \/ PushAdvance(p) \/ WakeReaders(p)
           \/ PopCopy(p) \/ PopRelease(p) \/ PopAdvance(p) \/ WakeWriters(p)
  <2>1. Elsewhere
    BY <1>1, <1>6 DEF ScanSlot, PushBegin, PushCopy, PushRefused, PushFill, PushAdvance,
          WakeReaders, PopCopy, PopRelease, PopAdvance, WakeWriters, At, Goto
  <2> QED BY <1>2, <2>1
<1>7. CASE TestPasses(p)
  <2>1. local[p].op \in {"read", "write"}
    BY <1>7 DEF TestPasses, At, TypeInv, CallsTyped, Ops
  <2>2. Elsewhere
    BY <1>1, <1>7, <2>1 DEF TestPasses, Goto
  <2> QED BY <1>2, <2>2
<1>8. CASE Return(p)
  <2>1. local'[p] = NoCall /\ pc'[p] = "idle"
    BY <1>1, <1>8 DEF Return, Goto
  <2>2. NoCall.next = 0 /\ NoCall.seen = 0
    BY DEF NoCall
  <2> QED BY <2>1, <2>2 DEF Counting, At
<1>9. CASE StatsCount(p)
  <2> DEFINE n == local[p].next
  <2>1. /\ local'[p].next = n + 1
        /\ local'[p].seen = IF rb.records[n].valid THEN local[p].seen + 1 ELSE local[p].seen
        /\ rb' = rb /\ pc' = pc /\ pc[p] = "stats" /\ n < Capacity
    BY <1>1, <1>9 DEF StatsCount, CountSlot, At, Locals
  <2>2. n \in Slots
    BY <1>1, <2>1, CapacityAssumption DEF Slots
  <2>3. local[p].seen = Cardinality(ValidBefore(rb, n))
    BY <2>1 DEF Counting, At
  <2> HIDE DEF n
  <2>4. local'[p].seen = Cardinality(ValidBefore(rb, n + 1))
    BY <2>1, <2>2, <2>3, CountsOneMore
  <2> QED BY <2>1, <2>4 DEF Counting, At
<1>10. CASE StatsShow(p)
  <2>1. local'[p].next = 0 /\ local'[p].seen = 0 /\ pc'[p] = "idle"
    BY <1>1, <1>10 DEF StatsShow, Recount, Goto, Locals
  <2> QED BY <2>1 DEF Counting, At
<1> HIDE DEF Elsewhere
<1> QED BY <1>3, <1>4, <1>5, <1>6, <1>7, <1>8, <1>9, <1>10 DEF InKernel, Calls

LEMMA StatsStep ==
    ASSUME TypeInv, MutexHeldInside, StatsInv, [Next]_vars
    PROVE  StatsInv'
<1>1. CASE UNCHANGED vars \/ Tick
  BY <1>1 DEF vars, Tick, StatsInv, Counting, At
<1>2. ASSUME NEW p \in Threads, InKernel(p) \/ Calls(p), NEW q \in Threads
      PROVE  Counting(q)'
  <2>1. CASE q = p
    BY <1>2, <2>1, OwnCounting DEF StatsInv
  <2>2. CASE q # p
    <3>1. pc'[q] = pc[q] /\ local'[q] = local[q]
      BY <1>2, <2>2, StepAlone DEF Alone
    <3>2. CASE pc[q] = "stats"
      <4>1. pc[q] \in Critical
        BY <3>2 DEF Critical
      <4>2. rb' = rb
        BY <4>1, <1>2, <2>2, RingChangedInside, OneInside
      <4> QED BY <3>1, <4>2 DEF StatsInv, Counting, At
    <3>3. CASE pc[q] # "stats"
      BY <3>1, <3>3 DEF StatsInv, Counting, At
    <3> QED BY <3>2, <3>3
  <2> QED BY <2>1, <2>2
<1> QED BY <1>1, <1>2 DEF Next, StatsInv

\* What stats prints is the number of messages in the buffer, whatever readers
\* and writers do while it counts.
THEOREM StatsAlwaysExact == Spec => []StatsExact
<1>1. Init => StatsInv
  BY DEF Init, StatsInv, Counting, At, NoCall
<1>2. SafeInv /\ StatsInv /\ [Next]_vars => StatsInv'
  BY StatsStep DEF SafeInv
<1>3. TypeInv /\ StatsInv => StatsExact
  <2> SUFFICES ASSUME StatsInv, NEW p \in Threads, At(p, "stats"), local[p].next = Capacity
               PROVE  local[p].seen = MessageCount(rb)
    BY DEF StatsExact
  <2>1. ValidBefore(rb, Capacity) = {i \in Slots : rb.records[i].valid}
    BY CapacityAssumption DEF ValidBefore, Slots
  <2> QED BY <2>1 DEF StatsInv, Counting, MessageCount
<1>4. SafeInv => TypeInv
  BY DEF SafeInv
<1> QED BY <1>1, <1>2, <1>3, <1>4, Safe, PTL DEF Spec

=============================================================================
