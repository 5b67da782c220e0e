--------------------------- MODULE KmsgPipeQueue ---------------------------
(***************************************************************************)
(* What the threads of the file operations do to the messages: together    *)
(* they implement one bounded queue, whose messages are in the order of    *)
(* their timestamps, and a reader hands out the message it takes off.      *)
(*                                                                         *)
(* Only two steps count: the one that fills a record and the one that      *)
(* releases a record.  The lemmas show that for steps of Next from states  *)
(* of the invariant of KmsgPipeProofs, and so also for the threads beside  *)
(* the worker of lab4.                                                     *)
(***************************************************************************)
EXTENDS KmsgPipeWakeups

\* The message thread p puts into the queue: what is in the slot at head, under
\* the length, owner and timestamp of its call.
NewMessage(p, data) ==
    [data |-> data, len |-> local[p].count % LenRange, uid |-> Cred[p].uid,
     gid |-> Cred[p].gid, timestamp |-> local[p].stamp]

Accepts(p) ==
    /\ pc[p] = "fill"
    /\ Len(Messages(SettledRing)) < Capacity
    /\ \E data \in Payloads \cup {Zero} :
            Messages(SettledRing') = Append(Messages(SettledRing), NewMessage(p, data))
    /\ \A o \in Threads : pc'[o] # "fill"

HandsOut(p) ==
    /\ pc[p] = "release"
    /\ Messages(SettledRing) # << >>
    /\ Messages(SettledRing') = Tail(Messages(SettledRing))

QueueMoves ==
    \/ Messages(SettledRing') = Messages(SettledRing)
    \/ \E p \in Threads : Accepts(p) \/ HandsOut(p)

LEMMA SettledWindow ==
    ASSUME SafeInv
    PROVE  /\ SettledRing \in Ring /\ IsWindow(SettledRing)
           /\ Messages(SettledRing) \in Seq(Handed)
           /\ Len(Messages(SettledRing)) = MessageCount(rb)
           /\ Len(Messages(SettledRing)) <= Capacity
<1>1. rb \in Ring
  BY DEF SafeInv, TypeInv, DataOK
<1>2. SettledRing \in Ring
  BY <1>1, AdvanceType DEF SettledRing
<1>3. PICK n \in 0 .. Capacity : HoldsWindow(SettledRing, n)
  BY DEF SafeInv, RingInv, IsWindow
<1>4. MessageCount(SettledRing) = MessageCount(rb)
  <2>1. SettledRing.records = rb.records
    BY <1>1 DEF SettledRing, AdvanceHead, AdvanceTail, Ring
  <2> HIDE DEF SettledRing
  <2> QED BY <2>1 DEF MessageCount
<1>5. Messages(SettledRing) \in Seq(Handed) /\ Len(Messages(SettledRing)) = n
  BY <1>2, <1>3, MessagesOfWindow
<1>6. MessageCount(SettledRing) = n
  BY <1>2, <1>3, CountOfWindow
<1>7. IsWindow(SettledRing) /\ n <= Capacity
  BY <1>3, CapacityAssumption DEF IsWindow
<1> QED BY <1>2, <1>4, <1>5, <1>6, <1>7

\* The two steps that count, by the thread that is inside.
LEMMA FillAccepts ==
    ASSUME SafeInv, NEW p \in Threads, PushFill(p)
    PROVE  Accepts(p)
<1>1. TypeInv /\ MutexHeldInside /\ RingInv /\ rb \in Ring /\ local \in [Threads -> Locals]
  BY DEF SafeInv, TypeInv, DataOK
<1>2. /\ pc[p] = "fill" /\ pc[p] \in Critical /\ pc' = [pc EXCEPT ![p] = "advance_head"]
      /\ rb' = FillRecord(rb, local[p].count, Cred[p], local[p].stamp)
  BY DEF PushFill, At, Goto, Critical
<1>3. SettledRing = rb
  BY <1>1, <1>2, SettledInside DEF SettledAs
<1>4. SettledRing' = AdvanceHead(FillRecord(rb, local[p].count, Cred[p], local[p].stamp))
  BY <1>1, <1>2, SettledAfter DEF SettledAs
<1>5. PICK n \in 0 .. Capacity : HoldsWindow(rb, n)
  BY <1>1, <1>3 DEF RingInv, IsWindow
<1>6. ~ rb.records[rb.head].valid
  BY <1>1, <1>2 DEF RingInv, Pushing
<1>7. n < Capacity
  BY <1>1, <1>5, <1>6, WindowEnds, CapacityAssumption
<1>8. local[p].count \in Nat /\ local[p].stamp \in Nat /\ Cred[p] \in Creds
  BY <1>1, ThreadAssumption DEF Locals
<1> DEFINE data == IF local[p].count % LenRange = 0 THEN Zero ELSE rb.base[rb.head]
<1>9. data \in Payloads \cup {Zero}
  BY <1>1 DEF Ring
<1>10. Messages(SettledRing') = Append(Messages(rb), NewMessage(p, data))
  BY <1>1, <1>4, <1>5, <1>7, <1>8, PushMessages DEF NewMessage
<1>11. Len(Messages(rb)) = n
  BY <1>1, <1>5, MessagesOfWindow
<1> HIDE DEF data
<1>12. \A o \in Threads : pc'[o] # "fill"
  <2>1. pc'[p] = "advance_head"
    BY <1>1, <1>2 DEF TypeInv, DataOK
  <2>2. \A o \in Threads : o # p => pc'[o] \notin Pushing
    BY <1>1, <1>2, SettledAfter
  <2> QED BY <2>1, <2>2 DEF Pushing
<1> QED BY <1>2, <1>3, <1>7, <1>9, <1>10, <1>11, <1>12 DEF Accepts

LEMMA ReleaseHandsOut ==
    ASSUME SafeInv, NEW p \in Threads, PopRelease(p)
    PROVE  /\ HandsOut(p)
           /\ SettledRing = rb
           /\ Messages(rb)[1] = MessageAt(rb, rb.tail)
<1>1. TypeInv /\ MutexHeldInside /\ RingInv /\ rb \in Ring
  BY DEF SafeInv, TypeInv, DataOK
<1>2. /\ pc[p] = "release" /\ pc[p] \in Critical
      /\ pc' = [pc EXCEPT ![p] = "advance_tail"] /\ rb' = ReleaseTail(rb)
  BY DEF PopRelease, At, Goto, Critical
<1>3. SettledRing = rb
  BY <1>1, <1>2, SettledInside DEF SettledAs
<1>4. SettledRing' = AdvanceTail(ReleaseTail(rb))
  BY <1>1, <1>2, SettledAfter DEF SettledAs
<1>5. PICK n \in 0 .. Capacity : HoldsWindow(rb, n)
  BY <1>1, <1>3 DEF RingInv, IsWindow
<1>6. rb.records[rb.tail].valid
  BY <1>1, <1>2 DEF RingInv, Popping
<1>7. n > 0
  BY <1>1, <1>5, <1>6, WindowEnds
<1> QED BY <1>1, <1>2, <1>3, <1>4, <1>5, <1>7, PopMessages DEF HandsOut

\* Every step of the threads.
LEMMA QueueStep ==
    ASSUME SafeInv, [Next]_vars
    PROVE  QueueMoves
<1>1. TypeInv /\ MutexHeldInside /\ RingInv /\ rb \in Ring /\ local \in [Threads -> Locals]
  BY DEF SafeInv, TypeInv, DataOK
<1>2. SettledRing' = SettledRing => QueueMoves
  BY DEF QueueMoves
<1> DEFINE Outside(p, label) == /\ pc' = [pc EXCEPT ![p] = label] /\ rb' = rb
                                /\ pc[p] \notin Moving /\ label \notin Moving
<1>3. \A p \in Threads : \A label : Outside(p, label) => QueueMoves
  BY <1>1, <1>2, SettledOutside
<1>4. CASE UNCHANGED vars \/ Tick
  BY <1>2, <1>4 DEF vars, Tick, SettledRing, At
<1>5. ASSUME NEW p \in Threads, Calls(p)
      PROVE  QueueMoves
  <2>1. Outside(p, "return") \/ Outside(p, "lock") \/ Outside(p, "stats")
    BY <1>5 DEF Calls, kmsgpipe_read, kmsgpipe_write, StatsLock, Enter, At, Goto, Moving
  <2> QED BY <1>3, <2>1
<1>6. ASSUME NEW p \in Threads, InKernel(p)
      PROVE  QueueMoves
  <2>1. CASE \/ Lock(p) \/ LockInterrupted(p) \/ TestFails(p) \/ Wait(p)
             \/ WaitOver(p) \/ WaitInterrupted(p) \/ Sleep(p) \/ Woken(p)
    <3>1. \/ Outside(p, "test") \/ Outside(p, "return") \/ Outside(p, "wait")
          \/ Outside(p, "scan") \/ Outside(p, "relock") \/ Outside(p, "sleep")
      BY <2>1 DEF Lock, LockInterrupted, TestFails, Wait, WaitOver, WaitInterrupted, Sleep,
                  Woken, ScanDone, ReturnFreeing, ReturnKeeping, At, Goto, Moving
    <3> QED BY <1>3, <3>1
  <2>2. CASE \/ CopyFromUserFaults(p) \/ PushRefused(p) \/ WakeReaders(p) \/ Unlock(p)
             \/ PopRefused(p) \/ WakeWriters(p) \/ CopyToUser(p) \/ Return(p)
             \/ StatsShow(p) \/ PopCopy(p)
    <3>1. \/ Outside(p, "return") \/ Outside(p, "unlock") \/ Outside(p, "copyout")
          \/ Outside(p, "idle") \/ Outside(p, "release")
      BY <2>2 DEF CopyFromUserFaults, PushRefused, WakeReaders, Unlock, PopRefused,
                  WakeWriters, CopyToUser, Return, StatsShow, PopCopy, ReturnFreeing, At, Goto,
                  Moving
    <3> QED BY <1>3, <3>1
  <2>3. CASE ScanSlot(p) \/ StatsCount(p)
    BY <1>2, <2>3 DEF ScanSlot, StatsCount, SettledRing, At
  <2>4. CASE TestPasses(p)
    <3>1. local[p].op \in {"read", "write"}
      BY <1>1, <2>4 DEF TestPasses, At, TypeInv, CallsTyped, Ops
    <3>2. Outside(p, local[p].op)
      BY <2>4, <3>1 DEF TestPasses, At, Goto, Moving
    <3> QED BY <1>3, <3>2
  <2>5. CASE PushCopy(p)
    <3>1. /\ pc[p] = "write" /\ pc[p] \in Critical /\ pc' = [pc EXCEPT ![p] = "fill"]
          /\ rb' = CopyIn(rb, local[p].data, local[p].count)
      BY <2>5 DEF PushCopy, At, Goto, Critical
    <3>2. SettledRing = rb /\ SettledRing' = CopyIn(rb, local[p].data, local[p].count)
      <4>1. SettledRing = SettledAs("write", rb)
        BY <1>1, <3>1, SettledInside
      <4>2. SettledRing' = SettledAs("fill", rb')
        BY <1>1, <3>1, SettledAfter
      <4> QED BY <3>1, <4>1, <4>2 DEF SettledAs
    <3>3. PICK n \in 0 .. Capacity : HoldsWindow(rb, n)
      BY <1>1, <3>2 DEF RingInv, IsWindow
    <3>4. ~ rb.records[rb.head].valid
      BY <1>1, <3>1 DEF RingInv, Pushing
    <3>5. n < Capacity
      BY <1>1, <3>3, <3>4, WindowEnds, CapacityAssumption
    <3>6. local[p].data \in Payloads \cup {Zero}
      BY <1>1 DEF Locals
    <3>7. Messages(SettledRing') = Messages(SettledRing)
      BY <1>1, <3>2, <3>3, <3>5, <3>6, CopyInMessages
    <3> QED BY <3>7 DEF QueueMoves
  <2>6. CASE PushFill(p)
    BY <2>6, FillAccepts DEF QueueMoves
  <2>7. CASE PushAdvance(p) \/ PopAdvance(p)
    <3>1. /\ pc[p] \in Critical
          /\ \/ /\ pc[p] = "advance_head" /\ rb' = AdvanceHead(rb)
                /\ pc' = [pc EXCEPT ![p] = "wake_readers"]
             \/ /\ pc[p] = "advance_tail" /\ rb' = AdvanceTail(rb)
                /\ pc' = [pc EXCEPT ![p] = "wake_writers"]
      BY <2>7 DEF PushAdvance, PopAdvance, At, Goto, Critical
    <3>2. SettledRing = rb' /\ SettledRing' = rb'
      BY <1>1, <3>1, SettledInside, SettledAfter DEF SettledAs
    <3> QED BY <1>2, <3>2
  <2>8. CASE PopRelease(p)
    BY <2>8, ReleaseHandsOut DEF QueueMoves
  <2> HIDE DEF Outside
  <2> QED BY <1>6, <2>1, <2>2, <2>3, <2>4, <2>5, <2>6, <2>7, <2>8 DEF InKernel, PushBegin
<1> HIDE DEF Outside
<1> QED BY <1>4, <1>5, <1>6 DEF Next

-----------------------------------------------------------------------------
(* What a thread that is pushing carries: its call is a write, and its     *)
(* timestamp is no later than the clock.                                   *)

Carrying(p) ==
    /\ local[p].op = "write" => p \in Writers /\ local[p].count \in WriteCounts
    /\ pc[p] \in Pushing => local[p].op = "write"
    /\ pc[p] = "fill" => local[p].stamp <= now

CarryInv == now <= Horizon /\ \A p \in Threads : Carrying(p)

\* Between its beginning and its return a call keeps its arguments, and the
\* timestamp that it takes once.
LEMMA CallKept ==
    ASSUME TypeInv, NEW p \in Threads, InKernel(p), ~ Return(p)
    PROVE  /\ local'[p].op = local[p].op /\ local'[p].count = local[p].count
           /\ ~ PushCopy(p) => local'[p].stamp = local[p].stamp
<1>1. local \in [Threads -> Locals]
  BY DEF TypeInv, DataOK
<1> DEFINE Same == /\ local'[p].op = local[p].op /\ local'[p].count = local[p].count
                   /\ local'[p].stamp = local[p].stamp
<1>2. CASE \/ Lock(p) \/ LockInterrupted(p) \/ TestPasses(p) \/ TestFails(p) \/ Wait(p)
           \/ Woken(p) \/ WakeReaders(p) \/ Unlock(p) \/ CopyFromUserFaults(p)
  <2>1. Same
    BY <1>1, <1>2 DEF Lock, LockInterrupted, TestPasses, TestFails, Wait, Woken, WakeReaders,
          Unlock, CopyFromUserFaults, ReturnFreeing, ReturnKeeping, Locals
  <2> QED BY <2>1
<1>3. CASE \/ ScanSlot(p) \/ WaitOver(p) \/ WaitInterrupted(p) \/ Sleep(p)
           \/ StatsCount(p) \/ StatsShow(p)
  <2>1. Same
    BY <1>1, <1>3 DEF ScanSlot, WaitOver, WaitInterrupted, Sleep, StatsCount, StatsShow,
          CountSlot, Recount, ReturnKeeping, Locals
  <2> QED BY <2>1
<1>4. CASE PushCopy(p)
  BY <1>1, <1>4 DEF PushCopy, Locals
<1>5. CASE \/ PushRefused(p) \/ PushFill(p) \/ PushAdvance(p) \/ PopRefused(p) \/ PopCopy(p)
           \/ PopRelease(p) \/ PopAdvance(p) \/ WakeWriters(p) \/ CopyToUser(p)
  <2>1. Same
    BY <1>1, <1>5 DEF PushRefused, PushFill, PushAdvance, PopRefused, PopCopy, PopRelease,
          PopAdvance, WakeWriters, CopyToUser, ReturnFreeing, Locals
  <2> QED BY <2>1
<1> HIDE DEF Same
<1> QED BY <1>2, <1>3, <1>4, <1>5 DEF InKernel, PushBegin

\* Only the step that takes the timestamp leads to the step that stores it.
LEMMA FillBegins ==
    ASSUME TypeInv, NEW p \in Threads, InKernel(p) \/ Calls(p), pc'[p] = "fill"
    PROVE  PushCopy(p)
<1>1. pc \in [Threads -> Labels]
  BY DEF TypeInv, DataOK
<1>2. CASE Calls(p)
  BY <1>1, <1>2 DEF Calls, kmsgpipe_read, kmsgpipe_write, Enter, StatsLock, Goto
<1>3. CASE TestPasses(p)
  BY <1>1, <1>3 DEF TestPasses, Goto, TypeInv, CallsTyped, At, Ops
<1>4. CASE InKernel(p) /\ ~ TestPasses(p)
  BY <1>1, <1>4 DEF InKernel, Lock, LockInterrupted, TestFails, Wait,
     ScanSlot, WaitOver, WaitInterrupted, Sleep, Woken, CopyFromUserFaults, PushBegin,
     PushRefused, PushFill, PushAdvance, WakeReaders, Unlock, PopRefused, PopCopy,
     PopRelease, PopAdvance, WakeWriters, CopyToUser, Return, StatsCount, StatsShow,
     ReturnFreeing, ReturnKeeping, ScanDone, At, Goto
<1> QED BY <1>2, <1>3, <1>4

LEMMA OwnCarrying ==
    ASSUME TypeInv, NEW p \in Threads, Carrying(p), InKernel(p) \/ Calls(p)
    PROVE  Carrying(p)' /\ now' = now
<1>1. /\ pc \in [Threads -> Labels] /\ local \in [Threads -> Locals] /\ now \in Nat
  BY DEF TypeInv, DataOK
<1>2. now' = now
  BY DEF InKernel, Calls, kmsgpipe_read, kmsgpipe_write, Enter, StatsLock, Lock,
         LockInterrupted, TestPasses, TestFails, Wait, ScanSlot, WaitOver, WaitInterrupted,
         Sleep, Woken, CopyFromUserFaults, PushBegin, PushCopy, PushRefused, PushFill,
         PushAdvance, WakeReaders, Unlock, PopRefused, PopCopy, PopRelease, PopAdvance,
         WakeWriters, CopyToUser, Return, StatsCount, StatsShow
<1> DEFINE Quiet == pc'[p] \notin Pushing
<1>3. CASE Calls(p)
  <2>1. CASE kmsgpipe_read(p) \/ kmsgpipe_write(p)
    <3>1. PICK op, count, nonblock, data :
                /\ Enter(p, op, count, nonblock, data)
                /\ op = "write" => p \in Writers /\ count \in WriteCounts
      BY <2>1 DEF kmsgpipe_read, kmsgpipe_write
    <3>2. local'[p].op = op /\ local'[p].count = count
      <4> DEFINE args == [NoCall EXCEPT !.op = op, !.count = count,
                                        !.nonblock = nonblock, !.data = data]
      <4> DEFINE tooLarge == [args EXCEPT !.ret = -EINVAL]
      <4> DEFINE noMemory == [args EXCEPT !.ret = -ENOMEM]
      <4> DEFINE entered == [args EXCEPT !.buf = Zero]
      <4>1. /\ tooLarge.op = op /\ tooLarge.count = count
            /\ noMemory.op = op /\ noMemory.count = count
            /\ entered.op = op /\ entered.count = count
        BY DEF NoCall
      <4>2. \/ local' = [local EXCEPT ![p] = tooLarge]
            \/ local' = [local EXCEPT ![p] = noMemory]
            \/ local' = [local EXCEPT ![p] = entered]
        BY <3>1 DEF Enter
      <4> HIDE DEF args, tooLarge, noMemory, entered
      <4> QED BY <1>1, <4>1, <4>2
    <3>3. pc'[p] \in {"return", "lock"}
      BY <1>1, <3>1 DEF Enter, Goto
    <3> QED BY <1>2, <3>1, <3>2, <3>3 DEF Carrying, Pushing
  <2>2. CASE StatsLock(p)
    BY <1>1, <2>2 DEF StatsLock, Goto, Carrying, Pushing
  <2> QED BY <1>3, <2>1, <2>2 DEF Calls
<1>4. CASE Return(p)
  <2>1. local'[p] = NoCall /\ pc'[p] = "idle"
    BY <1>1, <1>4 DEF Return, Goto
  <2> QED BY <1>2, <2>1 DEF Carrying, NoCall, Pushing
<1>5. CASE InKernel(p) /\ ~ Return(p)
  <2>1. /\ local'[p].op = local[p].op /\ local'[p].count = local[p].count
        /\ ~ PushCopy(p) => local'[p].stamp = local[p].stamp
    BY <1>5, CallKept
  <2>2. pc'[p] \in Pushing => local[p].op = "write"
    <3>1. CASE pc[p] \in Pushing
      BY <3>1 DEF Carrying
    <3>2. CASE TestPasses(p)
      BY <1>1, <3>2 DEF TestPasses, Goto, Pushing, TypeInv, CallsTyped, At, Ops
    <3>3. CASE pc[p] \notin Pushing /\ ~ TestPasses(p)
      BY <1>1, <1>5, <3>3 DEF InKernel, Lock, LockInterrupted, TestFails, Wait, ScanSlot,
         WaitOver, WaitInterrupted, Sleep, Woken, CopyFromUserFaults, PushBegin, PushCopy,
         PushRefused, PushFill, PushAdvance, WakeReaders, Unlock, PopRefused, PopCopy,
         PopRelease, PopAdvance, WakeWriters, CopyToUser, StatsCount, StatsShow,
         ReturnFreeing, ReturnKeeping, ScanDone, At, Goto, Pushing
    <3> QED BY <3>1, <3>2, <3>3
  <2>3. pc'[p] = "fill" => local'[p].stamp <= now
    <3>1. CASE PushCopy(p)
      BY <1>1, <3>1 DEF PushCopy, Locals
    <3>2. CASE ~ PushCopy(p)
      BY <3>2, FillBegins
    <3> QED BY <3>1, <3>2
  <2> QED BY <1>2, <2>1, <2>2, <2>3 DEF Carrying
<1> QED BY <1>2, <1>3, <1>4, <1>5

LEMMA CarryStep ==
    ASSUME TypeInv, CarryInv, [Next]_vars
    PROVE  CarryInv' /\ now <= now'
<1>1. now \in Nat /\ Horizon \in Nat /\ local \in [Threads -> Locals]
  BY EnvironmentAssumption DEF TypeInv, DataOK
<1>2. CASE UNCHANGED vars \/ Tick
  <2>1. now' \in Nat /\ now <= now' /\ now' <= Horizon /\ UNCHANGED <<pc, local>>
    BY <1>1, <1>2 DEF vars, Tick, CarryInv
  <2>2. \A p \in Threads : local[p].stamp \in Nat
    BY <1>1 DEF Locals
  <2> QED BY <1>1, <2>1, <2>2 DEF CarryInv, Carrying
<1>3. ASSUME NEW p \in Threads, InKernel(p) \/ Calls(p)
      PROVE  CarryInv' /\ now <= now'
  <2>1. Carrying(p)' /\ now' = now
    BY <1>3, OwnCarrying DEF CarryInv
  <2>2. \A q \in Threads \ {p} : pc'[q] = pc[q] /\ local'[q] = local[q]
    BY <1>3, StepAlone DEF Alone
  <2>3. \A q \in Threads \ {p} : Carrying(q)'
    BY <2>1, <2>2 DEF CarryInv, Carrying
  <2> QED BY <1>1, <2>1, <2>3 DEF CarryInv
<1> QED BY <1>2, <1>3 DEF Next

LEMMA InitCarry == Init => CarryInv
BY EnvironmentAssumption DEF Init, CarryInv, Carrying, NoCall, Pushing

-----------------------------------------------------------------------------
(* The order of the timestamps *)

Sorted(q) == \A j, k \in 1 .. Len(q) : j <= k => q[j].timestamp <= q[k].timestamp

NotAfter(q, t) == \A k \in 1 .. Len(q) : q[k].timestamp <= t

\* The messages are in the order of their timestamps, none is from the future,
\* and none is younger than the one a thread is about to put behind them.
TimeInv ==
    /\ Sorted(Messages(SettledRing))
    /\ NotAfter(Messages(SettledRing), now)
    /\ \A p \in Threads : pc[p] = "fill" => NotAfter(Messages(SettledRing), local[p].stamp)

LEMMA SortedAppend ==
    ASSUME NEW q \in Seq(Handed), NEW m \in Handed, Sorted(q), NotAfter(q, m.timestamp)
    PROVE  Sorted(Append(q, m)) /\ NotAfter(Append(q, m), m.timestamp)
<1> DEFINE f == Append(q, m)
<1>1. /\ Len(q) \in Nat /\ Len(f) = Len(q) + 1
      /\ \A k \in 1 .. Len(q) : f[k] = q[k]
      /\ f[Len(q) + 1] = m
  BY AppendProperties
<1> HIDE DEF f
<1>2. NotAfter(f, m.timestamp)
  <2>1. m.timestamp <= m.timestamp
    BY DEF Handed
  <2>2. ASSUME NEW k \in 1 .. Len(f)
        PROVE  f[k].timestamp <= m.timestamp
    <3>1. CASE k \in 1 .. Len(q)
      BY <1>1, <3>1 DEF NotAfter
    <3>2. CASE k = Len(q) + 1
      BY <1>1, <2>1, <3>2
    <3> QED BY <1>1, <3>1, <3>2
  <2> QED BY <2>2 DEF NotAfter
<1>3. ASSUME NEW j \in 1 .. Len(f), NEW k \in 1 .. Len(f), j <= k
      PROVE  f[j].timestamp <= f[k].timestamp
  <2>1. CASE k \in 1 .. Len(q)
    <3>1. j \in 1 .. Len(q)
      BY <1>1, <1>3, <2>1
    <3> QED BY <1>1, <1>3, <2>1, <3>1 DEF Sorted
  <2>2. CASE k = Len(q) + 1
    BY <1>1, <1>2, <2>2 DEF NotAfter
  <2> QED BY <1>1, <2>1, <2>2
<1> QED BY <1>2, <1>3 DEF Sorted, f

LEMMA SortedTail ==
    ASSUME NEW q \in Seq(Handed), q # << >>, Sorted(q)
    PROVE  /\ Sorted(Tail(q))
           /\ \A t : NotAfter(q, t) => NotAfter(Tail(q), t)
<1> DEFINE f == Tail(q)
<1>1. /\ Len(q) \in Nat /\ Len(f) = Len(q) - 1
      /\ \A k \in 1 .. Len(q) - 1 : f[k] = q[k + 1]
  BY HeadTailProperties
<1> HIDE DEF f
<1>2. \A k \in 1 .. Len(f) : k + 1 \in 1 .. Len(q) /\ f[k] = q[k + 1]
  BY <1>1
<1>3. \A j, k \in 1 .. Len(f) : j <= k => j + 1 <= k + 1
  BY <1>1
<1>4. Sorted(f)
  BY <1>2, <1>3 DEF Sorted
<1>5. \A t : NotAfter(q, t) => NotAfter(f, t)
  BY <1>2 DEF NotAfter
<1> QED BY <1>4, <1>5 DEF f

LEMMA NotAfterLater ==
    ASSUME NEW q \in Seq(Handed), NEW t \in Nat, NEW u \in Nat, t <= u, NotAfter(q, t)
    PROVE  NotAfter(q, u)
<1>1. \A k \in 1 .. Len(q) : q[k] \in Handed
  BY ElementOfSeq
<1>2. \A k \in 1 .. Len(q) : q[k].timestamp \in Nat
  BY <1>1 DEF Handed
<1> QED BY <1>2 DEF NotAfter

LEMMA TimeInvPrimed ==
    TimeInv' <=> /\ Sorted(Messages(SettledRing'))
                 /\ NotAfter(Messages(SettledRing'), now')
                 /\ \A p \in Threads :
                        pc'[p] = "fill" => NotAfter(Messages(SettledRing'), local'[p].stamp)
BY DEF TimeInv, Sorted, NotAfter, Messages, MessageCount, MessageAt

\* Who is about to store a timestamp was so before, or has just taken it.
StampsKept ==
    \A p \in Threads : pc'[p] = "fill" =>
        \/ pc[p] = "fill" /\ local'[p].stamp = local[p].stamp
        \/ local'[p].stamp = now

LEMMA StampStep ==
    ASSUME TypeInv, [Next]_vars
    PROVE  StampsKept
<1>1. pc \in [Threads -> Labels] /\ local \in [Threads -> Locals]
  BY DEF TypeInv, DataOK
<1>2. CASE UNCHANGED vars \/ Tick
  BY <1>2 DEF vars, Tick, StampsKept
<1>3. ASSUME NEW p \in Threads, InKernel(p) \/ Calls(p)
      PROVE  StampsKept
  <2>1. \A q \in Threads \ {p} : pc'[q] = pc[q] /\ local'[q] = local[q]
    BY <1>3, StepAlone DEF Alone
  <2>2. pc'[p] = "fill" => local'[p].stamp = now
    <3>1. pc'[p] = "fill" => PushCopy(p)
      BY <1>3, FillBegins
    <3> QED BY <1>1, <3>1 DEF PushCopy, Locals
  <2> QED BY <2>1, <2>2 DEF StampsKept
<1> QED BY <1>2, <1>3 DEF Next

\* A step that puts no message into the queue.
LEMMA TimeKept ==
    ASSUME TimeInv, Messages(SettledRing) \in Seq(Handed), now \in Nat, now' \in Nat,
           now <= now', StampsKept,
           \/ Messages(SettledRing') = Messages(SettledRing)
           \/ /\ Messages(SettledRing) # << >>
              /\ Messages(SettledRing') = Tail(Messages(SettledRing))
    PROVE  TimeInv'
<1> DEFINE q == Messages(SettledRing)
<1> DEFINE f == Messages(SettledRing')
<1>1. /\ q \in Seq(Handed) /\ Sorted(q) /\ NotAfter(q, now)
      /\ \A p \in Threads : pc[p] = "fill" => NotAfter(q, local[p].stamp)
  BY DEF TimeInv
<1>2. f = q \/ (q # << >> /\ f = Tail(q))
  OBVIOUS
<1> HIDE DEF q, f
<1>3. Sorted(f) /\ \A t : NotAfter(q, t) => NotAfter(f, t)
  BY <1>1, <1>2, SortedTail
<1>4. NotAfter(q, now')
  BY <1>1, NotAfterLater
<1>5. \A p \in Threads : pc'[p] = "fill" => NotAfter(q, local'[p].stamp)
  BY <1>1 DEF StampsKept
<1>6. /\ Sorted(f) /\ NotAfter(f, now')
      /\ \A p \in Threads : pc'[p] = "fill" => NotAfter(f, local'[p].stamp)
  BY <1>3, <1>4, <1>5
<1> QED BY <1>6, TimeInvPrimed DEF f

\* Every step of the threads.
LEMMA TimeStep ==
    ASSUME SafeInv, CarryInv, TimeInv, [Next]_vars
    PROVE  TimeInv'
<1>1. /\ TypeInv /\ MutexHeldInside /\ now \in Nat /\ local \in [Threads -> Locals]
      /\ TypeInv' /\ MutexHeldInside' /\ now' \in Nat
  <2>1. TypeInv' /\ MutexHeldInside'
    BY TypeStep, MutexStep DEF SafeInv
  <2> QED BY <2>1 DEF SafeInv, TypeInv, DataOK
<1>2. Messages(SettledRing) \in Seq(Handed)
  BY SettledWindow
<1>3. now <= now' /\ StampsKept
  BY <1>1, CarryStep, StampStep
<1>4. QueueMoves
  BY QueueStep
<1>5. CASE \/ Messages(SettledRing') = Messages(SettledRing)
           \/ \E p \in Threads : HandsOut(p)
  BY <1>1, <1>2, <1>3, <1>5, TimeKept DEF HandsOut
<1>6. ASSUME NEW p \in Threads, Accepts(p)
      PROVE  TimeInv'
  <2> DEFINE q == Messages(SettledRing)
  <2> DEFINE f == Messages(SettledRing')
  <2>1. PICK data \in Payloads \cup {Zero} : f = Append(q, NewMessage(p, data))
    BY <1>6 DEF Accepts
  <2> DEFINE m == NewMessage(p, data)
  <2>2. m \in Handed /\ m.timestamp = local[p].stamp
    <3>0. local[p].count \in Nat /\ local[p].stamp \in Nat
      BY <1>1 DEF Locals
    <3>1. local[p].count % LenRange \in Lengths
      BY <3>0, LengthOf
    <3>2. Cred[p].uid \in Nat /\ Cred[p].gid \in Nat
      BY ThreadAssumption DEF Creds
    <3> QED BY <3>0, <3>1, <3>2 DEF NewMessage, Handed
  <2>3. /\ q \in Seq(Handed) /\ Sorted(q) /\ NotAfter(q, local[p].stamp)
    BY <1>2, <1>6 DEF TimeInv, Accepts
  <2>4. local[p].stamp <= now /\ local[p].stamp \in Nat
    BY <1>1, <1>6 DEF CarryInv, Carrying, Accepts, Locals
  <2>5. \A o \in Threads : pc'[o] # "fill"
    BY <1>6 DEF Accepts
  <2> HIDE DEF q, f, m
  <2>6. Sorted(f) /\ NotAfter(f, local[p].stamp) /\ f \in Seq(Handed)
    BY <2>1, <2>2, <2>3, SortedAppend, AppendProperties DEF m
  <2>7. local[p].stamp <= now'
    BY <1>1, <1>3, <2>4
  <2>8. NotAfter(f, now')
    BY <1>1, <2>4, <2>6, <2>7, NotAfterLater
  <2> QED BY <2>5, <2>6, <2>8, TimeInvPrimed DEF f
<1> QED BY <1>4, <1>5, <1>6 DEF QueueMoves

LEMMA InitTime == Init => TimeInv
<1> SUFFICES ASSUME Init PROVE TimeInv
  OBVIOUS
<1>1. Messages(SettledRing) = << >>
  BY EmptyMessages DEF Init, SettledRing, At
<1>2. \A k : ~ (k \in 1 .. Len(<< >>))
  OBVIOUS
<1> QED BY <1>1, <1>2 DEF TimeInv, Sorted, NotAfter

-----------------------------------------------------------------------------

QueueInv == SafeInv /\ CarryInv /\ TimeInv

LEMMA InitQueue == Init => QueueInv
BY InitSafe, InitCarry, InitTime DEF QueueInv

LEMMA QueueInvStep == QueueInv /\ [Next]_vars => QueueInv'
<1> SUFFICES ASSUME QueueInv, [Next]_vars PROVE QueueInv'
  OBVIOUS
<1>1. TypeInv' /\ MutexHeldInside'
  BY TypeStep, MutexStep DEF QueueInv, SafeInv
<1>2. RingInv' /\ NoSpuriousError'
  BY RingStep, ErrorStep DEF QueueInv
<1>3. CarryInv' /\ TimeInv'
  BY CarryStep, TimeStep DEF QueueInv, SafeInv
<1> QED BY <1>1, <1>2, <1>3 DEF QueueInv, SafeInv

LEMMA SortedMessages ==
    ASSUME SafeInv, TimeInv
    PROVE  TimestampsSorted
<1>1. /\ Len(Messages(SettledRing)) = MessageCount(rb)
      /\ Len(Messages(SettledRing)) \in Nat
  BY SettledWindow, LenProperties
<1> DEFINE q == Messages(SettledRing)
<1>2. Sorted(q)
  BY DEF TimeInv
<1> HIDE DEF q
<1>3. ASSUME NEW k \in 1 .. MessageCount(rb) - 1
      PROVE  q[k].timestamp <= q[k + 1].timestamp
  <2>1. k \in 1 .. Len(q) /\ k + 1 \in 1 .. Len(q) /\ k <= k + 1
    BY <1>1 DEF q
  <2> QED BY <1>2, <2>1 DEF Sorted
<1> QED BY <1>3 DEF TimestampsSorted, q

\* Whoever wrote them and however the writers raced for the mutex, the messages
\* in the buffer are in the order of their timestamps.
THEOREM TimestampsAlwaysSorted == Spec => []TimestampsSorted
<1>1. QueueInv => TimestampsSorted
  BY SortedMessages DEF QueueInv
<1> QED BY <1>1, InitQueue, QueueInvStep, PTL DEF Spec

\* A message that a thread puts into the queue is one of the messages the
\* abstract queue speaks of.
LEMMA NewMessageType ==
    ASSUME TypeInv, CarryInv, NEW p \in Threads, pc[p] = "fill", NEW data \in Payloads \cup {Zero}
    PROVE  NewMessage(p, data) \in Message
<1>1. p \in Writers /\ local[p].count \in WriteCounts /\ local[p].stamp <= now /\ now <= Horizon
  BY DEF CarryInv, Carrying, Pushing
<1>2. local[p].stamp \in Nat /\ now \in Nat
  BY DEF TypeInv, DataOK, Locals
<1>3. local[p].stamp \in 0 .. Horizon
  BY <1>1, <1>2, EnvironmentAssumption
<1> QED BY <1>1, <1>3 DEF NewMessage, Message

\* The threads with their mutex, two indices and flags per record implement the
\* bounded queue: each step of theirs accepts one message, hands out the oldest,
\* or changes nothing in it.
THEOREM PipeImplementsQueue == Spec => ImplementsQueue
<1>1. Init => Queue!Init
  BY EmptyMessages DEF Init, SettledRing, At, Queue!Init
<1>2. QueueInv /\ [Next]_vars => [Queue!Next]_(Messages(SettledRing))
  <2> SUFFICES ASSUME QueueInv, [Next]_vars
               PROVE  Queue!Next \/ Messages(SettledRing)' = Messages(SettledRing)
    OBVIOUS
  <2>1. Messages(SettledRing)' = Messages(SettledRing')
    BY DEF Messages, MessageCount, MessageAt
  <2>2. QueueMoves /\ TypeInv /\ CarryInv
    BY QueueStep DEF QueueInv, SafeInv
  <2>3. ASSUME NEW p \in Threads, Accepts(p)
        PROVE  Queue!Enqueue
    <3>1. PICK data \in Payloads \cup {Zero} :
                Messages(SettledRing') = Append(Messages(SettledRing), NewMessage(p, data))
      BY <2>3 DEF Accepts
    <3>2. NewMessage(p, data) \in Message
      BY <2>2, <2>3, NewMessageType DEF Accepts
    <3> QED BY <2>1, <2>3, <3>1, <3>2 DEF Queue!Enqueue, Accepts
  <2>4. ASSUME NEW p \in Threads, HandsOut(p)
        PROVE  Queue!Dequeue
    BY <2>1, <2>4 DEF Queue!Dequeue, HandsOut
  <2> QED BY <2>1, <2>2, <2>3, <2>4 DEF QueueMoves, Queue!Next
<1> QED BY <1>1, <1>2, InitQueue, QueueInvStep, PTL DEF Spec, ImplementsQueue, Queue!Spec

-----------------------------------------------------------------------------
(* What a reader copies before it takes the message off *)

\* Between the two steps the oldest message is the one in the scratch buffer,
\* and the reader's right to it has been looked at.
Holding(p) ==
    At(p, "release") => /\ local[p].buf = MessageAt(rb, rb.tail).data
                        /\ IsValidAccess(Cred[p], MessageAt(rb, rb.tail))

HoldInv == \A p \in Threads : Holding(p)

\* The steps to and from the label in question.
LEMMA ReleaseSteps ==
    ASSUME TypeInv, NEW p \in Threads, InKernel(p) \/ Calls(p)
    PROVE  /\ pc'[p] = "release" => PopCopy(p)
           /\ pc[p] = "release" => PopRelease(p)
<1>1. pc \in [Threads -> Labels]
  BY DEF TypeInv, DataOK
<1>2. CASE Calls(p)
  BY <1>1, <1>2 DEF Calls, kmsgpipe_read, kmsgpipe_write, Enter, StatsLock, At, Goto
<1>3. CASE TestPasses(p)
  BY <1>1, <1>3 DEF TestPasses, Goto, TypeInv, CallsTyped, At, Ops
<1>4. CASE PopCopy(p) \/ PopRelease(p)
  BY <1>1, <1>4 DEF PopCopy, PopRelease, At, Goto
<1>5. CASE InKernel(p) /\ ~ TestPasses(p) /\ ~ PopCopy(p) /\ ~ PopRelease(p)
  BY <1>1, <1>5 DEF InKernel, Lock, LockInterrupted, TestFails, Wait,
     ScanSlot, WaitOver, WaitInterrupted, Sleep, Woken, CopyFromUserFaults, PushBegin,
     PushCopy, PushRefused, PushFill, PushAdvance, WakeReaders, Unlock, PopRefused,
     PopAdvance, WakeWriters, CopyToUser, Return, StatsCount, StatsShow,
     ReturnFreeing, ReturnKeeping, ScanDone, At, Goto
<1> QED BY <1>2, <1>3, <1>4, <1>5

LEMMA HoldStep ==
    ASSUME TypeInv, MutexHeldInside, HoldInv, [Next]_vars
    PROVE  HoldInv'
<1>1. /\ pc \in [Threads -> Labels] /\ local \in [Threads -> Locals]
  BY DEF TypeInv, DataOK
<1>2. CASE UNCHANGED vars \/ Tick
  BY <1>2 DEF vars, Tick, HoldInv, Holding, At, MessageAt
<1>3. ASSUME NEW p \in Threads, InKernel(p) \/ Calls(p), NEW q \in Threads
      PROVE  Holding(q)'
  <2>1. CASE q = p
    <3>1. CASE PopCopy(p)
      <4>1. /\ rb' = rb /\ PopError(rb, Cred[p]) = 0
            /\ local'[p].buf = MessageAt(rb, rb.tail).data
        BY <1>1, <3>1 DEF PopCopy, Locals
      <4>2. IsValidAccess(Cred[p], rb.records[rb.tail])
        BY <4>1 DEF PopError, EACCES, ENODATA
      <4> QED BY <2>1, <4>1, <4>2 DEF Holding, MessageAt, IsValidAccess
    <3>2. CASE ~ PopCopy(p)
      BY <1>3, <2>1, <3>2, ReleaseSteps DEF Holding, At
    <3> QED BY <3>1, <3>2
  <2>2. CASE q # p
    <3>1. pc'[q] = pc[q] /\ local'[q] = local[q]
      BY <1>3, <2>2, StepAlone DEF Alone
    <3>2. pc[q] = "release" => rb' = rb
      BY <1>3, <2>2, RingChangedInside, OneInside DEF Critical
    <3> QED BY <3>1, <3>2 DEF HoldInv, Holding, At, MessageAt
  <2> QED BY <2>1, <2>2
<1> QED BY <1>2, <1>3 DEF Next, HoldInv

\* What a reader takes off the queue is what it has copied for its caller: the
\* oldest message, which it may read, and only that one.
THEOREM OldestRead == Spec => ReadsOldest
<1> DEFINE Reading ==
        \A p \in Threads : At(p, "release") /\ pc'[p] = "advance_tail" =>
            LET oldest == Messages(rb)[1]
            IN  /\ local[p].buf = oldest.data
                /\ local'[p].ret = oldest.len
                /\ IsValidAccess(Cred[p], oldest)
                /\ MessageCount(rb') = MessageCount(rb) - 1
<1>1. Init => HoldInv
  BY DEF Init, HoldInv, Holding, At
<1>2. SafeInv /\ HoldInv /\ [Next]_vars => HoldInv'
  BY HoldStep DEF SafeInv
<1>3. SafeInv /\ SafeInv' /\ HoldInv /\ [Next]_vars => [Reading]_vars
  <2> SUFFICES ASSUME SafeInv, SafeInv', HoldInv, Next, NEW p \in Threads, At(p, "release"),
                      pc'[p] = "advance_tail"
               PROVE  /\ local[p].buf = Messages(rb)[1].data
                      /\ local'[p].ret = Messages(rb)[1].len
                      /\ IsValidAccess(Cred[p], Messages(rb)[1])
                      /\ MessageCount(rb') = MessageCount(rb) - 1
    OBVIOUS
  <2>1. TypeInv /\ local \in [Threads -> Locals]
    BY DEF SafeInv, TypeInv, DataOK
  <2>2. PopRelease(p)
    <3>1. CASE Tick
      BY <3>1 DEF Tick, At
    <3>2. ASSUME NEW q \in Threads, InKernel(q) \/ Calls(q)
          PROVE  PopRelease(p)
      <4>1. q = p
        BY <2>1, <3>2, StepAlone DEF Alone, At
      <4> QED BY <2>1, <3>2, <4>1, ReleaseSteps DEF At
    <3> QED BY <3>1, <3>2 DEF Next
  <2>3. /\ HandsOut(p) /\ SettledRing = rb
        /\ Messages(rb)[1] = MessageAt(rb, rb.tail)
    BY <2>2, ReleaseHandsOut
  <2>4. local[p].buf = Messages(rb)[1].data /\ IsValidAccess(Cred[p], Messages(rb)[1])
    BY <2>3 DEF HoldInv, Holding
  <2>5. local'[p].ret = Messages(rb)[1].len
    BY <2>1, <2>2, <2>3 DEF PopRelease, MessageAt, Locals
  <2>6. MessageCount(rb') = MessageCount(rb) - 1
    <3>1. /\ Messages(rb) \in Seq(Handed) /\ Len(Messages(rb)) = MessageCount(rb)
          /\ Messages(rb) # << >>
      BY <2>3, SettledWindow DEF HandsOut
    <3>2. Len(Messages(SettledRing')) = MessageCount(rb')
      <4>1. (SafeInv => Len(Messages(SettledRing)) = MessageCount(rb))'
        BY SettledWindow, PTL
      <4> QED BY <4>1 DEF Messages, MessageCount, MessageAt
    <3>3. Len(Messages(SettledRing')) = Len(Messages(rb)) - 1
      BY <2>3, <3>1, HeadTailProperties DEF HandsOut
    <3> QED BY <3>1, <3>2, <3>3
  <2> QED BY <2>4, <2>5, <2>6
<1> HIDE DEF Reading
<1>4. Spec => [][Reading]_vars
  BY <1>1, <1>2, <1>3, Safe, PTL DEF Spec
<1> QED BY <1>4 DEF ReadsOldest, Reading

=============================================================================
