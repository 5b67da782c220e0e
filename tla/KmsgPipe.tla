------------------------------ MODULE KmsgPipe ------------------------------
(***************************************************************************)
(* The file operations of the kmsgpipe character device, as lab2 has them  *)
(* (kmsgpipe/labs/lab2/kmsgpipe_fops.c) and lab3 and lab4 keep them:       *)
(* threads call read() and write() on the open device, take dev->mutex,    *)
(* sleep on reader_q and writer_q, and view the debugfs file stats.  Each  *)
(* action is the code between two points at which another thread can see   *)
(* or change the shared state; pc[p] names the point thread p has reached. *)
(*                                                                         *)
(* Of Linux, modelled from how the drivers use it:                         *)
(*   - mutex_lock_interruptible fails only while another thread holds the  *)
(*     mutex and a signal is pending;                                      *)
(*   - wait_event_interruptible puts the caller on the queue, evaluates    *)
(*     its condition (here slot by slot: get_message_count runs without    *)
(*     the mutex), and sleeps unless the condition holds; a wake-up takes  *)
(*     every sleeper off the queue and each of them starts over; it fails  *)
(*     only when its condition is false and a signal is pending.  The      *)
(*     first evaluation, which precedes queueing, is left out: it only     *)
(*     lets the caller return earlier.                                     *)
(***************************************************************************)
EXTENDS KmsgRing

CONSTANTS
    Readers,        \* threads that call read()
    Writers,        \* threads that call write()
    Viewers,        \* threads that read the debugfs file stats
    Cred,           \* the credentials of every thread
    ReadCounts,     \* the counts passed to read()
    WriteCounts,    \* the counts passed to write()
    BlockModes,     \* the values of f_flags & O_NONBLOCK in use
    Signals,        \* may a signal arrive
    Faults,         \* may a copy from or to user space fail
    AllocFails,     \* may kzalloc fail
    Horizon,        \* bound on the clock
    Free,           \* the mutex has no owner
    NoBuffer        \* no scratch buffer is allocated

Threads == Readers \cup Writers \cup Viewers

ASSUME ThreadAssumption ==
    /\ Free \notin Threads
    /\ Cred \in [Threads -> Creds]
    /\ NoBuffer \notin Payloads \cup {Zero}
ASSUME CallAssumption ==
    /\ ReadCounts \subseteq Nat
    /\ WriteCounts \subseteq Nat
    /\ BlockModes \subseteq BOOLEAN
ASSUME EnvironmentAssumption ==
    /\ Signals \in BOOLEAN
    /\ Faults \in BOOLEAN
    /\ AllocFails \in BOOLEAN
    /\ Horizon \in Nat

VARIABLES
    rb,         \* dev->ring_buffer
    mutex,      \* dev->mutex: its owner, or Free
    waitq,      \* the threads on dev->reader_q ("read") and writer_q ("write")
    waiting,    \* dev->reader_waiting ("read") and writer_waiting ("write")
    now,        \* ktime_get()
    pc,         \* where every thread is
    local       \* the local variables of every thread

vars == <<rb, mutex, waitq, waiting, now, pc, local>>

Ops == {"read", "write"}

\* op, count, nonblock, data: the call and its arguments; stamp: timestamp;
\* buf: what the scratch buffer holds; len: how many bytes pop put there;
\* next, seen: the loop in get_message_count; ret: what the call returns.
NoCall == [op |-> "none", count |-> 0, nonblock |-> FALSE, data |-> Zero,
           stamp |-> 0, buf |-> NoBuffer, len |-> 0, next |-> 0, seen |-> 0,
           ret |-> 0]

Init ==
    /\ rb = EmptyRing
    /\ mutex = Free
    /\ waitq = [op \in Ops |-> {}]
    /\ waiting = [op \in Ops |-> 0]
    /\ now = 0
    /\ pc = [p \in Threads |-> "idle"]
    /\ local = [p \in Threads |-> NoCall]

-----------------------------------------------------------------------------
(* Helpers *)

At(p, label) == pc[p] = label

Goto(p, label) == pc' = [pc EXCEPT ![p] = label]

\* The call returns r; the scratch buffer it allocated is freed, or is not.
ReturnFreeing(p, r) ==
    /\ Goto(p, "return")
    /\ local' = [local EXCEPT ![p].ret = r, ![p].buf = NoBuffer]
ReturnKeeping(p, r) ==
    /\ Goto(p, "return")
    /\ local' = [local EXCEPT ![p].ret = r]

\* The message count with which the loop in read or write waits.
MustWait(op, count) == count = IF op = "read" THEN 0 ELSE Capacity

Queued(p) == p \in waitq[local[p].op]

JoinQueue(p) == waitq' = [waitq EXCEPT ![local[p].op] = @ \cup {p}]

\* A slip (see below): finish_wait without atomic_dec.
Slip_LeaveQueue(p) ==
    /\ waitq' = [waitq EXCEPT ![local[p].op] = @ \ {p}]
    /\ UNCHANGED waiting

\* finish_wait and atomic_dec.
LeaveQueue(p) ==
    /\ waitq' = [waitq EXCEPT ![local[p].op] = @ \ {p}]
    /\ waiting' = [waiting EXCEPT ![local[p].op] = @ - 1]

\* One round of the loop in get_message_count.
CountSlot(p) ==
    /\ local[p].next < Capacity
    /\ local' = [local EXCEPT
                    ![p].next = @ + 1,
                    ![p].seen = IF rb.records[local[p].next].valid THEN @ + 1 ELSE @]

\* ... which then starts again at the first slot.
Recount(p) == local' = [local EXCEPT ![p].next = 0, ![p].seen = 0]

-----------------------------------------------------------------------------
(* Slips a programmer could make in the actions below (see KmsgRing).      *)

\* The result of a failed mutex_lock_interruptible is not looked at.
Slip_Lock(p) ==
    /\ At(p, "lock") \/ At(p, "relock")
    /\ mutex' = p
    /\ Goto(p, "test")
    /\ UNCHANGED <<rb, waitq, waiting, now, local>>

\* if instead of while: after the sleep the count is not tested again.
Slip_LockNoLoop(p) ==
    /\ At(p, "lock") \/ At(p, "relock")
    /\ mutex = Free
    /\ mutex' = p
    /\ Goto(p, IF At(p, "lock") THEN "test" ELSE local[p].op)
    /\ UNCHANGED <<rb, waitq, waiting, now, local>>

\* O_NONBLOCK is not looked at.
Slip_TestFails(p) ==
    /\ At(p, "test")
    /\ MustWait(local[p].op, MessageCount(rb))
    /\ mutex' = Free
    /\ Goto(p, "wait")
    /\ UNCHANGED <<rb, waitq, waiting, now, local>>

\* To sleep without looking at the condition again once on the queue.
Slip_Wait(p) ==
    /\ At(p, "wait")
    /\ waiting' = [waiting EXCEPT ![local[p].op] = @ + 1]
    /\ JoinQueue(p)
    /\ Goto(p, "sleep")
    /\ UNCHANGED <<rb, mutex, now, local>>

\* An error return that does not unlock.
Slip_CopyFromUserFaults(p) ==
    /\ Faults
    /\ At(p, "write")
    /\ ReturnFreeing(p, -EFAULT)
    /\ UNCHANGED <<rb, mutex, waitq, waiting, now>>

\* The timestamp comes from a clock that can be set back.
Slip_PushCopy(p) ==
    /\ At(p, "write")
    /\ PushError(rb, local[p].count) = 0
    /\ rb' = CopyIn(rb, local[p].data, local[p].count)
    /\ \E t \in 0 .. now :
            local' = [local EXCEPT ![p].stamp = t, ![p].buf = local[p].data]
    /\ Goto(p, "fill")
    /\ UNCHANGED <<mutex, waitq, waiting, now>>

\* pop copies the payload of the message that was pushed last.
Slip_PopCopy(p) ==
    /\ At(p, "read")
    /\ PopError(rb, Cred[p]) = 0
    /\ local' = [local EXCEPT
                    ![p].buf = MessageAt(rb, (rb.head + Capacity - 1) % Capacity).data,
                    ![p].len = MessageAt(rb, rb.tail).len]
    /\ Goto(p, "release")
    /\ UNCHANGED <<rb, mutex, waitq, waiting, now>>

\* write wakes nobody.
Slip_WakeReaders(p) ==
    /\ At(p, "wake_readers")
    /\ Goto(p, "unlock")
    /\ UNCHANGED <<rb, mutex, waitq, waiting, now, local>>

\* stats counts without the mutex.
Slip_StatsLock(p) ==
    /\ p \in Viewers
    /\ At(p, "idle")
    /\ Goto(p, "stats")
    /\ UNCHANGED <<rb, mutex, waitq, waiting, now, local>>

-----------------------------------------------------------------------------
(* Entering read() and write(): too large a count; no memory; or on to the *)
(* mutex with a zeroed scratch buffer.                                     *)

Enter(p, op, count, nonblock, data) ==
    LET args == [NoCall EXCEPT !.op = op, !.count = count,
                               !.nonblock = nonblock, !.data = data]
    IN  /\ At(p, "idle")
        /\ \/ /\ count > DataSize
              /\ Goto(p, "return")
              /\ local' = [local EXCEPT ![p] = [args EXCEPT !.ret = -EINVAL]]
           \/ /\ count <= DataSize /\ AllocFails
              /\ Goto(p, "return")
              /\ local' = [local EXCEPT ![p] = [args EXCEPT !.ret = -ENOMEM]]
           \/ /\ count <= DataSize
              /\ Goto(p, "lock")
              /\ local' = [local EXCEPT ![p] = [args EXCEPT !.buf = Zero]]
        /\ UNCHANGED <<rb, mutex, waitq, waiting, now>>

kmsgpipe_read(p) ==
    /\ p \in Readers
    /\ \E count \in ReadCounts, nonblock \in BlockModes :
            Enter(p, "read", count, nonblock, Zero)

kmsgpipe_write(p) ==
    /\ p \in Writers
    /\ \E count \in WriteCounts, nonblock \in BlockModes, data \in Payloads :
            Enter(p, "write", count, nonblock, data)

\* mutex_lock_interruptible, before the loop ("lock") and after a sleep in it
\* ("relock").
Lock(p) ==
    /\ At(p, "lock") \/ At(p, "relock")
    /\ mutex = Free
    /\ mutex' = p
    /\ Goto(p, "test")
    /\ UNCHANGED <<rb, waitq, waiting, now, local>>

LockInterrupted(p) ==
    /\ Signals /\ mutex # Free
    /\ \/ At(p, "lock") /\ ReturnFreeing(p, -ERESTARTSYS)
       \/ At(p, "relock") /\ ReturnKeeping(p, -ERESTARTSYS)
    /\ UNCHANGED <<rb, mutex, waitq, waiting, now>>

-----------------------------------------------------------------------------
(* The loop that waits for a message, or for room *)

TestPasses(p) ==
    /\ At(p, "test")
    /\ ~ MustWait(local[p].op, MessageCount(rb))
    /\ Goto(p, local[p].op)
    /\ UNCHANGED <<rb, mutex, waitq, waiting, now, local>>

TestFails(p) ==
    /\ At(p, "test")
    /\ MustWait(local[p].op, MessageCount(rb))
    /\ mutex' = Free
    /\ IF local[p].nonblock
       THEN ReturnKeeping(p, -EAGAIN)
       ELSE Goto(p, "wait") /\ UNCHANGED local
    /\ UNCHANGED <<rb, waitq, waiting, now>>

\* atomic_inc; and on the queue before the condition is evaluated.
Wait(p) ==
    /\ At(p, "wait")
    /\ waiting' = [waiting EXCEPT ![local[p].op] = @ + 1]
    /\ JoinQueue(p)
    /\ Goto(p, "scan")
    /\ UNCHANGED <<rb, mutex, now, local>>

\* The condition, evaluated without the mutex.
ScanSlot(p) ==
    /\ At(p, "scan")
    /\ CountSlot(p)
    /\ UNCHANGED <<rb, mutex, waitq, waiting, now, pc>>

ScanDone(p) == At(p, "scan") /\ local[p].next = Capacity

WaitOver(p) ==
    /\ ScanDone(p)
    /\ ~ MustWait(local[p].op, local[p].seen)
    /\ LeaveQueue(p)
    /\ Recount(p)
    /\ Goto(p, "relock")
    /\ UNCHANGED <<rb, mutex, now>>

WaitInterrupted(p) ==
    /\ Signals
    /\ ScanDone(p)
    /\ MustWait(local[p].op, local[p].seen)
    /\ LeaveQueue(p)
    /\ ReturnKeeping(p, -ERESTARTSYS)
    /\ UNCHANGED <<rb, mutex, now>>

Sleep(p) ==
    /\ ScanDone(p)
    /\ MustWait(local[p].op, local[p].seen)
    /\ Recount(p)
    /\ Goto(p, "sleep")
    /\ UNCHANGED <<rb, mutex, waitq, waiting, now>>

\* A wake-up took the sleeper off the queue, or a signal woke it.
Woken(p) ==
    /\ At(p, "sleep")
    /\ ~ Queued(p) \/ Signals
    /\ JoinQueue(p)
    /\ Goto(p, "scan")
    /\ UNCHANGED <<rb, mutex, waiting, now, local>>

-----------------------------------------------------------------------------
(* The rest of write(), with the mutex held *)

CopyFromUserFaults(p) ==
    /\ Faults
    /\ At(p, "write")
    /\ mutex' = Free
    /\ ReturnFreeing(p, -EFAULT)
    /\ UNCHANGED <<rb, waitq, waiting, now>>

\* The timestamp, copy_from_user, and kmsgpipe_push up to its memcpy.
PushCopy(p) ==
    /\ At(p, "write")
    /\ PushError(rb, local[p].count) = 0
    /\ rb' = CopyIn(rb, local[p].data, local[p].count)
    /\ local' = [local EXCEPT ![p].stamp = now, ![p].buf = local[p].data]
    /\ Goto(p, "fill")
    /\ UNCHANGED <<mutex, waitq, waiting, now>>

PushRefused(p) ==
    /\ At(p, "write")
    /\ PushError(rb, local[p].count) # 0
    /\ local' = [local EXCEPT ![p].ret = PushError(rb, local[p].count)]
    /\ Goto(p, "unlock")
    /\ UNCHANGED <<rb, mutex, waitq, waiting, now>>

\* What kmsgpipe_push finds when it is called.
PushBegin(p) ==
    IF PushError(rb, local[p].count) = 0 THEN PushCopy(p) ELSE PushRefused(p)

PushFill(p) ==
    /\ At(p, "fill")
    /\ rb' = FillRecord(rb, local[p].count, Cred[p], local[p].stamp)
    /\ Goto(p, "advance_head")
    /\ UNCHANGED <<mutex, waitq, waiting, now, local>>

PushAdvance(p) ==
    /\ At(p, "advance_head")
    /\ rb' = AdvanceHead(rb)
    /\ local' = [local EXCEPT ![p].ret = local[p].count]
    /\ Goto(p, "wake_readers")
    /\ UNCHANGED <<mutex, waitq, waiting, now>>

WakeReaders(p) ==
    /\ At(p, "wake_readers")
    /\ waitq' = [waitq EXCEPT !["read"] = {}]
    /\ Goto(p, "unlock")
    /\ UNCHANGED <<rb, mutex, waiting, now, local>>

\* mutex_unlock and kfree.
Unlock(p) ==
    /\ At(p, "unlock")
    /\ mutex' = Free
    /\ ReturnFreeing(p, local[p].ret)
    /\ UNCHANGED <<rb, waitq, waiting, now>>

-----------------------------------------------------------------------------
(* The rest of read(), with the mutex held *)

PopRefused(p) ==
    /\ At(p, "read")
    /\ PopError(rb, Cred[p]) # 0
    /\ mutex' = Free
    /\ ReturnFreeing(p, PopError(rb, Cred[p]))
    /\ UNCHANGED <<rb, waitq, waiting, now>>

\* kmsgpipe_pop up to its memcpy of len bytes.
PopCopy(p) ==
    /\ At(p, "read")
    /\ PopError(rb, Cred[p]) = 0
    /\ local' = [local EXCEPT ![p].buf = MessageAt(rb, rb.tail).data,
                              ![p].len = MessageAt(rb, rb.tail).len]
    /\ Goto(p, "release")
    /\ UNCHANGED <<rb, mutex, waitq, waiting, now>>

PopRelease(p) ==
    /\ At(p, "release")
    /\ rb' = ReleaseTail(rb)
    /\ local' = [local EXCEPT ![p].ret = rb.records[rb.tail].len]
    /\ Goto(p, "advance_tail")
    /\ UNCHANGED <<mutex, waitq, waiting, now>>

PopAdvance(p) ==
    /\ At(p, "advance_tail")
    /\ rb' = AdvanceTail(rb)
    /\ Goto(p, "wake_writers")
    /\ UNCHANGED <<mutex, waitq, waiting, now, local>>

WakeWriters(p) ==
    /\ At(p, "wake_writers")
    /\ waitq' = [waitq EXCEPT !["write"] = {}]
    /\ Goto(p, "copyout")
    /\ UNCHANGED <<rb, mutex, waiting, now, local>>

\* copy_to_user; either way mutex_unlock and kfree follow.
CopyToUser(p) ==
    /\ At(p, "copyout")
    /\ mutex' = Free
    /\ \/ ReturnFreeing(p, local[p].ret)
       \/ Faults /\ ReturnFreeing(p, -EFAULT)
    /\ UNCHANGED <<rb, waitq, waiting, now>>

\* Back in user space; a buffer that was not freed is lost.
Return(p) ==
    /\ At(p, "return")
    /\ local' = [local EXCEPT ![p] = NoCall]
    /\ Goto(p, "idle")
    /\ UNCHANGED <<rb, mutex, waitq, waiting, now>>

-----------------------------------------------------------------------------
(* ksmgpipe_stats_show takes the mutex, whatever signal is pending, counts *)
(* the messages, prints, and releases the mutex.                           *)

StatsLock(p) ==
    /\ p \in Viewers
    /\ At(p, "idle")
    /\ mutex = Free
    /\ mutex' = p
    /\ Goto(p, "stats")
    /\ UNCHANGED <<rb, waitq, waiting, now, local>>

StatsCount(p) ==
    /\ At(p, "stats")
    /\ CountSlot(p)
    /\ UNCHANGED <<rb, mutex, waitq, waiting, now, pc>>

StatsShow(p) ==
    /\ At(p, "stats")
    /\ local[p].next = Capacity
    /\ mutex' = Free
    /\ Recount(p)
    /\ Goto(p, "idle")
    /\ UNCHANGED <<rb, waitq, waiting, now>>

-----------------------------------------------------------------------------

Tick ==
    /\ now < Horizon
    /\ now' = now + 1
    /\ UNCHANGED <<rb, mutex, waitq, waiting, pc, local>>

\* What a thread does once it is in the kernel ...
InKernel(p) ==
    \/ Lock(p) \/ LockInterrupted(p)
    \/ TestPasses(p) \/ TestFails(p) \/ Wait(p) \/ ScanSlot(p)
    \/ WaitOver(p) \/ WaitInterrupted(p) \/ Sleep(p) \/ Woken(p)
    \/ CopyFromUserFaults(p) \/ PushBegin(p) \/ PushFill(p)
    \/ PushAdvance(p) \/ WakeReaders(p) \/ Unlock(p)
    \/ PopRefused(p) \/ PopCopy(p) \/ PopRelease(p) \/ PopAdvance(p)
    \/ WakeWriters(p) \/ CopyToUser(p) \/ Return(p)
    \/ StatsCount(p) \/ StatsShow(p)

\* ... and of its own accord.
Calls(p) == kmsgpipe_read(p) \/ kmsgpipe_write(p) \/ StatsLock(p)

Next == (\E p \in Threads : InKernel(p) \/ Calls(p)) \/ Tick

Spec == Init /\ [][Next]_vars

\* A thread in the kernel goes on running, and whoever waits for the mutex gets
\* it in the end: Linux queues the waiters and hands the mutex over to one that
\* was overtaken.
Fairness == \A p \in Threads : WF_vars(InKernel(p)) /\ SF_vars(Lock(p))

FairSpec == Spec /\ Fairness

-----------------------------------------------------------------------------
(* Properties *)

Labels == {"idle", "lock", "test", "wait", "scan", "sleep", "relock", "write",
           "fill", "advance_head", "wake_readers", "unlock", "read", "release",
           "advance_tail", "wake_writers", "copyout", "return", "stats"}

Locals == [op : Ops \cup {"none"}, count : Nat, nonblock : BOOLEAN,
           data : Payloads \cup {Zero}, stamp : Nat,
           buf : Payloads \cup {Zero, NoBuffer}, len : Lengths,
           next : 0 .. Capacity, seen : 0 .. Capacity, ret : Int]

\* Every variable has its type.
TypeOK ==
    /\ rb \in Ring
    /\ mutex \in Threads \cup {Free}
    /\ waitq \in [Ops -> SUBSET Threads]
    /\ waiting \in [Ops -> Int]
    /\ now \in Nat
    /\ pc \in [Threads -> Labels]
    /\ local \in [Threads -> Locals]

Critical == {"test", "write", "fill", "advance_head", "wake_readers", "unlock",
             "read", "release", "advance_tail", "wake_writers", "copyout", "stats"}

\* The mutex is held exactly by the thread between lock and unlock: two threads
\* are never inside together, and every way out of read, write and stats_show,
\* the error returns included, has released it.
MutexHeldInside == \A p \in Threads : mutex = p <=> pc[p] \in Critical

\* The buffer as it is once the thread that is moving an index has moved it.
SettledRing ==
    IF \E p \in Threads : At(p, "advance_head") THEN AdvanceHead(rb)
    ELSE IF \E p \in Threads : At(p, "advance_tail") THEN AdvanceTail(rb)
    ELSE rb

\* At every point of every interleaving the valid records are one contiguous
\* run of slots from tail on, up to the index that is being moved.
WindowKept == IsWindow(SettledRing)

\* A thread that got past the wait loop is never told that the buffer is full
\* (write) or empty (read): what the loop tested still holds when push and pop
\* look at their one record.
NoSpuriousError == \A p \in Threads : local[p].ret \notin {-ENOSPC, -ENODATA}

\* The numbers of waiting readers and writers that stats and ioctl report are
\* the numbers of threads inside wait_event, and nobody else is on a queue.
WaitersCounted ==
    \A op \in Ops :
        LET inside == {p \in Threads : pc[p] \in {"scan", "sleep"} /\ local[p].op = op}
        IN  waiting[op] = Cardinality(inside) /\ waitq[op] \subseteq inside

\* The labels of a thread that has still to wake the sleepers of the other kind.
WillWake(op) ==
    IF op = "read" THEN {"advance_head", "wake_readers"}
    ELSE {"advance_tail", "wake_writers"}

\* No lost wake-up, although the condition is evaluated without the mutex and
\* slot by slot: whoever sleeps on a queue either has reason to, or somebody
\* is about to wake it.
NoLostWakeup ==
    \A p \in Threads : At(p, "sleep") /\ Queued(p) =>
        \/ MustWait(local[p].op, MessageCount(rb))
        \/ \E q \in Threads : pc[q] \in WillWake(local[p].op)

\* What stats prints as the message count is the number of messages in the
\* buffer at that moment.
StatsExact ==
    \A p \in Threads : At(p, "stats") /\ local[p].next = Capacity =>
        local[p].seen = MessageCount(rb)

\* The queued messages are in timestamp order, whoever wrote them: the cleanup
\* of lab4 stops at the first message that has not expired.
TimestampsSorted ==
    LET q == Messages(SettledRing)
    IN  \A k \in 1 .. MessageCount(rb) - 1 : q[k].timestamp <= q[k + 1].timestamp

\* The threads together implement one bounded queue: a message enters it when
\* its record is filled, leaves it when its record is released, and nothing
\* else that any thread does changes, reorders or duplicates a message.
Message == [data : Payloads \cup {Zero}, len : {n % LenRange : n \in WriteCounts},
            uid : {Cred[p].uid : p \in Writers}, gid : {Cred[p].gid : p \in Writers},
            timestamp : 0 .. Horizon]
Queue == INSTANCE MsgQueue WITH queue <- Messages(SettledRing),
                                Cutoffs <- {}
ImplementsQueue == Queue!Spec

\* What a reader takes off the queue is what it has copied out for its caller:
\* the oldest message, which the reader has the right to read.
ReadsOldest ==
    [][\A p \in Threads : At(p, "release") /\ pc'[p] = "advance_tail" =>
        LET oldest == Messages(rb)[1]
        IN  /\ local[p].buf = oldest.data
            /\ local'[p].ret = oldest.len
            /\ IsValidAccess(Cred[p], oldest)
            /\ MessageCount(rb') = MessageCount(rb) - 1]_vars

\* Under fairness a sleeper whose condition has come true does not sleep on
\* while it stays true.
SleeperServed ==
    \A p \in Threads :
        At(p, "sleep") /\ ~ MustWait(local[p].op, MessageCount(rb))
            ~> (~ At(p, "sleep") \/ MustWait(local[p].op, MessageCount(rb)))

\* Under fairness a call with O_NONBLOCK returns, whatever the others do.
NonblockingReturns ==
    \A p \in Threads : At(p, "lock") /\ local[p].nonblock ~> At(p, "return")

-----------------------------------------------------------------------------
(* What a comment says, and the code does not do. *)

\* "free temporary allocated buffer": no call returns with its scratch buffer
\* still allocated.
ScratchFreed == \A p \in Threads : At(p, "return") => local[p].buf = NoBuffer

=============================================================================
