----------------------------- MODULE KmsgIoctl -----------------------------
(***************************************************************************)
(* The ioctl interface that lab3 adds to the device of lab2                *)
(* (kmsgpipe/labs/lab3/kmsgpipe_fops.c): queries, the expiry time, and     *)
(* KMSGPIPE_IOC_CLEAR, which empties the buffer.  kmsgpipe_ioctl takes no  *)
(* lock: it counts messages and clears the buffer step by step while       *)
(* readers and writers hold, or do not hold, the mutex.  A memset of the   *)
(* records goes slot by slot; that of the payload area is one step.        *)
(***************************************************************************)
EXTENDS KmsgPipe

CONSTANTS
    Controllers,    \* threads that call ioctl()
    Capabilities,   \* may capable(CAP_SYS_ADMIN) be TRUE, FALSE, or either
    Commands,       \* the commands they issue
    ExpiryTimes,    \* the values they set as expiry time
    DefaultExpiry   \* DEFAULT_EXPIRY_MS

Queries == {"G_DATA_SIZE", "G_CAPACITY", "G_MSG_COUNT", "G_READERS", "G_WRITERS",
            "G_EXPIRY_MS"}

\* Commands with another magic or a number above KMSGPIPE_IOC_MAXNR, and those
\* that pass both tests without being one of the eight.
OutOfRange == {"bad_magic", "nr_above_max"}
Undefined == {"not_in_switch"}

ASSUME ControlAssumption ==
    /\ Controllers \cap (Threads \cup {Free}) = {}
    /\ Capabilities \subseteq BOOLEAN
    /\ Commands \subseteq
            Queries \cup OutOfRange \cup Undefined \cup {"S_EXPIRY_MS", "CLEAR"}
    /\ ExpiryTimes \subseteq Int
    /\ DefaultExpiry \in Nat

VARIABLES
    expiry_ms,  \* static long expiry_ms
    ctl         \* what every controller does

ioctlVars == <<vars, expiry_ms, ctl>>

\* at: where it is; next, seen: its loop over the slots; ret: what the call
\* returned; out: what it stored for its caller.
NoIoctl == [at |-> "idle", cmd |-> "none", next |-> 0, seen |-> 0, ret |-> 0, out |-> 0]

IoctlInit ==
    /\ Init
    /\ expiry_ms = DefaultExpiry
    /\ ctl = [c \in Controllers |-> NoIoctl]

-----------------------------------------------------------------------------

Step(c, at) == ctl' = [ctl EXCEPT ![c].at = at, ![c].next = 0]

Finish(c, cmd, ret, out) ==
    ctl' = [ctl EXCEPT ![c] = [NoIoctl EXCEPT !.at = "return", !.cmd = cmd,
                                              !.ret = ret, !.out = out]]

Privileged(cmd) == cmd \in {"S_EXPIRY_MS", "CLEAR"}

\* What a query that reads a single variable stores.
Answer(cmd) ==
    CASE cmd = "G_DATA_SIZE" -> DataSize
      [] cmd = "G_CAPACITY" -> Capacity
      [] cmd = "G_READERS" -> waiting["read"]
      [] cmd = "G_WRITERS" -> waiting["write"]
      [] cmd = "G_EXPIRY_MS" -> expiry_ms

\* Refused, or through the switch without a case.
IoctlRejected(c, cmd) ==
    /\ ctl[c].at = "idle"
    /\ \/ cmd \in OutOfRange /\ Finish(c, cmd, -ENOTTY, 0)
       \/ cmd \in Undefined /\ Finish(c, cmd, 0, 0)
       \/ Privileged(cmd) /\ FALSE \in Capabilities /\ Finish(c, cmd, -EPERM, 0)
    /\ UNCHANGED <<vars, expiry_ms>>

\* put_user fails or stores the answer.
IoctlQuery(c, cmd) ==
    /\ ctl[c].at = "idle"
    /\ cmd \in Queries \ {"G_MSG_COUNT"}
    /\ \/ Faults /\ Finish(c, cmd, -EFAULT, 0)
       \/ Finish(c, cmd, 0, Answer(cmd))
    /\ UNCHANGED <<vars, expiry_ms>>

\* get_user stores the new time, or fails and stores 0.
IoctlSetExpiry(c, cmd) ==
    /\ ctl[c].at = "idle"
    /\ cmd = "S_EXPIRY_MS" /\ TRUE \in Capabilities
    /\ \/ expiry_ms' \in ExpiryTimes /\ Finish(c, cmd, 0, 0)
       \/ Faults /\ expiry_ms' = 0 /\ Finish(c, cmd, -EFAULT, 0)
    /\ UNCHANGED vars

\* The commands that go over the slots, without the mutex.
IoctlLoops(c, cmd) ==
    /\ ctl[c].at = "idle"
    /\ \/ cmd = "G_MSG_COUNT" /\ ctl' = [ctl EXCEPT ![c].at = "count", ![c].cmd = cmd]
       \/ /\ cmd = "CLEAR" /\ TRUE \in Capabilities
          /\ ctl' = [ctl EXCEPT ![c].at = "base", ![c].cmd = cmd]
    /\ UNCHANGED <<vars, expiry_ms>>

kmsgpipe_ioctl(c) ==
    \E cmd \in Commands :
        \/ IoctlRejected(c, cmd) \/ IoctlQuery(c, cmd)
        \/ IoctlSetExpiry(c, cmd) \/ IoctlLoops(c, cmd)

CountStep(c) ==
    /\ ctl[c].at = "count"
    /\ IF ctl[c].next < Capacity
       THEN ctl' = [ctl EXCEPT ![c].next = @ + 1,
                        ![c].seen = IF rb.records[ctl[c].next].valid THEN @ + 1 ELSE @]
       ELSE \/ Finish(c, ctl[c].cmd, 0, ctl[c].seen)
            \/ Faults /\ Finish(c, ctl[c].cmd, -EFAULT, 0)
    /\ UNCHANGED <<vars, expiry_ms>>

(* kmsgpipe_clear.  Its count decides nothing, ioctl returns 0 in any case. *)

ClearBase(c) ==
    /\ ctl[c].at = "base"
    /\ rb' = [rb EXCEPT !.base = EmptyRing.base]
    /\ Step(c, "records")
    /\ UNCHANGED <<mutex, waitq, waiting, now, pc, local, expiry_ms>>

ClearRecord(c) ==
    /\ ctl[c].at = "records"
    /\ rb' = [rb EXCEPT !.records[ctl[c].next] = ZeroRecord]
    /\ IF ctl[c].next + 1 < Capacity
       THEN ctl' = [ctl EXCEPT ![c].next = @ + 1]
       ELSE Step(c, "head")
    /\ UNCHANGED <<mutex, waitq, waiting, now, pc, local, expiry_ms>>

ClearHead(c) ==
    /\ ctl[c].at = "head"
    /\ rb' = [rb EXCEPT !.head = 0]
    /\ Step(c, "tail")
    /\ UNCHANGED <<mutex, waitq, waiting, now, pc, local, expiry_ms>>

ClearTail(c) ==
    /\ ctl[c].at = "tail"
    /\ rb' = [rb EXCEPT !.tail = 0]
    /\ Step(c, "valid")
    /\ UNCHANGED <<mutex, waitq, waiting, now, pc, local, expiry_ms>>

ClearValid(c) ==
    /\ ctl[c].at = "valid"
    /\ rb' = [rb EXCEPT !.records[ctl[c].next].valid = FALSE]
    /\ IF ctl[c].next + 1 < Capacity
       THEN ctl' = [ctl EXCEPT ![c].next = @ + 1]
       ELSE Finish(c, ctl[c].cmd, 0, 0)
    /\ UNCHANGED <<mutex, waitq, waiting, now, pc, local, expiry_ms>>

IoctlReturn(c) ==
    /\ ctl[c].at = "return"
    /\ ctl' = [ctl EXCEPT ![c] = NoIoctl]
    /\ UNCHANGED <<vars, expiry_ms>>

InIoctl(c) ==
    \/ CountStep(c) \/ ClearBase(c) \/ ClearRecord(c) \/ ClearHead(c)
    \/ ClearTail(c) \/ ClearValid(c) \/ IoctlReturn(c)

IoctlNext ==
    \/ Next /\ UNCHANGED <<expiry_ms, ctl>>
    \/ \E c \in Controllers : kmsgpipe_ioctl(c) \/ InIoctl(c)

IoctlSpec == IoctlInit /\ [][IoctlNext]_ioctlVars

IoctlFairSpec ==
    /\ IoctlSpec
    /\ \A p \in Threads :
            /\ WF_ioctlVars(InKernel(p) /\ UNCHANGED <<expiry_ms, ctl>>)
            /\ SF_ioctlVars(Lock(p) /\ UNCHANGED <<expiry_ms, ctl>>)
    /\ \A c \in Controllers : WF_ioctlVars(InIoctl(c))

-----------------------------------------------------------------------------
(* Properties *)

IoctlTypeOK ==
    /\ TypeOK
    /\ expiry_ms \in Int
    /\ ctl \in [Controllers ->
            [at : {"idle", "count", "base", "records", "head", "tail", "valid", "return"},
             cmd : Commands \cup {"none"}, next : 0 .. Capacity, seen : 0 .. Capacity,
             ret : Int, out : Int]]

\* A CLEAR in the middle of anything strands no reader: whoever sleeps on
\* reader_q sleeps on an empty buffer, or is about to be woken.
ReadersNotStranded ==
    \A p \in Threads : At(p, "sleep") /\ Queued(p) /\ local[p].op = "read" =>
        \/ MessageCount(rb) = 0
        \/ \E q \in Threads : pc[q] \in WillWake("read")

\* "Access serialized by `mutex` and wait queues": when nobody is inside read,
\* write or clear, the buffer is a proper queue.
QuietRingIsWindow ==
    (mutex = Free /\ \A c \in Controllers : ctl[c].at \in {"idle", "return"})
        => IsWindow(rb)

\* "Readers block when empty, writers block when full": a writer does not sleep
\* on for ever while the buffer has room for it.
WriterServed ==
    \A p \in Writers :
        At(p, "sleep") /\ local[p].op = "write" /\ MessageCount(rb) < Capacity
            ~> (~ At(p, "sleep") \/ MessageCount(rb) = Capacity)

=============================================================================
