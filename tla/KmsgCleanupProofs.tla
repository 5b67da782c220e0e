------------------------- MODULE KmsgCleanupProofs -------------------------
(***************************************************************************)
(* The threads of read and write beside the ioctl interface of lab3 and    *)
(* the worker of lab4.  The steps of the threads are those of KmsgPipe, so *)
(* that its invariants are preserved by them for the reasons given there;  *)
(* what remains is what a controller and the worker do to those            *)
(* invariants.                                                             *)
(*                                                                         *)
(* A CLEAR takes no mutex and breaks the shape of the buffer.  The types,  *)
(* the mutex and the wake-up of readers survive it; what speaks of the     *)
(* order and number of the messages is proved for the device on which no   *)
(* CLEAR is issued.                                                        *)
(***************************************************************************)
EXTENDS KmsgCleanup, KmsgPipeQueue

\* One step of a controller.
Controls(c) == kmsgpipe_ioctl(c) \/ InIoctl(c)

CtlRecord ==
    [at : {"idle", "count", "base", "records", "head", "tail", "valid", "return"},
     cmd : Commands \cup {"none"}, next : 0 .. Capacity, seen : 0 .. Capacity,
     ret : Int, out : Int]

\* The count of a controller is no higher than the number of slots it has seen.
CtlOK ==
    /\ expiry_ms \in Int
    /\ ctl \in [Controllers -> CtlRecord]
    /\ \A c \in Controllers :
            /\ ctl[c].at = "idle" => ctl[c].next = 0 /\ ctl[c].seen = 0
            /\ ctl[c].at = "count" => ctl[c].seen <= ctl[c].next

\* What a controller leaves alone, and what a CLEAR does to the records.
OnlyDrops ==
    /\ UNCHANGED <<mutex, waitq, waiting, now, pc, local>>
    /\ rb' \in Ring
    /\ \A i \in Slots : rb'.records[i].valid => rb.records[i].valid

-----------------------------------------------------------------------------
(* The steps of the controllers *)

LEMMA NoIoctlType ==
    /\ NoIoctl \in CtlRecord
    /\ NoIoctl.at = "idle" /\ NoIoctl.next = 0 /\ NoIoctl.seen = 0
BY CapacityAssumption DEF NoIoctl, CtlRecord

\* A step that gives controller c a new state of the right type.
LEMMA CtlStep ==
    ASSUME CtlOK, NEW c \in Controllers, NEW s \in CtlRecord,
           ctl' = [ctl EXCEPT ![c] = s], expiry_ms' \in Int,
           s.at = "idle" => s.next = 0 /\ s.seen = 0,
           s.at = "count" => s.seen <= s.next
    PROVE  CtlOK'
BY DEF CtlOK

LEMMA FinishType ==
    ASSUME CtlOK, NEW c \in Controllers, NEW cmd \in Commands \cup {"none"},
           NEW ret \in Int, NEW out \in Int,
           Finish(c, cmd, ret, out), expiry_ms' \in Int
    PROVE  CtlOK'
<1> DEFINE s == [NoIoctl EXCEPT !.at = "return", !.cmd = cmd, !.ret = ret, !.out = out]
<1>1. s \in CtlRecord /\ s.at = "return"
  BY NoIoctlType DEF CtlRecord
<1>2. ctl' = [ctl EXCEPT ![c] = s]
  BY DEF Finish
<1> HIDE DEF s
<1> QED BY <1>1, <1>2, CtlStep

LEMMA CtlErrors ==
    -ENOTTY \in Int /\ -EPERM \in Int /\ -EFAULT \in Int
BY DEF ENOTTY, EPERM, EFAULT

LEMMA AnswerType ==
    ASSUME DataOK, CtlOK, NEW cmd \in Queries \ {"G_MSG_COUNT"}
    PROVE  Answer(cmd) \in Int
<1>1. /\ DataSize \in Int /\ Capacity \in Int /\ expiry_ms \in Int
      /\ waiting["read"] \in Int /\ waiting["write"] \in Int
  BY CapacityAssumption, DataSizeAssumption DEF DataOK, CtlOK, Ops
<1> QED BY <1>1 DEF Answer, Queries

\* Entering ioctl() changes nothing the threads see.
LEMMA IoctlType ==
    ASSUME DataOK, CtlOK, NEW c \in Controllers, kmsgpipe_ioctl(c)
    PROVE  CtlOK' /\ UNCHANGED vars
<1>1. PICK cmd \in Commands :
            \/ IoctlRejected(c, cmd) \/ IoctlQuery(c, cmd)
            \/ IoctlSetExpiry(c, cmd) \/ IoctlLoops(c, cmd)
  BY DEF kmsgpipe_ioctl
<1>2. UNCHANGED vars
  BY <1>1 DEF IoctlRejected, IoctlQuery, IoctlSetExpiry, IoctlLoops
<1>3. \A ret \in Int, out \in Int :
            Finish(c, cmd, ret, out) /\ expiry_ms' \in Int => CtlOK'
  BY FinishType
<1>4. CASE IoctlRejected(c, cmd)
  <2>1. /\ \/ Finish(c, cmd, -ENOTTY, 0)
           \/ Finish(c, cmd, 0, 0)
           \/ Finish(c, cmd, -EPERM, 0)
        /\ expiry_ms' \in Int
    BY <1>4 DEF IoctlRejected, CtlOK
  <2> QED BY <1>2, <1>3, <2>1, CtlErrors
<1>5. CASE IoctlQuery(c, cmd) \/ IoctlSetExpiry(c, cmd)
  <2>1. cmd \in Queries \ {"G_MSG_COUNT"} => Answer(cmd) \in Int
    BY AnswerType
  <2>2. ExpiryTimes \subseteq Int
    BY ControlAssumption
  <2>3. PICK ret \in Int, out \in Int : Finish(c, cmd, ret, out) /\ expiry_ms' \in Int
    <3>1. CASE IoctlQuery(c, cmd)
      BY <2>1, <3>1, CtlErrors DEF IoctlQuery, CtlOK
    <3>2. CASE IoctlSetExpiry(c, cmd)
      <4>1. /\ expiry_ms' \in ExpiryTimes \cup {0}
            /\ Finish(c, cmd, 0, 0) \/ Finish(c, cmd, -EFAULT, 0)
        BY <3>2 DEF IoctlSetExpiry
      <4>2. expiry_ms' \in Int
        BY <2>2, <4>1
      <4> QED BY <4>1, <4>2, CtlErrors
    <3> QED BY <1>5, <3>1, <3>2
  <2> QED BY <1>2, <1>3, <2>3
<1>6. CASE IoctlLoops(c, cmd)
  <2> DEFINE s(at) == [ctl[c] EXCEPT !.at = at, !.cmd = cmd]
  <2>1. /\ ctl[c].at = "idle" /\ expiry_ms' = expiry_ms
        /\ \/ ctl' = [ctl EXCEPT ![c] = s("count")]
           \/ ctl' = [ctl EXCEPT ![c] = s("base")]
    BY <1>6 DEF IoctlLoops, CtlOK
  <2>2. ctl[c] \in CtlRecord /\ ctl[c].next = 0 /\ ctl[c].seen = 0
    BY <2>1 DEF CtlOK
  <2>3. ASSUME NEW at \in {"count", "base"}
        PROVE  /\ s(at) \in CtlRecord /\ s(at).at = at
               /\ s(at).next = 0 /\ s(at).seen = 0
    BY <2>2 DEF CtlRecord
  <2> HIDE DEF s
  <2>4. PICK at \in {"count", "base"} : ctl' = [ctl EXCEPT ![c] = s(at)]
    BY <2>1
  <2>5. expiry_ms' \in Int
    BY <2>1 DEF CtlOK
  <2>6. /\ s(at) \in CtlRecord /\ s(at).at # "idle"
        /\ s(at).seen <= s(at).next
    BY <2>3
  <2>7. CtlOK'
    BY <2>4, <2>5, <2>6, CtlStep
  <2> QED BY <1>2, <2>7
<1> QED BY <1>1, <1>4, <1>5, <1>6

LEMMA InIoctlType ==
    ASSUME DataOK, CtlOK, NEW c \in Controllers, InIoctl(c)
    PROVE  CtlOK' /\ OnlyDrops
<1>1. /\ rb \in Ring /\ ctl[c] \in CtlRecord /\ expiry_ms \in Int
      /\ Capacity \in Nat /\ ctl[c].next \in 0 .. Capacity /\ ctl[c].seen \in 0 .. Capacity
      /\ ctl[c].cmd \in Commands \cup {"none"}
  BY CapacityAssumption DEF DataOK, CtlOK, CtlRecord
<1> DEFINE Same == UNCHANGED <<vars, expiry_ms>>
<1>2. Same => OnlyDrops
  BY <1>1 DEF OnlyDrops, vars
<1>3. \A at \in {"records", "head", "tail", "valid"} :
            Step(c, at) /\ expiry_ms' = expiry_ms => CtlOK'
  <2> SUFFICES ASSUME NEW at \in {"records", "head", "tail", "valid"}, Step(c, at),
                      expiry_ms' = expiry_ms
               PROVE  CtlOK'
    OBVIOUS
  <2> DEFINE s == [ctl[c] EXCEPT !.at = at, !.next = 0]
  <2>1. s \in CtlRecord /\ s.at = at
    <3>1. 0 \in 0 .. Capacity
      BY <1>1
    <3> QED BY <1>1, <3>1 DEF CtlRecord
  <2>2. ctl' = [ctl EXCEPT ![c] = s]
    BY DEF Step, CtlOK
  <2> HIDE DEF s
  <2> QED BY <1>1, <2>1, <2>2, CtlStep
<1>4. ctl[c].at \in {"records", "valid"} /\ ctl[c].next + 1 < Capacity
      /\ ctl' = [ctl EXCEPT ![c].next = @ + 1] /\ expiry_ms' = expiry_ms => CtlOK'
  <2> SUFFICES ASSUME ctl[c].at \in {"records", "valid"}, ctl[c].next + 1 < Capacity,
                      ctl' = [ctl EXCEPT ![c].next = @ + 1], expiry_ms' = expiry_ms
               PROVE  CtlOK'
    OBVIOUS
  <2> DEFINE s == [ctl[c] EXCEPT !.next = ctl[c].next + 1]
  <2>1. s \in CtlRecord /\ s.at = ctl[c].at
    BY <1>1 DEF CtlRecord
  <2>2. ctl' = [ctl EXCEPT ![c] = s]
    BY DEF CtlOK
  <2> HIDE DEF s
  <2> QED BY <1>1, <2>1, <2>2, CtlStep
<1>5. \A ret \in Int, out \in Int :
            Finish(c, ctl[c].cmd, ret, out) /\ expiry_ms' \in Int => CtlOK'
  BY <1>1, FinishType
<1>6. CASE CountStep(c)
  <2>1. OnlyDrops
    BY <1>2, <1>6 DEF CountStep
  <2>2. ctl[c].at = "count" /\ ctl[c].seen <= ctl[c].next /\ expiry_ms' \in Int
    BY <1>1, <1>6 DEF CountStep, CtlOK
  <2>3. CASE ctl[c].next < Capacity
    <3> DEFINE more == IF rb.records[ctl[c].next].valid THEN ctl[c].seen + 1 ELSE ctl[c].seen
    <3> DEFINE s == [ctl[c] EXCEPT !.next = ctl[c].next + 1, !.seen = more]
    <3>1. ctl' = [ctl EXCEPT ![c] = s]
      BY <1>6, <2>3 DEF CountStep, CtlOK, CtlRecord
    <3>2. more \in 0 .. Capacity /\ more <= ctl[c].next + 1
      BY <1>1, <2>2, <2>3
    <3> HIDE DEF more
    <3>3. s \in CtlRecord /\ s.at = "count" /\ s.seen <= s.next
      <4>1. ctl[c].next + 1 \in 0 .. Capacity
        BY <1>1, <2>3
      <4>2. s.seen = more /\ s.next = ctl[c].next + 1 /\ s.at = "count"
        BY <1>1, <2>2 DEF CtlRecord
      <4>3. s \in CtlRecord
        BY <1>1, <3>2, <4>1 DEF CtlRecord
      <4> HIDE DEF s
      <4> QED BY <3>2, <4>2, <4>3
    <3> HIDE DEF s
    <3> QED BY <2>1, <2>2, <3>1, <3>3, CtlStep
  <2>4. CASE ~ (ctl[c].next < Capacity)
    <3>1. \/ Finish(c, ctl[c].cmd, 0, ctl[c].seen)
          \/ Finish(c, ctl[c].cmd, -EFAULT, 0)
      BY <1>6, <2>4 DEF CountStep
    <3>2. ctl[c].seen \in Int
      BY <1>1
    <3> QED BY <1>5, <2>1, <2>2, <3>1, <3>2, CtlErrors
  <2> QED BY <2>3, <2>4
<1>7. CASE ClearBase(c)
  <2>1. EmptyRing.base \in [Slots -> Payloads \cup {Zero}]
    BY DEF EmptyRing
  <2>2. OnlyDrops
    BY <1>1, <1>7, <2>1 DEF ClearBase, OnlyDrops, Ring
  <2> QED BY <1>3, <1>7, <2>2 DEF ClearBase
<1>8. CASE ClearRecord(c)
  <2>1. ZeroRecord \in Record /\ ZeroRecord.valid = FALSE
    BY DEF ZeroRecord, Record, Lengths, LenRange
  <2>2. OnlyDrops
    <3> HIDE DEF ZeroRecord
    <3> QED BY <1>1, <1>8, <2>1 DEF ClearRecord, OnlyDrops, Ring
  <2> QED BY <1>3, <1>4, <1>8, <2>2 DEF ClearRecord
<1>9. CASE ClearHead(c) \/ ClearTail(c)
  <2>1. 0 \in Slots
    BY CapacityAssumption DEF Slots
  <2>2. OnlyDrops
    BY <1>1, <1>9, <2>1 DEF ClearHead, ClearTail, OnlyDrops, Ring
  <2> QED BY <1>3, <1>9, <2>2 DEF ClearHead, ClearTail
<1>10. CASE ClearValid(c)
  <2> DEFINE i == ctl[c].next
  <2>1. /\ rb' = [rb EXCEPT !.records[i].valid = FALSE]
        /\ UNCHANGED <<mutex, waitq, waiting, now, pc, local>>
    BY <1>10 DEF ClearValid
  <2> HIDE DEF i
  <2>2. rb' \in Ring /\ \A k \in Slots : rb'.records[k].valid => rb.records[k].valid
    <3>1. /\ rb' = [rb EXCEPT !.records = rb'.records]
          /\ rb'.records \in [Slots -> Record]
          /\ \A k \in Slots : rb'.records[k].valid => rb.records[k].valid
      <4>1. CASE i \in Slots
        <5> DEFINE rec == [rb.records[i] EXCEPT !.valid = FALSE]
        <5>1. /\ rb' = [rb EXCEPT !.records = rb'.records]
              /\ rb'.records = [rb.records EXCEPT ![i] = rec]
          BY <1>1, <2>1 DEF Ring
        <5>2. rec \in Record /\ rec.valid = FALSE
          BY <1>1, <4>1 DEF Ring, Record
        <5>3. rb.records \in [Slots -> Record]
          BY <1>1 DEF Ring
        <5> HIDE DEF rec
        <5>4. \A k \in Slots : rb'.records[k] = IF k = i THEN rec ELSE rb.records[k]
          BY <4>1, <5>1, <5>3
        <5>5. \A k \in Slots : rb'.records[k].valid => rb.records[k].valid
          BY <5>2, <5>4
        <5> QED BY <4>1, <5>1, <5>2, <5>3, <5>5
      <4>2. CASE i \notin Slots
        BY <1>1, <2>1, <4>2 DEF Ring
      <4> QED BY <4>1, <4>2
    <3> QED BY <1>1, <3>1 DEF Ring
  <2>3. OnlyDrops
    BY <2>1, <2>2 DEF OnlyDrops
  <2>4. CtlOK'
    <3>1. CASE ctl[c].next + 1 < Capacity
      BY <1>4, <1>10, <3>1 DEF ClearValid
    <3>2. CASE ~ (ctl[c].next + 1 < Capacity)
      <4>1. Finish(c, ctl[c].cmd, 0, 0) /\ expiry_ms' \in Int
        BY <1>1, <1>10, <3>2 DEF ClearValid
      <4> QED BY <1>5, <4>1
    <3> QED BY <3>1, <3>2
  <2> QED BY <2>3, <2>4
<1>11. CASE IoctlReturn(c)
  <2>1. OnlyDrops
    BY <1>2, <1>11 DEF IoctlReturn
  <2>2. ctl' = [ctl EXCEPT ![c] = NoIoctl] /\ expiry_ms' = expiry_ms
    BY <1>11 DEF IoctlReturn
  <2>3. ~ (NoIoctl.at = "count")
    BY NoIoctlType
  <2> QED BY <1>1, <2>1, <2>2, <2>3, NoIoctlType, CtlStep
<1> HIDE DEF Same
<1> QED BY <1>6, <1>7, <1>8, <1>9, <1>10, <1>11 DEF InIoctl

LEMMA ControlStep ==
    ASSUME DataOK, CtlOK, NEW c \in Controllers, Controls(c)
    PROVE  CtlOK' /\ OnlyDrops
<1>1. CASE kmsgpipe_ioctl(c)
  BY <1>1, IoctlType DEF OnlyDrops, vars, DataOK
<1>2. CASE InIoctl(c)
  BY <1>2, InIoctlType
<1> QED BY <1>1, <1>2 DEF Controls

-----------------------------------------------------------------------------
(* Types and sleeping readers beside controllers that may CLEAR            *)

\* The invariant of the wake-ups, for the threads in read alone: a step that
\* only invalidates records takes no reader's reason to wait away.
ReadScan == \A p \in Threads : local[p].op = "read" => ScanInv(p)

LEMMA ReadScanStep ==
    ASSUME TypeInv, ReadScan, [Next]_vars
    PROVE  ReadScan'
<1>1. local \in [Threads -> Locals] /\ pc \in [Threads -> Labels]
  BY DEF TypeInv, DataOK
<1>2. CASE UNCHANGED vars \/ Tick
  BY <1>2 DEF vars, Tick, ReadScan, ScanInv, Zeroed, At, Blocked, WakerOnItsWay, NoReason
<1>3. ASSUME NEW p \in Threads, InKernel(p) \/ Calls(p), NEW q \in Threads,
             local'[q].op = "read"
      PROVE  ScanInv(q)'
  <2>1. CASE q # p
    <3>1. Alone(p) /\ \A op \in Ops : Harmless(p, op)
      BY <1>3, StepAlone, StepHarmless
    <3>2. local[q].op = "read"
      BY <1>3, <2>1, <3>1 DEF Alone
    <3> QED BY <2>1, <3>1, <3>2, OthersScan DEF ReadScan
  <2>2. CASE q = p /\ local[p].op = "read"
    BY <1>3, <2>2, OwnScan DEF ReadScan
  <2>3. CASE q = p /\ local[p].op # "read"
    <3>1. ~ (InKernel(p) /\ ~ Return(p))
      BY <1>3, <2>3, CallKept
    <3>2. ~ Return(p)
      <4>1. Return(p) => local'[p] = NoCall
        BY <1>1 DEF Return
      <4>2. NoCall.op # "read"
        BY DEF NoCall
      <4> QED BY <1>3, <2>3, <4>1, <4>2
    <3>3. CASE StatsLock(p)
      BY <1>3, <2>3, <3>3 DEF StatsLock
    <3>4. CASE kmsgpipe_read(p) \/ kmsgpipe_write(p)
      <4>1. PICK op, count, nonblock, data : Enter(p, op, count, nonblock, data)
        BY <3>4 DEF kmsgpipe_read, kmsgpipe_write
      <4>2. pc'[p] \in {"return", "lock"}
        BY <1>1, <4>1 DEF Enter, Goto
      <4>3. pc[p] = "idle"
        BY <4>1 DEF Enter, At
      <4>4. Zeroed(p)'
        BY <1>3, <4>3, OwnZeroed DEF Zeroed, NotScanning
      <4> QED BY <2>3, <4>2, <4>4 DEF ScanInv, At
    <3> QED BY <1>3, <3>1, <3>2, <3>3, <3>4 DEF Calls
  <2> QED BY <2>1, <2>2, <2>3
<1> QED BY <1>2, <1>3 DEF Next, ReadScan

\* A step of a controller or of the worker: threads stay where they are, nobody
\* is queued, and records are only invalidated.
LEMMA ReadScanDrops ==
    ASSUME DataOK, ReadScan, UNCHANGED <<pc, local>>,
           waitq'["read"] \subseteq waitq["read"],
           \A i \in Slots : rb'.records[i].valid => rb.records[i].valid
    PROVE  ReadScan'
<1> SUFFICES ASSUME NEW p \in Threads, local[p].op = "read" PROVE ScanInv(p)'
  BY DEF ReadScan
<1>1. ScanInv(p)
  BY DEF ReadScan
<1>2. \A i \in Slots : Blocked("read", i) => Blocked("read", i)'
  BY DEF Blocked
<1>3. WakerOnItsWay("read") => WakerOnItsWay("read")'
  BY DEF WakerOnItsWay
<1>4. Zeroed(p)'
  BY <1>1 DEF ScanInv, Zeroed
<1>5. At(p, "scan") /\ p \in waitq'["read"] /\ local[p].seen = NoReason("read", local[p].next) =>
            (\A i \in Slots : i < local[p].next => Blocked("read", i)') \/ WakerOnItsWay("read")'
  BY <1>1, <1>2, <1>3 DEF ScanInv
<1>6. At(p, "sleep") /\ p \in waitq'["read"] =>
            (\A i \in Slots : Blocked("read", i)') \/ WakerOnItsWay("read")'
  BY <1>1, <1>2, <1>3 DEF ScanInv
<1> QED BY <1>4, <1>5, <1>6 DEF ScanInv, At, Blocked, WakerOnItsWay, NoReason

LEMMA ReadersServed ==
    ASSUME TypeInv, ReadScan
    PROVE  ReadersNotStranded
<1> SUFFICES ASSUME NEW p \in Threads, At(p, "sleep"), Queued(p), local[p].op = "read"
             PROVE  \/ MessageCount(rb) = 0
                    \/ \E q \in Threads : pc[q] \in WillWake("read")
  BY DEF ReadersNotStranded
<1>1. rb \in Ring /\ "read" \in Ops
  BY DEF TypeInv, DataOK, Ops
<1>2. (\A i \in Slots : Blocked("read", i)) \/ WakerOnItsWay("read")
  BY DEF ReadScan, ScanInv, Queued
<1>3. (\A i \in Slots : Blocked("read", i)) => MustWait("read", MessageCount(rb))
  BY <1>1, BlockedCount
<1> QED BY <1>2, <1>3 DEF WakerOnItsWay, MustWait

LEMMA InitControl == IoctlInit => TypeInv /\ MutexHeldInside /\ CtlOK /\ ReadScan
<1> SUFFICES ASSUME IoctlInit PROVE TypeInv /\ MutexHeldInside /\ CtlOK /\ ReadScan
  OBVIOUS
<1>1. TypeInv /\ MutexHeldInside
  BY InitType, InitSafe DEF IoctlInit, SafeInv
<1>2. CtlOK
  <2>1. DefaultExpiry \in Int
    BY ControlAssumption
  <2> QED BY <2>1, NoIoctlType DEF IoctlInit, CtlOK
<1>3. ReadScan
  BY DEF IoctlInit, Init, ReadScan, NoCall
<1> QED BY <1>1, <1>2, <1>3

\* What a step of a controller does to the invariants of the threads.
LEMMA DropsStep ==
    ASSUME TypeInv, MutexHeldInside, OnlyDrops
    PROVE  TypeInv' /\ MutexHeldInside' /\ (ReadScan => ReadScan')
<1>1. DataOK /\ DataOK' /\ CallsTyped'
  BY DEF TypeInv, DataOK, CallsTyped, OnlyDrops
<1>2. MutexHeldInside'
  BY DEF MutexHeldInside, OnlyDrops
<1>3. ReadScan => ReadScan'
  BY <1>1, ReadScanDrops DEF OnlyDrops
<1> QED BY <1>1, <1>2, <1>3 DEF TypeInv

IoctlInv ==
    /\ TypeInv /\ MutexHeldInside /\ CtlOK /\ ReadScan
    /\ mutex \in Threads \cup {Free}

LEMMA InitIoctl == IoctlInit => IoctlInv
BY InitControl DEF IoctlInit, Init, IoctlInv

LEMMA IoctlStep == IoctlInv /\ [IoctlNext]_ioctlVars => IoctlInv'
<1> SUFFICES ASSUME IoctlInv, [IoctlNext]_ioctlVars PROVE IoctlInv'
  OBVIOUS
<1>1. CASE [Next]_vars /\ UNCHANGED <<expiry_ms, ctl>>
  <2>1. TypeInv' /\ MutexHeldInside' /\ MutexMoves /\ ReadScan'
    BY <1>1, TypeStep, MutexStep, MutexMoved, ReadScanStep DEF IoctlInv
  <2>2. CtlOK'
    BY <1>1 DEF IoctlInv, CtlOK
  <2> QED BY <2>1, <2>2 DEF IoctlInv, MutexMoves
<1>2. ASSUME NEW c \in Controllers, Controls(c)
      PROVE  IoctlInv'
  <2>1. CtlOK' /\ OnlyDrops
    BY <1>2, ControlStep DEF IoctlInv, TypeInv
  <2>2. TypeInv' /\ MutexHeldInside' /\ ReadScan'
    BY <2>1, DropsStep DEF IoctlInv
  <2> QED BY <2>1, <2>2 DEF IoctlInv, OnlyDrops
<1> QED BY <1>1, <1>2 DEF IoctlNext, Controls, ioctlVars

\* Every variable keeps its type with ioctl() running beside the threads, a
\* CLEAR that overtakes a push or a pop included: no index leaves the array.
THEOREM IoctlTypeCorrect == IoctlSpec => []IoctlTypeOK
<1>1. IoctlInv => IoctlTypeOK
  BY DEF IoctlInv, CtlOK, CtlRecord, TypeInv, DataOK, IoctlTypeOK, TypeOK
<1> QED BY <1>1, InitIoctl, IoctlStep, PTL DEF IoctlSpec

\* A CLEAR at any moment strands no reader.
THEOREM ReadersNeverStranded == IoctlSpec => []ReadersNotStranded
<1>1. IoctlInv => ReadersNotStranded
  BY ReadersServed DEF IoctlInv
<1> QED BY <1>1, InitIoctl, IoctlStep, PTL DEF IoctlSpec

-----------------------------------------------------------------------------
(* The worker and the mutex, whatever the controllers do *)

WorkerOK ==
    /\ worker \in [at : {"armed", "lock", "loop", "unlock", "rearm"},
                   stamp : 0 .. Horizon, due : Int]
    /\ mutex = Worker <=> WorkerInside

LEMMA InitWorker == CleanupInit => WorkerOK
<1> SUFFICES ASSUME CleanupInit PROVE WorkerOK
  OBVIOUS
<1>1. 0 \in 0 .. Horizon /\ Horizon \in Int /\ DefaultExpiry \in Int
  BY EnvironmentAssumption, ControlAssumption
<1>2. mutex # Worker
  BY WorkerAssumption DEF CleanupInit, IoctlInit, Init
<1> QED BY <1>1, <1>2 DEF CleanupInit, WorkerOK, WorkerInside

\* The steps of the threads and controllers: they neither take the mutex from
\* the worker nor give it to it.
LEMMA WorkerAside ==
    ASSUME WorkerOK, MutexMoves \/ mutex' = mutex, UNCHANGED worker
    PROVE  WorkerOK'
<1>1. Worker \notin Threads /\ Worker # Free
  BY WorkerAssumption
<1> QED BY <1>1 DEF WorkerOK, WorkerInside, MutexMoves

\* The worker's own steps.
LEMMA WorkerMoves ==
    ASSUME DataOK, CarryInv, MutexHeldInside, CtlOK, WorkerOK, kmsgpipe_cleanup_worker
    PROVE  /\ WorkerOK' /\ CtlOK' /\ MutexHeldInside' /\ DataOK'
           /\ UNCHANGED <<now, pc, local, expiry_ms, ctl, waiting>>
           /\ waitq'["read"] = waitq["read"]
           /\ waitq' # waitq => WorkerWake
           /\ rb' # rb => WorkerExpire
<1>1. /\ worker.at \in {"armed", "lock", "loop", "unlock", "rearm"}
      /\ worker.stamp \in 0 .. Horizon /\ worker.due \in Int
      /\ worker \in [at : {"armed", "lock", "loop", "unlock", "rearm"},
                     stamp : 0 .. Horizon, due : Int]
  BY DEF WorkerOK
<1>2. now \in 0 .. Horizon /\ 0 \in 0 .. Horizon /\ DueTime(now) \in Int
  BY EnvironmentAssumption DEF DataOK, CarryInv, CtlOK, DueTime
<1>3. Worker \notin Threads /\ Worker # Free /\ Free \notin Threads
  BY WorkerAssumption, ThreadAssumption
<1>4. UNCHANGED <<now, pc, local, expiry_ms, ctl, waiting>>
  BY DEF kmsgpipe_cleanup_worker, WorkerStart, WorkerLock, WorkerExpire, WorkerWake,
         WorkerUnlock, WorkerRearm, ioctlVars, vars
<1>5. /\ waitq' # waitq => WorkerWake
      /\ rb' # rb => WorkerExpire
  BY DEF kmsgpipe_cleanup_worker, WorkerStart, WorkerLock, WorkerExpire, WorkerWake,
         WorkerUnlock, WorkerRearm, ioctlVars, vars
<1>6. waitq'["read"] = waitq["read"] /\ waitq' \in [Ops -> SUBSET Threads]
  BY <1>5 DEF WorkerWake, DataOK, Ops
<1>7. rb' \in Ring
  BY <1>5, ReleaseTailType, AdvanceType DEF WorkerExpire, Pop, DataOK
<1>8. WorkerOK'
  <2>1. CASE WorkerStart
    BY <1>1, <1>2, <2>1 DEF WorkerStart, WorkerOK, WorkerInside, ioctlVars, vars
  <2>2. CASE WorkerLock
    BY <1>1, <2>2 DEF WorkerLock, WorkerOK, WorkerInside
  <2>3. CASE WorkerExpire
    BY <1>1, <2>3 DEF WorkerExpire, WorkerOK, WorkerInside
  <2>4. CASE WorkerWake
    BY <1>1, <2>4 DEF WorkerWake, WorkerOK, WorkerInside
  <2>5. CASE WorkerUnlock
    BY <1>1, <1>2, <1>3, <2>5 DEF WorkerUnlock, WorkerOK, WorkerInside
  <2>6. CASE WorkerRearm
    BY <1>1, <1>2, <2>6 DEF WorkerRearm, WorkerOK, WorkerInside, ioctlVars, vars
  <2> QED BY <2>1, <2>2, <2>3, <2>4, <2>5, <2>6 DEF kmsgpipe_cleanup_worker
<1>9. MutexHeldInside'
  <2>1. mutex' = mutex \/ {mutex, mutex'} = {Free, Worker}
    BY <1>1 DEF kmsgpipe_cleanup_worker, WorkerStart, WorkerLock, WorkerExpire, WorkerWake,
           WorkerUnlock, WorkerRearm, ioctlVars, vars, WorkerOK, WorkerInside
  <2> QED BY <1>3, <1>4, <2>1 DEF MutexHeldInside
<1>10. DataOK'
  BY <1>4, <1>6, <1>7 DEF DataOK
<1>11. CtlOK'
  BY <1>4 DEF CtlOK
<1> QED BY <1>4, <1>5, <1>6, <1>8, <1>9, <1>10, <1>11

DeviceInv ==
    TypeInv /\ MutexHeldInside /\ CarryInv /\ ReadScan /\ CtlOK /\ WorkerOK

\* Popping a message makes no record valid.
LEMMA PopDrops ==
    ASSUME NEW r \in Ring
    PROVE  \A i \in Slots : Pop(r).records[i].valid => r.records[i].valid
<1>1. \A i \in Slots : ReleaseTail(r).records[i].valid => r.records[i].valid
  BY DEF ReleaseTail, Ring, Record
<1>2. Pop(r).records = ReleaseTail(r).records
  <2>1. ReleaseTail(r) \in Ring
    BY ReleaseTailType
  <2> QED BY <2>1 DEF Pop, AdvanceTail, Ring
<1> QED BY <1>1, <1>2

LEMMA DeviceStep == DeviceInv /\ [CleanupNext]_cleanupVars => DeviceInv'
<1> SUFFICES ASSUME DeviceInv, [CleanupNext]_cleanupVars PROVE DeviceInv'
  OBVIOUS
<1>0. TypeInv /\ DataOK /\ MutexHeldInside /\ CarryInv /\ ReadScan /\ CtlOK /\ WorkerOK
  BY DEF DeviceInv, TypeInv
<1>1. CASE [Next]_vars /\ UNCHANGED <<expiry_ms, ctl, worker>>
  <2>1. TypeInv' /\ MutexHeldInside' /\ MutexMoves /\ ReadScan' /\ CarryInv'
    BY <1>0, <1>1, TypeStep, MutexStep, MutexMoved, ReadScanStep, CarryStep
  <2>2. CtlOK'
    BY <1>0, <1>1 DEF CtlOK
  <2>3. WorkerOK'
    BY <1>0, <1>1, <2>1, WorkerAside
  <2> QED BY <2>1, <2>2, <2>3 DEF DeviceInv
<1>2. ASSUME NEW c \in Controllers, Controls(c), UNCHANGED worker
      PROVE  DeviceInv'
  <2>1. CtlOK' /\ OnlyDrops
    BY <1>0, <1>2, ControlStep
  <2>2. TypeInv' /\ MutexHeldInside' /\ ReadScan'
    BY <1>0, <2>1, DropsStep
  <2>3. CarryInv' /\ WorkerOK'
    BY <1>0, <1>2, <2>1, WorkerAside DEF OnlyDrops, CarryInv, Carrying
  <2> QED BY <2>1, <2>2, <2>3 DEF DeviceInv
<1>3. CASE kmsgpipe_cleanup_worker
  <2>1. /\ WorkerOK' /\ CtlOK' /\ MutexHeldInside' /\ DataOK'
        /\ UNCHANGED <<now, pc, local, expiry_ms, ctl, waiting>>
        /\ waitq'["read"] = waitq["read"]
        /\ rb' # rb => WorkerExpire
    BY <1>0, <1>3, WorkerMoves
  <2>2. TypeInv' /\ CarryInv'
    BY <1>0, <2>1 DEF TypeInv, CallsTyped, CarryInv, Carrying
  <2>3. \A i \in Slots : rb'.records[i].valid => rb.records[i].valid
    BY <1>0, <2>1, PopDrops DEF WorkerExpire, DataOK
  <2>4. ReadScan'
    BY <1>0, <2>1, <2>3, ReadScanDrops
  <2> QED BY <2>1, <2>2, <2>4 DEF DeviceInv
<1> QED BY <1>1, <1>2, <1>3 DEF CleanupNext, IoctlNext, Controls, cleanupVars, ioctlVars

LEMMA InitDevice == CleanupInit => DeviceInv
BY InitControl, InitCarry, InitWorker DEF CleanupInit, IoctlInit, DeviceInv

\* The worker and the threads are never inside together, and only who is inside
\* holds the mutex.
THEOREM WorkerAlwaysExcluded == CleanupSpec => []WorkerExcluded
<1>1. DeviceInv => WorkerExcluded
  BY DEF DeviceInv, WorkerOK, MutexHeldInside, WorkerExcluded
<1> QED BY <1>1, InitDevice, DeviceStep, PTL DEF CleanupSpec

\* Neither the worker nor a CLEAR strands a reader.
THEOREM ReadersNeverStrandedByWorker == CleanupSpec => []ReadersNotStranded
<1>1. DeviceInv => ReadersNotStranded
  BY ReadersServed DEF DeviceInv
<1> QED BY <1>1, InitDevice, DeviceStep, PTL DEF CleanupSpec

-----------------------------------------------------------------------------
(* The messages, on a device on which no CLEAR is issued                   *)

\* No controller is on its way through kmsgpipe_clear.
NoClear == \A c \in Controllers : ctl[c].at \in {"idle", "count", "return"}

\* What makes the messages a queue (SafeInv, TimeInv) with the worker beside
\* the threads, and what the worker has achieved when it is through.
ExpiryInv ==
    QueueInv /\ CtlOK /\ NoClear /\ WorkerOK /\ CleanupComplete

\* A writer has lost its reason to sleep only if a waker is on its way: another
\* thread, or the worker, which wakes the writers when its loop ends.
WriterInDebt(p) == worker.at = "loop" /\ local[p].op = "write" /\ Zeroed(p)

AwakeInv == \A p \in Threads : ScanInv(p) \/ WriterInDebt(p)

LEMMA NoClearStep ==
    ASSUME "CLEAR" \notin Commands, CtlOK, NoClear, NEW c \in Controllers, Controls(c)
    PROVE  NoClear' /\ UNCHANGED vars
<1>1. /\ ctl \in [Controllers -> CtlRecord]
      /\ ctl[c].at \in {"idle", "count", "return"}
  BY DEF CtlOK, NoClear
<1>2. ASSUME NEW s, ctl' = [ctl EXCEPT ![c] = s], s.at \in {"idle", "count", "return"}
      PROVE  NoClear'
  BY <1>1, <1>2 DEF NoClear
<1>3. \A cmd, ret, out : Finish(c, cmd, ret, out) => NoClear'
  <2> TAKE cmd, ret, out
  <2> DEFINE s == [NoIoctl EXCEPT !.at = "return", !.cmd = cmd, !.ret = ret, !.out = out]
  <2>1. s.at = "return"
    BY DEF NoIoctl
  <2>2. Finish(c, cmd, ret, out) => ctl' = [ctl EXCEPT ![c] = s]
    BY DEF Finish
  <2> HIDE DEF s
  <2> QED BY <1>2, <2>1, <2>2
<1>4. CASE kmsgpipe_ioctl(c)
  <2>1. PICK cmd \in Commands :
            \/ IoctlRejected(c, cmd) \/ IoctlQuery(c, cmd)
            \/ IoctlSetExpiry(c, cmd) \/ IoctlLoops(c, cmd)
    BY <1>4 DEF kmsgpipe_ioctl
  <2>2. UNCHANGED vars
    BY <2>1 DEF IoctlRejected, IoctlQuery, IoctlSetExpiry, IoctlLoops
  <2>3. CASE IoctlRejected(c, cmd) \/ IoctlQuery(c, cmd) \/ IoctlSetExpiry(c, cmd)
    BY <1>3, <2>2, <2>3 DEF IoctlRejected, IoctlQuery, IoctlSetExpiry
  <2>4. CASE IoctlLoops(c, cmd)
    <3> DEFINE s == [ctl[c] EXCEPT !.at = "count", !.cmd = cmd]
    <3>1. ctl' = [ctl EXCEPT ![c] = s]
      BY <1>1, <2>4 DEF IoctlLoops
    <3>2. s.at = "count"
      BY <1>1 DEF CtlRecord
    <3> HIDE DEF s
    <3> QED BY <1>2, <2>2, <3>1, <3>2
  <2> QED BY <2>1, <2>3, <2>4
<1>5. CASE InIoctl(c)
  <2>1. CountStep(c) \/ IoctlReturn(c)
    BY <1>1, <1>5 DEF InIoctl, ClearBase, ClearRecord, ClearHead, ClearTail, ClearValid
  <2>2. UNCHANGED vars
    BY <2>1 DEF CountStep, IoctlReturn
  <2>3. CASE IoctlReturn(c)
    BY <1>2, <2>2, <2>3, NoIoctlType DEF IoctlReturn
  <2>4. CASE CountStep(c) /\ ~ (ctl[c].next < Capacity)
    BY <1>3, <2>2, <2>4 DEF CountStep
  <2>5. CASE CountStep(c) /\ ctl[c].next < Capacity
    <3> DEFINE more == IF rb.records[ctl[c].next].valid THEN ctl[c].seen + 1 ELSE ctl[c].seen
    <3> DEFINE s == [ctl[c] EXCEPT !.next = ctl[c].next + 1, !.seen = more]
    <3>1. ctl' = [ctl EXCEPT ![c] = s]
      BY <1>1, <2>5 DEF CountStep, CtlRecord
    <3> HIDE DEF more
    <3>2. s.at = ctl[c].at
      BY <1>1 DEF CtlRecord
    <3> HIDE DEF s
    <3> QED BY <1>1, <1>2, <2>2, <3>1, <3>2
  <2> QED BY <2>1, <2>3, <2>4, <2>5
<1> QED BY <1>4, <1>5 DEF Controls

\* While the worker is inside no thread is, so that the buffer is settled.
LEMMA WorkerAlone ==
    ASSUME WorkerOK, MutexHeldInside, WorkerInside
    PROVE  /\ \A p \in Threads : pc[p] \notin Critical
           /\ SettledRing = rb
<1>1. \A p \in Threads : pc[p] \notin Critical
  BY WorkerAssumption DEF WorkerOK, MutexHeldInside
<1> QED BY <1>1 DEF SettledRing, At, Critical

\* One round of the worker's loop takes the oldest message off the queue, and
\* that message is older than the worker's timestamp.
LEMMA ExpireMoves ==
    ASSUME ExpiryInv, WorkerExpire
    PROVE  /\ IsWindow(SettledRing') /\ SettledRing' = Pop(rb)
           /\ Messages(SettledRing) # << >>
           /\ Messages(SettledRing') = Tail(Messages(SettledRing))
           /\ Messages(SettledRing)[1].timestamp < worker.stamp
<1>1. /\ rb \in Ring /\ worker.at = "loop" /\ rb' = Pop(rb) /\ pc' = pc
      /\ IsExpired(rb, rb.tail, worker.stamp)
  BY DEF ExpiryInv, QueueInv, SafeInv, TypeInv, DataOK, WorkerExpire
<1>2. (\A p \in Threads : pc[p] \notin Critical) /\ SettledRing = rb
  BY <1>1, WorkerAlone DEF ExpiryInv, QueueInv, SafeInv, WorkerInside
<1>3. SettledRing' = rb'
  BY <1>1, <1>2 DEF SettledRing, At, Critical
<1>4. PICK n \in 0 .. Capacity : HoldsWindow(rb, n)
  BY <1>2 DEF ExpiryInv, QueueInv, SafeInv, RingInv, IsWindow
<1>5. n > 0
  BY <1>1, <1>4, WindowEnds DEF IsExpired
<1>6. HoldsWindow(Pop(rb), n - 1) /\ n - 1 \in 0 .. Capacity
  BY <1>1, <1>4, <1>5, PopWindow, CapacityAssumption DEF Pop
<1>7. IsWindow(Pop(rb))
  BY <1>6 DEF IsWindow
<1>8. /\ Messages(rb) # << >> /\ Messages(rb)[1] = MessageAt(rb, rb.tail)
      /\ Messages(Pop(rb)) = Tail(Messages(rb))
  BY <1>1, <1>4, <1>5, PopMessages DEF Pop
<1>9. MessageAt(rb, rb.tail).timestamp < worker.stamp
  BY <1>1 DEF IsExpired, MessageAt
<1>10. SettledRing' = Pop(rb)
  BY <1>1, <1>3
<1> QED BY <1>2, <1>7, <1>8, <1>9, <1>10

\* The worker stops at the first message that has not expired, and the messages
\* behind that one are no older.
LEMMA NothingOlder ==
    ASSUME ExpiryInv, worker.at = "loop", ~ IsExpired(rb, rb.tail, worker.stamp),
           NEW i \in Slots, rb.records[i].valid
    PROVE  rb.records[i].timestamp >= worker.stamp
<1>1. rb \in Ring /\ rb.tail \in Slots /\ worker.stamp \in Nat
  <2>1. worker.stamp \in 0 .. Horizon
    BY DEF ExpiryInv, WorkerOK
  <2> QED BY <2>1, EnvironmentAssumption DEF ExpiryInv, QueueInv, SafeInv, TypeInv, DataOK, Ring
<1>2. SettledRing = rb
  BY WorkerAlone DEF ExpiryInv, QueueInv, SafeInv, WorkerInside
<1>3. PICK n \in 0 .. Capacity : HoldsWindow(rb, n)
  BY <1>2 DEF ExpiryInv, QueueInv, SafeInv, RingInv, IsWindow
<1>4. PICK k \in Slots : i = SlotFrom(rb.tail, k)
  BY <1>1, SlotReached
<1>5. k < n
  BY <1>3, <1>4 DEF HoldsWindow
<1>6. k \in Nat /\ n \in Nat
  BY CapacityAssumption DEF Slots
<1> DEFINE q == Messages(rb)
<1>7. /\ Len(q) = n
      /\ \A j \in 1 .. n : q[j] = MessageAt(rb, SlotFrom(rb.tail, j - 1))
  BY <1>1, <1>3, MessagesOfWindow
<1>8. Sorted(q)
  BY <1>2 DEF ExpiryInv, QueueInv, TimeInv
<1> HIDE DEF q
<1>9. 1 \in 1 .. n /\ k + 1 \in 1 .. n /\ 1 <= k + 1 /\ (k + 1) - 1 = k /\ 1 - 1 = 0
  BY <1>5, <1>6
<1>10. q[1].timestamp <= q[k + 1].timestamp
  BY <1>7, <1>8, <1>9 DEF Sorted
<1>11. q[1] = MessageAt(rb, rb.tail)
  BY <1>1, <1>7, <1>9, SlotFromZero
<1>12. q[k + 1] = MessageAt(rb, i)
  BY <1>4, <1>7, <1>9
<1>13. rb.records[rb.tail].timestamp <= rb.records[i].timestamp
  BY <1>10, <1>11, <1>12 DEF MessageAt
<1>14. rb.records[rb.tail].valid
  BY <1>1, <1>3, <1>5, <1>6, WindowEnds
<1>15. ~ (rb.records[rb.tail].timestamp < worker.stamp)
  BY <1>14 DEF IsExpired
<1>16. rb.records[rb.tail].timestamp \in Nat /\ rb.records[i].timestamp \in Nat
  BY <1>1 DEF Ring, Record
<1> QED BY <1>1, <1>13, <1>15, <1>16

LEMMA ExpiryStep ==
    ASSUME "CLEAR" \notin Commands, ExpiryInv, [CleanupNext]_cleanupVars
    PROVE  ExpiryInv'
<1>0. /\ QueueInv /\ SafeInv /\ TypeInv /\ DataOK /\ MutexHeldInside /\ CarryInv
      /\ TimeInv /\ CtlOK /\ NoClear /\ WorkerOK /\ CleanupComplete
  BY DEF ExpiryInv, QueueInv, SafeInv, TypeInv
<1>1. CASE [Next]_vars /\ UNCHANGED <<expiry_ms, ctl, worker>>
  <2>1. QueueInv' /\ MutexMoves
    BY <1>0, <1>1, QueueInvStep, MutexMoved
  <2>2. CtlOK' /\ NoClear' /\ WorkerOK'
    BY <1>0, <1>1, <2>1, WorkerAside DEF CtlOK, NoClear
  <2>3. CleanupComplete'
    <3> SUFFICES ASSUME worker.at = "unlock" PROVE rb' = rb
      BY <1>0, <1>1 DEF CleanupComplete
    <3>1. \A p \in Threads : pc[p] \notin Critical
      BY <1>0, WorkerAlone DEF WorkerInside
    <3>2. CASE UNCHANGED vars \/ Tick
      BY <3>2 DEF vars, Tick
    <3>3. CASE \E p \in Threads : InKernel(p) \/ Calls(p)
      BY <3>1, <3>3, RingChangedInside
    <3> QED BY <1>1, <3>2, <3>3 DEF Next
  <2> QED BY <2>1, <2>2, <2>3 DEF ExpiryInv
<1>2. ASSUME NEW c \in Controllers, Controls(c), UNCHANGED worker
      PROVE  ExpiryInv'
  <2>1. CtlOK' /\ NoClear' /\ UNCHANGED vars
    BY <1>0, <1>2, ControlStep, NoClearStep
  <2>2. QueueInv'
    BY <1>0, <2>1, QueueInvStep
  <2>3. WorkerOK' /\ CleanupComplete'
    BY <1>0, <1>2, <2>1, WorkerAside DEF vars, CleanupComplete
  <2> QED BY <2>1, <2>2, <2>3 DEF ExpiryInv
<1>3. CASE kmsgpipe_cleanup_worker
  <2>1. /\ WorkerOK' /\ CtlOK' /\ MutexHeldInside' /\ DataOK'
        /\ UNCHANGED <<now, pc, local, expiry_ms, ctl, waiting>>
        /\ rb' # rb => WorkerExpire
    BY <1>0, <1>3, WorkerMoves
  <2>2. /\ TypeInv' /\ CarryInv' /\ NoClear' /\ NoSpuriousError'
    BY <1>0, <2>1 DEF TypeInv, CallsTyped, CarryInv, Carrying, NoClear, SafeInv,
       NoSpuriousError
  <2>3. RingInv' /\ TimeInv'
    <3>0. now \in Nat /\ now <= now' /\ StampsKept /\ now' \in Nat
      BY <1>0, <2>1 DEF DataOK, StampsKept
    <3>1. Messages(SettledRing) \in Seq(Handed)
      BY <1>0, SettledWindow
    <3>2. CASE rb' = rb
      <4>1. SettledRing' = SettledRing
        BY <2>1, <3>2 DEF SettledRing, At
      <4>2. RingInv'
        BY <1>0, <2>1, <3>2, StillStep DEF SafeInv
      <4>3. TimeInv'
        BY <1>0, <3>0, <3>1, <4>1, TimeKept
      <4> QED BY <4>2, <4>3
    <3>3. CASE WorkerExpire
      <4>1. /\ IsWindow(SettledRing') /\ Messages(SettledRing) # << >>
            /\ Messages(SettledRing') = Tail(Messages(SettledRing))
        BY <3>3, ExpireMoves
      <4>2. TimeInv'
        BY <1>0, <3>0, <3>1, <4>1, TimeKept
      <4>3. \A p \in Threads : pc'[p] \notin Pushing \cup Popping
        BY <1>0, <2>1, <3>3, WorkerAlone, LabelSets DEF WorkerExpire, WorkerInside
      <4>4. IsWindow(SettledRing)'
        BY <4>1 DEF IsWindow, HoldsWindow
      <4> QED BY <4>2, <4>3, <4>4 DEF RingInv
    <3> QED BY <2>1, <3>2, <3>3
  <2>4. QueueInv'
    BY <2>1, <2>2, <2>3 DEF QueueInv, SafeInv
  <2>5. CleanupComplete'
    <3>1. CASE WorkerWake
      <4>1. rb' = rb /\ worker'.stamp = worker.stamp /\ worker.at = "loop"
        BY <1>0, <3>1 DEF WorkerWake, WorkerOK
      <4> QED BY <3>1, <4>1, NothingOlder DEF WorkerWake, CleanupComplete
    <3>2. CASE ~ WorkerWake
      <4>1. worker'.at # "unlock"
        BY <1>0, <1>3, <3>2 DEF kmsgpipe_cleanup_worker, WorkerStart, WorkerLock,
           WorkerExpire, WorkerUnlock, WorkerRearm, WorkerOK
      <4> QED BY <4>1 DEF CleanupComplete
    <3> QED BY <3>1, <3>2
  <2> QED BY <2>1, <2>2, <2>4, <2>5 DEF ExpiryInv
<1> QED BY <1>1, <1>2, <1>3 DEF CleanupNext, IoctlNext, Controls, cleanupVars, ioctlVars

LEMMA InitExpiry == CleanupInit => ExpiryInv
<1> SUFFICES ASSUME CleanupInit PROVE ExpiryInv
  OBVIOUS
<1>1. QueueInv /\ CtlOK /\ WorkerOK
  BY InitQueue, InitControl, InitWorker DEF CleanupInit, IoctlInit
<1>2. NoClear
  BY NoIoctlType DEF CleanupInit, IoctlInit, NoClear
<1>3. CleanupComplete
  BY DEF CleanupInit, CleanupComplete
<1> QED BY <1>1, <1>2, <1>3 DEF ExpiryInv

\* While nobody issues CLEAR: the valid records stay one run of slots, with the
\* worker popping as well.
THEOREM WindowKeptByWorker ==
    ASSUME "CLEAR" \notin Commands
    PROVE  CleanupSpec => []WindowKept
<1>1. ExpiryInv /\ [CleanupNext]_cleanupVars => ExpiryInv'
  BY ExpiryStep
<1>2. ExpiryInv => WindowKept
  BY DEF ExpiryInv, QueueInv, SafeInv, RingInv, WindowKept
<1> QED BY <1>1, <1>2, InitExpiry, PTL DEF CleanupSpec

\* While nobody issues CLEAR: the worker takes no message from under a reader that
\* has looked at the count.
THEOREM NoSpuriousErrorByWorker ==
    ASSUME "CLEAR" \notin Commands
    PROVE  CleanupSpec => []NoSpuriousError
<1>1. ExpiryInv /\ [CleanupNext]_cleanupVars => ExpiryInv'
  BY ExpiryStep
<1>2. ExpiryInv => NoSpuriousError
  BY DEF ExpiryInv, QueueInv, SafeInv
<1> QED BY <1>1, <1>2, InitExpiry, PTL DEF CleanupSpec

\* While nobody issues CLEAR: when the worker is through, no message in the buffer
\* is older than its timestamp, although it has looked at the front only.
THEOREM CleanupAlwaysComplete ==
    ASSUME "CLEAR" \notin Commands
    PROVE  CleanupSpec => [](TimestampsSorted /\ CleanupComplete)
<1>1. ExpiryInv /\ [CleanupNext]_cleanupVars => ExpiryInv'
  BY ExpiryStep
<1>2. ExpiryInv => TimestampsSorted /\ CleanupComplete
  BY SortedMessages DEF ExpiryInv, QueueInv
<1> QED BY <1>1, <1>2, InitExpiry, PTL DEF CleanupSpec

\* The steps of the threads, as steps of the expiring queue: they accept one
\* message that has been stamped before, or hand out the oldest, and they do
\* neither while the worker is cleaning.
LEMMA ThreadsKeepQueue ==
    ASSUME ExpiryInv, [Next]_vars, UNCHANGED worker
    PROVE  CleanupQueue!Next \/ UNCHANGED CleanupQueue!vars
<1>1. /\ SafeInv /\ TypeInv /\ DataOK /\ MutexHeldInside /\ CarryInv /\ WorkerOK
  BY DEF ExpiryInv, QueueInv, SafeInv, TypeInv
<1>2. Messages(SettledRing)' = Messages(SettledRing')
  BY DEF Messages, MessageCount, MessageAt
<1>3. worker'.stamp = worker.stamp /\ Cleaning' = Cleaning
  BY DEF Cleaning, WorkerInside
<1>4. ASSUME NEW p \in Threads, pc[p] \in Critical
      PROVE  Cleaning # "cleaning"
  BY <1>1, <1>4, WorkerAlone DEF Cleaning
<1>5. CASE UNCHANGED vars \/ Tick
  <2>1. SettledRing' = SettledRing /\ (now' = now \/ now' = now + 1)
    BY <1>5 DEF vars, Tick, SettledRing, At
  <2> QED BY <1>2, <1>3, <2>1 DEF CleanupQueue!Next, CleanupQueue!Tick, CleanupQueue!vars
<1>6. ASSUME NEW o \in Threads, InKernel(o) \/ Calls(o)
      PROVE  CleanupQueue!Next \/ UNCHANGED CleanupQueue!vars
  <2>1. now' = now
    BY <1>1, <1>6, OwnCarrying DEF CarryInv
  <2>2. QueueMoves
    BY <1>1, QueueStep
  <2>3. ASSUME NEW p \in Threads, Accepts(p)
        PROVE  CleanupQueue!Enqueue
    <3>1. PICK data \in Payloads \cup {Zero} :
                Messages(SettledRing') = Append(Messages(SettledRing), NewMessage(p, data))
      BY <2>3 DEF Accepts
    <3>2. pc[p] = "fill" /\ Len(Messages(SettledRing)) < Capacity
      BY <2>3 DEF Accepts
    <3>3. NewMessage(p, data) \in Message /\ NewMessage(p, data).timestamp <= now
      BY <1>1, <3>2, NewMessageType DEF CarryInv, Carrying, NewMessage
    <3>4. Cleaning # "cleaning"
      BY <1>4, <3>2 DEF Critical
    <3> QED BY <1>2, <1>3, <2>1, <3>1, <3>2, <3>3, <3>4 DEF CleanupQueue!Enqueue
  <2>4. ASSUME NEW p \in Threads, HandsOut(p)
        PROVE  CleanupQueue!Dequeue
    <3>1. Cleaning # "cleaning"
      BY <1>4, <2>4 DEF HandsOut, Critical
    <3> QED BY <1>2, <1>3, <2>1, <2>4, <3>1 DEF CleanupQueue!Dequeue, HandsOut
  <2> QED BY <1>2, <1>3, <2>1, <2>2, <2>3, <2>4
          DEF QueueMoves, CleanupQueue!Next, CleanupQueue!vars
<1> QED BY <1>5, <1>6 DEF Next

\* The steps of the worker: it takes its timestamp, locks everybody out, drops
\* the oldest message if that is older than the timestamp, and goes on only when
\* none of those that are left is.
LEMMA WorkerKeepsQueue ==
    ASSUME ExpiryInv, kmsgpipe_cleanup_worker
    PROVE  CleanupQueue!Next \/ UNCHANGED CleanupQueue!vars
<1>1. /\ SafeInv /\ DataOK /\ MutexHeldInside /\ CarryInv /\ CtlOK /\ WorkerOK
      /\ CleanupComplete
  BY DEF ExpiryInv, QueueInv, SafeInv, TypeInv
<1>2. Messages(SettledRing)' = Messages(SettledRing')
  BY DEF Messages, MessageCount, MessageAt
<1>3. UNCHANGED <<now, pc>> /\ (rb' # rb => WorkerExpire)
  BY <1>1, WorkerMoves
<1>4. ~ WorkerExpire => Messages(SettledRing)' = Messages(SettledRing)
  BY <1>2, <1>3 DEF SettledRing, At
<1>5. worker \in [at : {"armed", "lock", "loop", "unlock", "rearm"},
                  stamp : 0 .. Horizon, due : Int]
  BY <1>1 DEF WorkerOK
<1>6. CASE WorkerStart
  <2>1. ~ WorkerExpire
    BY <1>6 DEF WorkerStart, WorkerExpire
  <2>2. worker'.at = "lock" /\ worker'.stamp = now
    BY <1>5, <1>6 DEF WorkerStart
  <2>3. CleanupQueue!TakeStamp
    BY <1>3, <1>4, <1>6, <2>1, <2>2
       DEF WorkerStart, CleanupQueue!TakeStamp, Cleaning, WorkerInside
  <2> QED BY <2>3 DEF CleanupQueue!Next
<1>7. CASE WorkerLock
  <2>1. ~ WorkerExpire
    BY <1>7 DEF WorkerLock, WorkerExpire
  <2>2. worker'.at = "loop" /\ worker'.stamp = worker.stamp
    BY <1>5, <1>7 DEF WorkerLock
  <2>3. CleanupQueue!Begin
    BY <1>3, <1>4, <1>7, <2>1, <2>2
       DEF WorkerLock, CleanupQueue!Begin, Cleaning, WorkerInside
  <2> QED BY <2>3 DEF CleanupQueue!Next
<1>8. CASE WorkerExpire
  <2> DEFINE q == Messages(SettledRing)
  <2>1. /\ q # << >> /\ Messages(SettledRing') = Tail(q)
        /\ q[1].timestamp < worker.stamp
    BY <1>8, ExpireMoves
  <2>2. Head(q) = q[1]
    <3>1. q \in Seq(Handed)
      BY <1>1, SettledWindow
    <3> HIDE DEF q
    <3> QED BY <3>1
  <2>3. worker' = worker /\ worker.at = "loop"
    BY <1>8 DEF WorkerExpire
  <2>4. CleanupQueue!Expire
    BY <1>2, <1>3, <2>1, <2>2, <2>3 DEF CleanupQueue!Expire, Cleaning, WorkerInside
  <2> QED BY <2>4 DEF CleanupQueue!Next
<1>9. CASE WorkerWake \/ WorkerRearm
  <2>1. ~ WorkerExpire
    BY <1>9 DEF WorkerWake, WorkerRearm, WorkerExpire
  <2>2. worker'.stamp = worker.stamp /\ Cleaning' = Cleaning
    BY <1>5, <1>9 DEF WorkerWake, WorkerRearm, Cleaning, WorkerInside
  <2> QED BY <1>3, <1>4, <2>1, <2>2 DEF CleanupQueue!vars
<1>10. CASE WorkerUnlock
  <2> DEFINE q == Messages(SettledRing)
  <2>1. ~ WorkerExpire /\ worker.at = "unlock"
    BY <1>10 DEF WorkerUnlock, WorkerExpire
  <2>2. worker'.at = "rearm" /\ worker'.stamp = 0
    BY <1>5, <1>10, EnvironmentAssumption DEF WorkerUnlock
  <2>3. ASSUME NEW k \in 1 .. Len(q)
        PROVE  q[k].timestamp >= worker.stamp
    <3>1. SettledRing = rb /\ rb \in Ring
      BY <1>1, <2>1, WorkerAlone DEF WorkerInside, DataOK
    <3>2. PICK n \in 0 .. Capacity : HoldsWindow(rb, n)
      BY <1>1, <3>1, SettledWindow DEF IsWindow
    <3> DEFINE i == SlotFrom(rb.tail, k - 1)
    <3>3. i \in Slots /\ rb.records[i].valid /\ q[k] = MessageAt(rb, i)
      BY <3>1, <3>2, MessagesOfWindow
    <3>4. rb.records[i].timestamp >= worker.stamp
      BY <1>1, <2>1, <3>3 DEF CleanupComplete
    <3> QED BY <3>3, <3>4 DEF MessageAt
  <2>4. CleanupQueue!Finish
    BY <1>3, <1>4, <2>1, <2>2, <2>3 DEF CleanupQueue!Finish, Cleaning, WorkerInside
  <2> QED BY <2>4 DEF CleanupQueue!Next
<1> QED BY <1>6, <1>7, <1>8, <1>9, <1>10 DEF kmsgpipe_cleanup_worker

\* While nobody issues CLEAR: threads and worker implement the expiring queue.
\* The worker takes the time as its timestamp; while it holds the mutex no
\* message is accepted or handed out; what it drops is each time the oldest
\* message, older than that timestamp; and when it gives the mutex back none of
\* the messages that are left is older.
THEOREM WorkerImplementsQueue ==
    ASSUME "CLEAR" \notin Commands
    PROVE  CleanupSpec => ImplementsExpiringQueue
<1>1. CleanupInit => CleanupQueue!Init
  BY EmptyMessages DEF CleanupInit, IoctlInit, Init, SettledRing, At, Cleaning, WorkerInside,
     CleanupQueue!Init
<1>2. ExpiryInv /\ [CleanupNext]_cleanupVars => [CleanupQueue!Next]_(CleanupQueue!vars)
  <2> SUFFICES ASSUME ExpiryInv, [CleanupNext]_cleanupVars
               PROVE  CleanupQueue!Next \/ UNCHANGED CleanupQueue!vars
    OBVIOUS
  <2>1. CASE [Next]_vars /\ UNCHANGED worker
    BY <2>1, ThreadsKeepQueue
  <2>2. ASSUME NEW c \in Controllers, Controls(c), UNCHANGED worker
        PROVE  CleanupQueue!Next \/ UNCHANGED CleanupQueue!vars
    <3>1. UNCHANGED vars
      BY <2>2, NoClearStep DEF ExpiryInv
    <3> QED BY <2>2, <3>1, ThreadsKeepQueue
  <2>3. CASE kmsgpipe_cleanup_worker
    BY <2>3, WorkerKeepsQueue
  <2> QED BY <2>1, <2>2, <2>3 DEF CleanupNext, IoctlNext, Controls, cleanupVars, ioctlVars
<1>3. ExpiryInv /\ [CleanupNext]_cleanupVars => ExpiryInv'
  BY ExpiryStep
<1> QED BY <1>1, <1>2, <1>3, InitExpiry, PTL
        DEF CleanupSpec, ImplementsExpiringQueue, CleanupQueue!Spec

-----------------------------------------------------------------------------
(* The sleeping threads, on a device on which no CLEAR is issued           *)

\* A step of the threads themselves.
LEMMA ThreadsAwake ==
    ASSUME TypeInv, AwakeInv, [Next]_vars, UNCHANGED worker
    PROVE  AwakeInv'
<1>1. CASE UNCHANGED vars \/ Tick
  BY <1>1 DEF vars, Tick, AwakeInv, ScanInv, WriterInDebt, Zeroed, At, Blocked, WakerOnItsWay,
     NoReason
<1>2. ASSUME NEW p \in Threads, InKernel(p) \/ Calls(p), NEW q \in Threads
      PROVE  ScanInv(q)' \/ WriterInDebt(q)'
  <2>1. Alone(p) /\ \A op \in Ops : Harmless(p, op)
    BY <1>2, StepAlone, StepHarmless
  <2>2. CASE ScanInv(q) /\ q # p
    BY <1>2, <2>1, <2>2, OthersScan
  <2>3. CASE ScanInv(q) /\ q = p
    BY <1>2, <2>3, OwnScan
  <2>4. CASE WriterInDebt(q) /\ q # p
    BY <2>1, <2>4 DEF Alone, WriterInDebt, Zeroed
  <2>5. CASE WriterInDebt(q) /\ q = p
    <3>1. Zeroed(p)'
      BY <1>2, <2>5, OwnZeroed DEF WriterInDebt
    <3>2. CASE InKernel(p) /\ ~ Return(p)
      BY <2>5, <3>1, <3>2, CallKept DEF WriterInDebt
    <3>3. CASE Return(p) \/ Calls(p)
      <4>1. pc'[p] \in {"idle", "return", "lock", "stats"}
        BY <3>3 DEF TypeInv, DataOK, Return, Calls, kmsgpipe_read, kmsgpipe_write, Enter,
           StatsLock, Goto
      <4>2. ScanInv(p)'
        BY <3>1, <4>1 DEF ScanInv, At
      <4> QED BY <2>5, <4>2
    <3> QED BY <1>2, <3>2, <3>3
  <2> QED BY <2>2, <2>3, <2>4, <2>5 DEF AwakeInv
<1> QED BY <1>1, <1>2 DEF Next, AwakeInv

\* A step of the worker: what it takes off the buffer it owes the writers.
LEMMA WorkerAwake ==
    ASSUME TypeInv, CarryInv, MutexHeldInside, CtlOK, WorkerOK, AwakeInv,
           kmsgpipe_cleanup_worker
    PROVE  AwakeInv'
<1>1. /\ UNCHANGED <<pc, local>> /\ waitq'["read"] = waitq["read"]
      /\ waitq' # waitq => WorkerWake
      /\ rb' # rb => WorkerExpire
  BY WorkerMoves DEF TypeInv
<1>2. \A p \in Threads : Zeroed(p)'
  BY <1>1 DEF AwakeInv, ScanInv, WriterInDebt, Zeroed
<1>3. \A p \in Threads : local[p].op \notin Ops => ScanInv(p)'
  <2> SUFFICES ASSUME NEW p \in Threads, local[p].op \notin Ops PROVE ScanInv(p)'
    OBVIOUS
  <2>1. pc'[p] \in {"idle", "stats"}
    BY <1>1 DEF TypeInv, CallsTyped
  <2> QED BY <1>2, <2>1 DEF ScanInv, At
<1>4. ASSUME NEW p \in Threads, local[p].op = "read"
      PROVE  ScanInv(p)'
  <2>1. \A i \in Slots : rb'.records[i].valid => rb.records[i].valid
    BY <1>1, PopDrops DEF WorkerExpire, TypeInv, DataOK
  <2>2. \A q \in Threads : local[q].op = "read" => ScanInv(q)
    BY DEF AwakeInv, WriterInDebt
  <2>3. ReadScan'
    BY <1>1, <2>1, <2>2, ReadScanDrops DEF TypeInv, ReadScan
  <2> QED BY <1>1, <1>4, <2>3 DEF ReadScan
<1>5. ASSUME NEW p \in Threads, local[p].op = "write"
      PROVE  ScanInv(p)' \/ WriterInDebt(p)'
  <2>1. CASE WorkerExpire
    BY <1>1, <1>2, <1>5, <2>1 DEF WorkerExpire, WriterInDebt
  <2>2. CASE WorkerWake
    <3>1. p \notin waitq'["write"]
      BY <2>2 DEF WorkerWake, TypeInv, DataOK, Ops
    <3> QED BY <1>1, <1>2, <1>5, <3>1 DEF ScanInv
  <2>3. CASE ~ WorkerExpire /\ ~ WorkerWake
    <3>1. UNCHANGED <<rb, waitq, pc, local>> /\ worker.at # "loop"
      BY <1>1, <2>3 DEF kmsgpipe_cleanup_worker, WorkerStart, WorkerLock, WorkerUnlock,
         WorkerRearm
    <3>2. ScanInv(p)
      BY <3>1 DEF AwakeInv, WriterInDebt
    <3> QED BY <3>1, <3>2 DEF ScanInv, Zeroed, At, Blocked, WakerOnItsWay, NoReason
  <2> QED BY <2>1, <2>2, <2>3
<1> QED BY <1>1, <1>3, <1>4, <1>5 DEF AwakeInv, Ops

\* While nobody issues CLEAR: no wake-up is lost beside the worker, which makes
\* room like a reader and wakes the writers once, when its loop is over.
THEOREM WakeupNeverLostWithWorker ==
    ASSUME "CLEAR" \notin Commands
    PROVE  CleanupSpec => []NoLostWakeupWithWorker
<1>1. CleanupInit => AwakeInv
  BY DEF CleanupInit, IoctlInit, Init, AwakeInv, ScanInv, Zeroed, At, NotScanning
<1>2. ExpiryInv /\ AwakeInv /\ [CleanupNext]_cleanupVars => AwakeInv'
  <2> SUFFICES ASSUME ExpiryInv, AwakeInv, [CleanupNext]_cleanupVars PROVE AwakeInv'
    OBVIOUS
  <2>1. /\ TypeInv /\ MutexHeldInside /\ CarryInv /\ CtlOK /\ NoClear /\ WorkerOK
    BY DEF ExpiryInv, QueueInv, SafeInv
  <2>2. CASE [Next]_vars /\ UNCHANGED worker
    BY <2>1, <2>2, ThreadsAwake
  <2>3. ASSUME NEW c \in Controllers, Controls(c), UNCHANGED worker
        PROVE  AwakeInv'
    <3>1. UNCHANGED vars
      BY <2>1, <2>3, NoClearStep
    <3> QED BY <2>1, <2>3, <3>1, ThreadsAwake
  <2>4. CASE kmsgpipe_cleanup_worker
    BY <2>1, <2>4, WorkerAwake
  <2> QED BY <2>2, <2>3, <2>4 DEF CleanupNext, IoctlNext, Controls, cleanupVars, ioctlVars
<1>3. ExpiryInv /\ AwakeInv => NoLostWakeupWithWorker
  <2> SUFFICES ASSUME ExpiryInv, AwakeInv, NEW p \in Threads, At(p, "sleep"), Queued(p)
               PROVE  \/ MustWait(local[p].op, MessageCount(rb))
                      \/ \E q \in Threads : pc[q] \in WillWake(local[p].op)
                      \/ local[p].op = "write" /\ worker.at = "loop"
    BY DEF NoLostWakeupWithWorker
  <2>1. rb \in Ring /\ local[p].op \in Ops
    BY DEF ExpiryInv, QueueInv, SafeInv, TypeInv, DataOK, CallsTyped, At
  <2>2. CASE ScanInv(p)
    <3>1. (\A i \in Slots : Blocked(local[p].op, i)) \/ WakerOnItsWay(local[p].op)
      BY <2>2 DEF ScanInv, Queued
    <3>2. (\A i \in Slots : Blocked(local[p].op, i)) =>
                MustWait(local[p].op, MessageCount(rb))
      BY <2>1, BlockedCount
    <3> QED BY <3>1, <3>2 DEF WakerOnItsWay
  <2>3. CASE WriterInDebt(p)
    BY <2>3 DEF WriterInDebt
  <2> QED BY <2>2, <2>3 DEF AwakeInv
<1>4. ExpiryInv /\ [CleanupNext]_cleanupVars => ExpiryInv'
  BY ExpiryStep
<1> QED BY <1>1, <1>2, <1>3, <1>4, InitExpiry, PTL DEF CleanupSpec

=============================================================================
