# A verification of the kmsgpipe drivers

The repository is a course in Linux device drivers. Its main program is
`kmsgpipe`: a character device through which processes exchange messages, built
up over four labs on one circular buffer library. This directory holds TLA+
modules of that program, the configurations with which TLC checks them, and
theorems that the TLA+ proof system checks. The drivers of chapters 3 and 6 are
modelled too, and the loading and unloading of all six drivers.

## The system

| Part | State | Operations | What makes it correct |
| --- | --- | --- | --- |
| `kmsgpipe/lib`: circular message buffer | payload slots, records (valid, len, owner, timestamp), head, tail | `kmsgpipe_init`, `push`, `pop`, `get_message_count`, `cleanup_expired`, `clear` | It is a bounded queue; the valid records are one window from tail to head; "full" and "empty" are told apart although head = tail in both; a cleanup drops exactly the old messages |
| `kmsgpipe/labs/lab2`: blocking pipe | the buffer, a mutex, two wait queues, two counters of waiting threads | `open`, `release`, `read`, `write`, debugfs `stats`, module init and exit | Mutual exclusion on every path; the threads together implement the queue; nobody sleeps for ever on a condition that is true; counters and scratch buffers are right after every error return |
| `kmsgpipe/labs/lab3`: ioctl | as lab2, `expiry_ms` | queries, `S_EXPIRY_MS`, `CLEAR` | A clear leaves a proper queue and whoever waited for room gets it |
| `kmsgpipe/labs/lab4`: cleanup | as lab3, a delayed work item | a worker that expires messages, wakes writers, schedules itself again | It excludes the threads, drops old messages and only those, never stops running |
| `chapter06/calculator` | two operands, an operator, a result, a mutex | `read`, `write`, five ioctls | One thread at a time is at the operand and the result; the mutex is given back; only administrators choose the operator |
| `kmsgpipe/labs/lab1` | one buffer, its length, a mutex, a position per open file | `open`, `release`, `read`, `write` | A reader gets bytes of one message, not a mixture; nothing of an earlier message is left behind a shorter one |
| `chapter03/simple_char_driver` | one buffer that every write allocates anew, its size, a mutex | `open`, `release`, `read`, `write` | The size belongs to the buffer; the mutex is given back |
| module init and exit of the six drivers | the resources that are held, users, pending work | load, every step of init and its error return, unload, every step of exit | Whoever is in a handler finds a device that is ready and not freed; nothing is freed twice; what is acquired is given back |
| `kmsgpipe/kmsgctl`, `userland-program` | none | one ioctl each | - |
| `chapter02`, `cmake`, scripts | none | - | - |

How they interact: lab2, lab3 and lab4 are the same driver at three stages, and
each calls the library on `dev->ring_buffer`. Threads that have the device open
run `read` and `write` concurrently; `kmsgctl` issues the ioctls; the kernel's
work queue runs the cleanup worker; a reader of debugfs runs `stats`. All of them
share one `kmsgpipe_t`. Most of them take its mutex; the conditions of the two
waits, and everything in ioctl, do not.

What is hard here is concurrency: a condition evaluated slot by slot without the
mutex, wake-ups that may come too early or too late, a condition that is false
again once the mutex is taken, error returns from the middle of it all, an ioctl
that resets the buffer under a running push, and a worker whose cutoff is taken
before it waits for the mutex. The simpler drivers add error returns that keep the
mutex, a buffer and its size that are replaced one after the other, and file
positions that several threads share; loading and unloading adds error paths that
undo only a part. `PROJECT.json` lists these hazards line by line,
with the properties that would catch them; where no property does, because the code
itself does what is feared and a property names it as its exception, it says so.

## The modules

| Module | Models | Extends or instantiates |
| --- | --- | --- |
| `Errno` | error numbers | |
| `MsgQueue` | the abstract specification of the library and of lab2: a bounded queue with `Enqueue`, `Dequeue`, `Expire`, `Flush` | |
| `ExpiringQueue` | the abstract specification of lab4: a bounded queue and a cleanup that takes a timestamp, keeps others out and drops what is older | |
| `KmsgRing` | the library's functions as operators on a buffer value, step by step and as a whole | `Errno` |
| `KmsgLib` | the library as a program calls it: one action per function | `KmsgRing`, instantiates `MsgQueue` |
| `KmsgPipe` | lab2: threads in read, write and stats | `KmsgRing`, instantiates `MsgQueue` |
| `KmsgIoctl` | lab3: controllers in ioctl, beside the threads of lab2 | `KmsgPipe` |
| `KmsgCleanup` | lab4: the worker, beside everything of lab3 | `KmsgIoctl`, instantiates `ExpiringQueue` |
| `CharDevice` | what lab1, simplechar and the calculator have in common: a device, a mutex, threads, positions | |
| `Calculator` | chapter 6: threads in open, release, read, write and ioctl of the calculator | `CharDevice` |
| `KmsgGlobal` | lab1: threads in read and write on open files that they may share | `CharDevice` |
| `SharedMessage` | the abstract specification of lab1: one message that is replaced as a whole, and reads that go on where their file stands | |
| `SimpleChar` | chapter 3: threads in open, release, read and write of simplechar | `CharDevice` |
| `Drivers` | the three as one specification: a behaviour is one of one driver | `Calculator`, `KmsgGlobal`, `SimpleChar`, instantiates `SharedMessage` |
| `ModuleLife` | init and exit of all six drivers against users, viewers of stats and the delayed work | |
| `KmsgRingProofs`, `KmsgLibProofs` | theorems about the library, see below | `KmsgLib` |
| `KmsgPipeProofs`, `KmsgPipeWakeups`, `KmsgPipeQueue` | theorems about lab2, each module on top of the one before | `KmsgPipe`, `KmsgRingProofs` |
| `KmsgCleanupProofs` | theorems about lab3 and lab4 | `KmsgCleanup`, `KmsgPipeQueue` |
| `DriversProofs` | theorems about lab1, simplechar and the calculator | `Drivers` |
| `ModuleLifeProofs` | theorems about init and exit | `ModuleLife` |
| `MCKmsgLib`, `MCKmsgPipe`, `MCKmsgIoctl`, `MCKmsgCleanup`, `MCDrivers`, `MCModuleLife` | credentials, access modes, operands and drivers for TLC | |

### State

`rb` is `dev->ring_buffer`: a record of `base` (one payload per slot), `records`,
`head` and `tail`. A payload is a model value, since the code copies payloads and
never looks at them; `Zero` stands for memory after `kzalloc` or `memset`. `len`
is truncated to 16 bits as in `kmsg_record_t`. `mutex` is the owner or `Free`,
`waitq` the threads on `reader_q` and `writer_q`, `waiting` the two atomic
counters, `now` the value `ktime_get()` returns. `pc[p]` and `local[p]` are the
program counter and the local variables of thread `p`.

In `Calculator`, `dev` holds the operands, the result and the operator, `pos[t]`
is the file position of thread `t`. A long lies between `-LongMax - 1` and
`LongMax` and wraps around.

In `KmsgGlobal`, `dev` holds the buffer and `data_len`, `pos[f]` is the position of
the open file `f`. A byte is `<<m, i>>`, the i-th of message `m`, so that every
mixture of messages, every shift and every rest of an old message can be told from
a message. In `SimpleChar` a buffer is its length and whether the data has arrived
in it.

In `ModuleLife`, `held[r]` counts what the present load has of resource `r` (device
number, structure, payload memory, records, cdev, debugfs entry, work, buffers) and
`kept[r]` what earlier loads have left behind.

### Steps

An action is the code between two points at which another thread can see or
change shared state. Under the mutex `push` and `pop` take several steps, because
the wait conditions and ioctl look at the buffer without it:

| Label | Code of lab2 | Actions |
| --- | --- | --- |
| `idle` | before the call: size check 210/296, `kzalloc` | `kmsgpipe_read`, `kmsgpipe_write` |
| `lock`, `relock` | `mutex_lock_interruptible` 223/310, 246/331 | `Lock`, `LockInterrupted` |
| `test` | the loop condition 229/316 | `TestPasses`, `TestFails` |
| `wait`, `scan`, `sleep` | `atomic_inc`, `wait_event_interruptible` 237-241/324-326 | `Wait`, `ScanSlot`, `Sleep`, `Woken`, `WaitOver`, `WaitInterrupted` |
| `write`, `fill`, `advance_head` | `copy_from_user`, `kmsgpipe_push` 252-263 | `CopyFromUserFaults`, `PushBegin` (`PushCopy` or `PushRefused`), `PushFill`, `PushAdvance` |
| `wake_readers`, `unlock` | 272-278 | `WakeReaders`, `Unlock` |
| `read`, `release`, `advance_tail` | `kmsgpipe_pop` 337-350 | `PopRefused`, `PopCopy`, `PopRelease`, `PopAdvance` |
| `wake_writers`, `copyout` | 353-365 | `WakeWriters`, `CopyToUser` |
| `return` | back in user space | `Return` |
| `stats` | `ksmgpipe_stats_show` 368-382 | `StatsLock`, `StatsCount`, `StatsShow` |

Steps that nobody else can tell apart are merged: the credentials and the copy
from user space with the memcpy in `push`; the five assignments to a record
(each one alone leaves the record as invalid, or as valid, as before or after).
A `memset` of the records by `CLEAR` goes slot by slot, as unlocked threads may
see it half done. `PushBegin` is the test of `push` with both its outcomes; the
refusal is what `NeverSpuriousError` proves impossible for a thread that has found
room, and the mistakes among the mutants make possible.

The calculator's `write` takes two steps under the mutex: `WriteCopy` stores the
first operand and reads the operator, `WriteCompute` reads the second operand in
the case of that operator. Both can be changed by an ioctl in between, as ioctl
takes no mutex; `RESET` sets the one and then the other (`Reset`,
`ResetOperator`). A division that traps leaves its thread at `dead` with the mutex
held.

In lab1 the kernel hands `read` and `write` a copy of the file's position
(`Call`) and stores the copy when the call has not failed (`ReturnGlobal`); threads
that share a file after `dup` or `fork` do so at the same time. `write` erases,
copies and sets the length in three steps under the mutex (`Erase`, `CopyMessage`,
`SetLength`), `read` copies under the mutex and gives the user what it has copied
after the unlock. The refinement of `SharedMessage` takes a write to happen at the
`memset`: from there to the new length `ShownMessage` is the message that is being
written. `ShownCalls` is what it knows of the calls under way: the file, the count,
the position the call began at or has come to, and the bytes it has found. `Read`
of `SharedMessage` is a function of these and of the message: the bytes from the
call's position on, as many as were asked for or are left.

simplechar's `write` replaces the buffer (`SimpleAllocate`), fills it
(`SimpleCopy`, which may fail) and sets the size (`SimpleSize`).

`ModuleLife` describes `module_init` by a table per driver: what each step acquires
and what its error return undoes. `module_exit` is a list of what it gives back, in
order. `InitStep`, `InitFails`, `InitGoesOn` (an error that is only printed) and
`InitDies` (memory that was not there is used) walk the one, `ExitStep` the other.
The kernel refuses to unload a module that is referred to. An open device and an
open stats file refer to it; so does an open under way, once the kernel has found
the cdev (`Lookup`) and before it calls open, provided `cdev.owner` is set, which
lab1 does not do. The model lets no module be loaded again while such an open is
under way.

### Assumptions about Linux

`mutex_lock_interruptible` fails only when the mutex is held and a signal is
pending; `wait_event_interruptible` queues the caller before it tests the
condition; a wake-up takes all sleepers off the queue. Kernel workers receive no
signals, so the lock of the cleanup worker does not fail. Memory accesses take
effect in program order. `cancel_delayed_work_sync` waits for a running work and
keeps it from arming itself again.

Two more assumptions name a limit of the model. The read counts of the passing
runs are at least as long as the messages in the buffer: `kmsgpipe_pop` copies
`len` bytes whatever the size of the reader's scratch buffer, and what a copy
past the end of an allocation does to the kernel is outside the model. And
`capacity` is at least 1 (`CapacityAssumption`): the module parameter is not
checked by the code, and is set once by whoever loads the module.

## The runs

| Run | Configuration | Shows |
| --- | --- | --- |
| `lib` | 3 slots, two users of different groups, timestamps 0..2 in any order, a length that fits and one that does not | `TypeOK`, `WindowKept`, `TestsAgree`; the library implements `MsgQueue`; `pop` hands out the oldest message, once; a cleanup is exact |
| `pipe` | 2 slots, 2 readers (one may not read what the writer writes), a writer, blocking and not, fair | `WindowKept`, `NoSpuriousError`, `NoLostWakeup`, `SleeperServed`, `NonblockingReturns` |
| `pipe_errors` | 2 slots, a reader, a writer of two payloads and two lengths, a viewer; signals, failing copies and allocations, calls that are too long, `O_NONBLOCK`, clock 0..1 | `TypeOK`, `MutexHeldInside`, `WaitersCounted`, `StatsExact`, `ImplementsQueue`, `ReadsOldest` |
| `ioctl` | 2 slots, a reader, a writer, a controller with all commands, failing copies | `IoctlTypeOK`, `ReadersNotStranded` |
| `cleanup` | 2 slots, a reader, 2 writers, the worker, clock 0..1 | `WorkerExcluded`, `WindowKept`, `NoSpuriousError`, `CleanupComplete`, `NoLostWakeupWithWorker`, `TimestampsSorted`, `ImplementsExpiringQueue` |
| `cleanup_live` | 1 slot, a reader, a writer, the worker, a controller that clears and sets the expiry, fair | `WorkerRecurs`, `WriterServed` |
| `drivers` | two threads, an administrator who reads and writes and a user who only writes, two files, counts on both sides of the buffer's size and of a long's, two messages, longs of 2 bits with operands whose sums overflow and whose divisions trap, signals, failing copies and allocations, fair | `DriversTypeOK`, `InsideWithMutex`, `PreviousErasedInLab1`, `SizeFitsDataInSimpleChar`, `MutexGivenBack`, `OnlyAdminSetsCalculator`, `LockServed`, `ImplementsSharedMessage` |
| `life` | all six drivers, two users, two loads, two buffers of simplechar, fair | `LifeTypeOK`, `UsersFindDevice`, `NothingKept`, `ExitCompletes` |

Four runs show what the code does and a document or a comment denies:

| Run | Property that fails | What happens |
| --- | --- | --- |
| `pipe_scratch` | `ScratchFreed` | `-EAGAIN` and `-ERESTARTSYS` from the wait loop leak the scratch buffer (lab2 `kmsgpipe_fops.c:234`) |
| `ioctl_race` | `QuietRingIsWindow` | `CLEAR` without the mutex meets a push or a pop half way and leaves a buffer that is no queue (lab3 `kmsgpipe_fops.c:437`) |
| `ioctl_sleep` | `WriterServed` | `CLEAR` does not wake the writers: one sleeps on beside an empty buffer |
| `cleanup_early` | `NoEarlyExpiry` | the worker's cutoff is the present, so `expiry_ms` is the period of the worker and not the age of what it drops (lab4 `kmsgpipe_fops.c:459`) |

The three drivers of `drivers` share no state with each other, so that a behaviour
with all of them would only interleave behaviours of each: choosing one at the start
loses nothing that a property speaks of, and every property names the driver it is
about.

Why the bounds are enough: two slots are the fewest for which a window wraps, a
buffer is neither full nor empty, and a scan of the slots can be overtaken in
the middle; three are used where the state is small. Two threads on each side
are the fewest with which two of a kind compete for one message or one slot: two
readers compete in `pipe`, two writers in `cleanup`, and the theorems about
`KmsgPipe` hold for any number of either. `ReadsOldest` needs messages
that differ: in `pipe_errors` two may lie in the buffer with different payloads,
lengths and timestamps. Its reader is root; that a message is refused to those who
may not read it is checked in `lib`, and proved for both (`OldestHandedOut`,
`OldestRead`). The users of the calculator choose any operator of the enum, and one
that is none. A buffer of two bytes in lab1 is the
smallest that has a message with a rest behind it; `MaxPos` bounds the positions,
of which only those below the length of a message are told apart. A second load
(`MaxLoads`) meets what a failed first one has left behind, and a second buffer
(`MaxBuffers`) is the first that is leaked. A
run of two clock values has messages that are and that are not older than the
worker's timestamp, of the same age included; `NoEarlyExpiry` needs three. Threads call again and again,
so sequences of calls are as long as TLC finds new states.

Every property of a passing run has a mutant: the operators called `Slip_...` are
plausible mistakes (a lost wake-up, `if` for `while`, a missing unlock, `<=` for
`<`), and TLC finds the property violated with the mistake in place.

### Fairness

`Fairness` in `KmsgPipe` has two parts. A thread in the kernel that can take a
step eventually takes one (weak fairness of `InKernel`): the scheduler gives every
runnable thread the processor. A thread that waits for the mutex gets it although
others take it in between (strong fairness of `Lock`, in `Drivers` of `TakesMutex`): the mutex of Linux queues
its waiters and hands itself over to one that was overtaken. Calls are not fair: nobody has to
read or write, and no signal has to arrive. In `KmsgCleanup` the clock goes on, and the work queue runs what is
due. A clock that stops at `Horizon` stands for one that goes on: what is due
later is due then, and the worker keeps recurring. In `ModuleLife` exit goes on and
a work that runs ends (`ExitStep`, `ExitDone`, `WorkEnds`); nobody has to load,
unload, open or close anything.

## The theorems

TLC looks at the instances above; the theorems hold for every capacity, every
number of threads, every set of counts, payloads and credentials.

`KmsgRingProofs` has the lemmas about the operators of the buffer: the slots from
a tail on are distinct and are all the slots; what `CopyIn`, `FillRecord`,
`AdvanceHead`, `ReleaseTail` and `AdvanceTail` do to a window and to the sequence of
messages it stands for; the message count of a window of n records is n.

`KmsgLibProofs`: `LibTypeCorrect`, `LibWindowKept`, `LibTestsAgree`,
`LibImplementsQueue`, `OldestHandedOut`, `CleanupAlwaysExact`. The window is inductive
by itself here, and the refinement follows from it: a push appends to the sequence of
messages, a pop takes its head away, and a cleanup takes some off the front.
`cleanup_expired` is the interesting case: the number of rounds of its loop is given
by a CHOOSE, and the proof shows that there is such a number (the least one at which
the loop stops), that it is at most the size of the window, that the window loses
just as many records at its tail, and that behind a message that is not old enough
there is none that is, if they are sorted: such a one would have a first, and it would
be older than the one before it (`YoungBehindYoung`).

`KmsgPipeProofs`: `TypeCorrect`, one step per action; `MutualExclusion`,
`WindowAlwaysKept`, `NeverSpuriousError`. None of these three is inductive. While a thread is between the halves of a push the
valid records run up to head and include it; while it is between the halves of a
pop they begin behind tail. `SafeInv` says so: it joins the types, `MutexHeldInside`,
and `RingInv`, which relates the window to the label of the thread that holds the
mutex: at `write` the buffer is a window that is not full, at `read` one that is not
empty, at `advance_head` head is the last valid record, at `advance_tail` tail is the slot just
released. That a thread at `write` finds room is why it gets no `-ENOSPC`.

`KmsgPipeWakeups`: `WaitersAlwaysCounted`, `WakeupNeverLost`, `StatsAlwaysExact`.
`NoLostWakeup` speaks of sleepers only, and says nothing of a thread that is still
counting slots while a message goes into a slot it has passed. `ScanInv` does: a
queued thread whose count has found no reason to go on has none in the slots it has
passed, or a waker is on its way. `Harmless` is what the proof needs of every step of
the others: it takes no reason to wait away, or its thread is on its way to wake, or
it wakes. Nothing of this depends on the mutex. `StatsAlwaysExact` does: nobody else
changes the buffer while the viewer is inside (`RingChangedInside`).

`KmsgPipeQueue`: `TimestampsAlwaysSorted`, `PipeImplementsQueue`, `OldestRead`. The
abstract queue is `Messages(SettledRing)`, the buffer with the index moved that is
about to move. Two steps change it: the one that fills a record and the one that
releases a record (`Accepts`, `HandsOut`); `SafeInv` says that there is room in
the first case and a message in the second, and the lemmas of `KmsgRingProofs` what
becomes of the sequence. `QueueInv` adds to `SafeInv` what a call carries with it to
these steps (`CarryInv`: who pushes is in a write, with a count that it was called
with and a timestamp not in the future) and
`TimeInv`: the messages are sorted, none is younger than the clock, and while a thread
is about to fill its record none is younger than the timestamp it has taken, as it
took it inside the mutex. `HoldInv` is what `ReadsOldest` needs besides: the scratch buffer of
a reader at `release` is the message at tail, which it may read.

`KmsgCleanupProofs`, lab3: `IoctlTypeCorrect`, `ReadersNeverStranded`; lab4:
`WorkerAlwaysExcluded`, `ReadersNeverStrandedByWorker`, and, for a device on which
nobody issues `CLEAR`, `WindowKeptByWorker`, `NoSpuriousErrorByWorker`,
`CleanupAlwaysComplete`, `WorkerImplementsQueue`, `WakeupNeverLostWithWorker`. The
steps of the threads are those of lab2, so that its invariants are kept for the
reasons given there, from every state and not only from those that lab2 reaches; the
new part is what a controller and the worker do to them. A `CLEAR` takes no mutex: it
may invalidate records in the middle of a push or a pop, after which head, tail and
the records are no queue (`ioctl_race`). What survives it is proved with it: the types,
the mutex, and `ReadScan`, the half of the wake-up invariant that concerns readers,
since a step that only invalidates records takes away no reader's reason to wait. What
speaks of the order and number of the messages is proved under the hypothesis
`"CLEAR" \notin Commands`: any number of controllers may ask and set the expiry, but
none clears. The run `cleanup` has no controller at all. `ExpiryInv` joins
`QueueInv` with the state of the worker: it holds the mutex exactly between its lock
and its unlock (`WorkerOK`), and behind its loop nothing in the buffer is older than
its timestamp (`CleanupComplete`), which needs `TimeInv`, as the worker stops at the
first message that is young. `AwakeInv` weakens `ScanInv`: a writer may have lost its
reason to sleep while the worker is in its loop (`WriterInDebt`), as the worker wakes
the writers only when it is through.

`WorkerImplementsQueue` is about `ExpiringQueue`, whose cleanup has a state of its own:
`Cleaning` is `"stamped"` from the moment the worker takes its timestamp and
`"cleaning"` while it holds the mutex, and `stamp` is `worker.stamp`. The theorem says
that the stamp is the time at which it was taken; that nothing is accepted or handed out
during a cleaning (the worker's half of `ExpiryInv`); that each round of the loop drops
the head of the queue and that it is older than the stamp (the condition of the loop);
and that a cleaning ends only when nothing older is left (`CleanupComplete`). Messages
that are as old as the stamp or younger survive.

`ModuleLifeProofs`: `LifeTypeCorrect`, `UsersAlwaysFindDevice`, `NothingEverKept`. The
first part says of the table of each driver what makes it correct (`InitFacts`,
`FailFacts`, `ExitFacts`): nothing is acquired twice; the cdev is added when all is
there that the handlers use, and after it no step fails; an error return undoes only
what earlier steps have acquired and, but for `MayStay`, all of it; exit gives back
only what was acquired, nothing twice, and cancels the work before what the work
uses. The rest never looks at a table again. `Owned` is the set of resources that the
state and the next step stand for, and `LifeInv` says that `held` counts them
(`Accounted`), that whoever refers to the module refers to one that is alive and has
come through a cdev that is still owned, and that a work that is armed or running is
owned.

`DriversProofs`: `DriversTypesCorrect`,
`DriversMutualExclusion`, `AlwaysPreviousErased`, `AlwaysSizeFitsData`, `OnlyAdmins`,
`MutexAlwaysGivenBack`, `Lab1SharesOneMessage`, for any threads, files, counts,
messages, sizes and widths of a long. There is one invariant per driver. `CalcInv`
adds to the types that an operand on its way into the device is a long, and rests
on arithmetic: a quotient that does not trap is a long. `SimpleInv` says at which
labels the buffer and the size may differ. `GlobalInv` follows the buffer of lab1
through a write: all zero at `memcpy`, the new message and zero behind it at
`data_len`. From it the refinement: every step of lab1 is a step of `SharedMessage` on
its message, on a call (`Begin`, `Write`, `Read`, `ReadNothing`, `End`, `Fail`) or on
a file's position, or a stutter; and what a reader copies at `read` is what the message
that is shown has there, from the call's position on.
`OnlyAdmins` names the two steps that may change the operator, a `SET_OPERATOR` of an
administrator and the second step of a `RESET`. That the first refuses
multiplication is no part of what is proved.

The assumptions are the named ones of the modules: `CapacityAssumption`,
`DataSizeAssumption`, `ZeroAssumption`, `ThreadAssumption`, `CallAssumption`,
`EnvironmentAssumption`, `LibAssumption`, `CharDeviceAssumption`,
`CalculatorAssumption`, `KmsgGlobalAssumption`. TLC evaluates each of them in a run.

Only model-checked: liveness and everything under fairness (`SleeperServed`,
`NonblockingReturns`, `WriterServed`, `WorkerRecurs`, `LockServed`, `ExitCompletes`),
which is beyond the proof system, and, where `CLEAR` is issued, all that concerns the
order and number of the messages: `ioctl_race` shows that no such thing holds in general.
Every invariant, action property and refinement that a passing run checks is also a
theorem.

## Differences seen between documents and code without a run

- `-EINVAL` for a long write, `-EMSGSIZE` in `kmsgpipe/docs/kmsgpipe-driver-spec.md:75`.
- An ioctl number without a case returns 0, `-ENOTTY` in the same document, line 147.
- `read` removes the message before `copy_to_user` and loses it when the copy
  fails; line 82 has "On success".
- `read` with a count smaller than the message: the scratch buffer is smaller
  than the contract of `kmsgpipe_pop` (`kmsgpipe/include/kmsgpipe.h:83`) asks for.
- The default expiry is 30 seconds, 10 in the document (line 118).
- The calculator keeps its mutex when the copy of a write fails
  (`chapter06/calculator/calculator.c:121`) and when a division traps (line 142).
  `MutexGivenBack` names these two, and the death of a simplechar write whose
  `kmalloc` fails, as the only exceptions: it does not catch them.
- `chapter06/README.md:9` has an administrator set "add, sub, mul, div".
  Multiplication is refused: MUL comes after DIV in the enum and the test of
  `chapter06/calculator/calculator.c:186` ends at DIV. The users of `drivers` ask for
  it; the types allow it, so that no property rests on the refusal.
- The calculator answers a read of exactly 8 bytes with 0 (line 81).
- simplechar keeps every buffer but the last, as its `kfree` is commented out
  (`chapter03/simple_char_driver/simplechar.c:148`), where
  `chapter03/simple_char_driver/README.md:17` has a write release the memory held
  before. It never frees its structure. `NothingKept` names both.
- simplechar and the calculator do not check `kmalloc` and only print an error of
  `cdev_add`; an init of lab1 to lab4 that fails after it has its structure keeps
  the device number, and lab1's keeps the structure too when `cdev_add` fails.

## Not modelled

- `kmsgctl` and the user programs have no state: each is one ioctl or a straight
  line of them, and the modules let any thread issue any of these calls in any
  order. What `kmsgctl` prints and how it parses its arguments is left out, and the
  scull driver that one program talks to is not in the repository.
- The modules of chapter 2 print on load and unload. The files with `module_init`
  and `module_exit` only register the functions that `ModuleLife` models.
- The scripts and build files run before there is a system.
- `llseek` of the debugfs file, formatting of its text, log messages.
- `capacity` or `data_size` outside what the assumptions allow, and copies past the
  end of an allocation (see the assumptions above).

## Plan

1. Done: library, lab1 to lab4, simplechar, calculator, module life cycle; proofs of
   every invariant, action property and refinement that a passing run checks.
2. Next: what remains true of the messages when `CLEAR` is issued while nobody is
   inside, that is, the lab4 theorems with the hypothesis weakened from "no CLEAR" to
   "no CLEAR during a push, a pop or a cleanup".
