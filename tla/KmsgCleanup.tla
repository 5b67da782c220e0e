---------------------------- MODULE KmsgCleanup ----------------------------
(***************************************************************************)
(* The delayed work that lab4 adds to the device of lab3                   *)
(* (kmsgpipe/labs/lab4/kmsgpipe_fops.c): a worker thread that from time to *)
(* time drops expired messages, wakes the writers, and schedules itself    *)
(* again.  Its mutex_lock_interruptible does not fail: it fails on a       *)
(* signal, and kernel worker threads receive none.                         *)
(*                                                                         *)
(* Time is bounded: the clock stops at Horizon, and work that is due later *)
(* is due then.  From that moment on the worker runs again and again.      *)
(***************************************************************************)
EXTENDS KmsgIoctl

CONSTANT Worker     \* the worker, as owner of the mutex

ASSUME WorkerAssumption == Worker \notin Threads \cup Controllers \cup {Free}

VARIABLE worker     \* at: where it is; due: when it runs; stamp: its timestamp

cleanupVars == <<ioctlVars, worker>>

\* schedule_delayed_work: at once for 0; a negative expiry time becomes the
\* longest possible delay (msecs_to_jiffies).
DueTime(t) ==
    IF expiry_ms < 0 \/ t + expiry_ms > Horizon THEN Horizon ELSE t + expiry_ms

CleanupInit ==
    /\ IoctlInit
    /\ worker = [at |-> "armed", stamp |-> 0,
                 due |-> IF DefaultExpiry > Horizon THEN Horizon ELSE DefaultExpiry]

-----------------------------------------------------------------------------

(* Slips a programmer could make in the actions below (see KmsgRing).      *)

\* The worker takes no mutex.
Slip_WorkerLock ==
    /\ worker.at = "lock"
    /\ worker' = [worker EXCEPT !.at = "loop"]
    /\ UNCHANGED ioctlVars

\* if instead of while.
Slip_WorkerExpire ==
    /\ worker.at = "loop"
    /\ IsExpired(rb, rb.tail, worker.stamp)
    /\ rb' = Pop(rb)
    /\ worker' = [worker EXCEPT !.at = "unlock"]
    /\ UNCHANGED <<mutex, waitq, waiting, now, pc, local, expiry_ms, ctl>>

\* The worker wakes nobody.
Slip_WorkerWake ==
    /\ worker.at = "loop"
    /\ ~ IsExpired(rb, rb.tail, worker.stamp)
    /\ worker' = [worker EXCEPT !.at = "unlock"]
    /\ UNCHANGED ioctlVars

\* The work does not schedule itself again.
Slip_WorkerRearm ==
    /\ worker.at = "rearm"
    /\ worker' = [worker EXCEPT !.at = "done"]
    /\ UNCHANGED ioctlVars

-----------------------------------------------------------------------------

\* The timestamp is taken before the mutex.
WorkerStart ==
    /\ worker.at = "armed"
    /\ now >= worker.due
    /\ worker' = [worker EXCEPT !.at = "lock", !.stamp = now]
    /\ UNCHANGED ioctlVars

WorkerLock ==
    /\ worker.at = "lock"
    /\ mutex = Free
    /\ mutex' = Worker
    /\ worker' = [worker EXCEPT !.at = "loop"]
    /\ UNCHANGED <<rb, waitq, waiting, now, pc, local, expiry_ms, ctl>>

\* One round of the loop of kmsgpipe_cleanup_expired.
WorkerExpire ==
    /\ worker.at = "loop"
    /\ IsExpired(rb, rb.tail, worker.stamp)
    /\ rb' = Pop(rb)
    /\ UNCHANGED <<mutex, waitq, waiting, now, pc, local, expiry_ms, ctl, worker>>

WorkerWake ==
    /\ worker.at = "loop"
    /\ ~ IsExpired(rb, rb.tail, worker.stamp)
    /\ waitq' = [waitq EXCEPT !["write"] = {}]
    /\ worker' = [worker EXCEPT !.at = "unlock"]
    /\ UNCHANGED <<rb, mutex, waiting, now, pc, local, expiry_ms, ctl>>

WorkerUnlock ==
    /\ worker.at = "unlock"
    /\ mutex' = Free
    /\ worker' = [worker EXCEPT !.at = "rearm", !.stamp = 0]
    /\ UNCHANGED <<rb, waitq, waiting, now, pc, local, expiry_ms, ctl>>

WorkerRearm ==
    /\ worker.at = "rearm"
    /\ worker' = [worker EXCEPT !.at = "armed", !.due = DueTime(now)]
    /\ UNCHANGED ioctlVars

kmsgpipe_cleanup_worker ==
    \/ WorkerStart \/ WorkerLock \/ WorkerExpire \/ WorkerWake \/ WorkerUnlock
    \/ WorkerRearm

CleanupNext ==
    \/ IoctlNext /\ UNCHANGED worker
    \/ kmsgpipe_cleanup_worker

CleanupSpec == CleanupInit /\ [][CleanupNext]_cleanupVars

\* As in lab2; the clock goes on and the work queue runs what is due.
CleanupFairSpec ==
    /\ CleanupSpec
    /\ \A p \in Threads :
            /\ WF_cleanupVars(InKernel(p) /\ UNCHANGED <<expiry_ms, ctl, worker>>)
            /\ SF_cleanupVars(Lock(p) /\ UNCHANGED <<expiry_ms, ctl, worker>>)
    /\ \A c \in Controllers : WF_cleanupVars(InIoctl(c) /\ UNCHANGED worker)
    /\ WF_cleanupVars(Tick /\ UNCHANGED <<expiry_ms, ctl, worker>>)
    /\ WF_cleanupVars(kmsgpipe_cleanup_worker)
    /\ SF_cleanupVars(WorkerLock)

-----------------------------------------------------------------------------
(* Properties *)

WorkerInside == worker.at \in {"loop", "unlock"}

\* The mutex is held by the thread, or the worker, between lock and unlock,
\* and by nobody else.
WorkerExcluded ==
    /\ mutex = Worker <=> WorkerInside
    /\ \A p \in Threads : mutex = p <=> pc[p] \in Critical

\* When the worker is through with the buffer nothing in it is older than the
\* worker's timestamp, although it has looked at a prefix of the messages only.
CleanupComplete ==
    worker.at = "unlock" =>
        \A i \in Slots : rb.records[i].valid => rb.records[i].timestamp >= worker.stamp

\* No lost wake-up with the worker, which makes room like a reader.
NoLostWakeupWithWorker ==
    \A p \in Threads : At(p, "sleep") /\ Queued(p) =>
        \/ MustWait(local[p].op, MessageCount(rb))
        \/ \E q \in Threads : pc[q] \in WillWake(local[p].op)
        \/ local[p].op = "write" /\ worker.at = "loop"

\* Readers, writers and the worker together implement one bounded queue from
\* whose front exactly the messages older than the worker's timestamp expire,
\* while the worker holds the mutex.
Cleaning ==
    IF worker.at = "lock" THEN "stamped" ELSE IF WorkerInside THEN "cleaning" ELSE "none"
CleanupQueue == INSTANCE ExpiringQueue WITH
    queue <- Messages(SettledRing), phase <- Cleaning, stamp <- worker.stamp
ImplementsExpiringQueue == CleanupQueue!Spec

\* Under fairness the worker runs for ever: every run schedules the next,
\* whatever expiry time (that is not negative) was set in between.
WorkerRecurs == []<>(worker.at = "armed") /\ []<>(worker.at = "loop")

\* "Optional cleanup thread or delayed work cleans messages older than
\* `expiry_ms`": the worker drops no message before its time.
NoEarlyExpiry ==
    [][worker.at = "loop" /\ rb' # rb =>
        now - rb.records[rb.tail].timestamp >= expiry_ms]_cleanupVars

=============================================================================
