------------------------------ MODULE KmsgLib ------------------------------
(***************************************************************************)
(* The library kmsgpipe/lib used by one thread, a call at a time, as its   *)
(* unit tests use it: every action is one complete call of one function.   *)
(* Timestamps and credentials are arguments chosen by the caller, so       *)
(* records need not be in timestamp order.                                 *)
(***************************************************************************)
EXTENDS KmsgRing, Sequences

CONSTANTS
    Lens,       \* lengths a caller passes to push
    Users,      \* credentials of the callers
    Times       \* timestamps and cutoffs a caller passes

ASSUME LibAssumption ==
    /\ Lens \subseteq Nat
    /\ Users \subseteq Creds
    /\ Times \subseteq Nat

VARIABLES
    rb,     \* the kmsgpipe_buffer_t
    res     \* the last call: its name, what it returned, what it handed out

vars == <<rb, res>>

Message == [data : Payloads \cup {Zero}, len : {l % LenRange : l \in Lens},
            uid : {u.uid : u \in Users}, gid : {u.gid : u \in Users},
            timestamp : Times]

\* The caller's zeroed out_buf.
NoMessage == [data |-> Zero, len |-> 0, uid |-> 0, gid |-> 0, timestamp |-> 0]

Result(op, ret, msg) == [op |-> op, ret |-> ret, msg |-> msg]

Results ==
    [op : {"init", "push", "pop", "count", "cleanup", "clear"},
     ret : Int,
     msg : [data : Payloads \cup {Zero}, len : Lengths, uid : Nat, gid : Nat,
            timestamp : Nat]]

Init ==
    /\ rb = EmptyRing
    /\ res = Result("init", 0, NoMessage)

kmsgpipe_push(data, len, cred, ts) ==
    \/ /\ PushError(rb, len) = 0
       /\ rb' = Push(rb, data, len, cred, ts)
       /\ res' = Result("push", len, NoMessage)
    \/ /\ PushError(rb, len) # 0
       /\ res' = Result("push", PushError(rb, len), NoMessage)
       /\ UNCHANGED rb

kmsgpipe_pop(cred) ==
    \/ /\ PopError(rb, cred) = 0
       /\ rb' = Pop(rb)
       /\ res' = Result("pop", rb.records[rb.tail].len, MessageAt(rb, rb.tail))
    \/ /\ PopError(rb, cred) # 0
       /\ res' = Result("pop", PopError(rb, cred), NoMessage)
       /\ UNCHANGED rb

kmsgpipe_get_message_count ==
    /\ res' = Result("count", MessageCount(rb), NoMessage)
    /\ UNCHANGED rb

kmsgpipe_cleanup_expired(cutoff) ==
    /\ rb' = CleanupExpired(rb, cutoff)
    /\ res' = Result("cleanup", ExpiredCount(rb, cutoff), NoMessage)

kmsgpipe_clear ==
    /\ rb' = EmptyRing
    /\ res' = Result("clear", MessageCount(rb), NoMessage)

Next ==
    \/ \E data \in Payloads, len \in Lens, cred \in Users, ts \in Times :
            kmsgpipe_push(data, len, cred, ts)
    \/ \E cred \in Users : kmsgpipe_pop(cred)
    \/ kmsgpipe_get_message_count
    \/ \E cutoff \in Times : kmsgpipe_cleanup_expired(cutoff)
    \/ kmsgpipe_clear

Spec == Init /\ [][Next]_vars

-----------------------------------------------------------------------------

\* Every variable has its type; head, tail and len stay in range.
TypeOK ==
    /\ rb \in Ring
    /\ res \in Results

\* The valid records are always one contiguous run of slots that begins at
\* tail and ends before head, however pushes, pops, expiries and clears follow
\* one another and wrap around the end of the array.
WindowKept == IsWindow(rb)

\* The two ways the code asks whether there is room, or a message, agree: the
\* message count (kmsgpipe_fops.c waits for it) and the single record that
\* push and pop look at.  A full buffer is never taken for an empty one,
\* although head = tail in both.
TestsAgree ==
    /\ (MessageCount(rb) = Capacity) <=> rb.records[rb.head].valid
    /\ (MessageCount(rb) = 0) <=> ~ rb.records[rb.tail].valid

\* The array with its two indices implements the bounded queue.
Queue == INSTANCE MsgQueue WITH queue <- Messages(rb), Cutoffs <- Times
ImplementsQueue == Queue!Spec

\* pop hands out exactly the oldest message, payload and owner included, to a
\* user who may read it, and removes it; a refused pop removes nothing; and no
\* message is ever handed out twice, because what is behind it in the queue is
\* unchanged.
PopHandsOutOldest ==
    [][\A cred \in Users : kmsgpipe_pop(cred) =>
        IF res'.ret < 0
        THEN Messages(rb') = Messages(rb)
        ELSE /\ Messages(rb) # << >>
             /\ res'.msg = Head(Messages(rb))
             /\ IsValidAccess(cred, res'.msg)
             /\ Messages(rb') = Tail(Messages(rb))]_vars

\* A cleanup takes as many messages off the front as it returns; when they were
\* pushed in timestamp order these are all that are older than the cutoff and no
\* other, also when the messages wrap around or fill the array.
CleanupIsExact ==
    [][\A cutoff \in Times : kmsgpipe_cleanup_expired(cutoff) =>
        LET before == Messages(rb)
            n == res'.ret
            sorted == \A k \in 1 .. Len(before) - 1 :
                        before[k].timestamp <= before[k + 1].timestamp
        IN  /\ n \in 0 .. Len(before)
            /\ Messages(rb') = SubSeq(before, n + 1, Len(before))
            /\ sorted => \A k \in 1 .. Len(before) :
                            before[k].timestamp < cutoff <=> k <= n]_vars

=============================================================================
