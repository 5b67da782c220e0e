------------------------------ MODULE KmsgRing ------------------------------
(***************************************************************************)
(* The circular message buffer of kmsgpipe/lib/src/kmsgpipe.c as operators *)
(* on a value of type kmsgpipe_buffer_t.  The functions that take several  *)
(* steps to update the buffer are given step by step (CopyIn, FillRecord,  *)
(* AdvanceHead; ReleaseTail, AdvanceTail), because the drivers read and    *)
(* clear the buffer while another thread is between two of those steps,    *)
(* and as a whole (Push, Pop) for the sequential library.                  *)
(*                                                                         *)
(* A slot of the payload area holds one payload: a member of Payloads, or  *)
(* Zero after a memset.  pop() only ever reads the len bytes that the last *)
(* push to the slot wrote, so the bytes behind them are left out.          *)
(***************************************************************************)
EXTENDS Errno, FiniteSets

CONSTANTS
    Capacity,   \* number of message slots
    DataSize,   \* bytes per message slot
    Payloads,   \* what a user may write
    Zero        \* zeroed memory

ASSUME CapacityAssumption == Capacity \in Nat \ {0}
ASSUME DataSizeAssumption == DataSize \in Nat
ASSUME ZeroAssumption == Zero \notin Payloads

Slots == 0 .. Capacity - 1

\* Credentials of a caller or of the owner of a record.
Creds == [uid : Nat, gid : Nat]

\* Values of the uint16_t field len.
LenRange == 65536
Lengths == 0 .. LenRange - 1

Record == [valid : BOOLEAN, len : Lengths, uid : Nat, gid : Nat, timestamp : Nat]

Ring == [base : [Slots -> Payloads \cup {Zero}],
         records : [Slots -> Record],
         head : Slots,
         tail : Slots]

ZeroRecord == [valid |-> FALSE, len |-> 0, uid |-> 0, gid |-> 0, timestamp |-> 0]

\* kmsgpipe_init, and what kmsgpipe_clear leaves.
EmptyRing == [base |-> [i \in Slots |-> Zero],
              records |-> [i \in Slots |-> ZeroRecord],
              head |-> 0,
              tail |-> 0]

-----------------------------------------------------------------------------
(* Slips a programmer could make in the operations below.  No definition   *)
(* uses them: put in the place of the operation, each makes TLC find a     *)
(* property violated (Slip_NextSlot for NextSlot, and so on).              *)

\* The indices are not wrapped around.
Slip_NextSlot(i) == i + 1

\* push overwrites the oldest message of a full buffer.
Slip_PushError(r, len) == IF len > DataSize THEN -EMSGSIZE ELSE 0

\* push, or pop, does not move its index.
Slip_AdvanceHead(r) == r
Slip_AdvanceTail(r) == r

\* pop leaves the message valid.
Slip_ReleaseTail(r) == r

\* cleanup also drops the messages of the cutoff itself.
Slip_IsExpired(r, i, cutoff) ==
    r.records[i].valid /\ r.records[i].timestamp <= cutoff

-----------------------------------------------------------------------------

NextSlot(i) == (i + 1) % Capacity

\* kmsgpipe_get_message_count.
MessageCount(r) == Cardinality({i \in Slots : r.records[i].valid})

\* is_valid_access: root, the owner, or a member of the owner's group.
IsValidAccess(cred, rec) ==
    \/ cred.uid = 0
    \/ cred.uid = rec.uid
    \/ cred.gid = rec.gid

-----------------------------------------------------------------------------
(* kmsgpipe_push *)

PushError(r, len) ==
    IF len > DataSize THEN -EMSGSIZE
    ELSE IF r.records[r.head].valid THEN -ENOSPC
    ELSE 0

CopyIn(r, data, len) ==
    IF len = 0 THEN r ELSE [r EXCEPT !.base[r.head] = data]

FillRecord(r, len, cred, ts) ==
    [r EXCEPT !.records[r.head] =
        [valid |-> TRUE, len |-> len % LenRange,
         uid |-> cred.uid, gid |-> cred.gid, timestamp |-> ts]]

AdvanceHead(r) == [r EXCEPT !.head = NextSlot(r.head)]

Push(r, data, len, cred, ts) ==
    AdvanceHead(FillRecord(CopyIn(r, data, len), len, cred, ts))

-----------------------------------------------------------------------------
(* kmsgpipe_pop *)

PopError(r, cred) ==
    IF ~ r.records[r.tail].valid THEN -ENODATA
    ELSE IF ~ IsValidAccess(cred, r.records[r.tail]) THEN -EACCES
    ELSE 0

\* What a slot holds for the reader it is handed to.
MessageAt(r, i) ==
    [data |-> IF r.records[i].len = 0 THEN Zero ELSE r.base[i],
     len |-> r.records[i].len,
     uid |-> r.records[i].uid,
     gid |-> r.records[i].gid,
     timestamp |-> r.records[i].timestamp]

ReleaseTail(r) == [r EXCEPT !.records[r.tail].valid = FALSE]

AdvanceTail(r) == [r EXCEPT !.tail = NextSlot(r.tail)]

Pop(r) == AdvanceTail(ReleaseTail(r))

-----------------------------------------------------------------------------
(* kmsgpipe_cleanup_expired *)

\* The slot k places behind slot t.
SlotFrom(t, k) == (t + k) % Capacity

\* The condition of the loop, for the record in slot i.
IsExpired(r, i, cutoff) ==
    r.records[i].valid /\ r.records[i].timestamp < cutoff

\* How often the loop runs: it stops at the first record that is not expired,
\* and after one round, because it has then invalidated all of them.
ExpiredCount(r, cutoff) ==
    CHOOSE n \in 0 .. Capacity :
        /\ \A k \in 0 .. n - 1 : IsExpired(r, SlotFrom(r.tail, k), cutoff)
        /\ n < Capacity => ~ IsExpired(r, SlotFrom(r.tail, n), cutoff)

CleanupExpired(r, cutoff) ==
    LET n == ExpiredCount(r, cutoff)
        expired == {SlotFrom(r.tail, k) : k \in 0 .. n - 1}
    IN  [r EXCEPT !.records = [i \in Slots |->
                    [r.records[i] EXCEPT !.valid = @ /\ i \notin expired]],
                  !.tail = SlotFrom(r.tail, n)]

-----------------------------------------------------------------------------
(***************************************************************************)
(* What the buffer is meant to hold: the valid records are the n slots     *)
(* from tail on, and head is the slot behind them.  This is the property   *)
(* that makes the single test records[head].valid in push and              *)
(* records[tail].valid in pop agree with the count the drivers wait for.   *)
(***************************************************************************)
HoldsWindow(r, n) ==
    /\ r.head = SlotFrom(r.tail, n)
    /\ \A k \in Slots : r.records[SlotFrom(r.tail, k)].valid <=> k < n

IsWindow(r) == \E n \in 0 .. Capacity : HoldsWindow(r, n)

\* The messages in the buffer, oldest first.
Messages(r) ==
    [k \in 1 .. MessageCount(r) |-> MessageAt(r, SlotFrom(r.tail, k - 1))]

=============================================================================
