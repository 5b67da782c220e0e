---------------------------- MODULE KmsgLibProofs ----------------------------
(***************************************************************************)
(* The library keeps its buffer in shape, for every capacity and every     *)
(* sequence of calls, the cleanup of expired messages included.            *)
(***************************************************************************)
EXTENDS KmsgLib, KmsgRingProofs

\* The loop of kmsgpipe_cleanup_expired stops, at the first record that is not
\* expired or after one round.
LEMMA ExpiredCountFacts ==
    ASSUME NEW r \in Ring, NEW cutoff
    PROVE  /\ ExpiredCount(r, cutoff) \in 0 .. Capacity
           /\ \A k \in 0 .. ExpiredCount(r, cutoff) - 1 :
                    IsExpired(r, SlotFrom(r.tail, k), cutoff)
           /\ ExpiredCount(r, cutoff) < Capacity =>
                    ~ IsExpired(r, SlotFrom(r.tail, ExpiredCount(r, cutoff)), cutoff)
<1> DEFINE T == {n \in 0 .. Capacity :
                    n < Capacity => ~ IsExpired(r, SlotFrom(r.tail, n), cutoff)}
<1>1. Capacity \in T /\ T \subseteq Nat /\ T # {}
  BY CapacityAssumption
<1>2. PICK x \in T : \A y \in T : x <= y
  <2> HIDE DEF T
  <2> QED BY <1>1, LeastNatural
<1>3. x \in 0 .. Capacity /\ (x < Capacity => ~ IsExpired(r, SlotFrom(r.tail, x), cutoff))
  BY <1>2
<1>4. \A k \in 0 .. x - 1 : IsExpired(r, SlotFrom(r.tail, k), cutoff)
  <2> SUFFICES ASSUME NEW k \in 0 .. x - 1, ~ IsExpired(r, SlotFrom(r.tail, k), cutoff)
               PROVE  FALSE
    OBVIOUS
  <2>1. k \in 0 .. Capacity /\ k < x
    BY <1>3, CapacityAssumption
  <2>2. k \in T
    BY <2>1
  <2>3. x <= k
    BY <1>2, <2>2
  <2> QED BY <1>3, <2>1, <2>3, CapacityAssumption
<1>5. \E n \in 0 .. Capacity :
        /\ \A k \in 0 .. n - 1 : IsExpired(r, SlotFrom(r.tail, k), cutoff)
        /\ n < Capacity => ~ IsExpired(r, SlotFrom(r.tail, n), cutoff)
  BY <1>3, <1>4
<1> QED BY <1>5 DEF ExpiredCount

LEMMA CleanupType ==
    ASSUME NEW r \in Ring, NEW cutoff
    PROVE  CleanupExpired(r, cutoff) \in Ring
<1> DEFINE n == ExpiredCount(r, cutoff)
<1> DEFINE expired == {SlotFrom(r.tail, k) : k \in 0 .. n - 1}
<1> DEFINE recs == [i \in Slots |-> [r.records[i] EXCEPT !.valid = @ /\ i \notin expired]]
<1>1. n \in 0 .. Capacity
  BY ExpiredCountFacts
<1>2. CleanupExpired(r, cutoff) = [r EXCEPT !.records = recs, !.tail = SlotFrom(r.tail, n)]
  BY DEF CleanupExpired
<1>3. r.tail \in Slots /\ r.records \in [Slots -> Record]
  BY DEF Ring
<1> HIDE DEF n, expired
<1>4. recs \in [Slots -> Record]
  BY <1>3 DEF Record
<1>5. SlotFrom(r.tail, n) \in Slots
  BY <1>1, <1>3, SlotFromValue
<1> HIDE DEF recs
<1> QED BY <1>2, <1>4, <1>5 DEF Ring

\* A cleanup shortens the window from the tail.
LEMMA CleanupWindow ==
    ASSUME NEW r \in Ring, NEW m \in 0 .. Capacity, HoldsWindow(r, m), NEW cutoff
    PROVE  /\ ExpiredCount(r, cutoff) <= m
           /\ HoldsWindow(CleanupExpired(r, cutoff), m - ExpiredCount(r, cutoff))
<1> DEFINE n == ExpiredCount(r, cutoff)
<1> DEFINE expired == {SlotFrom(r.tail, k) : k \in 0 .. n - 1}
<1> DEFINE recs == [i \in Slots |-> [r.records[i] EXCEPT !.valid = @ /\ i \notin expired]]
<1> DEFINE f == CleanupExpired(r, cutoff)
<1>1. /\ n \in 0 .. Capacity
      /\ \A k \in 0 .. n - 1 : IsExpired(r, SlotFrom(r.tail, k), cutoff)
  BY ExpiredCountFacts
<1>2. /\ f.records = recs /\ f.tail = SlotFrom(r.tail, n) /\ f.head = r.head
  BY DEF CleanupExpired, Ring
<1>3. /\ r.tail \in Slots /\ r.records \in [Slots -> Record] /\ Capacity \in Nat
      /\ r.head = SlotFrom(r.tail, m)
      /\ \A k \in Slots : r.records[SlotFrom(r.tail, k)].valid <=> k < m
  BY CapacityAssumption DEF Ring, HoldsWindow
<1>4. \A i \in Slots : recs[i].valid <=> r.records[i].valid /\ i \notin expired
  <2> HIDE DEF expired
  <2> QED BY <1>3 DEF Record
<1> HIDE DEF n, recs, f
<1>9. n \in Nat /\ n <= Capacity /\ m \in Nat /\ m <= Capacity /\ Capacity \in Nat
  BY <1>1, CapacityAssumption
<1>5. n <= m
  <2> SUFFICES ASSUME m < n PROVE FALSE
    BY <1>9
  <2>1. m \in Slots /\ m \in 0 .. n - 1
    BY <1>9 DEF Slots
  <2>2. r.records[SlotFrom(r.tail, m)].valid
    BY <1>1, <2>1 DEF IsExpired
  <2> QED BY <1>3, <2>1, <2>2
<1>6. m - n \in 0 .. Capacity
  BY <1>1, <1>3, <1>5
<1>7. f.head = SlotFrom(f.tail, m - n)
  <2>1. CASE m - n \in Slots
    <3>1. SlotFrom(SlotFrom(r.tail, n), m - n) =
            IF n + (m - n) <= Capacity THEN SlotFrom(r.tail, n + (m - n))
            ELSE SlotFrom(r.tail, n + (m - n) - Capacity)
      BY <1>1, <1>3, <2>1, SlotFromAdd
    <3>2. n + (m - n) = m /\ m <= Capacity
      BY <1>1, <1>3
    <3> QED BY <1>2, <1>3, <3>1, <3>2
  <2>2. CASE m - n \notin Slots
    <3>1. n = 0 /\ m = Capacity /\ m - n = m
      BY <1>1, <1>3, <1>6, <2>2 DEF Slots
    <3>2. SlotFrom(r.tail, n) = r.tail
      BY <1>3, <3>1, SlotFromZero
    <3> QED BY <1>2, <1>3, <3>1, <3>2
  <2> QED BY <2>1, <2>2
<1>8. ASSUME NEW k \in Slots
      PROVE  f.records[SlotFrom(f.tail, k)].valid <=> k < m - n
  <2>1. k \in Nat /\ k < Capacity /\ n \in Nat /\ m \in Nat /\ m <= Capacity
    BY <1>1, <1>3 DEF Slots
  <2>4. SlotFrom(f.tail, k) = IF n + k <= Capacity THEN SlotFrom(r.tail, n + k)
                              ELSE SlotFrom(r.tail, n + k - Capacity)
    BY <1>1, <1>2, <1>3, SlotFromAdd
  <2>2. CASE n + k < Capacity
    <3>1. n + k \in Slots /\ n + k <= Capacity
      BY <2>1, <2>2, <1>3 DEF Slots
    <3>2. SlotFrom(f.tail, k) = SlotFrom(r.tail, n + k)
      BY <2>4, <3>1
    <3>3. SlotFrom(r.tail, n + k) \in Slots
      <4>1. n + k \in 0 .. Capacity
        BY <1>9, <2>1, <3>1
      <4> QED BY <1>3, <4>1, SlotFromValue
    <3>4. SlotFrom(r.tail, n + k) \notin expired
      <4> SUFFICES ASSUME NEW j \in 0 .. n - 1,
                          SlotFrom(r.tail, n + k) = SlotFrom(r.tail, j)
                   PROVE  FALSE
        OBVIOUS
      <4>1. j \in Slots /\ j # n + k
        BY <1>9, <2>1 DEF Slots
      <4>2. n + k = j
        BY <1>3, <3>1, <4>1, SlotDistance
      <4> QED BY <4>1, <4>2
    <3> HIDE DEF expired
    <3>5. f.records[SlotFrom(f.tail, k)].valid <=> n + k < m
      BY <1>2, <1>3, <1>4, <3>1, <3>2, <3>3, <3>4
    <3> QED BY <2>1, <3>5
  <2>3. CASE ~ (n + k < Capacity)
    <3> DEFINE j == n + k - Capacity
    <3>1. j \in 0 .. n - 1 /\ j \in 0 .. Capacity
      BY <1>1, <1>3, <2>1, <2>3
    <3>2. SlotFrom(f.tail, k) = SlotFrom(r.tail, j)
      <4>1. CASE n + k = Capacity
        <5>1. SlotFrom(f.tail, k) = SlotFrom(r.tail, Capacity)
          <6>1. Capacity <= Capacity
            BY <1>9
          <6> QED BY <2>4, <4>1, <6>1
        <5>2. SlotFrom(r.tail, Capacity) = r.tail
          <6>1. Capacity \in 0 .. Capacity
            BY <1>3
          <6>2. SlotFrom(r.tail, Capacity) = IF r.tail + Capacity < Capacity
                    THEN r.tail + Capacity ELSE r.tail + Capacity - Capacity
            BY <1>3, <6>1, SlotFromValue
          <6> QED BY <1>3, <6>2 DEF Slots
        <5>3. j = 0
          BY <1>9, <2>1, <4>1
        <5> QED BY <1>3, <5>1, <5>2, <5>3, SlotFromZero
      <4>2. CASE n + k # Capacity
        <5>1. ~ (n + k <= Capacity)
          BY <1>3, <2>1, <2>3, <4>2
        <5> QED BY <2>4, <5>1
      <4> QED BY <4>1, <4>2
    <3>3. SlotFrom(r.tail, j) \in Slots
      BY <1>3, <3>1, SlotFromValue
    <3>4. SlotFrom(r.tail, j) \in expired
      BY <3>1
    <3> HIDE DEF expired, j
    <3>5. ~ f.records[SlotFrom(f.tail, k)].valid
      BY <1>2, <1>4, <3>2, <3>3, <3>4
    <3>6. ~ (k < m - n)
      BY <1>3, <2>1, <2>3
    <3> QED BY <3>5, <3>6
  <2> QED BY <2>2, <2>3
<1>10. HoldsWindow(f, m - n)
  BY <1>7, <1>8 DEF HoldsWindow
<1> QED BY <1>5, <1>10 DEF f, n

\* ... and drops the first messages, all of them older than the cutoff.
LEMMA CleanupMessages ==
    ASSUME NEW r \in Ring, NEW m \in 0 .. Capacity, HoldsWindow(r, m), NEW cutoff
    PROVE  LET n == ExpiredCount(r, cutoff)
           IN  /\ n \in 0 .. m /\ Len(Messages(r)) = m
               /\ \A k \in 1 .. n : Messages(r)[k].timestamp < cutoff
               /\ n < m => ~ (Messages(r)[n + 1].timestamp < cutoff)
               /\ Messages(CleanupExpired(r, cutoff)) = SubSeq(Messages(r), n + 1, m)
<1> DEFINE n == ExpiredCount(r, cutoff)
<1> DEFINE f == CleanupExpired(r, cutoff)
<1>1. /\ n \in 0 .. Capacity
      /\ \A k \in 0 .. n - 1 : IsExpired(r, SlotFrom(r.tail, k), cutoff)
      /\ n < Capacity => ~ IsExpired(r, SlotFrom(r.tail, n), cutoff)
  BY ExpiredCountFacts
<1>2. n <= m /\ HoldsWindow(f, m - n) /\ f \in Ring
  BY CleanupWindow, CleanupType
<1>3. /\ f.tail = SlotFrom(r.tail, n) /\ f.base = r.base /\ r.tail \in Slots
      /\ \A i \in Slots : /\ f.records[i].len = r.records[i].len
                          /\ f.records[i].uid = r.records[i].uid
                          /\ f.records[i].gid = r.records[i].gid
                          /\ f.records[i].timestamp = r.records[i].timestamp
  <2> DEFINE expired == {SlotFrom(r.tail, k) : k \in 0 .. n - 1}
  <2>1. f = [r EXCEPT !.records = [i \in Slots |->
                            [r.records[i] EXCEPT !.valid = @ /\ i \notin expired]],
                      !.tail = SlotFrom(r.tail, n)]
    BY DEF CleanupExpired
  <2> HIDE DEF expired, n, f
  <2>2. r.tail \in Slots /\ r.records \in [Slots -> Record]
    BY DEF Ring
  <2>3. /\ f.tail = SlotFrom(r.tail, n) /\ f.base = r.base
        /\ f.records = [i \in Slots |-> [r.records[i] EXCEPT !.valid = @ /\ i \notin expired]]
    BY <2>1 DEF Ring
  <2> QED BY <2>2, <2>3 DEF Record
<1> HIDE DEF n, f
<1>4. n \in Nat /\ m \in Nat /\ m <= Capacity /\ Capacity \in Nat /\ m - n \in 0 .. Capacity
  BY <1>1, <1>2, CapacityAssumption
<1>5. /\ Messages(r) \in Seq(Handed) /\ Len(Messages(r)) = m
      /\ Messages(f) \in Seq(Handed) /\ Len(Messages(f)) = m - n
  BY <1>2, <1>4, MessagesOfWindow
<1>6. ASSUME NEW k \in 1 .. n
      PROVE  Messages(r)[k].timestamp < cutoff
  <2>1. k - 1 \in 0 .. n - 1 /\ k \in 1 .. m
    BY <1>2, <1>4
  <2>2. Messages(r)[k] = MessageAt(r, SlotFrom(r.tail, k - 1))
    BY <2>1, MessagesOfWindow
  <2> QED BY <1>1, <2>1, <2>2 DEF MessageAt, IsExpired
<1>7. /\ SubSeq(Messages(r), n + 1, m) \in Seq(Handed)
      /\ Len(SubSeq(Messages(r), n + 1, m)) = m - n
      /\ \A k \in 1 .. m - n : SubSeq(Messages(r), n + 1, m)[k] = Messages(r)[n + k]
  <2>1. \A k \in n + 1 .. m : Messages(r)[k] \in Handed
    BY <1>4, <1>5, ElementOfSeq
  <2>2. m - (n + 1) + 1 = m - n /\ \A k \in 1 .. m - n : (n + 1) + k - 1 = n + k
    BY <1>4
  <2>3. /\ SubSeq(Messages(r), n + 1, m) \in Seq(Handed)
        /\ Len(SubSeq(Messages(r), n + 1, m)) = IF n + 1 <= m THEN m - (n + 1) + 1 ELSE 0
        /\ \A k \in 1 .. m - (n + 1) + 1 :
                SubSeq(Messages(r), n + 1, m)[k] = Messages(r)[(n + 1) + k - 1]
    BY <1>4, <2>1, SubSeqProperties
  <2>4. (IF n + 1 <= m THEN m - (n + 1) + 1 ELSE 0) = m - n
    BY <1>2, <1>4
  <2> QED BY <2>2, <2>3, <2>4
<1>8. ASSUME NEW k \in 1 .. m - n
      PROVE  Messages(f)[k] = SubSeq(Messages(r), n + 1, m)[k]
  <2>1. /\ k - 1 \in Slots /\ n + k \in 1 .. m /\ n + (k - 1) <= Capacity
        /\ n + (k - 1) = n + k - 1
    BY <1>2, <1>4 DEF Slots
  <2>2. Messages(f)[k] = MessageAt(f, SlotFrom(f.tail, k - 1)) /\ SlotFrom(f.tail, k - 1) \in Slots
    BY <1>2, <1>4, MessagesOfWindow
  <2>3. SlotFrom(f.tail, k - 1) = SlotFrom(r.tail, n + (k - 1))
    BY <1>1, <1>3, <2>1, SlotFromAdd
  <2>4. Messages(r)[n + k] = MessageAt(r, SlotFrom(r.tail, n + (k - 1)))
    <3>1. \A j \in 1 .. m : Messages(r)[j] = MessageAt(r, SlotFrom(r.tail, j - 1))
      BY MessagesOfWindow
    <3>2. PICK j \in 1 .. m : j = n + k
      BY <2>1
    <3>3. j - 1 = n + (k - 1)
      BY <1>4, <3>2
    <3>4. Messages(r)[j] = MessageAt(r, SlotFrom(r.tail, j - 1))
      BY <3>1
    <3> QED BY <3>2, <3>3, <3>4, Zenon
  <2> QED BY <1>3, <1>7, <2>1, <2>2, <2>3, <2>4 DEF MessageAt
<1>9. Messages(f) = SubSeq(Messages(r), n + 1, m)
  BY <1>5, <1>7, <1>8, SeqEqual
<1>10. n \in 0 .. m
  BY <1>2, <1>4
<1>11. ASSUME n < m
       PROVE  ~ (Messages(r)[n + 1].timestamp < cutoff)
  <2>1. n \in Slots /\ n < Capacity
    BY <1>4, <1>11 DEF Slots
  <2>2. r.records[SlotFrom(r.tail, n)].valid
    BY <1>11, <2>1 DEF HoldsWindow
  <2>3. PICK j \in 1 .. m : j = n + 1 /\ j - 1 = n
    BY <1>4, <1>11
  <2>4. Messages(r)[j] = MessageAt(r, SlotFrom(r.tail, j - 1))
    BY MessagesOfWindow
  <2>5. Messages(r)[n + 1] = MessageAt(r, SlotFrom(r.tail, n))
    BY <2>3, <2>4, Zenon
  <2> QED BY <1>1, <2>1, <2>2, <2>5 DEF MessageAt, IsExpired
<1> QED BY <1>5, <1>6, <1>9, <1>10, <1>11 DEF f, n

-----------------------------------------------------------------------------

LibInv == TypeOK /\ WindowKept

LEMMA InitLib == Init => LibInv
<1> SUFFICES ASSUME Init PROVE LibInv
  OBVIOUS
<1>1. rb \in Ring /\ IsWindow(rb)
  BY EmptyRingFacts, CapacityAssumption DEF Init, IsWindow
<1>2. res \in Results
  BY DEF Init, Result, Results, NoMessage, Lengths, LenRange
<1> QED BY <1>1, <1>2 DEF LibInv, TypeOK, WindowKept

\* What a call that hands out no message leaves in res.
LEMMA ResultType ==
    ASSUME NEW op \in {"init", "push", "pop", "count", "cleanup", "clear"}, NEW ret \in Int
    PROVE  Result(op, ret, NoMessage) \in Results
BY DEF Result, Results, NoMessage, Lengths, LenRange

LEMMA LibStep == LibInv /\ [Next]_vars => LibInv'
<1> SUFFICES ASSUME LibInv, [Next]_vars PROVE LibInv'
  OBVIOUS
<1>1. rb \in Ring /\ res \in Results
  BY DEF LibInv, TypeOK
<1>2. PICK n \in 0 .. Capacity : HoldsWindow(rb, n)
  BY DEF LibInv, WindowKept, IsWindow
<1>3. /\ MessageCount(rb) \in 0 .. Capacity
      /\ rb.records[rb.head].valid <=> n = Capacity
      /\ rb.records[rb.tail].valid <=> n > 0
  BY <1>1, <1>2, CountOfWindow, WindowEnds
<1>4. /\ -EMSGSIZE \in Int /\ -ENOSPC \in Int /\ -ENODATA \in Int /\ -EACCES \in Int
      /\ MessageCount(rb) \in Int
  BY <1>3, CapacityAssumption DEF EMSGSIZE, ENOSPC, ENODATA, EACCES
<1>5. SUFFICES rb' \in Ring /\ IsWindow(rb') /\ res' \in Results
  <2>1. IsWindow(rb') <=> WindowKept'
    BY DEF WindowKept, IsWindow, HoldsWindow
  <2> QED BY <2>1 DEF LibInv, TypeOK
<1>6. IsWindow(rb)
  BY <1>2 DEF IsWindow
<1>7. CASE UNCHANGED vars
  BY <1>1, <1>6, <1>7 DEF vars
<1>8. ASSUME NEW data \in Payloads, NEW len \in Lens, NEW cred \in Users, NEW ts \in Times,
             kmsgpipe_push(data, len, cred, ts)
      PROVE  rb' \in Ring /\ IsWindow(rb') /\ res' \in Results
  <2>1. len \in Nat /\ cred \in Creds /\ ts \in Nat /\ data \in Payloads \cup {Zero}
    BY LibAssumption
  <2>2. CASE PushError(rb, len) = 0
    <3> DEFINE c == CopyIn(rb, data, len)
    <3>1. rb' = AdvanceHead(FillRecord(c, len, cred, ts)) /\ res' = Result("push", len, NoMessage)
      BY <1>8, <2>2 DEF kmsgpipe_push, Push
    <3>2. ~ rb.records[rb.head].valid
      BY <2>2 DEF PushError, EMSGSIZE, ENOSPC
    <3>3. n < Capacity /\ n + 1 \in 0 .. Capacity
      BY <1>3, <3>2, CapacityAssumption
    <3>4. c \in Ring /\ HoldsWindow(c, n)
      BY <1>1, <1>2, <2>1, CopyInWindow
    <3> HIDE DEF c
    <3>5. HoldsWindow(rb', n + 1)
      BY <3>1, <3>3, <3>4, PushWindow
    <3>6. rb' \in Ring
      BY <2>1, <3>1, <3>4, FillRecordType, AdvanceType
    <3>7. res' \in Results
      BY <2>1, <3>1, ResultType
    <3> QED BY <3>3, <3>5, <3>6, <3>7 DEF IsWindow
  <2>3. CASE PushError(rb, len) # 0
    <3>1. rb' = rb /\ res' = Result("push", PushError(rb, len), NoMessage)
      BY <1>8, <2>3 DEF kmsgpipe_push
    <3>2. PushError(rb, len) \in Int
      BY <1>4 DEF PushError
    <3> QED BY <1>1, <1>6, <3>1, <3>2, ResultType
  <2> QED BY <2>2, <2>3
<1>9. ASSUME NEW cred \in Users, kmsgpipe_pop(cred)
      PROVE  rb' \in Ring /\ IsWindow(rb') /\ res' \in Results
  <2>1. CASE PopError(rb, cred) = 0
    <3>1. /\ rb' = AdvanceTail(ReleaseTail(rb))
          /\ res' = Result("pop", rb.records[rb.tail].len, MessageAt(rb, rb.tail))
      BY <1>9, <2>1 DEF kmsgpipe_pop, Pop
    <3>2. rb.records[rb.tail].valid
      BY <2>1 DEF PopError, ENODATA, EACCES
    <3>3. n > 0 /\ n - 1 \in 0 .. Capacity
      BY <1>3, <3>2, CapacityAssumption
    <3>4. HoldsWindow(rb', n - 1)
      BY <1>1, <1>2, <3>1, <3>3, PopWindow
    <3>5. rb' \in Ring
      BY <1>1, <3>1, ReleaseTailType, AdvanceType
    <3>6. rb.tail \in Slots
      BY <1>1 DEF Ring
    <3>7. rb.records[rb.tail] \in Record
      BY <1>1, <3>6 DEF Ring
    <3>8. MessageAt(rb, rb.tail) \in [data : Payloads \cup {Zero}, len : Lengths, uid : Nat,
                                      gid : Nat, timestamp : Nat]
      <4>1. rb.base[rb.tail] \in Payloads \cup {Zero}
        BY <1>1, <3>6 DEF Ring
      <4> QED BY <3>7, <4>1 DEF MessageAt, Record
    <3>9. rb.records[rb.tail].len \in Int
      BY <3>7 DEF Record, Lengths
    <3>10. res' \in Results
      <4> HIDE DEF MessageAt
      <4> QED BY <3>1, <3>8, <3>9 DEF Result, Results
    <3> QED BY <3>3, <3>4, <3>5, <3>10 DEF IsWindow
  <2>2. CASE PopError(rb, cred) # 0
    <3>1. rb' = rb /\ res' = Result("pop", PopError(rb, cred), NoMessage)
      BY <1>9, <2>2 DEF kmsgpipe_pop
    <3>2. PopError(rb, cred) \in Int
      BY <1>4 DEF PopError
    <3> QED BY <1>1, <1>6, <3>1, <3>2, ResultType
  <2> QED BY <2>1, <2>2
<1>10. CASE kmsgpipe_get_message_count
  BY <1>1, <1>4, <1>6, <1>10, ResultType DEF kmsgpipe_get_message_count
<1>11. ASSUME NEW cutoff \in Times, kmsgpipe_cleanup_expired(cutoff)
       PROVE  rb' \in Ring /\ IsWindow(rb') /\ res' \in Results
  <2>1. /\ rb' = CleanupExpired(rb, cutoff)
        /\ res' = Result("cleanup", ExpiredCount(rb, cutoff), NoMessage)
    BY <1>11 DEF kmsgpipe_cleanup_expired
  <2>2. ExpiredCount(rb, cutoff) \in Int
    BY <1>1, ExpiredCountFacts
  <2>3. rb' \in Ring
    BY <1>1, <2>1, CleanupType
  <2>4. IsWindow(rb')
    <3>1. n - ExpiredCount(rb, cutoff) \in 0 .. Capacity
      BY <1>1, <1>2, CapacityAssumption, CleanupWindow, ExpiredCountFacts
    <3> QED BY <1>1, <1>2, <2>1, <3>1, CleanupWindow DEF IsWindow
  <2> QED BY <2>1, <2>2, <2>3, <2>4, ResultType
<1>12. CASE kmsgpipe_clear
  <2>1. EmptyRing \in Ring /\ IsWindow(EmptyRing)
    BY EmptyRingFacts, CapacityAssumption DEF IsWindow
  <2> QED BY <1>4, <1>12, <2>1, ResultType DEF kmsgpipe_clear
<1> QED BY <1>7, <1>8, <1>9, <1>10, <1>11, <1>12 DEF Next

\* Every variable of the library keeps its type: no sequence of calls moves an
\* index out of the array or the length field out of its range.
THEOREM LibTypeCorrect == Spec => []TypeOK
<1>1. LibInv => TypeOK
  BY DEF LibInv
<1> QED BY <1>1, InitLib, LibStep, PTL DEF Spec

\* The valid records form one run from tail to head after every sequence of
\* pushes, pops, cleanups and clears.
THEOREM LibWindowKept == Spec => []WindowKept
<1>1. LibInv => WindowKept
  BY DEF LibInv
<1> QED BY <1>1, InitLib, LibStep, PTL DEF Spec

\* The test of the message count and the test of one record always agree, so a
\* full buffer is never taken for an empty one.
THEOREM LibTestsAgree == Spec => []TestsAgree
<1>1. LibInv => TestsAgree
  <2> SUFFICES ASSUME LibInv PROVE TestsAgree
    OBVIOUS
  <2>1. rb \in Ring
    BY DEF LibInv, TypeOK
  <2>2. PICK n \in 0 .. Capacity : HoldsWindow(rb, n)
    BY DEF LibInv, WindowKept, IsWindow
  <2>3. /\ MessageCount(rb) = Capacity <=> n = Capacity
        /\ MessageCount(rb) = 0 <=> n = 0
    BY <2>1, <2>2, CountOfWindow
  <2>4. /\ rb.records[rb.head].valid <=> n = Capacity
        /\ rb.records[rb.tail].valid <=> n > 0
    BY <2>1, <2>2, WindowEnds
  <2>5. n > 0 <=> n # 0
    BY CapacityAssumption
  <2> QED BY <2>3, <2>4, <2>5 DEF TestsAgree
<1> QED BY <1>1, InitLib, LibStep, PTL DEF Spec

-----------------------------------------------------------------------------
(* The abstract queue *)

\* What each call does to the messages in the buffer.
LEMMA PushedMessages ==
    ASSUME LibInv, NEW data \in Payloads, NEW len \in Lens, NEW cred \in Users,
           NEW ts \in Times, kmsgpipe_push(data, len, cred, ts)
    PROVE  Queue!Enqueue \/ Messages(rb') = Messages(rb)
<1>1. rb \in Ring /\ len \in Nat /\ cred \in Creds /\ ts \in Nat /\ data \in Payloads \cup {Zero}
  BY LibAssumption DEF LibInv, TypeOK
<1>2. PICK n \in 0 .. Capacity : HoldsWindow(rb, n)
  BY DEF LibInv, WindowKept, IsWindow
<1>3. CASE PushError(rb, len) = 0
  <2> DEFINE c == CopyIn(rb, data, len)
  <2> DEFINE m == [data |-> IF len % LenRange = 0 THEN Zero ELSE c.base[c.head],
                   len |-> len % LenRange, uid |-> cred.uid, gid |-> cred.gid,
                   timestamp |-> ts]
  <2>1. rb' = AdvanceHead(FillRecord(c, len, cred, ts))
    BY <1>3 DEF kmsgpipe_push, Push
  <2>2. ~ rb.records[rb.head].valid
    BY <1>3 DEF PushError, EMSGSIZE, ENOSPC
  <2>3. n < Capacity
    BY <1>1, <1>2, <2>2, WindowEnds, CapacityAssumption
  <2>4. c \in Ring /\ HoldsWindow(c, n) /\ Messages(c) = Messages(rb)
    BY <1>1, <1>2, <2>3, CopyInWindow, CopyInMessages
  <2>5. c.base[c.head] \in Payloads \cup {Zero}
    BY <2>4 DEF Ring
  <2> HIDE DEF c
  <2>6. Messages(rb') = Append(Messages(rb), m)
    BY <1>1, <2>1, <2>3, <2>4, PushMessages
  <2>7. m \in Message
    BY <2>5 DEF Message
  <2>8. Len(Messages(rb)) = n
    BY <1>1, <1>2, MessagesOfWindow
  <2> HIDE DEF m
  <2> QED BY <2>3, <2>6, <2>7, <2>8 DEF Queue!Enqueue
<1>4. CASE PushError(rb, len) # 0
  BY <1>4 DEF kmsgpipe_push
<1> QED BY <1>3, <1>4

LEMMA PoppedMessages ==
    ASSUME LibInv, NEW cred \in Users, kmsgpipe_pop(cred)
    PROVE  IF res'.ret < 0
           THEN Messages(rb') = Messages(rb)
           ELSE /\ Messages(rb) # << >>
                /\ res'.msg = Messages(rb)[1]
                /\ IsValidAccess(cred, res'.msg)
                /\ Messages(rb') = Tail(Messages(rb))
<1>1. rb \in Ring /\ rb.tail \in Slots
  BY DEF LibInv, TypeOK, Ring
<1>2. PICK n \in 0 .. Capacity : HoldsWindow(rb, n)
  BY DEF LibInv, WindowKept, IsWindow
<1>3. CASE PopError(rb, cred) = 0
  <2>1. /\ rb' = AdvanceTail(ReleaseTail(rb))
        /\ res' = Result("pop", rb.records[rb.tail].len, MessageAt(rb, rb.tail))
    BY <1>3 DEF kmsgpipe_pop, Pop
  <2>2. rb.records[rb.tail].valid
    BY <1>3 DEF PopError, ENODATA, EACCES
  <2>3. n > 0
    BY <1>1, <1>2, <2>2, WindowEnds
  <2>4. /\ Messages(rb) # << >> /\ Messages(rb)[1] = MessageAt(rb, rb.tail)
        /\ Messages(rb') = Tail(Messages(rb))
    BY <1>1, <1>2, <2>1, <2>3, PopMessages
  <2>5. res'.ret = rb.records[rb.tail].len /\ res'.msg = MessageAt(rb, rb.tail)
    <3> HIDE DEF MessageAt
    <3> QED BY <2>1 DEF Result
  <2>6. rb.records[rb.tail].len \in Nat
    BY <1>1, MessageAtType DEF Lengths
  <2>7. ~ (res'.ret < 0)
    BY <2>5, <2>6
  <2>8. IsValidAccess(cred, MessageAt(rb, rb.tail))
    <3>1. IsValidAccess(cred, rb.records[rb.tail])
      BY <1>3, <2>2 DEF PopError, EACCES
    <3>2. /\ MessageAt(rb, rb.tail).uid = rb.records[rb.tail].uid
          /\ MessageAt(rb, rb.tail).gid = rb.records[rb.tail].gid
      BY DEF MessageAt
    <3> QED BY <3>1, <3>2 DEF IsValidAccess
  <2>9. IsValidAccess(cred, res'.msg)
    BY <2>5, <2>8, Zenon
  <2> QED BY <2>4, <2>5, <2>7, <2>9
<1>4. CASE PopError(rb, cred) # 0
  <2>1. rb' = rb /\ res'.ret = PopError(rb, cred)
    BY <1>4 DEF kmsgpipe_pop, Result
  <2>2. PopError(rb, cred) < 0
    BY <1>4 DEF PopError, ENODATA, EACCES
  <2> QED BY <2>1, <2>2
<1> QED BY <1>3, <1>4

LEMMA CleanedMessages ==
    ASSUME LibInv, NEW cutoff \in Times, kmsgpipe_cleanup_expired(cutoff)
    PROVE  Queue!Expire(cutoff) \/ Messages(rb') = Messages(rb)
<1>1. rb \in Ring /\ rb' = CleanupExpired(rb, cutoff)
  BY DEF LibInv, TypeOK, kmsgpipe_cleanup_expired
<1>2. PICK m \in 0 .. Capacity : HoldsWindow(rb, m)
  BY DEF LibInv, WindowKept, IsWindow
<1>3. PICK n \in 0 .. m : /\ Len(Messages(rb)) = m
                          /\ \A k \in 1 .. n : Messages(rb)[k].timestamp < cutoff
                          /\ Messages(rb') = SubSeq(Messages(rb), n + 1, m)
  BY <1>1, <1>2, CleanupMessages
<1>4. CASE n = 0
  <2>1. Messages(rb) \in Seq(Handed)
    BY <1>1, <1>2, MessagesOfWindow
  <2>2. SubSeq(Messages(rb), 1, Len(Messages(rb))) = Messages(rb)
    BY <2>1, SubSeqFull
  <2>3. n + 1 = 1
    BY <1>4
  <2> QED BY <1>3, <2>2, <2>3
<1>5. CASE n # 0
  <2>1. n \in 1 .. Len(Messages(rb))
    BY <1>3, <1>5, CapacityAssumption
  <2> QED BY <1>3, <2>1 DEF Queue!Expire
<1> QED BY <1>4, <1>5

\* The buffer with its two indices implements the bounded queue, whatever the
\* capacity and the order of the calls.
THEOREM LibImplementsQueue == Spec => ImplementsQueue
<1>1. Init => Queue!Init
  BY EmptyMessages DEF Init, Queue!Init
<1>2. LibInv /\ [Next]_vars => [Queue!Next]_(Messages(rb))
  <2> SUFFICES ASSUME LibInv, [Next]_vars
               PROVE  Queue!Next \/ Messages(rb)' = Messages(rb)
    OBVIOUS
  <2>0. Messages(rb)' = Messages(rb')
    BY DEF Messages, MessageCount, MessageAt
  <2>1. CASE UNCHANGED vars \/ kmsgpipe_get_message_count
    BY <2>0, <2>1 DEF vars, kmsgpipe_get_message_count
  <2>2. ASSUME NEW data \in Payloads, NEW len \in Lens, NEW cred \in Users, NEW ts \in Times,
               kmsgpipe_push(data, len, cred, ts)
        PROVE  Queue!Next \/ Messages(rb)' = Messages(rb)
    BY <2>0, <2>2, PushedMessages DEF Queue!Next
  <2>3. ASSUME NEW cred \in Users, kmsgpipe_pop(cred)
        PROVE  Queue!Next \/ Messages(rb)' = Messages(rb)
    BY <2>0, <2>3, PoppedMessages DEF Queue!Next, Queue!Dequeue
  <2>4. ASSUME NEW cutoff \in Times, kmsgpipe_cleanup_expired(cutoff)
        PROVE  Queue!Next \/ Messages(rb)' = Messages(rb)
    BY <2>0, <2>4, CleanedMessages DEF Queue!Next
  <2>5. CASE kmsgpipe_clear
    BY <2>0, <2>5, EmptyMessages DEF kmsgpipe_clear, Queue!Next, Queue!Flush
  <2> QED BY <2>1, <2>2, <2>3, <2>4, <2>5 DEF Next
<1> QED BY <1>1, <1>2, InitLib, LibStep, PTL DEF Spec, ImplementsQueue, Queue!Spec

\* Every pop that succeeds hands out the oldest message with its payload, length,
\* owner and timestamp, to a user who may read it, and removes it; a pop that
\* fails removes nothing.
THEOREM OldestHandedOut == Spec => PopHandsOutOldest
<1> DEFINE Handing ==
        \A cred \in Users : kmsgpipe_pop(cred) =>
            IF res'.ret < 0
            THEN Messages(rb') = Messages(rb)
            ELSE /\ Messages(rb) # << >>
                 /\ res'.msg = Head(Messages(rb))
                 /\ IsValidAccess(cred, res'.msg)
                 /\ Messages(rb') = Tail(Messages(rb))
<1>1. LibInv /\ [Next]_vars => [Handing]_vars
  <2> SUFFICES ASSUME LibInv PROVE Handing
    OBVIOUS
  <2>1. Head(Messages(rb)) = Messages(rb)[1]
    OBVIOUS
  <2> QED BY <2>1, PoppedMessages
<1> QED BY <1>1, InitLib, LibStep, PTL DEF Spec, PopHandsOutOldest

\* In a sorted sequence nothing behind a message that is young is old.
LEMMA YoungBehindYoung ==
    ASSUME NEW q, NEW m \in Nat, NEW cutoff \in Nat, NEW n \in 0 .. m,
           \A k \in 1 .. m : q[k].timestamp \in Nat,
           \A k \in 1 .. m - 1 : q[k].timestamp <= q[k + 1].timestamp,
           n < m => ~ (q[n + 1].timestamp < cutoff)
    PROVE  \A k \in 1 .. m : q[k].timestamp < cutoff => k <= n
<1> DEFINE T == {k \in 1 .. m : n < k /\ q[k].timestamp < cutoff}
<1>1. SUFFICES ASSUME T # {} PROVE FALSE
  OBVIOUS
<1>2. T \subseteq Nat
  OBVIOUS
<1>3. PICK x \in T : \A y \in T : x <= y
  <2> HIDE DEF T
  <2> QED BY <1>1, <1>2, LeastNatural
<1>4. x \in 1 .. m /\ n < x /\ q[x].timestamp < cutoff
  OBVIOUS
<1>5. x # n + 1
  BY <1>4
<1>6. PICK y : y = x - 1
  OBVIOUS
<1>7. y \in 1 .. m - 1 /\ n < y /\ y < x /\ y + 1 = x /\ y \in 1 .. m
  BY <1>4, <1>5, <1>6
<1>8. q[y].timestamp <= q[x].timestamp
  BY <1>7
<1>9. q[y].timestamp \in Nat /\ q[x].timestamp \in Nat
  BY <1>4, <1>7
<1>10. q[y].timestamp < cutoff
  BY <1>4, <1>8, <1>9
<1>11. y \in T
  BY <1>7, <1>10
<1>12. x <= y
  BY <1>3, <1>11
<1> QED BY <1>4, <1>7, <1>12

LEMMA CleanedExactly ==
    ASSUME LibInv, NEW cutoff \in Times, kmsgpipe_cleanup_expired(cutoff), NEW q, q = Messages(rb),
           NEW n, n = res'.ret
    PROVE  /\ n \in 0 .. Len(q)
           /\ Messages(rb') = SubSeq(q, n + 1, Len(q))
           /\ (\A k \in 1 .. Len(q) - 1 : q[k].timestamp <= q[k + 1].timestamp) =>
                    \A k \in 1 .. Len(q) : q[k].timestamp < cutoff <=> k <= n
<1>1. rb \in Ring /\ rb' = CleanupExpired(rb, cutoff) /\ n = ExpiredCount(rb, cutoff)
  BY DEF LibInv, TypeOK, kmsgpipe_cleanup_expired, Result
<1>2. PICK m \in 0 .. Capacity : HoldsWindow(rb, m)
  BY DEF LibInv, WindowKept, IsWindow
<1>3. /\ n \in 0 .. m /\ Len(q) = m
      /\ \A k \in 1 .. n : q[k].timestamp < cutoff
      /\ n < m => ~ (q[n + 1].timestamp < cutoff)
      /\ Messages(rb') = SubSeq(q, n + 1, m)
  BY <1>1, <1>2, CleanupMessages
<1>4. m \in Nat /\ cutoff \in Nat
  BY CapacityAssumption, LibAssumption
<1>5. \A k \in 1 .. m : q[k].timestamp \in Nat
  <2>1. q \in Seq(Handed)
    BY <1>1, <1>2, MessagesOfWindow
  <2>2. \A k \in 1 .. m : q[k] \in Handed
    BY <1>3, <2>1, ElementOfSeq
  <2> QED BY <2>2 DEF Handed
<1>6. ASSUME \A k \in 1 .. m - 1 : q[k].timestamp <= q[k + 1].timestamp
      PROVE  \A k \in 1 .. m : q[k].timestamp < cutoff <=> k <= n
  <2>1. \A k \in 1 .. m : q[k].timestamp < cutoff => k <= n
    BY <1>3, <1>4, <1>5, <1>6, YoungBehindYoung
  <2>2. \A k \in 1 .. m : k <= n => k \in 1 .. n
    BY <1>3, <1>4
  <2> QED BY <1>3, <2>1, <2>2
<1> QED BY <1>3, <1>6

\* A cleanup returns how many messages it has taken off the front, and of sorted
\* messages takes off those that are older than the cutoff and no other.
THEOREM CleanupAlwaysExact == Spec => CleanupIsExact
<1> DEFINE Exact ==
        \A cutoff \in Times : kmsgpipe_cleanup_expired(cutoff) =>
            LET before == Messages(rb)
                n == res'.ret
                sorted == \A k \in 1 .. Len(before) - 1 :
                            before[k].timestamp <= before[k + 1].timestamp
            IN  /\ n \in 0 .. Len(before)
                /\ Messages(rb') = SubSeq(before, n + 1, Len(before))
                /\ sorted => \A k \in 1 .. Len(before) :
                                before[k].timestamp < cutoff <=> k <= n
<1>1. LibInv /\ [Next]_vars => [Exact]_vars
  <2> SUFFICES ASSUME LibInv, NEW cutoff \in Times, kmsgpipe_cleanup_expired(cutoff)
      PROVE  LET before == Messages(rb)
                 n == res'.ret
                 sorted == \A k \in 1 .. Len(before) - 1 :
                             before[k].timestamp <= before[k + 1].timestamp
             IN  /\ n \in 0 .. Len(before)
                 /\ Messages(rb') = SubSeq(before, n + 1, Len(before))
                 /\ sorted => \A k \in 1 .. Len(before) :
                                 before[k].timestamp < cutoff <=> k <= n
    OBVIOUS
  <2>1. PICK q, n : q = Messages(rb) /\ n = res'.ret
    OBVIOUS
  <2>2. /\ n \in 0 .. Len(q)
        /\ Messages(rb') = SubSeq(q, n + 1, Len(q))
        /\ (\A k \in 1 .. Len(q) - 1 : q[k].timestamp <= q[k + 1].timestamp) =>
                \A k \in 1 .. Len(q) : q[k].timestamp < cutoff <=> k <= n
    BY <2>1, CleanedExactly
  <2> QED BY <2>1, <2>2, Zenon
<1> QED BY <1>1, InitLib, LibStep, PTL DEF Spec, CleanupIsExact

=============================================================================
