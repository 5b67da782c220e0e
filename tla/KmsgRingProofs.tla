--------------------------- MODULE KmsgRingProofs ---------------------------
(***************************************************************************)
(* Facts about the operators of KmsgRing, for every capacity.  The later   *)
(* proofs use nothing of the buffer but these.                             *)
(***************************************************************************)
EXTENDS KmsgRing, FiniteSetTheorems, SequenceTheorems, WellFoundedInduction, TLAPS

\* A non-empty set of natural numbers has a least element.  (It stands in for
\* induction over the rounds of a loop.)
LEMMA LeastNatural ==
    ASSUME NEW T, T \subseteq Nat, T # {}
    PROVE  \E x \in T : \A y \in T : x <= y
<1> DEFINE R == OpToRel(<, Nat)
<1>1. IsWellFoundedOn(R, Nat)
  BY NatLessThanWellFounded
<1>2. \E x \in T : \A y \in T : ~ (<<y, x>> \in R)
  <2> HIDE DEF R
  <2> QED BY <1>1, WFMin
<1>3. \A x \in T, y \in T : y < x => <<y, x>> \in R
  BY DEF OpToRel
<1> HIDE DEF R
<1>4. PICK x \in T : \A y \in T : ~ (<<y, x>> \in R)
  BY <1>2
<1>5. \A y \in T : ~ (y < x)
  BY <1>3, <1>4
<1>6. \A y \in T : x <= y
  BY <1>5
<1> QED BY <1>6

-----------------------------------------------------------------------------
(* Arithmetic of slots *)

LEMMA NextSlotValue ==
    ASSUME NEW i \in Slots
    PROVE  /\ NextSlot(i) = IF i + 1 = Capacity THEN 0 ELSE i + 1
           /\ NextSlot(i) \in Slots
BY CapacityAssumption DEF NextSlot, Slots

LEMMA SlotFromValue ==
    ASSUME NEW t \in Slots, NEW k \in 0 .. Capacity
    PROVE  /\ SlotFrom(t, k) = IF t + k < Capacity THEN t + k ELSE t + k - Capacity
           /\ SlotFrom(t, k) \in Slots
BY CapacityAssumption DEF SlotFrom, Slots

LEMMA SlotFromZero ==
    ASSUME NEW t \in Slots
    PROVE  SlotFrom(t, 0) = t
<1>1. 0 \in 0 .. Capacity
  BY CapacityAssumption
<1>2. SlotFrom(t, 0) = IF t + 0 < Capacity THEN t + 0 ELSE t + 0 - Capacity
  BY <1>1, SlotFromValue
<1> QED BY <1>2, CapacityAssumption DEF Slots

\* Every slot is at one distance from t.
LEMMA SlotReached ==
    ASSUME NEW t \in Slots, NEW i \in Slots
    PROVE  \E k \in Slots : i = SlotFrom(t, k)
<1> DEFINE d == IF t <= i THEN i - t ELSE i - t + Capacity
<1>1. d \in Slots /\ d \in 0 .. Capacity
  BY CapacityAssumption DEF Slots
<1>2. i = SlotFrom(t, d)
  <2>1. SlotFrom(t, d) = IF t + d < Capacity THEN t + d ELSE t + d - Capacity
    <3> HIDE DEF d
    <3> QED BY <1>1, SlotFromValue
  <2> QED BY <2>1, CapacityAssumption DEF Slots
<1> HIDE DEF d
<1> QED BY <1>1, <1>2

LEMMA SlotDistance ==
    ASSUME NEW t \in Slots, NEW k \in Slots, NEW m \in Slots,
           SlotFrom(t, k) = SlotFrom(t, m)
    PROVE  k = m
<1>1. k \in 0 .. Capacity /\ m \in 0 .. Capacity
  BY CapacityAssumption DEF Slots
<1>2. SlotFrom(t, k) = IF t + k < Capacity THEN t + k ELSE t + k - Capacity
  BY <1>1, SlotFromValue
<1>3. SlotFrom(t, m) = IF t + m < Capacity THEN t + m ELSE t + m - Capacity
  BY <1>1, SlotFromValue
<1>4. Capacity \in Nat
  BY CapacityAssumption
<1>5. (IF t + k < Capacity THEN t + k ELSE t + k - Capacity)
        = (IF t + m < Capacity THEN t + m ELSE t + m - Capacity)
  BY <1>2, <1>3
<1> QED BY <1>4, <1>5 DEF Slots

\* Going k slots from the slot after t, and the slot after the one k away.
LEMMA SlotFromNext ==
    ASSUME NEW t \in Slots, NEW k \in Slots
    PROVE  /\ SlotFrom(NextSlot(t), k) = SlotFrom(t, k + 1)
           /\ NextSlot(SlotFrom(t, k)) = SlotFrom(t, k + 1)
<1>1. k \in 0 .. Capacity /\ k + 1 \in 0 .. Capacity
  BY CapacityAssumption DEF Slots
<1>2. NextSlot(t) \in Slots /\ SlotFrom(t, k) \in Slots
  BY <1>1, NextSlotValue, SlotFromValue
<1>3. SlotFrom(t, k) = IF t + k < Capacity THEN t + k ELSE t + k - Capacity
  BY <1>1, SlotFromValue
<1>4. SlotFrom(t, k + 1) = IF t + (k + 1) < Capacity THEN t + (k + 1)
                           ELSE t + (k + 1) - Capacity
  BY <1>1, SlotFromValue
<1>5. SlotFrom(NextSlot(t), k) = IF NextSlot(t) + k < Capacity THEN NextSlot(t) + k
                                 ELSE NextSlot(t) + k - Capacity
  BY <1>1, <1>2, SlotFromValue
<1>6. NextSlot(t) = IF t + 1 = Capacity THEN 0 ELSE t + 1
  BY NextSlotValue
<1>7. NextSlot(SlotFrom(t, k)) = IF SlotFrom(t, k) + 1 = Capacity THEN 0
                                 ELSE SlotFrom(t, k) + 1
  BY <1>2, NextSlotValue
<1>8. SlotFrom(NextSlot(t), k) = SlotFrom(t, k + 1)
  BY <1>4, <1>5, <1>6, CapacityAssumption DEF Slots
<1>9. NextSlot(SlotFrom(t, k)) = SlotFrom(t, k + 1)
  BY <1>3, <1>4, <1>7, CapacityAssumption DEF Slots
<1> QED BY <1>8, <1>9

\* n and then k slots behind t.
LEMMA SlotFromAdd ==
    ASSUME NEW t \in Slots, NEW n \in 0 .. Capacity, NEW k \in Slots
    PROVE  SlotFrom(SlotFrom(t, n), k) =
                IF n + k <= Capacity THEN SlotFrom(t, n + k) ELSE SlotFrom(t, n + k - Capacity)
<1> DEFINE u == SlotFrom(t, n)
<1>1. k \in 0 .. Capacity /\ Capacity \in Nat /\ k \in Nat /\ n \in Nat /\ t \in Nat
  BY CapacityAssumption DEF Slots
<1>2. /\ u = IF t + n < Capacity THEN t + n ELSE t + n - Capacity
      /\ u \in Slots
  BY SlotFromValue
<1> HIDE DEF u
<1>3. SlotFrom(u, k) = IF u + k < Capacity THEN u + k ELSE u + k - Capacity
  BY <1>1, <1>2, SlotFromValue
<1>4. CASE n + k <= Capacity
  <2>1. n + k \in 0 .. Capacity
    BY <1>1, <1>4
  <2>2. SlotFrom(t, n + k) = IF t + (n + k) < Capacity THEN t + (n + k)
                             ELSE t + (n + k) - Capacity
    BY <2>1, SlotFromValue
  <2>3. SlotFrom(u, k) = SlotFrom(t, n + k)
    BY <1>1, <1>2, <1>3, <1>4, <2>2 DEF Slots
  <2> QED BY <1>4, <2>3 DEF u
<1>5. CASE n + k > Capacity
  <2>1. n + k - Capacity \in 0 .. Capacity
    BY <1>1, <1>5 DEF Slots
  <2>2. SlotFrom(t, n + k - Capacity) =
            IF t + (n + k - Capacity) < Capacity THEN t + (n + k - Capacity)
            ELSE t + (n + k - Capacity) - Capacity
    BY <2>1, SlotFromValue
  <2>3. SlotFrom(u, k) = SlotFrom(t, n + k - Capacity)
    BY <1>1, <1>2, <1>3, <1>5, <2>2 DEF Slots
  <2>4. ~ (n + k <= Capacity)
    BY <1>1, <1>5
  <2> QED BY <2>3, <2>4 DEF u
<1> QED BY <1>1, <1>4, <1>5

-----------------------------------------------------------------------------
(* The window *)

LEMMA EmptyRingFacts == EmptyRing \in Ring /\ HoldsWindow(EmptyRing, 0)
<1>1. 0 \in Slots /\ SlotFrom(0, 0) = 0
  BY CapacityAssumption, SlotFromValue DEF Slots
<1>2. \A k \in Slots : SlotFrom(0, k) \in Slots
  BY <1>1, SlotFromValue, CapacityAssumption DEF Slots
<1>3. \A k \in Slots : EmptyRing.records[SlotFrom(0, k)].valid = FALSE
  BY <1>2 DEF EmptyRing, ZeroRecord
<1>4. \A k \in Slots : ~ (k < 0)
  BY DEF Slots
<1>5. EmptyRing \in Ring
  BY <1>1, CapacityAssumption DEF EmptyRing, ZeroRecord, Ring, Record, Lengths, LenRange
<1>6. EmptyRing.head = 0 /\ EmptyRing.tail = 0
  BY DEF EmptyRing
<1> QED BY <1>1, <1>3, <1>4, <1>5, <1>6 DEF HoldsWindow

\* In a window, the head record is valid only when all are, the tail record
\* invalid only when none is.
LEMMA WindowEnds ==
    ASSUME NEW r \in Ring, NEW n \in 0 .. Capacity, HoldsWindow(r, n)
    PROVE  /\ r.records[r.head].valid <=> n = Capacity
           /\ r.records[r.tail].valid <=> n > 0
<1>1. r.tail \in Slots /\ r.head \in Slots
  BY DEF Ring
<1>2. r.head = SlotFrom(r.tail, n) /\ r.tail = SlotFrom(r.tail, 0)
  BY <1>1, SlotFromValue, CapacityAssumption DEF HoldsWindow, Slots
<1>3. \A k \in Slots : r.records[SlotFrom(r.tail, k)].valid <=> k < n
  BY DEF HoldsWindow
<1>4. r.records[r.tail].valid <=> n > 0
  BY <1>2, <1>3, CapacityAssumption DEF Slots
<1>5. r.records[r.head].valid <=> n = Capacity
  <2>1. CASE n = Capacity
    <3>1. SlotFrom(r.tail, Capacity) = IF r.tail + Capacity < Capacity
                THEN r.tail + Capacity ELSE r.tail + Capacity - Capacity
      BY <1>1, SlotFromValue, CapacityAssumption
    <3>2. r.head = r.tail
      BY <2>1, <3>1, <1>1, <1>2, CapacityAssumption DEF Slots
    <3> QED BY <2>1, <3>2, <1>4, CapacityAssumption
  <2>2. CASE n # Capacity
    BY <2>2, <1>2, <1>3, CapacityAssumption DEF Slots
  <2> QED BY <2>1, <2>2
<1> QED BY <1>4, <1>5

\* The message count is the length of the window.
LEMMA CountOfWindow ==
    ASSUME NEW r \in Ring, NEW n \in 0 .. Capacity, HoldsWindow(r, n)
    PROVE  MessageCount(r) = n
<1> DEFINE V == {i \in Slots : r.records[i].valid}
<1> DEFINE f == [k \in 1 .. n |-> SlotFrom(r.tail, k - 1)]
<1>1. r.tail \in Slots /\ \A k \in Slots : r.records[SlotFrom(r.tail, k)].valid <=> k < n
  BY DEF HoldsWindow, Ring
<1>2. \A k \in 1 .. n : k - 1 \in Slots /\ k - 1 \in 0 .. Capacity /\ k - 1 < n
  BY CapacityAssumption DEF Slots
<1>3. \A k \in 1 .. n : SlotFrom(r.tail, k - 1) \in V
  BY <1>1, <1>2, SlotFromValue
<1>4. f \in [1 .. n -> V]
  <2> HIDE DEF V
  <2> QED BY <1>3
<1>5. ASSUME NEW j \in 1 .. n, NEW k \in 1 .. n, f[j] = f[k]
      PROVE  j = k
  <2>1. SlotFrom(r.tail, j - 1) = SlotFrom(r.tail, k - 1)
    BY <1>5
  <2>2. j - 1 = k - 1
    BY <1>1, <1>2, <2>1, SlotDistance
  <2> QED BY <2>2
<1>6. ASSUME NEW i \in V
      PROVE  \E k \in 1 .. n : f[k] = i
  <2>1. PICK k \in Slots : i = SlotFrom(r.tail, k)
    BY <1>1, SlotReached
  <2>2. k < n /\ k + 1 \in 1 .. n /\ (k + 1) - 1 = k
    BY <1>1, <2>1, CapacityAssumption DEF Slots
  <2>3. f[k + 1] = i
    BY <2>1, <2>2
  <2> QED BY <2>2, <2>3
<1> HIDE DEF f, V
<1>7. ExistsBijection(1 .. n, V)
  BY <1>4, <1>5, <1>6 DEF ExistsBijection, Bijection, Injection, Surjection, IsInjective
<1>8. Cardinality(V) = n
  BY <1>7, FS_CountingElements, CapacityAssumption
<1> QED BY <1>8 DEF MessageCount, V

-----------------------------------------------------------------------------
(* The steps of push and pop *)

LEMMA CopyInWindow ==
    ASSUME NEW r \in Ring, NEW n \in 0 .. Capacity, HoldsWindow(r, n),
           NEW data \in Payloads \cup {Zero}, NEW len
    PROVE  /\ CopyIn(r, data, len) \in Ring
           /\ HoldsWindow(CopyIn(r, data, len), n)
           /\ CopyIn(r, data, len).records = r.records
           /\ CopyIn(r, data, len).head = r.head
           /\ CopyIn(r, data, len).tail = r.tail
BY DEF CopyIn, HoldsWindow, Ring

LEMMA CopyInType ==
    ASSUME NEW r \in Ring, NEW data \in Payloads \cup {Zero}, NEW len
    PROVE  CopyIn(r, data, len) \in Ring
BY DEF CopyIn, Ring

LEMMA MessageAtType ==
    ASSUME NEW r \in Ring, NEW i \in Slots
    PROVE  /\ MessageAt(r, i).data \in Payloads \cup {Zero}
           /\ MessageAt(r, i).len = r.records[i].len
           /\ r.records[i].len \in Lengths
BY DEF MessageAt, Ring, Record

\* A length is stored in 16 bits.
LEMMA LengthOf ==
    ASSUME NEW n \in Nat
    PROVE  n % LenRange \in Lengths
<1>1. LenRange \in Nat /\ LenRange > 0
  BY DEF LenRange
<1>2. \A m \in Nat : m > 0 => n % m \in 0 .. m - 1
  OBVIOUS
<1> QED BY <1>1, <1>2 DEF Lengths

LEMMA FillRecordType ==
    ASSUME NEW r \in Ring, NEW len \in Nat, NEW cred \in Creds, NEW ts \in Nat
    PROVE  FillRecord(r, len, cred, ts) \in Ring
<1>1. len % LenRange \in Lengths
  BY LengthOf
<1>2. cred.uid \in Nat /\ cred.gid \in Nat
  BY DEF Creds
<1>3. [valid |-> TRUE, len |-> len % LenRange, uid |-> cred.uid,
       gid |-> cred.gid, timestamp |-> ts] \in Record
  BY <1>1, <1>2 DEF Record
<1> QED BY <1>3 DEF FillRecord, Ring

LEMMA AdvanceType ==
    ASSUME NEW r \in Ring
    PROVE  AdvanceHead(r) \in Ring /\ AdvanceTail(r) \in Ring
<1>1. NextSlot(r.head) \in Slots /\ NextSlot(r.tail) \in Slots
  BY NextSlotValue DEF Ring
<1> QED BY <1>1 DEF AdvanceHead, AdvanceTail, Ring

LEMMA ReleaseTailType ==
    ASSUME NEW r \in Ring
    PROVE  ReleaseTail(r) \in Ring
<1> DEFINE rec == [r.records[r.tail] EXCEPT !.valid = FALSE]
<1>1. r.tail \in Slots /\ r.records \in [Slots -> Record]
  BY DEF Ring
<1>2. r.records[r.tail] \in Record
  BY <1>1
<1>3. rec \in Record
  BY <1>2 DEF Record
<1>4. ReleaseTail(r) = [r EXCEPT !.records = [r.records EXCEPT ![r.tail] = rec]]
  BY DEF ReleaseTail
<1> HIDE DEF rec
<1>5. [r.records EXCEPT ![r.tail] = rec] \in [Slots -> Record]
  BY <1>1, <1>3
<1> QED BY <1>4, <1>5 DEF Ring

\* A push into a window that is not full makes it one longer.
LEMMA PushWindow ==
    ASSUME NEW r \in Ring, NEW n \in 0 .. Capacity, HoldsWindow(r, n), n < Capacity,
           NEW len, NEW cred, NEW ts
    PROVE  HoldsWindow(AdvanceHead(FillRecord(r, len, cred, ts)), n + 1)
<1> DEFINE f == AdvanceHead(FillRecord(r, len, cred, ts))
<1>1. r.tail \in Slots /\ r.head \in Slots /\ n \in Slots
  BY CapacityAssumption DEF Ring, Slots
<1>2. f.tail = r.tail /\ f.head = NextSlot(r.head)
  BY DEF AdvanceHead, FillRecord
<1>3. f.head = SlotFrom(f.tail, n + 1)
  <2>1. NextSlot(SlotFrom(r.tail, n)) = SlotFrom(r.tail, n + 1)
    BY <1>1, SlotFromNext
  <2>2. r.head = SlotFrom(r.tail, n)
    BY DEF HoldsWindow
  <2> QED BY <1>2, <2>1, <2>2
<1>4. \A i \in Slots : f.records[i].valid <=> (i = r.head \/ r.records[i].valid)
  BY DEF AdvanceHead, FillRecord, Ring
<1>5. ASSUME NEW k \in Slots
      PROVE  f.records[SlotFrom(f.tail, k)].valid <=> k < n + 1
  <2>1. SlotFrom(r.tail, k) \in Slots
    <3>1. k \in 0 .. Capacity
      BY CapacityAssumption DEF Slots
    <3> QED BY <1>1, <3>1, SlotFromValue
  <2>2. SlotFrom(r.tail, k) = r.head <=> k = n
    BY <1>1, SlotDistance DEF HoldsWindow
  <2>3. r.records[SlotFrom(r.tail, k)].valid <=> k < n
    BY DEF HoldsWindow
  <2> HIDE DEF f
  <2> QED BY <1>1, <1>2, <1>4, <2>1, <2>2, <2>3 DEF Slots
<1> HIDE DEF f
<1>6. HoldsWindow(f, n + 1)
  BY <1>3, <1>5 DEF HoldsWindow
<1> QED BY <1>6 DEF f

\* A pop from a window that is not empty makes it one shorter.
LEMMA PopWindow ==
    ASSUME NEW r \in Ring, NEW n \in 0 .. Capacity, HoldsWindow(r, n), n > 0
    PROVE  HoldsWindow(AdvanceTail(ReleaseTail(r)), n - 1)
<1> DEFINE f == AdvanceTail(ReleaseTail(r))
<1>1. r.tail \in Slots /\ r.head \in Slots /\ n - 1 \in Slots /\ 0 \in Slots
  BY CapacityAssumption DEF Ring, Slots
<1>2. f.tail = NextSlot(r.tail) /\ f.head = r.head
  BY DEF AdvanceTail, ReleaseTail
<1>3. f.tail \in Slots
  BY <1>1, <1>2, NextSlotValue
<1>4. SlotFrom(NextSlot(r.tail), n - 1) = SlotFrom(r.tail, (n - 1) + 1)
  BY <1>1, SlotFromNext
<1>5. f.head = SlotFrom(f.tail, n - 1)
  BY <1>2, <1>4 DEF HoldsWindow
<1>6. \A i \in Slots : f.records[i].valid <=> (i # r.tail /\ r.records[i].valid)
  BY DEF AdvanceTail, ReleaseTail, Ring, Record
<1>7. r.tail = SlotFrom(r.tail, 0)
  BY <1>1, SlotFromZero
<1>8. ASSUME NEW k \in Slots
      PROVE  f.records[SlotFrom(f.tail, k)].valid <=> k < n - 1
  <2>1. SlotFrom(f.tail, k) = SlotFrom(r.tail, k + 1)
    BY <1>1, <1>2, SlotFromNext
  <2>2. SlotFrom(f.tail, k) \in Slots
    <3>1. k \in 0 .. Capacity
      BY CapacityAssumption DEF Slots
    <3> QED BY <1>3, <3>1, SlotFromValue
  <2>3. CASE k + 1 < Capacity
    <3>1. k + 1 \in Slots
      BY <2>3, CapacityAssumption DEF Slots
    <3>2. r.records[SlotFrom(r.tail, k + 1)].valid <=> k + 1 < n
      BY <3>1 DEF HoldsWindow
    <3>3. SlotFrom(r.tail, k + 1) # r.tail
      <4>1. SlotFrom(r.tail, k + 1) = SlotFrom(r.tail, 0) => k + 1 = 0
        BY <1>1, <3>1, SlotDistance
      <4> QED BY <4>1, <1>7 DEF Slots
    <3> HIDE DEF f
    <3>4. f.records[SlotFrom(f.tail, k)].valid <=> k + 1 < n
      BY <1>6, <2>1, <2>2, <3>2, <3>3
    <3> QED BY <3>4 DEF Slots
  <2>4. CASE ~ (k + 1 < Capacity)
    <3>1. k + 1 = Capacity
      BY <2>4, CapacityAssumption DEF Slots
    <3>2. SlotFrom(r.tail, k + 1) = IF r.tail + (k + 1) < Capacity
                THEN r.tail + (k + 1) ELSE r.tail + (k + 1) - Capacity
      BY <1>1, <3>1, SlotFromValue, CapacityAssumption
    <3>3. SlotFrom(r.tail, k + 1) = r.tail
      BY <3>1, <3>2, <1>1, CapacityAssumption DEF Slots
    <3> HIDE DEF f
    <3>4. ~ f.records[SlotFrom(f.tail, k)].valid
      BY <1>6, <2>1, <2>2, <3>3
    <3>5. ~ (k < n - 1)
      BY <3>1, CapacityAssumption DEF Slots
    <3> QED BY <3>4, <3>5
  <2> QED BY <2>3, <2>4
<1> HIDE DEF f
<1>9. HoldsWindow(f, n - 1)
  BY <1>5, <1>8 DEF HoldsWindow
<1> QED BY <1>9 DEF f

-----------------------------------------------------------------------------
(* The messages in the buffer, as a sequence *)

Handed == [data : Payloads \cup {Zero}, len : Lengths, uid : Nat, gid : Nat,
           timestamp : Nat]

LEMMA HandedType ==
    ASSUME NEW r \in Ring, NEW i \in Slots
    PROVE  MessageAt(r, i) \in Handed
<1>1. r.records[i] \in Record /\ r.base[i] \in Payloads \cup {Zero}
  BY DEF Ring
<1> QED BY <1>1 DEF MessageAt, Handed, Record

\* A window of length n holds n messages, message k in the slot k - 1 behind tail.
LEMMA MessagesOfWindow ==
    ASSUME NEW r \in Ring, NEW n \in 0 .. Capacity, HoldsWindow(r, n)
    PROVE  /\ Messages(r) \in Seq(Handed)
           /\ Len(Messages(r)) = n
           /\ \A k \in 1 .. n : /\ SlotFrom(r.tail, k - 1) \in Slots
                                /\ r.records[SlotFrom(r.tail, k - 1)].valid
                                /\ Messages(r)[k] = MessageAt(r, SlotFrom(r.tail, k - 1))
<1>1. r.tail \in Slots /\ \A k \in Slots : r.records[SlotFrom(r.tail, k)].valid <=> k < n
  BY DEF HoldsWindow, Ring
<1>2. \A k \in 1 .. n : k - 1 \in Slots /\ k - 1 \in 0 .. Capacity /\ k - 1 < n
  BY CapacityAssumption DEF Slots
<1>3. \A k \in 1 .. n : /\ SlotFrom(r.tail, k - 1) \in Slots
                        /\ r.records[SlotFrom(r.tail, k - 1)].valid
  BY <1>1, <1>2, SlotFromValue
<1>4. Messages(r) = [k \in 1 .. n |-> MessageAt(r, SlotFrom(r.tail, k - 1))]
  BY CountOfWindow DEF Messages
<1>5. \A k \in 1 .. n : MessageAt(r, SlotFrom(r.tail, k - 1)) \in Handed
  BY <1>3, HandedType
<1>6. Messages(r) \in [1 .. n -> Handed] /\ n \in Nat
  BY <1>4, <1>5, CapacityAssumption
<1>7. Messages(r) \in Seq(Handed) /\ Len(Messages(r)) = n
  BY <1>6
<1> QED BY <1>3, <1>4, <1>7

\* Two windows of the same length with the same messages in their slots.
LEMMA SameMessages ==
    ASSUME NEW r \in Ring, NEW n \in 0 .. Capacity, HoldsWindow(r, n),
           NEW f \in Ring, HoldsWindow(f, n),
           \A k \in 1 .. n : MessageAt(f, SlotFrom(f.tail, k - 1))
                                = MessageAt(r, SlotFrom(r.tail, k - 1))
    PROVE  Messages(f) = Messages(r)
<1>1. MessageCount(r) = n /\ MessageCount(f) = n
  BY CountOfWindow
<1> QED BY <1>1 DEF Messages

LEMMA EmptyMessages == Messages(EmptyRing) = << >>
<1>1. MessageCount(EmptyRing) = 0
  BY EmptyRingFacts, CountOfWindow, CapacityAssumption
<1>2. Messages(EmptyRing) \in Seq(Handed) /\ Len(Messages(EmptyRing)) = 0
  BY EmptyRingFacts, MessagesOfWindow, CapacityAssumption
<1> QED BY <1>2, EmptySeq

\* The payload of a push goes into a slot that holds no message.
LEMMA CopyInMessages ==
    ASSUME NEW r \in Ring, NEW n \in 0 .. Capacity, HoldsWindow(r, n), n < Capacity,
           NEW data \in Payloads \cup {Zero}, NEW len
    PROVE  Messages(CopyIn(r, data, len)) = Messages(r)
<1> DEFINE f == CopyIn(r, data, len)
<1>1. f \in Ring /\ HoldsWindow(f, n) /\ f.records = r.records /\ f.tail = r.tail
  BY CopyInWindow
<1>2. \A i \in Slots : i # r.head => f.base[i] = r.base[i]
  BY DEF CopyIn, Ring
<1>3. ~ r.records[r.head].valid
  BY WindowEnds
<1> HIDE DEF f
<1>4. ASSUME NEW k \in 1 .. n
      PROVE  MessageAt(f, SlotFrom(f.tail, k - 1)) = MessageAt(r, SlotFrom(r.tail, k - 1))
  <2>1. SlotFrom(r.tail, k - 1) \in Slots /\ SlotFrom(r.tail, k - 1) # r.head
    BY <1>3, MessagesOfWindow
  <2> QED BY <1>1, <1>2, <2>1 DEF MessageAt
<1> QED BY <1>1, <1>4, SameMessages DEF f

\* A push puts its message behind the others.
LEMMA PushMessages ==
    ASSUME NEW r \in Ring, NEW n \in 0 .. Capacity, HoldsWindow(r, n), n < Capacity,
           NEW len \in Nat, NEW cred \in Creds, NEW ts \in Nat
    PROVE  Messages(AdvanceHead(FillRecord(r, len, cred, ts)))
            = Append(Messages(r),
                [data |-> IF len % LenRange = 0 THEN Zero ELSE r.base[r.head],
                 len |-> len % LenRange, uid |-> cred.uid, gid |-> cred.gid,
                 timestamp |-> ts])
<1> DEFINE f == AdvanceHead(FillRecord(r, len, cred, ts))
<1> DEFINE m == [data |-> IF len % LenRange = 0 THEN Zero ELSE r.base[r.head],
                 len |-> len % LenRange, uid |-> cred.uid, gid |-> cred.gid,
                 timestamp |-> ts]
<1>1. f \in Ring
  BY FillRecordType, AdvanceType
<1>2. HoldsWindow(f, n + 1) /\ n + 1 \in 0 .. Capacity
  BY PushWindow, CapacityAssumption
<1>3. f.tail = r.tail /\ f.base = r.base /\ r.head \in Slots /\ r.tail \in Slots
  BY DEF AdvanceHead, FillRecord, Ring
<1>4. \A i \in Slots : i # r.head => f.records[i] = r.records[i]
  BY DEF AdvanceHead, FillRecord, Ring
<1>5. f.records[r.head] = [valid |-> TRUE, len |-> len % LenRange,
                           uid |-> cred.uid, gid |-> cred.gid, timestamp |-> ts]
  BY <1>3 DEF AdvanceHead, FillRecord, Ring
<1>6. MessageAt(f, r.head) = m
  <2> HIDE DEF f
  <2> QED BY <1>3, <1>5 DEF MessageAt
<1>7. m \in Handed
  BY <1>1, <1>3, <1>6, HandedType
<1> HIDE DEF f, m
<1>8. ~ r.records[r.head].valid /\ r.head = SlotFrom(r.tail, n)
  BY WindowEnds DEF HoldsWindow
<1>9. /\ Messages(r) \in Seq(Handed) /\ Len(Messages(r)) = n
      /\ Messages(f) \in Seq(Handed) /\ Len(Messages(f)) = n + 1
  BY <1>1, <1>2, MessagesOfWindow
<1>10. ASSUME NEW k \in 1 .. n
       PROVE  Messages(f)[k] = Messages(r)[k]
  <2>1. /\ SlotFrom(r.tail, k - 1) \in Slots /\ SlotFrom(r.tail, k - 1) # r.head
        /\ Messages(r)[k] = MessageAt(r, SlotFrom(r.tail, k - 1))
    BY <1>8, MessagesOfWindow
  <2>2. k \in 1 .. n + 1
    BY CapacityAssumption
  <2>3. Messages(f)[k] = MessageAt(f, SlotFrom(f.tail, k - 1))
    BY <1>1, <1>2, <2>2, MessagesOfWindow
  <2> QED BY <1>3, <1>4, <2>1, <2>3 DEF MessageAt
<1>11. Messages(f)[n + 1] = m
  <2>1. n + 1 \in 1 .. n + 1 /\ (n + 1) - 1 = n
    BY CapacityAssumption
  <2>2. Messages(f)[n + 1] = MessageAt(f, SlotFrom(f.tail, (n + 1) - 1))
    BY <1>1, <1>2, <2>1, MessagesOfWindow
  <2> QED BY <1>3, <1>6, <1>8, <2>1, <2>2
<1>12. Append(Messages(r), m) \in Seq(Handed) /\ Len(Append(Messages(r), m)) = n + 1
  BY <1>7, <1>9, AppendProperties
<1>13. \A k \in 1 .. n + 1 : Messages(f)[k] = Append(Messages(r), m)[k]
  <2>1. /\ \A k \in 1 .. n : Append(Messages(r), m)[k] = Messages(r)[k]
        /\ Append(Messages(r), m)[n + 1] = m
    BY <1>7, <1>9, AppendProperties
  <2>2. \A k \in 1 .. n + 1 : k \in 1 .. n \/ k = n + 1
    BY CapacityAssumption
  <2> QED BY <1>10, <1>11, <2>1, <2>2
<1>14. Messages(f) = Append(Messages(r), m)
  BY <1>9, <1>12, <1>13, SeqEqual
<1> QED BY <1>14 DEF f, m

\* A pop takes the first message off.
LEMMA PopMessages ==
    ASSUME NEW r \in Ring, NEW n \in 0 .. Capacity, HoldsWindow(r, n), n > 0
    PROVE  /\ Messages(r) # << >>
           /\ Messages(r)[1] = MessageAt(r, r.tail)
           /\ Messages(AdvanceTail(ReleaseTail(r))) = Tail(Messages(r))
<1> DEFINE f == AdvanceTail(ReleaseTail(r))
<1>1. f \in Ring /\ HoldsWindow(f, n - 1) /\ n - 1 \in 0 .. Capacity
  BY ReleaseTailType, AdvanceType, PopWindow, CapacityAssumption
<1>2. f.tail = NextSlot(r.tail) /\ f.base = r.base /\ r.tail \in Slots
  BY DEF AdvanceTail, ReleaseTail, Ring
<1>3. \A i \in Slots : /\ f.records[i].len = r.records[i].len
                       /\ f.records[i].uid = r.records[i].uid
                       /\ f.records[i].gid = r.records[i].gid
                       /\ f.records[i].timestamp = r.records[i].timestamp
  BY DEF AdvanceTail, ReleaseTail, Ring, Record
<1> HIDE DEF f
<1>4. /\ Messages(r) \in Seq(Handed) /\ Len(Messages(r)) = n
      /\ Messages(f) \in Seq(Handed) /\ Len(Messages(f)) = n - 1
  BY <1>1, MessagesOfWindow
<1>5. Messages(r) # << >>
  BY <1>4, EmptySeq
<1>6. Messages(r)[1] = MessageAt(r, r.tail)
  <2>1. 1 \in 1 .. n /\ 1 - 1 = 0
    BY CapacityAssumption
  <2>2. Messages(r)[1] = MessageAt(r, SlotFrom(r.tail, 1 - 1))
    BY <2>1, MessagesOfWindow
  <2>3. SlotFrom(r.tail, 0) = r.tail
    BY <1>2, SlotFromZero
  <2> QED BY <2>1, <2>2, <2>3
<1>7. /\ Tail(Messages(r)) \in Seq(Handed) /\ Len(Tail(Messages(r))) = n - 1
      /\ \A k \in 1 .. n - 1 : Tail(Messages(r))[k] = Messages(r)[k + 1]
  BY <1>4, <1>5, HeadTailProperties
<1>8. ASSUME NEW k \in 1 .. n - 1
      PROVE  Messages(f)[k] = Tail(Messages(r))[k]
  <2>1. /\ k - 1 \in Slots /\ k + 1 \in 1 .. n /\ (k + 1) - 1 = k /\ (k - 1) + 1 = k
    BY CapacityAssumption DEF Slots
  <2>2. Messages(f)[k] = MessageAt(f, SlotFrom(f.tail, k - 1)) /\ SlotFrom(f.tail, k - 1) \in Slots
    BY <1>1, MessagesOfWindow
  <2>3. SlotFrom(f.tail, k - 1) = SlotFrom(r.tail, k)
    BY <1>2, <2>1, SlotFromNext
  <2>4. Messages(r)[k + 1] = MessageAt(r, SlotFrom(r.tail, k))
    BY <2>1, MessagesOfWindow
  <2> QED BY <1>2, <1>3, <1>7, <2>2, <2>3, <2>4 DEF MessageAt
<1>9. Messages(f) = Tail(Messages(r))
  BY <1>4, <1>7, <1>8, SeqEqual
<1> QED BY <1>5, <1>6, <1>9 DEF f

=============================================================================
