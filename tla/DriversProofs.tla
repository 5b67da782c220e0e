---------------------------- MODULE DriversProofs ----------------------------
(***************************************************************************)
(* Safety of the three drivers of one device and one mutex, for any        *)
(* threads, files, counts, messages and longs; and that lab1 implements    *)
(* the shared message.                                                     *)
(***************************************************************************)
EXTENDS Drivers, SequenceTheorems, TLAPS

-----------------------------------------------------------------------------
(* Mutual exclusion.  It is inductive together with a type for pc.         *)

LEMMA MutexTaken ==
    ASSUME InsideWithMutex, NEW L, pc \in [Threads -> L], NEW t \in Threads,
           NEW from, NEW to, Lock(t, from, to)
    PROVE  InsideWithMutex'
BY CharDeviceAssumption DEF InsideWithMutex, Lock, Goto

LEMMA MutexLeft ==
    ASSUME InsideWithMutex, NEW L, pc \in [Threads -> L], NEW t \in Threads,
           NEW label, Goto(t, label), mutex' = mutex,
           label \in Inside => pc[t] \in Inside
    PROVE  InsideWithMutex'
BY DEF InsideWithMutex, Goto

LEMMA MutexReleased ==
    ASSUME InsideWithMutex, NEW L, pc \in [Threads -> L], NEW t \in Threads,
           NEW label, Goto(t, label), mutex' = Free,
           pc[t] \in Inside, label \notin Inside
    PROVE  InsideWithMutex'
BY DEF InsideWithMutex, Goto

-----------------------------------------------------------------------------
(* Arithmetic of the calculator.                                           *)

LEMMA LongsFacts ==
    /\ LongMax \in Nat /\ LongMin \in Int
    /\ LongMin = -LongMax - 1
    /\ \A x : x \in Longs <=> x \in Int /\ LongMin <= x /\ x <= LongMax
    /\ 0 \in Longs /\ 1 \in Longs
BY CalculatorAssumption DEF LongMin, Longs

LEMMA WrapIsLong == ASSUME NEW x \in Int PROVE Wrap(x) \in Longs
<1> DEFINE n == LongMax - LongMin + 1
<1> DEFINE r == (x - LongMin) % n
<1>1. n \in Int /\ n > 0 /\ n = LongMax - LongMin + 1
  BY LongsFacts
<1>2. r \in 0 .. n - 1
  <2> HIDE DEF n
  <2> QED BY <1>1, LongsFacts
<1>3. Wrap(x) = LongMin + r
  BY DEF Wrap
<1> HIDE DEF n, r
<1> QED BY <1>1, <1>2, <1>3, LongsFacts

LEMMA AbsNat == ASSUME NEW x \in Int PROVE Abs(x) \in Nat
BY DEF Abs

\* A division does not make a natural number greater, and makes a positive one
\* smaller unless the divisor is 1.
LEMMA DivisionShrinks ==
    ASSUME NEW a \in Nat, NEW b \in Nat, b > 0
    PROVE  /\ a \div b \in Nat
           /\ a \div b <= a
           /\ b > 1 /\ a > 0 => a \div b < a
<1> DEFINE q == a \div b
<1> DEFINE r == a % b
<1>1. q \in Int /\ r \in Int /\ a = b * q + r /\ 0 <= r /\ r < b
  BY Z3
<1> HIDE DEF q, r
<1>2. q >= 0
  <2>1. SUFFICES ASSUME q <= -1 PROVE FALSE
    BY <1>1
  <2>2. b * q <= b * (-1)
    BY <1>1, <2>1, Z3
  <2> QED BY <1>1, <2>2
<1>3. q <= b * q
  BY <1>1, <1>2, Z3
<1>4. b > 1 => 2 * q <= b * q
  BY <1>1, <1>2, Z3
<1>5. q \in Nat /\ q <= a /\ (b > 1 /\ a > 0 => q < a)
  BY <1>1, <1>2, <1>3, <1>4
<1> QED BY <1>5 DEF q

LEMMA QuotientIsLong ==
    ASSUME NEW x \in Longs, NEW y \in Longs, ~ Traps(DIV, x, y)
    PROVE  Quotient(x, y) \in Longs
<1> DEFINE q == Abs(x) \div Abs(y)
<1>1. x \in Int /\ y \in Int /\ y # 0 /\ ~ (x = LongMin /\ y = -1)
  BY LongsFacts DEF Traps
<1>2. Abs(x) \in Nat /\ Abs(y) \in Nat /\ Abs(y) > 0
  BY <1>1 DEF Abs
<1>3. q \in Nat /\ q <= Abs(x) /\ (Abs(y) > 1 /\ Abs(x) > 0 => q < Abs(x))
  BY <1>2, DivisionShrinks
<1>4. Quotient(x, y) = IF (x < 0) = (y < 0) THEN q ELSE -q
  BY DEF Quotient
<1> HIDE DEF q
<1>5. Abs(x) <= LongMax + 1 /\ (Abs(x) = LongMax + 1 => x = LongMin)
  BY <1>1, LongsFacts DEF Abs
<1>6. CASE (x < 0) = (y < 0)
  <2>1. q <= LongMax
    <3>1. CASE x = LongMin
      <4>1. Abs(y) > 1 /\ Abs(x) > 0
        BY <1>1, <1>6, <3>1, LongsFacts DEF Abs
      <4> QED BY <4>1, <1>2, <1>3, <1>5, LongsFacts
    <3>2. CASE x # LongMin
      BY <3>2, <1>2, <1>3, <1>5, LongsFacts
    <3> QED BY <3>1, <3>2
  <2> QED BY <2>1, <1>3, <1>4, <1>6, LongsFacts
<1>7. CASE (x < 0) # (y < 0)
  BY <1>2, <1>3, <1>4, <1>5, <1>7, LongsFacts
<1> QED BY <1>6, <1>7

LEMMA ResultIsLong ==
    ASSUME NEW op \in Operators, NEW x \in Longs, NEW y \in Longs, ~ Traps(op, x, y)
    PROVE  Compute(op, x, y) \in Longs
<1>1. x \in Int /\ y \in Int /\ x + y \in Int /\ x - y \in Int /\ x * y \in Int
  BY LongsFacts
<1>2. CASE op = ADD
  BY <1>1, <1>2, WrapIsLong DEF Compute, ADD, SUB, DIV, MUL
<1>3. CASE op = SUB
  BY <1>1, <1>3, WrapIsLong DEF Compute, ADD, SUB, DIV, MUL
<1>4. CASE op = DIV
  BY <1>4, QuotientIsLong DEF Compute, ADD, SUB, DIV, MUL
<1>5. CASE op = MUL
  <2>1. Compute(op, x, y) = Wrap(x * y)
    BY <1>5 DEF Compute, ADD, SUB, DIV, MUL
  <2> QED BY <1>1, <2>1, WrapIsLong
<1> QED BY <1>2, <1>3, <1>4, <1>5 DEF Operators

-----------------------------------------------------------------------------
(* The calculator                                                          *)

CalcLabels == Inside \cup Waiting \cup {"closed", "open", "reset", "dead"}
CalcLocals == [arg : Int, op : Operators, failed : BOOLEAN]
CalcDev == [first_op : Longs, second_op : Longs, result : Longs, op : Operators]

\* What write is about to store, or to take the mutex for, is a long.
CalcTyping ==
    /\ CalcTypeOK
    /\ \A t \in Threads : pc[t] \in {"write_lock", "write"} => local[t].arg \in Longs

CalcInv == CalcTyping /\ InsideWithMutex

LEMMA CalcInitInv == CalcInit => CalcInv
BY LongsFacts
   DEF CalcInit, CalcInv, CalcTyping, CalcTypeOK, InsideWithMutex, NoCall, Inside, Waiting, Operators

LEMMA FreshLocals ==
    /\ NoCall \in CalcLocals
    /\ [NoCall EXCEPT !.failed = TRUE] \in CalcLocals
    /\ \A x \in Int : [NoCall EXCEPT !.arg = x] \in CalcLocals
<1> DEFINE fresh == NoCall
<1>1. fresh \in CalcLocals
  BY DEF NoCall, CalcLocals, Operators
<1> HIDE DEF fresh
<1>2. /\ [fresh EXCEPT !.failed = TRUE] \in CalcLocals
      /\ \A x \in Int : [fresh EXCEPT !.arg = x] \in CalcLocals
  BY <1>1 DEF CalcLocals
<1> QED BY <1>1, <1>2 DEF fresh

\* A step of thread t that types its label, its locals and the device.
LEMMA CalcTyped ==
    ASSUME CalcTyping, NEW t \in Threads, NEW label \in CalcLabels, NEW l \in CalcLocals,
           label \in {"write_lock", "write"} => l.arg \in Longs,
           Goto(t, label), local' = [local EXCEPT ![t] = l],
           dev' \in CalcDev, mutex' \in Threads \cup {Free},
           pos' \in [Threads -> {0, LongSize}]
    PROVE  CalcTyping'
BY DEF CalcTyping, CalcTypeOK, CalcLabels, CalcLocals, CalcDev, Goto

\* The same step where the locals stay.
LEMMA CalcMoved ==
    ASSUME CalcTyping, NEW t \in Threads, NEW label \in CalcLabels,
           label \in {"write_lock", "write"} => local[t].arg \in Longs,
           Goto(t, label), UNCHANGED local,
           dev' \in CalcDev, mutex' \in Threads \cup {Free},
           pos' \in [Threads -> {0, LongSize}]
    PROVE  CalcTyping'
BY DEF CalcTyping, CalcTypeOK, CalcLabels, CalcLocals, CalcDev, Goto

\* Return and Fail.
LEMMA CalcReturned ==
    ASSUME CalcTyping, NEW t \in Threads, Return(t) \/ Fail(t),
           dev' \in CalcDev, mutex' \in Threads \cup {Free},
           pos' \in [Threads -> {0, LongSize}]
    PROVE  CalcTyping' /\ Goto(t, "open")
<1>2. "open" \in CalcLabels
  BY DEF CalcLabels
<1>3. PICK l \in CalcLocals : local' = [local EXCEPT ![t] = l]
  BY FreshLocals DEF Return, Fail
<1>4. Goto(t, "open")
  BY DEF Return, Fail
<1> QED BY <1>2, <1>3, <1>4, CalcTyped

LEMMA CalcParts ==
    ASSUME CalcInv
    PROVE  /\ CalcTyping /\ InsideWithMutex
           /\ dev \in CalcDev /\ mutex \in Threads \cup {Free}
           /\ pos \in [Threads -> {0, LongSize}]
           /\ pc \in [Threads -> CalcLabels]
           /\ local \in [Threads -> CalcLocals]
BY DEF CalcInv, CalcTyping, CalcTypeOK, CalcLabels, CalcLocals, CalcDev

LEMMA CalcCallsInv == ASSUME CalcInv, NEW t \in Threads, CalcCalls(t) PROVE CalcInv'
<1> USE CalcParts
<1>0. "open" \notin Inside /\ "closed" \notin Inside /\ "reset" \notin Inside
      /\ "open_lock" \notin Inside /\ "read_lock" \notin Inside /\ "write_lock" \notin Inside
  BY DEF Inside
<1>1. {"open", "closed", "reset", "open_lock", "read_lock", "write_lock"} \subseteq CalcLabels
  BY DEF CalcLabels, Waiting
<1>2. CASE calculator_dev_open(t)
  <2>1. pos' \in [Threads -> {0, LongSize}] /\ UNCHANGED <<dev, mutex>>
    BY <1>2 DEF calculator_dev_open
  <2>2. \/ Return(t)
        \/ Goto(t, "open_lock") /\ UNCHANGED local
    BY <1>2 DEF calculator_dev_open
  <2>3. CalcTyping' /\ (Goto(t, "open") \/ Goto(t, "open_lock"))
    BY <1>1, <2>1, <2>2, CalcReturned, CalcMoved
  <2> QED BY <1>0, <2>1, <2>3, MutexLeft DEF CalcInv
<1>3. CASE calculator_dev_release(t)
  <2>1. Goto(t, "closed") /\ UNCHANGED <<dev, mutex, pos, local>>
    BY <1>3 DEF calculator_dev_release
  <2> QED BY <1>0, <1>1, <2>1, MutexLeft, CalcMoved DEF CalcInv
<1>4. CASE calculator_dev_read(t)
  <2>1. PICK count \in Counts : local' = [local EXCEPT ![t] = [NoCall EXCEPT !.arg = count]]
    BY <1>4 DEF calculator_dev_read
  <2>2. [NoCall EXCEPT !.arg = count] \in CalcLocals
    BY CharDeviceAssumption, FreshLocals
  <2>3. Goto(t, "read_lock") /\ UNCHANGED <<dev, mutex, pos>>
    BY <1>4 DEF calculator_dev_read
  <2>4. CalcTyping'
    BY <1>1, <2>1, <2>2, <2>3, CalcTyped
  <2> QED BY <1>0, <2>3, <2>4, MutexLeft DEF CalcInv
<1>5. CASE calculator_dev_write(t)
  <2>1. UNCHANGED <<dev, mutex, pos>>
    BY <1>5 DEF calculator_dev_write
  <2>2. CASE Fail(t)
    BY <1>0, <2>1, <2>2, CalcReturned, MutexLeft DEF CalcInv
  <2>3. CASE Goto(t, "write_lock") /\ \E x \in Operands :
                local' = [local EXCEPT ![t] = [NoCall EXCEPT !.arg = x]]
    <3>1. PICK x \in Operands : local' = [local EXCEPT ![t] = [NoCall EXCEPT !.arg = x]]
      BY <2>3
    <3>2. [NoCall EXCEPT !.arg = x] \in CalcLocals /\ [NoCall EXCEPT !.arg = x].arg \in Longs
      BY CalculatorAssumption, LongsFacts, FreshLocals DEF NoCall
    <3>3. CalcTyping'
      BY <1>1, <2>1, <2>3, <3>1, <3>2, CalcTyped
    <3> QED BY <1>0, <2>1, <2>3, <3>3, MutexLeft DEF CalcInv
  <2> QED BY <1>5, <2>2, <2>3 DEF calculator_dev_write
<1>6. CASE IoctlRefused(t) \/ Query(t)
  <2>1. (Return(t) \/ Fail(t)) /\ UNCHANGED <<dev, mutex, pos>>
    BY <1>6 DEF IoctlRefused, Query
  <2> QED BY <1>0, <2>1, CalcReturned, MutexLeft DEF CalcInv
<1>7. CASE SetOperator(t) \/ SetOperand(t)
  <2>1. (Return(t) \/ Fail(t)) /\ UNCHANGED <<mutex, pos>>
    BY <1>7 DEF SetOperator, SetOperand
  <2>2. \A tmp \in Choices : Operator(tmp) => tmp \in Operators
    BY CalculatorAssumption DEF Operator, Operators, ADD, SUB, DIV, MUL
  <2>4. ADD \in Operators
    BY DEF Operators
  <2>3. dev' \in CalcDev
    BY <2>4, <1>7, <2>2, LongsFacts, CalculatorAssumption DEF SetOperator, SetOperand, CalcDev
  <2> QED BY <1>0, <2>1, <2>3, CalcReturned, MutexLeft DEF CalcInv
<1>8. CASE Reset(t)
  <2>1. dev' \in CalcDev
    BY <1>8, LongsFacts DEF Reset, CalcDev
  <2>2. Goto(t, "reset") /\ UNCHANGED <<mutex, pos, local>>
    BY <1>8 DEF Reset
  <2> QED BY <1>0, <1>1, <2>1, <2>2, MutexLeft, CalcMoved DEF CalcInv
<1> QED BY <1>2, <1>3, <1>4, <1>5, <1>6, <1>7, <1>8 DEF CalcCalls

LEMMA CalcStepInv ==
    ASSUME CalcInv, NEW t \in Threads, CalcInKernel(t) \/ CalcInterrupted(t)
    PROVE  CalcInv'
<1> USE CalcParts
<1>0. "open" \notin Inside /\ "closed" \notin Inside /\ "dead" \notin Inside
  BY DEF Inside
<1>1. {"open", "closed", "dead", "open_unlock", "read", "write", "compute", "write_unlock"}
        \subseteq CalcLabels
  BY DEF CalcLabels, Inside
<1>2. {"open_unlock", "read", "write", "compute", "write_unlock"} \subseteq Inside
  BY DEF Inside
<1>3. CASE CalcTakesMutex(t)
  <2>1. PICK to \in {"open_unlock", "read", "write"},
                 from \in {"open_lock", "read_lock", "write_lock"} :
            Lock(t, from, to) /\ (to = "write" => from = "write_lock")
    BY <1>3 DEF CalcTakesMutex
  <2>2. Goto(t, to) /\ mutex' = t /\ UNCHANGED <<dev, pos, local>> /\ pc[t] = from
    BY <2>1 DEF Lock, At
  <2>3. to = "write" => local[t].arg \in Longs
    BY <2>1, <2>2 DEF CalcTyping
  <2>4. to # "write_lock"
    BY <2>1
  <2>5. CalcTyping'
    BY <1>1, <2>1, <2>2, <2>3, <2>4, CalcMoved
  <2> QED BY <2>1, <2>5, MutexTaken DEF CalcInv
<1>4. CASE CalcInterrupted(t)
  <2>1. UNCHANGED <<dev, mutex, pos>>
    BY <1>4 DEF CalcInterrupted
  <2>2. CASE Fail(t)
    BY <1>0, <2>1, <2>2, CalcReturned, MutexLeft DEF CalcInv
  <2>3. CASE Goto(t, "closed") /\ local' = [local EXCEPT ![t].failed = TRUE]
    <3>1. [local[t] EXCEPT !.failed = TRUE] \in CalcLocals
      BY DEF CalcLocals
    <3>2. CalcTyping'
      BY <1>1, <2>1, <2>3, <3>1, CalcTyped
    <3> QED BY <1>0, <2>1, <2>3, <3>2, MutexLeft DEF CalcInv
  <2> QED BY <1>4, <2>2, <2>3 DEF CalcInterrupted
<1>5. CASE OpenUnlock(t) \/ WriteUnlock(t) \/ ReadFaults(t)
  <2>1. pc[t] \in Inside /\ mutex' = Free /\ UNCHANGED <<dev, pos>> /\ (Return(t) \/ Fail(t))
    BY <1>2, <1>5 DEF OpenUnlock, WriteUnlock, ReadFaults, At
  <2> QED BY <1>0, <2>1, CalcReturned, MutexReleased DEF CalcInv
<1>6. CASE ReadResult(t)
  <2>1. pc[t] \in Inside /\ mutex' = Free /\ UNCHANGED dev /\ Return(t)
    BY <1>2, <1>6 DEF ReadResult, At
  <2>2. pos[t] \in {0, LongSize} /\ (pos[t] < LongSize => pos[t] = 0) /\ LongSize \in Int
    BY DEF LongSize
  <2>3. pos' \in [Threads -> {0, LongSize}]
    BY <1>6, <2>2 DEF ReadResult, LongSize
  <2> QED BY <1>0, <2>1, <2>3, CalcReturned, MutexReleased DEF CalcInv
<1>7. CASE WriteFaults(t)
  <2>1. Fail(t) /\ UNCHANGED <<mutex, pos>> /\ dev' \in CalcDev
    BY <1>7, LongsFacts DEF WriteFaults, CalcDev
  <2> QED BY <1>0, <2>1, CalcReturned, MutexLeft DEF CalcInv
<1>8. CASE WriteCopy(t)
  <2>1. pc[t] = "write" /\ Goto(t, "compute") /\ UNCHANGED <<mutex, pos>>
    BY <1>8 DEF WriteCopy, At
  <2>2. local[t].arg \in Longs /\ dev.op \in Operators
    BY <2>1 DEF CalcTyping, CalcDev
  <2>3. dev' \in CalcDev
    BY <1>8, <2>2 DEF WriteCopy, CalcDev
  <2>4. [local[t] EXCEPT !.op = dev.op] \in CalcLocals
    BY <2>2 DEF CalcLocals
  <2>5. local' = [local EXCEPT ![t] = [local[t] EXCEPT !.op = dev.op]]
    BY <1>8 DEF WriteCopy
  <2>6. CalcTyping'
    BY <1>1, <2>1, <2>3, <2>4, <2>5, CalcTyped
  <2> QED BY <1>2, <2>1, <2>6, MutexLeft DEF CalcInv
<1>9. CASE WriteCompute(t)
  <2>1. pc[t] \in Inside /\ UNCHANGED <<mutex, pos, local>>
    BY <1>2, <1>9 DEF WriteCompute, At
  <2>2. CASE Goto(t, "dead") /\ UNCHANGED dev
    BY <1>0, <1>1, <2>1, <2>2, CalcMoved, MutexLeft DEF CalcInv
  <2>3. CASE /\ ~ Traps(local[t].op, dev.first_op, dev.second_op)
             /\ dev' = [dev EXCEPT !.result = Compute(local[t].op, dev.first_op, dev.second_op)]
             /\ Goto(t, "write_unlock")
    <3>1. /\ local[t].op \in Operators
          /\ dev.first_op \in Longs /\ dev.second_op \in Longs
      BY DEF CalcLocals, CalcDev
    <3>2. Compute(local[t].op, dev.first_op, dev.second_op) \in Longs
      BY <2>3, <3>1, ResultIsLong
    <3>3. dev' \in CalcDev
      BY <2>3, <3>2 DEF CalcDev
    <3> QED BY <1>1, <1>2, <2>1, <2>3, <3>3, CalcMoved, MutexLeft DEF CalcInv
  <2> QED BY <1>9, <2>2, <2>3 DEF WriteCompute
<1>10. CASE ResetOperator(t)
  <2>1. Return(t) /\ UNCHANGED <<mutex, pos>> /\ dev' \in CalcDev
    BY <1>10 DEF ResetOperator, CalcDev, Operators
  <2> QED BY <1>0, <2>1, CalcReturned, MutexLeft DEF CalcInv
<1> QED BY <1>3, <1>4, <1>5, <1>6, <1>7, <1>8, <1>9, <1>10 DEF CalcInKernel

LEMMA CalcNextInv == CalcInv /\ [CalcNext]_vars => CalcInv'
<1> SUFFICES ASSUME CalcInv, [CalcNext]_vars PROVE CalcInv'
  OBVIOUS
<1>1. CASE CalcNext
  BY <1>1, CalcCallsInv, CalcStepInv DEF CalcNext
<1>2. CASE UNCHANGED vars
  BY <1>2 DEF vars, CalcInv, CalcTyping, CalcTypeOK, InsideWithMutex
<1> QED BY <1>1, <1>2

-----------------------------------------------------------------------------
(* simplechar.  A buffer that is filled has the length of the size, or the *)
(* thread that filled it is about to set the size.                         *)

SimpleLabels == Inside \cup Waiting \cup {"closed", "open", "dead"}

SimpleInv ==
    /\ SimpleTypeOK
    /\ InsideWithMutex
    /\ \A t \in Threads : pc[t] \in {"write", "data_len"} => dev.data.len = local[t].count
    /\ \A t \in Threads : pc[t] = "write" => ~ dev.data.filled
    /\ dev.data.filled => dev.size = dev.data.len \/ \E t \in Threads : pc[t] = "data_len"

LEMMA SimpleInitInv == SimpleInit => SimpleInv
BY CharDeviceAssumption
   DEF SimpleInit, SimpleInv, SimpleTypeOK, InsideWithMutex, Null, NoAccess, Inside, Waiting

\* A step of thread t that leaves the data alone, from and to labels without a
\* write under way.
LEMMA SimpleQuiet ==
    ASSUME SimpleInv, NEW t \in Threads, NEW label \in SimpleLabels, Goto(t, label),
           UNCHANGED dev, pos' \in [Threads -> Nat],
           local' \in [Threads -> [count : Counts \cup {0}, got : Counts \cup {0}]],
           \A u \in Threads : u # t => local'[u] = local[u],
           label \notin {"write", "data_len"}, pc[t] # "data_len",
           mutex' \in Threads \cup {Free}, InsideWithMutex'
    PROVE  SimpleInv'
<1>1. SimpleTypeOK'
  BY DEF SimpleInv, SimpleTypeOK, SimpleLabels, Goto
<1>2. \A u \in Threads : pc'[u] \in {"write", "data_len"} => pc'[u] = pc[u] /\ u # t
  BY DEF SimpleInv, SimpleTypeOK, Goto
<1>3. \A u \in Threads : pc[u] = "data_len" => pc'[u] = "data_len"
  BY DEF SimpleInv, SimpleTypeOK, Goto
<1>4. dev' = dev
  OBVIOUS
<1> QED BY <1>1, <1>2, <1>3, <1>4 DEF SimpleInv

LEMMA SimpleStepInv == ASSUME SimpleInv, NEW t \in Threads,
                              SimpleInKernel(t) \/ SimpleCalls(t) \/ SimpleInterrupted(t)
                       PROVE  SimpleInv'
<1> DEFINE Locals == [count : Counts \cup {0}, got : Counts \cup {0}]
<1>0. /\ InsideWithMutex /\ pc \in [Threads -> SimpleLabels]
      /\ mutex \in Threads \cup {Free} /\ local \in [Threads -> Locals]
      /\ pos \in [Threads -> Nat] /\ dev.size \in Counts \cup {0}
      /\ Counts \cup {0} \subseteq Nat
  BY CharDeviceAssumption DEF SimpleInv, SimpleTypeOK, SimpleLabels
<1> HIDE DEF Locals
<1>1. /\ {"open", "closed", "dead", "open_unlock", "read", "memset", "write", "data_len",
           "read_unlock", "write_unlock", "open_lock", "read_lock", "write_lock"} \subseteq SimpleLabels
      /\ {"open_unlock", "read", "memset", "write", "data_len", "read_unlock", "write_unlock"}
           \subseteq Inside
      /\ \A label \in {"open", "closed", "dead", "open_lock", "read_lock", "write_lock"} :
            label \notin Inside
  BY DEF SimpleLabels, Inside, Waiting
<1>2. CASE SimpleTakesMutex(t)
  <2>1. PICK to \in {"open_unlock", "read", "memset"},
                 from \in {"open_lock", "read_lock", "write_lock"} : Lock(t, from, to)
    BY <1>2 DEF SimpleTakesMutex
  <2>2. /\ Goto(t, to) /\ pc[t] # "data_len" /\ mutex' = t
        /\ UNCHANGED <<dev, pos, local>>
    BY <2>1 DEF Lock, At
  <2>3. InsideWithMutex'
    BY <1>0, <2>1, MutexTaken
  <2> QED BY <1>0, <1>1, <2>1, <2>2, <2>3, SimpleQuiet DEF Locals
<1>3. CASE SimpleUnlock(t)
  <2>1. /\ Goto(t, "open") /\ mutex' = Free /\ UNCHANGED <<dev, pos, local>>
        /\ pc[t] \in {"open_unlock", "read_unlock", "write_unlock"}
    BY <1>3 DEF SimpleUnlock
  <2>2. InsideWithMutex'
    BY <1>0, <1>1, <2>1, MutexReleased
  <2> QED BY <1>0, <1>1, <2>1, <2>2, SimpleQuiet DEF Locals
<1>4. CASE SimpleRead(t)
  <2>1. /\ Goto(t, "read_unlock") /\ pc[t] = "read" /\ UNCHANGED <<dev, mutex>>
    BY <1>4 DEF SimpleRead, At
  <2>2. /\ pos' \in [Threads -> Nat] /\ local' \in [Threads -> Locals]
        /\ \A u \in Threads : u # t => local'[u] = local[u]
    BY <1>0, <1>4 DEF SimpleRead, Locals
  <2>3. InsideWithMutex'
    BY <1>0, <1>1, <2>1, MutexLeft
  <2> QED BY <1>0, <1>1, <2>1, <2>2, <2>3, SimpleQuiet DEF Locals
<1>5. CASE SimpleCalls(t)
  <2>1. PICK label \in {"closed", "open", "open_lock", "read_lock", "write_lock"} : Goto(t, label)
    BY <1>5 DEF SimpleCalls, simple_char_open, simple_char_release, simple_char_read,
                simple_char_write, SimpleCall
  <2>2. pc[t] \in {"closed", "open"} /\ UNCHANGED <<dev, mutex>>
    BY <1>5 DEF SimpleCalls, simple_char_open, simple_char_release, simple_char_read,
                simple_char_write, SimpleCall, At
  <2>3. /\ pos' \in [Threads -> Nat] /\ local' \in [Threads -> Locals]
        /\ \A u \in Threads : u # t => local'[u] = local[u]
    BY <1>0, <1>5 DEF SimpleCalls, simple_char_open, simple_char_release, simple_char_read,
                      simple_char_write, SimpleCall, Locals
  <2>4. InsideWithMutex'
    BY <1>0, <1>1, <2>1, <2>2, MutexLeft
  <2> QED BY <1>0, <1>1, <2>1, <2>2, <2>3, <2>4, SimpleQuiet DEF Locals
<1>6. CASE SimpleInterrupted(t)
  <2>1. PICK label \in {"closed", "open"} : Goto(t, label)
    BY <1>6 DEF SimpleInterrupted
  <2>2. pc[t] \in {"open_lock", "read_lock", "write_lock"} /\ UNCHANGED <<dev, mutex, pos, local>>
    BY <1>6 DEF SimpleInterrupted, At
  <2>3. InsideWithMutex'
    BY <1>0, <1>1, <2>1, <2>2, MutexLeft
  <2> QED BY <1>0, <1>1, <2>1, <2>2, <2>3, SimpleQuiet DEF Locals
<1>7. CASE SimpleAllocate(t) \/ SimpleCopy(t) \/ SimpleSize(t)
  <2>1. /\ pc[t] \in {"memset", "write", "data_len"} /\ mutex = t
        /\ \A u \in Threads : u # t => pc[u] \notin Inside
    BY <1>0, <1>1, <1>7 DEF SimpleAllocate, SimpleCopy, SimpleSize, At, InsideWithMutex
  <2>2. PICK label \in {"write", "dead", "data_len", "write_unlock"} : Goto(t, label)
    BY <1>7 DEF SimpleAllocate, SimpleCopy, SimpleSize
  <2>3. UNCHANGED <<mutex, local>>
    BY <1>7 DEF SimpleAllocate, SimpleCopy, SimpleSize
  <2>4. InsideWithMutex'
    BY <1>0, <1>1, <2>1, <2>2, <2>3, MutexLeft
  <2>5. \A u \in Threads : u # t => pc'[u] \notin {"write", "data_len"}
    BY <1>0, <1>1, <2>1, <2>2 DEF Goto
  <2>6. SimpleTypeOK'
    <3> DEFINE Data == [len : Counts \cup {0}, filled : BOOLEAN]
    <3>3. /\ dev \in [data : Data, size : Counts \cup {0}]
          /\ dev.data \in Data /\ local[t].count \in Counts \cup {0}
      BY <1>0 DEF SimpleInv, SimpleTypeOK, Locals
    <3>4. /\ Null \in Data /\ [dev.data EXCEPT !.filled = TRUE] \in Data
          /\ [len |-> local[t].count, filled |-> FALSE] \in Data
      BY <3>3 DEF Null
    <3>5. \/ dev' = [dev EXCEPT !.size = local[t].count]
          \/ \E d \in Data : dev' = [dev EXCEPT !.data = d]
          \/ dev' = dev
      <4> HIDE DEF Data
      <4> QED BY <1>7, <3>4 DEF SimpleAllocate, SimpleCopy, SimpleSize
    <3>1. dev' \in [data : Data, size : Counts \cup {0}]
      <4> HIDE DEF Data
      <4> QED BY <3>3, <3>5
    <3>2. pos' \in [Threads -> Nat]
      BY <1>0, <1>7 DEF SimpleAllocate, SimpleCopy, SimpleSize, Locals
    <3>6. /\ pc' \in [Threads -> SimpleLabels] /\ mutex' \in Threads \cup {Free}
          /\ local' \in [Threads -> Locals]
      BY <1>0, <1>1, <2>2, <2>3 DEF Goto
    <3> QED BY <3>1, <3>2, <3>6 DEF SimpleTypeOK, SimpleLabels, Locals
  <2>7. CASE SimpleAllocate(t)
    BY <1>0, <2>2, <2>3, <2>4, <2>5, <2>6, <2>7
       DEF SimpleAllocate, SimpleInv, SimpleTypeOK, Null, Goto
  <2>8. CASE SimpleCopy(t)
    BY <1>0, <2>2, <2>3, <2>4, <2>5, <2>6, <2>8 DEF SimpleCopy, SimpleInv, SimpleTypeOK, Goto, At
  <2>9. CASE SimpleSize(t)
    BY <1>0, <2>2, <2>3, <2>4, <2>5, <2>6, <2>9 DEF SimpleSize, SimpleInv, SimpleTypeOK, Goto, At
  <2> QED BY <1>7, <2>7, <2>8, <2>9
<1> QED BY <1>2, <1>3, <1>4, <1>5, <1>6, <1>7 DEF SimpleInKernel

LEMMA SimpleNextInv == SimpleInv /\ [SimpleNext]_vars => SimpleInv'
<1> SUFFICES ASSUME SimpleInv, [SimpleNext]_vars PROVE SimpleInv'
  OBVIOUS
<1>1. CASE SimpleNext
  BY <1>1, SimpleStepInv DEF SimpleNext
<1>2. CASE UNCHANGED vars
  BY <1>2 DEF vars, SimpleInv, SimpleTypeOK, InsideWithMutex
<1> QED BY <1>1, <1>2

-----------------------------------------------------------------------------
(* lab1: the bytes of the buffer, and the message they are *)

GlobalLabels == Inside \cup Waiting \cup {"open", "copy_to_user", "return"}
Byte == (Messages \X (1 .. Size)) \cup {Zero}
GlobalDev == [data : [1 .. Size -> Byte], data_len : 0 .. Size]
Requests == [file : Files, count : Counts \cup {0}, msg : Messages, at : Nat, got : Seq(Byte)]

\* The buffer with n bytes of message m and nothing behind them.
Plain(m, n) == [i \in 1 .. Size |-> IF i <= n THEN <<m, i>> ELSE Zero]
Blank == [i \in 1 .. Size |-> Zero]

Replacing == {"memcpy", "data_len"}

\* While a write is between memset and the new length the buffer is blank, or
\* holds its message already; otherwise it is one message as long as data_len says.
BufferInv ==
    /\ \A t \in Threads :
        /\ pc[t] \in {"write_lock", "memset", "memcpy", "data_len"} => local[t].count <= Size
        /\ pc[t] = "memcpy" => dev.data = Blank
        /\ pc[t] = "data_len" => dev.data = Plain(local[t].msg, local[t].count)
    /\ (\A t \in Threads : pc[t] \notin Replacing) =>
            \E m \in Messages : dev.data = Plain(m, dev.data_len)

GlobalInv == GlobalTypeOK /\ InsideWithMutex /\ BufferInv

LEMMA GlobalParts ==
    /\ Size \in Nat /\ Counts \cup {0} \subseteq Nat
    /\ (\E f \in Files : TRUE) /\ SomeMessage \in Messages
    /\ NoRequest \in Requests
    /\ GlobalTypeOK <=>
        /\ dev \in GlobalDev
        /\ mutex \in Threads \cup {Free}
        /\ pos \in [Files -> Nat \cup {Closed}]
        /\ pc \in [Threads -> GlobalLabels]
        /\ local \in [Threads -> Requests]
        /\ \A t \in Threads : pc[t] # "open" => pos[local[t].file] # Closed
<1>1. Size \in Nat /\ Counts \cup {0} \subseteq Nat
  BY CharDeviceAssumption, KmsgGlobalAssumption
<1>2. (\E f \in Files : TRUE) /\ SomeMessage \in Messages
  BY KmsgGlobalAssumption DEF SomeMessage
<1>3. NoRequest \in Requests
  <2>1. (CHOOSE f \in Files : TRUE) \in Files
    BY <1>2
  <2>2. <<>> \in Seq(Byte)
    OBVIOUS
  <2> QED BY <1>2, <2>1, <2>2 DEF NoRequest, Requests
<1> QED BY <1>1, <1>2, <1>3 DEF GlobalTypeOK, GlobalDev, Byte, GlobalLabels, Requests

LEMMA GlobalTyped ==
    ASSUME dev' \in GlobalDev, mutex' \in Threads \cup {Free},
           pos' \in [Files -> Nat \cup {Closed}], pc' \in [Threads -> GlobalLabels],
           local' \in [Threads -> Requests],
           \A t \in Threads : pc'[t] # "open" => pos'[local'[t].file] # Closed
    PROVE  GlobalTypeOK'
BY DEF GlobalTypeOK, GlobalDev, Byte, GlobalLabels, Requests

LEMMA PlainIsData ==
    ASSUME NEW m \in Messages, NEW n \in Nat
    PROVE  Plain(m, n) \in [1 .. Size -> Byte] /\ Plain(m, 0) = Blank /\ Blank \in [1 .. Size -> Byte]
<1>1. Size \in Nat
  BY GlobalParts
<1>2. \A i \in 1 .. Size : <<m, i>> \in Byte /\ Zero \in Byte
  BY DEF Byte
<1>3. \A i \in 1 .. Size : ~ (i <= 0)
  BY <1>1
<1>4. Plain(m, 0) = Blank
  BY <1>3 DEF Plain, Blank
<1>5. Plain(m, n) \in [1 .. Size -> Byte] /\ Blank \in [1 .. Size -> Byte]
  BY <1>2 DEF Plain, Blank
<1> QED BY <1>4, <1>5

LEMMA GlobalInitInv == GlobalInit => GlobalInv
<1> SUFFICES ASSUME GlobalInit PROVE GlobalInv
  OBVIOUS
<1> USE GlobalParts
<1>1. PICK m \in Messages : TRUE
  OBVIOUS
<1>2. dev.data = Plain(m, 0) /\ dev.data_len = 0 /\ dev \in GlobalDev
  BY <1>1, PlainIsData DEF GlobalInit, GlobalDev, Blank
<1>3. \A t \in Threads : pc[t] = "open" /\ local[t] = NoRequest
  BY DEF GlobalInit
<1>4. GlobalTypeOK
  BY <1>2 DEF GlobalInit, GlobalLabels
<1>5. InsideWithMutex /\ BufferInv
  BY <1>2, <1>3 DEF InsideWithMutex, BufferInv, Inside, Replacing
<1> QED BY <1>4, <1>5 DEF GlobalInv

\* A step that leaves the buffer alone: a label, a mutex, the locals of thread t
\* and the position of a file.
LEMMA GlobalQuiet ==
    ASSUME GlobalInv, NEW t \in Threads, NEW label \in GlobalLabels, Goto(t, label),
           UNCHANGED dev, mutex' \in Threads \cup {Free}, InsideWithMutex',
           pos' \in [Files -> Nat \cup {Closed}],
           \A f \in Files : pos[f] # Closed => pos'[f] # Closed,
           NEW l \in Requests, local' = [local EXCEPT ![t] = l],
           label # "open" => pos[l.file] # Closed,
           label \in {"write_lock", "memset"} => l.count <= Size,
           label \notin Replacing, pc[t] \notin Replacing
    PROVE  GlobalInv'
<1> USE GlobalParts
<1>1. GlobalTypeOK /\ BufferInv
  BY DEF GlobalInv
<1>2. \A u \in Threads : u # t => pc'[u] = pc[u] /\ local'[u] = local[u]
  BY <1>1 DEF Goto
<1>3. pc'[t] = label /\ local'[t] = l /\ pc' \in [Threads -> GlobalLabels]
      /\ local' \in [Threads -> Requests]
  BY <1>1 DEF Goto
<1>4. \A u \in Threads : pc'[u] # "open" => pos'[local'[u].file] # Closed
  BY <1>1, <1>2, <1>3 DEF Requests
<1>5. GlobalTypeOK'
  BY <1>1, <1>3, <1>4, GlobalTyped
<1>6. dev' = dev
  OBVIOUS
<1>7. \A u \in Threads :
        /\ pc'[u] \in {"write_lock", "memset", "memcpy", "data_len"} => local'[u].count <= Size
        /\ pc'[u] = "memcpy" => dev'.data = Blank
        /\ pc'[u] = "data_len" => dev'.data = Plain(local'[u].msg, local'[u].count)
  BY <1>1, <1>2, <1>3, <1>6 DEF BufferInv, Replacing
<1>8. (\A u \in Threads : pc'[u] \notin Replacing) => \A u \in Threads : pc[u] \notin Replacing
  BY <1>2
<1>9. BufferInv'
  BY <1>1, <1>6, <1>7, <1>8 DEF BufferInv
<1> QED BY <1>5, <1>9 DEF GlobalInv

\* Only one thread is replacing the message.
LEMMA OneReplaces ==
    ASSUME InsideWithMutex, NEW t \in Threads, pc[t] \in Inside
    PROVE  mutex = t /\ \A u \in Threads : u # t => pc[u] \notin Inside
BY DEF InsideWithMutex

LEMMA GlobalCallsInv == ASSUME GlobalInv, NEW t \in Threads, GlobalCalls(t) PROVE GlobalInv'
<1> USE GlobalParts
<1>1. GlobalTypeOK /\ InsideWithMutex
  BY DEF GlobalInv
<1>2. PICK f \in Files, count \in Counts, m \in Messages, lock \in {"read_lock", "write_lock"} :
        /\ Call(t, f, count, m, lock)
        /\ lock = "write_lock" => count <= Size
  BY DEF GlobalCalls, kmsgpipe_read, kmsgpipe_write
<1> DEFINE l == [file |-> f, count |-> count, msg |-> m, at |-> pos[f], got |-> <<>>]
<1>3. /\ pc[t] = "open" /\ pos[f] # Closed /\ Goto(t, lock)
      /\ local' = [local EXCEPT ![t] = l] /\ UNCHANGED <<dev, mutex, pos>>
  BY <1>2 DEF Call, At
<1>4. l \in Requests /\ l.file = f /\ l.count = count
  <2>1. pos[f] \in Nat
    BY <1>1, <1>3
  <2> QED BY <2>1 DEF Requests
<1> HIDE DEF l
<1>5. lock \in GlobalLabels /\ lock \notin Inside /\ lock \notin Replacing /\ lock # "open"
      /\ pc[t] \notin Replacing /\ lock # "memset"
  BY <1>3 DEF GlobalLabels, Waiting, Inside, Replacing
<1>6. InsideWithMutex'
  BY <1>1, <1>3, <1>5, MutexLeft
<1> QED BY <1>1, <1>2, <1>3, <1>4, <1>5, <1>6, GlobalQuiet

LEMMA GlobalFilesInv ==
    ASSUME GlobalInv, NEW f \in Files, kmsgpipe_open(f) \/ kmsgpipe_release(f)
    PROVE  GlobalInv'
<1> USE GlobalParts
<1>1. /\ GlobalTypeOK /\ InsideWithMutex /\ BufferInv
      /\ UNCHANGED <<dev, mutex, pc, local>>
  BY DEF GlobalInv, kmsgpipe_open, kmsgpipe_release
<1>2. pos' \in [Files -> Nat \cup {Closed}]
  BY <1>1 DEF kmsgpipe_open, kmsgpipe_release
<1>3. \A t \in Threads : pc'[t] # "open" => pos'[local'[t].file] # Closed
  <2> SUFFICES ASSUME NEW t \in Threads, pc[t] # "open"
               PROVE  pos'[local[t].file] # Closed
    BY <1>1
  <2>1. local[t].file \in Files /\ pos[local[t].file] # Closed
    BY <1>1 DEF Requests
  <2>2. CASE kmsgpipe_open(f)
    BY <1>1, <2>1, <2>2 DEF kmsgpipe_open, Closed
  <2>3. CASE kmsgpipe_release(f)
    BY <1>1, <2>1, <2>3 DEF kmsgpipe_release, At
  <2> QED BY <2>2, <2>3
<1>4. GlobalTypeOK'
  BY <1>1, <1>2, <1>3, GlobalTyped
<1>5. InsideWithMutex' /\ BufferInv'
  BY <1>1 DEF InsideWithMutex, BufferInv
<1> QED BY <1>4, <1>5 DEF GlobalInv

\* What a read takes from the buffer.
LEMMA PieceFacts ==
    ASSUME GlobalInv, NEW t \in Threads, ReadPiece(t)
    PROVE  \E n \in Nat :
            /\ n = IF local[t].count > dev.data_len - local[t].at
                   THEN dev.data_len - local[t].at ELSE local[t].count
            /\ local[t].at + n <= dev.data_len
            /\ local' = [local EXCEPT ![t] =
                    [local[t] EXCEPT !.got = SubSeq(dev.data, local[t].at + 1, local[t].at + n),
                                     !.at = local[t].at + n]]
            /\ SubSeq(dev.data, local[t].at + 1, local[t].at + n) \in Seq(Byte)
<1> USE GlobalParts
<1>1. /\ dev \in GlobalDev /\ local[t] \in Requests /\ local \in [Threads -> Requests]
      /\ local[t].at < dev.data_len
  BY DEF GlobalInv, ReadPiece
<1>2. /\ dev.data \in [1 .. Size -> Byte] /\ dev.data_len \in 0 .. Size
      /\ local[t].at \in Nat /\ local[t].count \in Nat
  BY <1>1 DEF GlobalDev, Requests
<1> DEFINE avail == dev.data_len - local[t].at
<1> DEFINE n == IF local[t].count > avail THEN avail ELSE local[t].count
<1>3. n \in Nat /\ local[t].at + n <= dev.data_len
  BY <1>1, <1>2
<1>4. local' = [local EXCEPT ![t] =
                    [local[t] EXCEPT !.got = SubSeq(dev.data, local[t].at + 1, local[t].at + n),
                                     !.at = local[t].at + n]]
  BY <1>1 DEF ReadPiece
<1>7. n = IF local[t].count > dev.data_len - local[t].at
          THEN dev.data_len - local[t].at ELSE local[t].count
  OBVIOUS
<1> HIDE DEF n
<1>5. dev.data \in Seq(Byte) /\ Len(dev.data) = Size
  BY <1>2
<1>6. SubSeq(dev.data, local[t].at + 1, local[t].at + n) \in Seq(Byte)
  <2>1. \A i \in local[t].at + 1 .. local[t].at + n : i \in 1 .. Len(dev.data)
    BY <1>2, <1>3, <1>5
  <2>2. local[t].at + 1 \in Int /\ local[t].at + n \in Int
    BY <1>2, <1>3
  <2> QED BY <1>2, <1>3, <1>5, <2>1, <2>2
<1> QED BY <1>3, <1>4, <1>6, <1>7

LEMMA GlobalQuietStep ==
    ASSUME GlobalInv, NEW t \in Threads,
           \/ GlobalTakesMutex(t)
           \/ UnlockGlobal(t, "write_unlock", "return")
           \/ ReadEnd(t) \/ ReadPiece(t)
           \/ UnlockGlobal(t, "read_unlock", "copy_to_user")
           \/ CopyOutFaults(t) \/ ReturnGlobal(t)
    PROVE  GlobalInv'
<1> USE GlobalParts
<1>1. /\ GlobalTypeOK /\ InsideWithMutex /\ BufferInv
      /\ local[t] \in Requests /\ local = [local EXCEPT ![t] = local[t]]
  BY DEF GlobalInv
<1>2. /\ {"memset", "read", "return", "copy_to_user", "read_unlock", "open"} \subseteq GlobalLabels
      /\ {"memset", "read", "read_unlock", "write_unlock"} \subseteq Inside
      /\ \A label \in {"return", "copy_to_user", "open"} : label \notin Inside
  BY DEF GlobalLabels, Inside
<1>3. CASE GlobalTakesMutex(t)
  <2>1. PICK from \in {"write_lock", "read_lock"}, to \in {"memset", "read"} :
            Lock(t, from, to) /\ (to = "memset" => from = "write_lock")
    BY <1>3 DEF GlobalTakesMutex
  <2>2. /\ pc[t] = from /\ Goto(t, to) /\ mutex' = t /\ UNCHANGED <<dev, pos, local>>
    BY <2>1 DEF Lock, At
  <2>3. to \in {"write_lock", "memset"} => local[t].count <= Size
    BY <1>1, <2>1, <2>2 DEF BufferInv
  <2>4. InsideWithMutex'
    BY <1>1, <2>1, MutexTaken
  <2>5. pos[local[t].file] # Closed
    BY <1>1, <2>2
  <2>6. to \in GlobalLabels /\ to \notin Replacing /\ pc[t] \notin Replacing
    BY <1>2, <2>1, <2>2 DEF Replacing
  <2>7. /\ mutex' \in Threads \cup {Free} /\ pos' \in [Files -> Nat \cup {Closed}]
        /\ local' = [local EXCEPT ![t] = local[t]]
        /\ \A f \in Files : pos[f] # Closed => pos'[f] # Closed
    BY <1>1, <2>2
  <2> QED BY <1>1, <2>2, <2>3, <2>4, <2>5, <2>6, <2>7, GlobalQuiet
<1>4. CASE \/ UnlockGlobal(t, "write_unlock", "return") \/ ReadEnd(t)
           \/ UnlockGlobal(t, "read_unlock", "copy_to_user")
  <2>1. PICK to \in {"return", "copy_to_user"} : Goto(t, to)
    BY <1>4 DEF UnlockGlobal, ReadEnd
  <2>2. /\ pc[t] \in {"write_unlock", "read", "read_unlock"}
        /\ mutex' = Free /\ UNCHANGED <<dev, pos, local>>
    BY <1>4 DEF UnlockGlobal, ReadEnd, At
  <2>3. InsideWithMutex'
    BY <1>1, <1>2, <2>1, <2>2, MutexReleased
  <2>4. pos[local[t].file] # Closed
    BY <1>1, <2>2
  <2>5. to \in GlobalLabels /\ to \notin Replacing /\ pc[t] \notin Replacing
        /\ to \notin {"write_lock", "memset"}
    BY <1>2, <2>1, <2>2 DEF Replacing
  <2> QED BY <1>1, <2>1, <2>2, <2>3, <2>4, <2>5, GlobalQuiet
<1>5. CASE ReadPiece(t)
  <2>1. PICK n \in Nat :
            /\ local' = [local EXCEPT ![t] =
                    [local[t] EXCEPT !.got = SubSeq(dev.data, local[t].at + 1, local[t].at + n),
                                     !.at = local[t].at + n]]
            /\ SubSeq(dev.data, local[t].at + 1, local[t].at + n) \in Seq(Byte)
    BY <1>5, PieceFacts
  <2> DEFINE l == [local[t] EXCEPT !.got = SubSeq(dev.data, local[t].at + 1, local[t].at + n),
                                   !.at = local[t].at + n]
  <2>2. l \in Requests /\ l.file = local[t].file
    <3>1. local[t].at + n \in Nat
      BY <1>1 DEF Requests
    <3> HIDE DEF l
    <3>2. l = [[local[t] EXCEPT !.got = SubSeq(dev.data, local[t].at + 1, local[t].at + n)]
                    EXCEPT !.at = local[t].at + n]
      BY <1>1 DEF l, Requests
    <3> QED BY <1>1, <2>1, <3>1, <3>2 DEF Requests
  <2>3. /\ pc[t] = "read" /\ Goto(t, "read_unlock") /\ UNCHANGED <<dev, mutex, pos>>
        /\ local' = [local EXCEPT ![t] = l]
    BY <1>5, <2>1 DEF ReadPiece, At
  <2> HIDE DEF l
  <2>4. InsideWithMutex'
    BY <1>1, <1>2, <2>3, MutexLeft
  <2>5. "read_unlock" \notin Replacing /\ pc[t] \notin Replacing /\ pos[l.file] # Closed
    BY <1>1, <2>2, <2>3 DEF Replacing
  <2> QED BY <1>1, <1>2, <2>2, <2>3, <2>4, <2>5, GlobalQuiet
<1>6. CASE CopyOutFaults(t) \/ ReturnGlobal(t)
  <2>1. /\ pc[t] \in {"return", "copy_to_user"} /\ Goto(t, "open")
        /\ UNCHANGED <<dev, mutex>> /\ local' = [local EXCEPT ![t] = NoRequest]
    BY <1>6 DEF CopyOutFaults, ReturnGlobal, Leave, At
  <2>2. /\ pos' \in [Files -> Nat \cup {Closed}]
        /\ \A f \in Files : pos[f] # Closed => pos'[f] # Closed
    <3>1. local[t].at \in Nat /\ local[t].at # Closed
      BY <1>1 DEF Requests, Closed
    <3>2. UNCHANGED pos \/ pos' = [pos EXCEPT ![local[t].file] = local[t].at]
      BY <1>6 DEF CopyOutFaults, ReturnGlobal
    <3> QED BY <1>1, <3>1, <3>2
  <2>3. InsideWithMutex'
    BY <1>1, <1>2, <2>1, MutexLeft
  <2>4. "open" \notin Replacing /\ pc[t] \notin Replacing
    BY <2>1 DEF Replacing
  <2> QED BY <1>1, <1>2, <2>1, <2>2, <2>3, <2>4, GlobalQuiet
<1> QED BY <1>3, <1>4, <1>5, <1>6

LEMMA GlobalWriteStep ==
    ASSUME GlobalInv, NEW t \in Threads, Erase(t) \/ CopyMessage(t) \/ SetLength(t)
    PROVE  GlobalInv'
<1> USE GlobalParts
<1>1. /\ GlobalTypeOK /\ InsideWithMutex /\ BufferInv /\ local[t] \in Requests
      /\ local[t].count \in Nat /\ local[t].msg \in Messages /\ local[t].at \in Nat
      /\ dev \in GlobalDev
  BY DEF GlobalInv, Requests
<1>2. /\ {"memcpy", "data_len", "write_unlock"} \subseteq GlobalLabels
      /\ {"memset", "memcpy", "data_len", "write_unlock"} \subseteq Inside
  BY DEF GlobalLabels, Inside
<1>3. /\ pc[t] \in {"memset", "memcpy", "data_len"} /\ UNCHANGED <<mutex, pos>>
      /\ pos[local[t].file] # Closed
  BY <1>1 DEF Erase, CopyMessage, SetLength, At
<1>4. PICK label \in {"memcpy", "data_len", "write_unlock"} : Goto(t, label)
  BY DEF Erase, CopyMessage, SetLength
<1>5. InsideWithMutex'
  BY <1>1, <1>2, <1>3, <1>4, MutexLeft
<1>6. \A u \in Threads : u # t => pc[u] \notin Inside /\ pc'[u] = pc[u]
  BY <1>1, <1>2, <1>3, <1>4, OneReplaces DEF Goto
<1>7. local[t].count <= Size
  BY <1>1, <1>3 DEF BufferInv
<1>8. local' \in [Threads -> Requests] /\ pc' \in [Threads -> GlobalLabels]
      /\ pc'[t] = label /\ local'[t].file = local[t].file /\ local'[t].count = local[t].count
      /\ \A u \in Threads : u # t => local'[u] = local[u]
  <2> DEFINE l == [local[t] EXCEPT !.at = local[t].at + local[t].count]
  <2> DEFINE end == local[t].at + local[t].count
  <2>3. end \in Nat
    BY <1>1
  <2>1. l \in Requests /\ l.file = local[t].file /\ l.count = local[t].count
    <3> HIDE DEF end
    <3>1. l = [local[t] EXCEPT !.at = end]
      BY DEF end
    <3> HIDE DEF l
    <3> QED BY <1>1, <2>3, <3>1 DEF Requests
  <2>2. UNCHANGED local \/ local' = [local EXCEPT ![t] = l]
    BY DEF Erase, CopyMessage, SetLength
  <2> HIDE DEF l
  <2> QED BY <1>1, <1>2, <1>4, <2>1, <2>2 DEF Goto
<1>9. \A u \in Threads : pc'[u] # "open" => pos'[local'[u].file] # Closed
  BY <1>1, <1>3, <1>6, <1>8
<1>10. \A u \in Threads : u # t => pc'[u] \notin {"memset", "memcpy", "data_len"}
  BY <1>2, <1>6
<1>11. CASE Erase(t)
  <2>1. dev' = [dev EXCEPT !.data = Blank] /\ UNCHANGED local /\ Goto(t, "memcpy")
    BY <1>11 DEF Erase, Blank
  <2>2. dev' \in GlobalDev /\ dev'.data = Blank
    BY <1>1, <2>1, PlainIsData DEF GlobalDev
  <2>3. pc'[t] = "memcpy"
    BY <1>1, <2>1 DEF Goto
  <2>4. BufferInv'
    BY <1>1, <1>7, <1>8, <1>10, <2>1, <2>2, <2>3, <1>6 DEF BufferInv, Replacing
  <2>5. GlobalTypeOK'
    BY <1>1, <1>3, <1>8, <1>9, <2>2, GlobalTyped
  <2> QED BY <1>5, <2>4, <2>5 DEF GlobalInv
<1>12. CASE CopyMessage(t)
  <2>1. dev.data = Blank
    BY <1>1, <1>12 DEF CopyMessage, At, BufferInv
  <2>2. dev' = [dev EXCEPT !.data = [i \in 1 .. Size |->
                    IF i <= local[t].count THEN <<local[t].msg, i>> ELSE dev.data[i]]]
    BY <1>12 DEF CopyMessage
  <2>3. [i \in 1 .. Size |-> IF i <= local[t].count THEN <<local[t].msg, i>> ELSE dev.data[i]]
            = Plain(local[t].msg, local[t].count)
    BY <2>1 DEF Plain, Blank
  <2>8. dev' = [dev EXCEPT !.data = Plain(local[t].msg, local[t].count)]
    BY <2>2, <2>3
  <2>4. dev' \in GlobalDev /\ dev'.data = Plain(local[t].msg, local[t].count)
    BY <1>1, <2>8, PlainIsData DEF GlobalDev
  <2>5. pc'[t] = "data_len" /\ UNCHANGED local
    BY <1>1, <1>12 DEF CopyMessage, Goto
  <2>6. BufferInv'
    BY <1>1, <1>7, <1>8, <1>10, <2>4, <2>5, <1>6 DEF BufferInv, Replacing
  <2>7. GlobalTypeOK'
    BY <1>1, <1>3, <1>8, <1>9, <2>4, GlobalTyped
  <2> QED BY <1>5, <2>6, <2>7 DEF GlobalInv
<1>13. CASE SetLength(t)
  <2>1. dev.data = Plain(local[t].msg, local[t].count) /\ pc'[t] = "write_unlock"
    BY <1>1, <1>13 DEF SetLength, At, BufferInv, Goto
  <2>2. dev' \in GlobalDev /\ dev'.data = dev.data /\ dev'.data_len = local[t].count
    BY <1>1, <1>7, <1>13 DEF SetLength, GlobalDev
  <2>3. BufferInv'
    BY <1>1, <1>8, <1>10, <1>6, <2>1, <2>2 DEF BufferInv, Replacing
  <2>4. GlobalTypeOK'
    BY <1>1, <1>3, <1>8, <1>9, <2>2, GlobalTyped
  <2> QED BY <1>5, <2>3, <2>4 DEF GlobalInv
<1> QED BY <1>11, <1>12, <1>13

LEMMA GlobalNextInv == GlobalInv /\ [GlobalNext]_vars => GlobalInv'
<1> SUFFICES ASSUME GlobalInv, [GlobalNext]_vars PROVE GlobalInv'
  OBVIOUS
<1>1. CASE GlobalNext
  BY <1>1, GlobalCallsInv, GlobalFilesInv, GlobalQuietStep, GlobalWriteStep
     DEF GlobalNext, GlobalInKernel
<1>2. CASE UNCHANGED vars
  BY <1>2 DEF vars, GlobalInv, GlobalTypeOK, InsideWithMutex, BufferInv
<1> QED BY <1>1, <1>2

-----------------------------------------------------------------------------
(* The refinement: what ShownMessage is before and after every step.       *)

\* ShownMessage of a device d with program counters p and locals l.
Shown(d, p, l) ==
    IF \E t \in Threads : p[t] \in Replacing
    THEN LET w == CHOOSE t \in Threads : p[t] \in Replacing
         IN  Bytes(l[w].msg, l[w].count)
    ELSE SubSeq(d.data, 1, d.data_len)

LEMMA ShownIs ==
    /\ ShownMessage = Shown(dev, pc, local)
    /\ ShownMessage' = Shown(dev', pc', local')
BY DEF ShownMessage, Shown, Replacing

LEMMA ShownReplaced ==
    ASSUME NEW d, NEW p, NEW l, NEW t \in Threads, p[t] \in Replacing,
           \A u \in Threads : u # t => p[u] \notin Replacing
    PROVE  Shown(d, p, l) = Bytes(l[t].msg, l[t].count)
<1> DEFINE w == CHOOSE u \in Threads : p[u] \in Replacing
<1>1. w \in Threads /\ p[w] \in Replacing
  OBVIOUS
<1>2. w = t
  BY <1>1
<1>3. Shown(d, p, l) = Bytes(l[w].msg, l[w].count)
  BY DEF Shown
<1> QED BY <1>2, <1>3

LEMMA ShownQuiet ==
    ASSUME NEW d, NEW p, NEW l, \A u \in Threads : p[u] \notin Replacing
    PROVE  Shown(d, p, l) = SubSeq(d.data, 1, d.data_len)
BY DEF Shown

LEMMA PlainPrefix ==
    ASSUME NEW m \in Messages, NEW n \in 0 .. Size
    PROVE  /\ SubSeq(Plain(m, n), 1, n) = Bytes(m, n)
           /\ Len(Bytes(m, n)) = n
           /\ \A from \in Nat, to \in Nat : to <= n =>
                SubSeq(Plain(m, n), from + 1, to) = SubSeq(Bytes(m, n), from + 1, to)
<1>1. Size \in Nat /\ n \in Nat /\ n <= Size
  BY GlobalParts
<1>2. Plain(m, n) \in [1 .. Size -> Byte] /\ \A i \in 1 .. n : Plain(m, n)[i] = <<m, i>>
  BY <1>1, PlainIsData DEF Plain
<1>3. Bytes(m, n) \in Seq(Byte) /\ Len(Bytes(m, n)) = n /\ \A i \in 1 .. n : Bytes(m, n)[i] = <<m, i>>
  <2>1. \A i \in 1 .. n : <<m, i>> \in Byte
    BY <1>1 DEF Byte
  <2>2. Bytes(m, n) \in [1 .. n -> Byte]
    BY <2>1 DEF Bytes
  <2> QED BY <1>1, <2>2 DEF Bytes
<1>4. Plain(m, n) \in Seq(Byte) /\ Len(Plain(m, n)) = Size
  BY <1>1, <1>2
<1>5. ASSUME NEW from \in Nat, NEW to \in Nat, to <= n
      PROVE  SubSeq(Plain(m, n), from + 1, to) = SubSeq(Bytes(m, n), from + 1, to)
  BY <1>1, <1>2, <1>3, <1>4, <1>5
<1>6. SubSeq(Plain(m, n), 1, n) = Bytes(m, n)
  <2>1. SubSeq(Plain(m, n), 1, n) = SubSeq(Bytes(m, n), 1, n)
    <3>1. 0 \in Nat /\ 0 + 1 = 1
      OBVIOUS
    <3>2. n <= n /\ n \in Nat
      BY <1>1
    <3>3. SubSeq(Plain(m, n), 0 + 1, n) = SubSeq(Bytes(m, n), 0 + 1, n)
      BY <1>5, <3>1, <3>2, Zenon
    <3> QED BY <3>1, <3>3, Zenon
  <2>2. SubSeq(Bytes(m, n), 1, n) = Bytes(m, n)
    BY <1>1, <1>3
  <2> QED BY <2>1, <2>2
<1> QED BY <1>3, <1>5, <1>6

\* The message is always some bytes of some message.
LEMMA ShownBytes ==
    ASSUME GlobalInv
    PROVE  \E m \in Messages, n \in 0 .. Size : ShownMessage = Bytes(m, n)
<1> USE GlobalParts
<1>1. GlobalTypeOK /\ InsideWithMutex /\ BufferInv
  BY DEF GlobalInv
<1>2. ASSUME NEW t \in Threads, pc[t] \in Replacing
      PROVE  \E m \in Messages, n \in 0 .. Size : ShownMessage = Bytes(m, n)
  <2>1. pc[t] \in Inside
    BY <1>2 DEF Replacing, Inside
  <2>2. \A u \in Threads : u # t => pc[u] \notin Replacing
    BY <1>1, <2>1, OneReplaces DEF Replacing, Inside
  <2>3. ShownMessage = Bytes(local[t].msg, local[t].count)
    BY <1>2, <2>2, ShownReplaced, ShownIs
  <2>4. local[t].msg \in Messages /\ local[t].count \in 0 .. Size
    BY <1>1, <1>2 DEF Requests, BufferInv, Replacing
  <2> QED BY <2>3, <2>4
<1>3. ASSUME \A t \in Threads : pc[t] \notin Replacing
      PROVE  \E m \in Messages, n \in 0 .. Size : ShownMessage = Bytes(m, n)
  <2>1. ShownMessage = SubSeq(dev.data, 1, dev.data_len)
    BY <1>3, ShownQuiet, ShownIs
  <2>2. PICK m \in Messages : dev.data = Plain(m, dev.data_len)
    BY <1>1, <1>3 DEF BufferInv
  <2>3. dev.data_len \in 0 .. Size
    BY <1>1 DEF GlobalDev
  <2>4. SubSeq(Plain(m, dev.data_len), 1, dev.data_len) = Bytes(m, dev.data_len)
    BY <2>3, PlainPrefix
  <2> QED BY <2>1, <2>2, <2>3, <2>4
<1> QED BY <1>2, <1>3

\* A step that leaves the buffer, the labels of a write and its request alone shows
\* the same message.
LEMMA ShownStays ==
    ASSUME GlobalInv, UNCHANGED dev,
           \A t \in Threads : pc'[t] \in Replacing <=> pc[t] \in Replacing,
           \A t \in Threads : pc[t] \in Replacing =>
                local'[t].msg = local[t].msg /\ local'[t].count = local[t].count
    PROVE  ShownMessage' = ShownMessage
<1>1. InsideWithMutex
  BY DEF GlobalInv
<1>2. CASE \A t \in Threads : pc[t] \notin Replacing
  <2>1. \A t \in Threads : pc'[t] \notin Replacing
    BY <1>2
  <2>2. Shown(dev, pc, local) = SubSeq(dev.data, 1, dev.data_len)
    BY <1>2, ShownQuiet
  <2>3. Shown(dev', pc', local') = SubSeq(dev'.data, 1, dev'.data_len)
    BY <2>1, ShownQuiet
  <2>4. dev' = dev
    OBVIOUS
  <2> QED BY <2>2, <2>3, <2>4, ShownIs
<1>3. CASE \E t \in Threads : pc[t] \in Replacing
  <2>1. PICK t \in Threads : pc[t] \in Replacing
    BY <1>3
  <2>2. \A u \in Threads : u # t => pc[u] \notin Replacing
    BY <1>1, <2>1, OneReplaces DEF Replacing, Inside
  <2>3. Shown(dev, pc, local) = Bytes(local[t].msg, local[t].count)
    BY <2>1, <2>2, ShownReplaced
  <2>4. pc'[t] \in Replacing /\ \A u \in Threads : u # t => pc'[u] \notin Replacing
    BY <2>1, <2>2
  <2>5. Shown(dev', pc', local') = Bytes(local'[t].msg, local'[t].count)
    BY <2>4, ShownReplaced
  <2> QED BY <2>1, <2>3, <2>5, ShownIs
<1> QED BY <1>2, <1>3

\* While nobody is replacing it the message is the front of the buffer.
LEMMA SettledMessage ==
    ASSUME GlobalInv, NEW t \in Threads, pc[t] = "read"
    PROVE  /\ Len(ShownMessage) = dev.data_len
           /\ \A from \in Nat, to \in Nat : to <= dev.data_len =>
                SubSeq(dev.data, from + 1, to) = SubSeq(ShownMessage, from + 1, to)
<1> USE GlobalParts
<1>1. InsideWithMutex /\ BufferInv /\ dev.data_len \in 0 .. Size
  BY DEF GlobalInv, GlobalDev
<1>2. \A u \in Threads : pc[u] \notin Replacing
  BY <1>1, OneReplaces DEF Inside, Replacing
<1>3. PICK m \in Messages : dev.data = Plain(m, dev.data_len)
  BY <1>1, <1>2 DEF BufferInv
<1>4. ShownMessage = SubSeq(dev.data, 1, dev.data_len)
  BY <1>2, ShownQuiet, ShownIs
<1>5. /\ SubSeq(Plain(m, dev.data_len), 1, dev.data_len) = Bytes(m, dev.data_len)
      /\ Len(Bytes(m, dev.data_len)) = dev.data_len
      /\ \A from \in Nat, to \in Nat : to <= dev.data_len =>
            SubSeq(Plain(m, dev.data_len), from + 1, to) = SubSeq(Bytes(m, dev.data_len), from + 1, to)
  BY <1>1, PlainPrefix
<1>6. ShownMessage = Bytes(m, dev.data_len)
  BY <1>3, <1>4, <1>5, Zenon
<1> QED BY <1>3, <1>5, <1>6, Zenon

\* The calls that the shared message sees, and what a step of thread t does to
\* them.
CallRecord ==
    [phase : {"none", "reading", "writing", "done"}, file : Files, count : Nat, at : Nat,
     got : Seq(Byte)]

LEMMA CallAtType ==
    ASSUME NEW label, NEW l \in Requests
    PROVE  CallAt(label, l) \in CallRecord
<1>1. l.count \in Nat /\ l.at \in Nat /\ l.file \in Files /\ l.got \in Seq(Byte)
  BY GlobalParts DEF Requests
<1>2. l.at + l.count \in Nat
  BY <1>1
<1> DEFINE phase == CASE label = "open" -> "none"
                 [] label \in {"read_lock", "read"} -> "reading"
                 [] label \in {"write_lock", "memset"} -> "writing"
                 [] OTHER -> "done"
<1>3. phase \in {"none", "reading", "writing", "done"}
  OBVIOUS
<1>4. CallAt(label, l) = [phase |-> phase, file |-> l.file, count |-> l.count,
            at |-> IF label \in {"memcpy", "data_len"} THEN l.at + l.count ELSE l.at,
            got |-> l.got]
  BY DEF CallAt
<1> HIDE DEF phase
<1> QED BY <1>1, <1>2, <1>3, <1>4 DEF CallRecord

LEMMA CallPhases ==
    ASSUME NEW l
    PROVE  /\ CallAt("open", l).phase = "none"
           /\ \A label : label # "open" => CallAt(label, l).phase # "none"
           /\ CallAt("read", l).phase = "reading"
           /\ CallAt("memset", l).phase = "writing"
           /\ \A label \in {"return", "copy_to_user"} : CallAt(label, l).phase = "done"
           /\ \A label : /\ CallAt(label, l).file = l.file
                         /\ CallAt(label, l).count = l.count
                         /\ CallAt(label, l).got = l.got
           /\ \A label \in {"read", "memset", "return", "copy_to_user"} :
                CallAt(label, l).at = l.at
BY DEF CallAt

\* A call that is over but for its end.
LEMMA CallAtDone ==
    ASSUME NEW l \in Requests, NEW piece, NEW end
    PROVE  /\ CallAt("memcpy", l) =
                [phase |-> "done", file |-> l.file, count |-> l.count, at |-> l.at + l.count,
                 got |-> l.got]
           /\ CallAt("return", l) =
                [phase |-> "done", file |-> l.file, count |-> l.count, at |-> l.at, got |-> l.got]
           /\ CallAt("read_unlock", [l EXCEPT !.got = piece, !.at = end]) =
                [phase |-> "done", file |-> l.file, count |-> l.count, at |-> end, got |-> piece]
<1>1. PICK after : after = [l EXCEPT !.got = piece, !.at = end]
  OBVIOUS
<1>2. after.file = l.file /\ after.count = l.count /\ after.at = end /\ after.got = piece
  BY <1>1 DEF Requests
<1>3. CallAt("read_unlock", after) =
            [phase |-> "done", file |-> after.file, count |-> after.count, at |-> after.at,
             got |-> after.got]
  BY DEF CallAt
<1>4. CallAt("read_unlock", [l EXCEPT !.got = piece, !.at = end]) =
            [phase |-> "done", file |-> l.file, count |-> l.count, at |-> end, got |-> piece]
  BY <1>1, <1>2, <1>3
<1>5. /\ CallAt("memcpy", l) =
            [phase |-> "done", file |-> l.file, count |-> l.count, at |-> l.at + l.count,
             got |-> l.got]
      /\ CallAt("return", l) =
            [phase |-> "done", file |-> l.file, count |-> l.count, at |-> l.at, got |-> l.got]
  BY DEF CallAt
<1> QED BY <1>4, <1>5

LEMMA ShownCallsType ==
    ASSUME GlobalInv
    PROVE  /\ ShownCalls \in [Threads -> CallRecord]
           /\ \A t \in Threads : ShownCalls[t] = CallAt(pc[t], local[t])
<1>1. \A t \in Threads : local[t] \in Requests
  BY GlobalParts DEF GlobalInv
<1> QED BY <1>1, CallAtType DEF ShownCalls

LEMMA CallMoves ==
    ASSUME GlobalInv, NEW t \in Threads, NEW label, Goto(t, label),
           NEW l, local' = [local EXCEPT ![t] = l]
    PROVE  ShownCalls' = [ShownCalls EXCEPT ![t] = CallAt(label, l)]
<1>1. pc \in [Threads -> GlobalLabels] /\ local \in [Threads -> Requests]
  BY GlobalParts DEF GlobalInv
<1>2. \A u \in Threads : CallAt(pc'[u], local'[u]) =
            IF u = t THEN CallAt(label, l) ELSE CallAt(pc[u], local[u])
  BY <1>1 DEF Goto
<1>3. ShownCalls' = [u \in Threads |-> CallAt(pc'[u], local'[u])]
  BY DEF ShownCalls, CallAt
<1> QED BY <1>2, <1>3 DEF ShownCalls

-----------------------------------------------------------------------------
(* The refinement: the steps of lab1 as steps of the shared message.       *)

Lab1 == INSTANCE SharedMessage WITH message <- ShownMessage, call <- ShownCalls

\* A step that leaves the buffer alone, taken by a thread that is not replacing.
LEMMA MessageStays ==
    ASSUME GlobalInv, NEW t \in Threads, NEW label, Goto(t, label), UNCHANGED dev,
           pc[t] \notin Replacing, label \notin Replacing,
           NEW l, local' = [local EXCEPT ![t] = l]
    PROVE  ShownMessage' = ShownMessage
<1>1. pc \in [Threads -> GlobalLabels] /\ local \in [Threads -> Requests]
  BY GlobalParts DEF GlobalInv
<1>2. \A u \in Threads : pc'[u] \in Replacing <=> pc[u] \in Replacing
  BY <1>1 DEF Goto
<1>3. \A u \in Threads : pc[u] \in Replacing =>
            local'[u].msg = local[u].msg /\ local'[u].count = local[u].count
  BY <1>1
<1> QED BY <1>2, <1>3, ShownStays

LEMMA FilesShared ==
    ASSUME GlobalInv, NEW f \in Files, kmsgpipe_open(f) \/ kmsgpipe_release(f)
    PROVE  Lab1!Open(f) \/ Lab1!Close(f)
<1>1. UNCHANGED <<dev, pc, local>>
  BY DEF kmsgpipe_open, kmsgpipe_release
<1>2. ShownMessage' = ShownMessage /\ ShownCalls' = ShownCalls
  BY <1>1 DEF ShownMessage, ShownCalls, CallAt
<1>3. CASE kmsgpipe_open(f)
  BY <1>2, <1>3 DEF kmsgpipe_open, Lab1!Open
<1>4. CASE kmsgpipe_release(f)
  <2>1. \A t \in Threads : ShownCalls[t].phase = "none" \/ ShownCalls[t].file # f
    <3> SUFFICES ASSUME NEW t \in Threads
                 PROVE  ShownCalls[t].phase = "none" \/ ShownCalls[t].file # f
      OBVIOUS
    <3>1. pc[t] = "open" \/ local[t].file # f
      BY <1>4 DEF kmsgpipe_release, At
    <3>2. ShownCalls[t] = CallAt(pc[t], local[t])
      BY ShownCallsType
    <3>3. PICK label, l : label = pc[t] /\ l = local[t]
      OBVIOUS
    <3>4. /\ CallAt(label, l).file = l.file
          /\ label = "open" => CallAt(label, l).phase = "none"
      BY CallPhases
    <3> QED BY <3>1, <3>2, <3>3, <3>4
  <2> QED BY <1>2, <1>4, <2>1 DEF kmsgpipe_release, Lab1!Close
<1> QED BY <1>3, <1>4

LEMMA CallsShared ==
    ASSUME GlobalInv, NEW t \in Threads, GlobalCalls(t)
    PROVE  Lab1!Begin(t)
<1>1. PICK f \in Files, count \in Counts, m \in Messages, lock \in {"read_lock", "write_lock"} :
        /\ Call(t, f, count, m, lock)
        /\ lock = "write_lock" => count <= Size
  BY GlobalParts DEF GlobalCalls, kmsgpipe_read, kmsgpipe_write
<1> DEFINE l == [file |-> f, count |-> count, msg |-> m, at |-> pos[f], got |-> <<>>]
<1> DEFINE p == IF lock = "read_lock" THEN "reading" ELSE "writing"
<1> DEFINE c == [phase |-> p, file |-> f, count |-> count, at |-> pos[f], got |-> <<>>]
<1>2. /\ pc[t] = "open" /\ pos[f] # Closed /\ Goto(t, lock)
      /\ local' = [local EXCEPT ![t] = l] /\ UNCHANGED <<dev, pos>>
  BY <1>1 DEF Call, At
<1>3. CallAt(lock, l) = c
  BY DEF CallAt
<1>4. ShownCalls[t].phase = "none"
  <2>1. PICK before : before = local[t]
    OBVIOUS
  <2>2. ShownCalls[t] = CallAt("open", before)
    BY <1>2, <2>1, ShownCallsType
  <2> QED BY <2>2, CallPhases
<1> HIDE DEF l
<1>5. ShownCalls' = [ShownCalls EXCEPT ![t] = c]
  <2>1. ShownCalls' = [ShownCalls EXCEPT ![t] = CallAt(lock, l)]
    BY <1>2, CallMoves
  <2> HIDE DEF c
  <2> QED BY <1>3, <2>1
<1>6. ShownMessage' = ShownMessage
  BY <1>2, MessageStays DEF Replacing
<1>7. p \in {"reading", "writing"} /\ (p = "writing" => count <= Size)
  BY <1>1
<1> HIDE DEF p
<1> QED BY <1>2, <1>4, <1>5, <1>6, <1>7 DEF Lab1!Begin

\* Taking the mutex, giving it back, and the two later steps of a write are not
\* seen.
LEMMA UnseenShared ==
    ASSUME GlobalInv, GlobalInv', NEW t \in Threads,
           \/ GlobalTakesMutex(t) \/ CopyMessage(t) \/ SetLength(t)
           \/ UnlockGlobal(t, "write_unlock", "return")
           \/ UnlockGlobal(t, "read_unlock", "copy_to_user")
    PROVE  UNCHANGED Lab1!vars
<1> USE GlobalParts
<1>1. /\ InsideWithMutex /\ BufferInv /\ pc \in [Threads -> GlobalLabels]
      /\ local \in [Threads -> Requests] /\ local[t] \in Requests
      /\ local[t].count \in Nat /\ local[t].at \in Nat /\ local[t].msg \in Messages
      /\ ShownCalls \in [Threads -> CallRecord]
      /\ ShownCalls[t] = CallAt(pc[t], local[t])
  BY ShownCallsType DEF GlobalInv, Requests
<1>2. UNCHANGED pos
  BY DEF GlobalTakesMutex, Lock, CopyMessage, SetLength, UnlockGlobal
<1>3. ASSUME NEW label, Goto(t, label), NEW l, local' = [local EXCEPT ![t] = l],
             CallAt(label, l) = CallAt(pc[t], local[t])
      PROVE  ShownCalls' = ShownCalls
  <2>1. ShownCalls' = [ShownCalls EXCEPT ![t] = CallAt(label, l)]
    BY <1>3, CallMoves
  <2> QED BY <1>1, <1>3, <2>1
<1>4. UNCHANGED local => local' = [local EXCEPT ![t] = local[t]]
  BY <1>1
<1>5. CASE \/ GlobalTakesMutex(t) \/ UnlockGlobal(t, "write_unlock", "return")
           \/ UnlockGlobal(t, "read_unlock", "copy_to_user")
  <2>1. PICK from \in {"write_lock", "read_lock", "write_unlock", "read_unlock"},
             to \in {"memset", "read", "return", "copy_to_user"} :
            /\ pc[t] = from /\ Goto(t, to) /\ UNCHANGED <<dev, local>>
            /\ <<from, to>> \in {<<"write_lock", "memset">>, <<"read_lock", "read">>,
                    <<"write_unlock", "return">>, <<"read_unlock", "copy_to_user">>}
    BY <1>5 DEF GlobalTakesMutex, Lock, UnlockGlobal, At
  <2>2. CallAt(to, local[t]) = CallAt(from, local[t])
    BY <2>1 DEF CallAt
  <2>3. ShownMessage' = ShownMessage
    BY <1>4, <2>1, MessageStays DEF Replacing
  <2> QED BY <1>2, <1>3, <1>4, <2>1, <2>2, <2>3 DEF Lab1!vars
<1>6. ASSUME pc[t] \in {"memcpy", "data_len"}
      PROVE  /\ \A u \in Threads : u # t => pc[u] \notin Replacing
             /\ local[t].count \in 0 .. Size
             /\ ShownMessage = Bytes(local[t].msg, local[t].count)
  <2>1. \A u \in Threads : u # t => pc[u] \notin Replacing
    BY <1>1, <1>6, OneReplaces DEF Inside, Replacing
  <2>2. local[t].count \in 0 .. Size
    BY <1>1, <1>6 DEF BufferInv
  <2> QED BY <1>6, <2>1, <2>2, ShownReplaced, ShownIs DEF Replacing
<1>7. CASE CopyMessage(t)
  <2>1. /\ pc[t] = "memcpy" /\ Goto(t, "data_len") /\ UNCHANGED local
    BY <1>7 DEF CopyMessage, At
  <2>2. CallAt("data_len", local[t]) = CallAt("memcpy", local[t])
    BY DEF CallAt
  <2>3. pc'[t] \in Replacing /\ \A u \in Threads : u # t => pc'[u] \notin Replacing
    BY <1>1, <1>6, <2>1 DEF Goto, Replacing
  <2>4. ShownMessage' = Bytes(local'[t].msg, local'[t].count)
    BY <2>3, ShownReplaced, ShownIs
  <2>5. ShownMessage' = ShownMessage
    BY <1>6, <2>1, <2>4
  <2> QED BY <1>2, <1>3, <1>4, <2>1, <2>2, <2>5 DEF Lab1!vars
<1>8. CASE SetLength(t)
  <2> DEFINE l == [local[t] EXCEPT !.at = local[t].at + local[t].count]
  <2>1. /\ pc[t] = "data_len" /\ Goto(t, "write_unlock")
        /\ local' = [local EXCEPT ![t] = l]
        /\ dev' = [dev EXCEPT !.data_len = local[t].count]
    BY <1>1, <1>8 DEF SetLength, At
  <2>2. CallAt("write_unlock", l) = CallAt("data_len", local[t])
    BY <1>1 DEF CallAt, Requests
  <2> HIDE DEF l
  <2>3. ShownMessage' = SubSeq(dev'.data, 1, dev'.data_len)
    <3>1. \A u \in Threads : pc'[u] \notin Replacing
      BY <1>1, <1>6, <2>1 DEF Goto, Replacing
    <3> QED BY <3>1, ShownQuiet, ShownIs
  <2>4. /\ dev'.data = Plain(local[t].msg, local[t].count)
        /\ dev'.data_len = local[t].count
    BY <1>1, <2>1 DEF BufferInv, GlobalInv, GlobalDev
  <2>5. SubSeq(Plain(local[t].msg, local[t].count), 1, local[t].count)
            = Bytes(local[t].msg, local[t].count)
    BY <1>1, <1>6, <2>1, PlainPrefix
  <2>6. ShownMessage' = ShownMessage
    BY <1>6, <2>1, <2>3, <2>4, <2>5
  <2> QED BY <1>2, <1>3, <2>1, <2>2, <2>6 DEF Lab1!vars
<1> QED BY <1>5, <1>7, <1>8

\* memset is where the message is replaced.
LEMMA WriteShared ==
    ASSUME GlobalInv, NEW t \in Threads, Erase(t)
    PROVE  Lab1!Write(t)
<1> USE GlobalParts
<1>1. /\ InsideWithMutex /\ BufferInv /\ pc \in [Threads -> GlobalLabels]
      /\ local \in [Threads -> Requests] /\ local[t] \in Requests
      /\ local[t].count \in Nat /\ local[t].at \in Nat /\ local[t].msg \in Messages
      /\ ShownCalls \in [Threads -> CallRecord]
      /\ ShownCalls[t] = CallAt(pc[t], local[t])
  BY ShownCallsType DEF GlobalInv, Requests
<1>2. pc[t] = "memset" /\ Goto(t, "memcpy") /\ UNCHANGED <<pos, local>>
  BY DEF Erase, At
<1>3. PICK l \in Requests : l = local[t]
  BY <1>1
<1>4. ShownMessage' = Bytes(l.msg, l.count)
  <2>1. pc'[t] \in Replacing
    BY <1>1, <1>2 DEF Goto, Replacing
  <2>2. \A u \in Threads : u # t => pc'[u] \notin Replacing
    BY <1>1, <1>2, OneReplaces DEF Goto, Inside, Replacing
  <2> QED BY <1>2, <1>3, <2>1, <2>2, ShownReplaced, ShownIs
<1>5. PICK c \in CallRecord : c = ShownCalls[t]
  BY <1>1
<1>6. /\ c = CallAt("memset", l) /\ c.phase = "writing" /\ c.count = l.count
      /\ c.at = l.at /\ c.file = l.file /\ c.got = l.got
  <2>1. c = CallAt("memset", l)
    BY <1>1, <1>2, <1>3, <1>5
  <2> QED BY <2>1, CallPhases
<1>7. ShownCalls' = [ShownCalls EXCEPT ![t] = Lab1!Done(c, c.at + c.count, c.got)]
  <2>1. local' = [local EXCEPT ![t] = l]
    BY <1>1, <1>2, <1>3
  <2>2. ShownCalls' = [ShownCalls EXCEPT ![t] = CallAt("memcpy", l)]
    <3>1. PICK label : label = "memcpy"
      OBVIOUS
    <3>2. Goto(t, label)
      BY <1>2, <3>1
    <3> QED BY <2>1, <3>1, <3>2, CallMoves
  <2>3. CallAt("memcpy", l) = Lab1!Done(c, c.at + c.count, c.got)
    BY <1>6, CallAtDone DEF Lab1!Done
  <2> QED BY <2>2, <2>3
<1>8. \E m \in Messages : ShownMessage' = [i \in 1 .. ShownCalls[t].count |-> <<m, i>>]
  BY <1>1, <1>3, <1>4, <1>5, <1>6 DEF Bytes
<1> QED BY <1>2, <1>5, <1>6, <1>7, <1>8 DEF Lab1!Write

\* A read of as many bytes as there are, from the position of its call.
LEMMA ReadShared ==
    ASSUME GlobalInv, NEW t \in Threads, ReadPiece(t) \/ ReadEnd(t)
    PROVE  Lab1!Read(t) \/ Lab1!ReadNothing(t)
<1> USE GlobalParts
<1>1. /\ local \in [Threads -> Requests] /\ local[t] \in Requests
      /\ local[t].count \in Nat /\ local[t].at \in Nat /\ dev.data_len \in 0 .. Size
      /\ ShownCalls \in [Threads -> CallRecord]
      /\ ShownCalls[t] = CallAt(pc[t], local[t])
  BY ShownCallsType DEF GlobalInv, Requests, GlobalDev
<1>2. pc[t] = "read" /\ UNCHANGED <<dev, pos>>
  BY DEF ReadPiece, ReadEnd, At
<1>3. /\ Len(ShownMessage) = dev.data_len
      /\ \A from \in Nat, to \in Nat : to <= dev.data_len =>
            SubSeq(dev.data, from + 1, to) = SubSeq(ShownMessage, from + 1, to)
  BY <1>2, SettledMessage
<1>4. PICK l \in Requests : l = local[t]
  BY <1>1
<1>5. PICK c \in CallRecord : c = ShownCalls[t]
  BY <1>1
<1>6. /\ c = CallAt("read", l) /\ c.phase = "reading" /\ c.count = l.count /\ c.at = l.at
      /\ c.file = l.file /\ c.got = l.got /\ c.at \in Nat
  <2>1. c = CallAt("read", l)
    BY <1>1, <1>2, <1>4, <1>5
  <2>2. CallAt("read", l).phase = "reading" /\ CallAt("read", l).at = l.at
    BY CallPhases
  <2>3. /\ CallAt("read", l).count = l.count /\ CallAt("read", l).file = l.file
        /\ CallAt("read", l).got = l.got
    BY DEF CallAt
  <2> QED BY <1>1, <1>4, <2>1, <2>2, <2>3
<1>7. CASE ReadPiece(t)
  <2>1. PICK n \in Nat :
            /\ n = IF local[t].count > dev.data_len - local[t].at
                   THEN dev.data_len - local[t].at ELSE local[t].count
            /\ local[t].at + n <= dev.data_len
            /\ local' = [local EXCEPT ![t] =
                    [local[t] EXCEPT !.got = SubSeq(dev.data, local[t].at + 1, local[t].at + n),
                                     !.at = local[t].at + n]]
    BY <1>7, PieceFacts
  <2>2. Goto(t, "read_unlock") /\ l.at < dev.data_len
    BY <1>4, <1>7 DEF ReadPiece
  <2>3. PICK piece, end :
            piece = SubSeq(dev.data, local[t].at + 1, local[t].at + n) /\ end = local[t].at + n
    OBVIOUS
  <2> DEFINE after == [l EXCEPT !.got = piece, !.at = end]
  <2>4. local' = [local EXCEPT ![t] = after]
    BY <1>4, <2>1, <2>3
  <2>5. piece = SubSeq(ShownMessage, c.at + 1, c.at + n) /\ end = c.at + n
    <3>1. end \in Nat /\ end <= dev.data_len /\ local[t].at = c.at
      BY <1>1, <1>4, <1>6, <2>1, <2>3
    <3> QED BY <1>3, <1>6, <2>3, <3>1
  <2>6. CallAt("read_unlock", after) = Lab1!Done(c, end, piece)
    <3>1. after.file = c.file /\ after.count = c.count /\ after.at = end /\ after.got = piece
      BY <1>6 DEF Requests
    <3> HIDE DEF after
    <3>2. CallAt("read_unlock", after) =
                [phase |-> "done", file |-> after.file, count |-> after.count,
                 at |-> after.at, got |-> after.got]
      BY DEF CallAt
    <3> QED BY <3>1, <3>2 DEF Lab1!Done
  <2> HIDE DEF after
  <2>7. ShownCalls' = [ShownCalls EXCEPT ![t] = CallAt("read_unlock", after)]
    BY <2>2, <2>4, CallMoves, Zenon
  <2>8. ShownCalls' = [ShownCalls EXCEPT ![t] = Lab1!Done(c, end, piece)]
    BY <2>6, <2>7
  <2>9. ShownMessage' = ShownMessage
    BY <1>2, <2>2, <2>4, MessageStays DEF Replacing
  <2>10. n = IF c.count > Len(ShownMessage) - c.at THEN Len(ShownMessage) - c.at ELSE c.count
    BY <1>3, <1>4, <1>6, <2>1
  <2>11. Lab1!Read(t)
    BY <1>2, <1>3, <1>5, <1>6, <2>2, <2>5, <2>8, <2>9, <2>10 DEF Lab1!Read
  <2> QED BY <2>11
<1>8. CASE ReadEnd(t)
  <2>1. Goto(t, "return") /\ UNCHANGED local /\ c.at >= dev.data_len
    BY <1>1, <1>4, <1>6, <1>8 DEF ReadEnd
  <2>2. local' = [local EXCEPT ![t] = l]
    BY <1>1, <1>4, <2>1
  <2>3. ShownMessage' = ShownMessage
    BY <1>2, <2>1, <2>2, MessageStays DEF Replacing
  <2>4. ShownCalls' = [ShownCalls EXCEPT ![t] = CallAt("return", l)]
    <3>1. PICK label : label = "return"
      OBVIOUS
    <3>2. Goto(t, label)
      BY <2>1, <3>1
    <3> QED BY <2>2, <3>1, <3>2, CallMoves
  <2>5. CallAt("return", l) = Lab1!Done(c, c.at, c.got)
    BY <1>6, CallAtDone DEF Lab1!Done
  <2>6. ShownCalls' = [ShownCalls EXCEPT ![t] = Lab1!Done(c, c.at, c.got)]
    BY <2>4, <2>5
  <2>7. Lab1!ReadNothing(t)
    BY <1>2, <1>3, <1>5, <1>6, <2>1, <2>3, <2>6 DEF Lab1!ReadNothing
  <2> QED BY <2>7
<1> QED BY <1>7, <1>8

\* The end of a call stores its position in the file, unless it fails.
LEMMA EndShared ==
    ASSUME GlobalInv, NEW t \in Threads, CopyOutFaults(t) \/ ReturnGlobal(t)
    PROVE  Lab1!End(t) \/ Lab1!Fail(t)
<1>1. ShownCalls[t] = CallAt(pc[t], local[t])
  BY ShownCallsType
<1>2. /\ pc[t] \in {"return", "copy_to_user"} /\ Goto(t, "open")
      /\ UNCHANGED dev /\ local' = [local EXCEPT ![t] = NoRequest]
  BY DEF CopyOutFaults, ReturnGlobal, Leave, At
<1>3. /\ ShownCalls[t].phase = "done" /\ ShownCalls[t].at = local[t].at
      /\ ShownCalls[t].file = local[t].file /\ ShownCalls[t].got = local[t].got
  <2>1. PICK label, l : label = pc[t] /\ l = local[t]
    OBVIOUS
  <2>2. /\ CallAt(label, l).phase = "done" /\ CallAt(label, l).at = l.at
        /\ CallAt(label, l).file = l.file /\ CallAt(label, l).got = l.got
    BY <1>2, <2>1 DEF CallAt
  <2> QED BY <1>1, <2>1, <2>2
<1>4. PICK none : none = NoRequest
  OBVIOUS
<1>5. CallAt("open", none) = Lab1!NoCall
  BY <1>4 DEF CallAt, NoRequest, Lab1!NoCall
<1>6. /\ ShownMessage' = ShownMessage
      /\ ShownCalls' = [ShownCalls EXCEPT ![t] = Lab1!NoCall]
  <2>1. local' = [local EXCEPT ![t] = none]
    BY <1>2, <1>4
  <2>2. ShownCalls' = [ShownCalls EXCEPT ![t] = CallAt("open", none)]
    BY <1>2, <2>1, CallMoves, Zenon
  <2>3. ShownMessage' = ShownMessage
    BY <1>2, <2>1, MessageStays DEF Replacing
  <2> QED BY <1>5, <2>2, <2>3
<1>7. CASE ReturnGlobal(t)
  BY <1>3, <1>6, <1>7 DEF ReturnGlobal, Lab1!End
<1>8. CASE CopyOutFaults(t)
  BY <1>3, <1>6, <1>8 DEF CopyOutFaults, Lab1!Fail
<1> QED BY <1>7, <1>8

LEMMA GlobalShared ==
    GlobalInv /\ GlobalInv' /\ [GlobalNext]_vars => [Lab1!Next]_(Lab1!vars)
<1> SUFFICES ASSUME GlobalInv, GlobalInv', [GlobalNext]_vars
             PROVE  Lab1!Next \/ UNCHANGED Lab1!vars
  OBVIOUS
<1>1. CASE UNCHANGED vars
  BY <1>1 DEF vars, Lab1!vars, ShownMessage, ShownCalls, CallAt
<1>2. ASSUME NEW f \in Files, kmsgpipe_open(f) \/ kmsgpipe_release(f)
      PROVE  Lab1!Next
  BY <1>2, FilesShared DEF Lab1!Next
<1>3. ASSUME NEW t \in Threads, GlobalInKernel(t) \/ GlobalCalls(t)
      PROVE  Lab1!Next \/ UNCHANGED Lab1!vars
  <2>1. \/ Lab1!Begin(t) \/ Lab1!Write(t) \/ Lab1!Read(t) \/ Lab1!ReadNothing(t)
        \/ Lab1!End(t) \/ Lab1!Fail(t) \/ UNCHANGED Lab1!vars
    BY <1>3, CallsShared, UnseenShared, WriteShared, ReadShared, EndShared DEF GlobalInKernel
  <2> QED BY <2>1 DEF Lab1!Next
<1> QED BY <1>1, <1>2, <1>3 DEF GlobalNext

-----------------------------------------------------------------------------
(* The three drivers together                                              *)

DriversInv ==
    /\ driver \in {"calculator", "lab1", "simplechar"}
    /\ driver = "calculator" => CalcInv
    /\ driver = "lab1" => GlobalInv
    /\ driver = "simplechar" => SimpleInv

LEMMA DriversInitInv == DriversInit => DriversInv
BY CalcInitInv, GlobalInitInv, SimpleInitInv DEF DriversInit, DriversInv

LEMMA DriversNextInv == DriversInv /\ [DriversNext]_<<vars, driver>> => DriversInv'
<1> SUFFICES ASSUME DriversInv, [DriversNext]_<<vars, driver>> PROVE DriversInv'
  OBVIOUS
<1>1. driver' = driver
  BY DEF DriversNext
<1>2. CASE driver = "calculator"
  <2>1. CalcInv /\ [CalcNext]_vars
    BY <1>2 DEF DriversInv, DriversNext
  <2> QED BY <1>1, <1>2, <2>1, CalcNextInv DEF DriversInv
<1>3. CASE driver = "lab1"
  <2>1. GlobalInv /\ [GlobalNext]_vars
    BY <1>3 DEF DriversInv, DriversNext
  <2> QED BY <1>1, <1>3, <2>1, GlobalNextInv DEF DriversInv
<1>4. CASE driver = "simplechar"
  <2>1. SimpleInv /\ [SimpleNext]_vars
    BY <1>4 DEF DriversInv, DriversNext
  <2> QED BY <1>1, <1>4, <2>1, SimpleNextInv DEF DriversInv
<1> QED BY <1>2, <1>3, <1>4 DEF DriversInv

LEMMA DriversInvAlways == DriversSpec => []DriversInv
<1> QED BY DriversInitInv, DriversNextInv, PTL DEF DriversSpec

LEMMA InvGives ==
    ASSUME DriversInv
    PROVE  DriversTypeOK /\ InsideWithMutex /\ PreviousErasedInLab1 /\ SizeFitsDataInSimpleChar
<1>1. DriversTypeOK /\ InsideWithMutex
  BY DEF DriversInv, DriversTypeOK, CalcInv, CalcTyping, GlobalInv, SimpleInv
<1>2. mutex = Free => \A t \in Threads : pc[t] \notin Inside
  BY <1>1, CharDeviceAssumption DEF InsideWithMutex
<1>3. PreviousErasedInLab1
  <2> SUFFICES ASSUME driver = "lab1", mutex = Free
               PROVE  \E m \in Messages : dev.data = Plain(m, dev.data_len)
    BY DEF PreviousErasedInLab1, PreviousErased, Plain
  <2>1. \A t \in Threads : pc[t] \notin Replacing
    BY <1>2 DEF Replacing, Inside
  <2> QED BY <2>1 DEF DriversInv, GlobalInv, BufferInv
<1>4. SizeFitsDataInSimpleChar
  <2> SUFFICES ASSUME driver = "simplechar", mutex = Free, dev.data.filled
               PROVE  dev.size = dev.data.len
    BY DEF SizeFitsDataInSimpleChar, SizeFitsData
  <2>1. \A t \in Threads : pc[t] # "data_len"
    BY <1>2 DEF Inside
  <2> QED BY <2>1 DEF DriversInv, SimpleInv
<1> QED BY <1>1, <1>3, <1>4

\* Every variable of the calculator, of lab1 and of simplechar keeps its type: the
\* operator of the calculator is one of the four cases of its switch, and its
\* result is a long whatever the operands are.
THEOREM DriversTypesCorrect == DriversSpec => []DriversTypeOK
BY DriversInvAlways, InvGives, PTL

\* Mutual exclusion in the three drivers, for any number of threads, also after
\* the calls that leave without giving the mutex back.
THEOREM DriversMutualExclusion == DriversSpec => []InsideWithMutex
BY DriversInvAlways, InvGives, PTL

\* Whatever was written before, lab1's buffer is one message and zero behind it
\* while nobody writes.
THEOREM AlwaysPreviousErased == DriversSpec => []PreviousErasedInLab1
BY DriversInvAlways, InvGives, PTL

\* The size simplechar answers with is that of the buffer it answers from.
THEOREM AlwaysSizeFitsData == DriversSpec => []SizeFitsDataInSimpleChar
BY DriversInvAlways, InvGives, PTL

\* The calculator gets another operator only by an administrator's SET_OPERATOR,
\* or by the second step of a RESET.
THEOREM OnlyAdmins == DriversSpec => OnlyAdminSetsCalculator
<1>1. DriversInv /\ [DriversNext]_<<vars, driver>>
        => [driver = "calculator" => OnlyAdminSetsOperator]_vars
  <2> SUFFICES ASSUME DriversInv, [DriversNext]_<<vars, driver>>, driver = "calculator",
                      ~ UNCHANGED vars, dev'.op # dev.op
               PROVE  \/ \E t \in Threads : ResetOperator(t)
                      \/ \E t \in Admins : SetOperator(t)
    BY DEF OnlyAdminSetsOperator
  <2>1. CalcInv /\ CalcNext /\ dev \in CalcDev
    BY CalcParts DEF DriversInv, DriversNext
  <2>2. PICK t \in Threads : CalcInKernel(t) \/ CalcCalls(t) \/ CalcInterrupted(t)
    BY <2>1 DEF CalcNext
  <2>3. CASE SetOperator(t)
    <3>1. Capable(t)
      BY <2>3 DEF SetOperator
    <3> QED BY <2>3, <3>1 DEF Capable
  <2>4. CASE ~ SetOperator(t) /\ ~ ResetOperator(t)
    BY <2>1, <2>2, <2>4
       DEF CalcInKernel, CalcCalls, CalcInterrupted, CalcTakesMutex, Lock, OpenUnlock, ReadFaults,
           ReadResult, WriteFaults, WriteCopy, WriteCompute, WriteUnlock,
           calculator_dev_open, calculator_dev_release, calculator_dev_read, calculator_dev_write,
           IoctlRefused, SetOperand, Reset, Query, CalcDev
  <2> QED BY <2>3, <2>4
<1> QED BY <1>1, DriversInvAlways, PTL DEF DriversSpec, OnlyAdminSetsCalculator

\* The step of thread t out of the part under the mutex, and no other thread's
\* step, decides whether the mutex is given back.
Leaves(t) == pc[t] \in Inside /\ pc'[t] \notin Inside

LEMMA CalcGivesBack ==
    ASSUME CalcInv, NEW u \in Threads, CalcInKernel(u) \/ CalcCalls(u) \/ CalcInterrupted(u),
           NEW t \in Threads, Leaves(t)
    PROVE  \/ mutex' = Free
           \/ At(t, "write") /\ local'[t].failed
           \/ At(t, "compute") /\ pc'[t] = "dead"
<1> USE CalcParts
<1>1. pc \in [Threads -> CalcLabels] /\ local \in [Threads -> CalcLocals]
  OBVIOUS
<1>2. PICK label : Goto(u, label)
  BY DEF CalcInKernel, CalcCalls, CalcInterrupted, CalcTakesMutex, Lock, OpenUnlock, ReadFaults,
         ReadResult, WriteFaults, WriteCopy, WriteCompute, WriteUnlock, ResetOperator,
         calculator_dev_open, calculator_dev_release, calculator_dev_read, calculator_dev_write,
         IoctlRefused, SetOperator, SetOperand, Reset, Query, Return, Fail
<1>3. u = t
  BY <1>1, <1>2 DEF Goto, Leaves
<1>4. CASE WriteFaults(t)
  <2>1. At(t, "write") /\ local' = [local EXCEPT ![t] = [NoCall EXCEPT !.failed = TRUE]]
    BY <1>4 DEF WriteFaults, Fail
  <2>2. [NoCall EXCEPT !.failed = TRUE].failed
    BY DEF NoCall
  <2> QED BY <1>1, <2>1, <2>2
<1>5. CASE WriteCompute(t)
  BY <1>1, <1>5 DEF WriteCompute, At, Goto, Leaves, Inside
<1>6. CASE WriteCopy(t) \/ CalcTakesMutex(t)
  BY <1>1, <1>6 DEF WriteCopy, CalcTakesMutex, Lock, At, Goto, Leaves, Inside
<1>7. CASE OpenUnlock(t) \/ ReadFaults(t) \/ ReadResult(t) \/ WriteUnlock(t)
  BY <1>7 DEF OpenUnlock, ReadFaults, ReadResult, WriteUnlock
<1>8. CASE ResetOperator(t) \/ CalcCalls(t) \/ CalcInterrupted(t)
  BY <1>8 DEF ResetOperator, CalcCalls, CalcInterrupted, calculator_dev_open, calculator_dev_release,
              calculator_dev_read, calculator_dev_write, IoctlRefused, SetOperator, SetOperand, Reset,
              Query, At, Leaves, Inside
<1> QED BY <1>3, <1>4, <1>5, <1>6, <1>7, <1>8 DEF CalcInKernel

LEMMA GlobalGivesBack ==
    ASSUME GlobalInv, GlobalNext, NEW t \in Threads, Leaves(t)
    PROVE  mutex' = Free
<1> USE GlobalParts
<1>1. pc \in [Threads -> GlobalLabels]
  BY DEF GlobalInv
<1>2. pc' # pc
  BY DEF Leaves
<1>3. PICK u \in Threads : GlobalInKernel(u) \/ GlobalCalls(u)
  BY <1>2 DEF GlobalNext, kmsgpipe_open, kmsgpipe_release
<1>4. PICK label : Goto(u, label)
  BY <1>3 DEF GlobalInKernel, GlobalCalls, GlobalTakesMutex, Lock, Erase, CopyMessage, SetLength,
              UnlockGlobal, ReadEnd, ReadPiece, CopyOutFaults, ReturnGlobal, Leave, kmsgpipe_read,
              kmsgpipe_write, Call
<1>5. u = t
  BY <1>1, <1>4 DEF Goto, Leaves
<1>6. CASE UnlockGlobal(t, "write_unlock", "return") \/ UnlockGlobal(t, "read_unlock", "copy_to_user")
           \/ ReadEnd(t)
  BY <1>6 DEF UnlockGlobal, ReadEnd
<1>7. CASE Erase(t) \/ CopyMessage(t) \/ SetLength(t) \/ ReadPiece(t) \/ GlobalTakesMutex(t)
  BY <1>1, <1>7 DEF Erase, CopyMessage, SetLength, ReadPiece, GlobalTakesMutex, Lock, At, Goto,
                    Leaves, Inside
<1>8. CASE CopyOutFaults(t) \/ ReturnGlobal(t) \/ GlobalCalls(t)
  BY <1>8 DEF CopyOutFaults, ReturnGlobal, GlobalCalls, kmsgpipe_read, kmsgpipe_write, Call, At,
              Leaves, Inside
<1> QED BY <1>3, <1>5, <1>6, <1>7, <1>8 DEF GlobalInKernel

LEMMA SimpleGivesBack ==
    ASSUME SimpleInv, NEW u \in Threads, SimpleInKernel(u) \/ SimpleCalls(u) \/ SimpleInterrupted(u),
           NEW t \in Threads, Leaves(t)
    PROVE  mutex' = Free \/ (At(t, "memset") /\ pc'[t] = "dead")
<1>1. pc \in [Threads -> SimpleLabels]
  BY DEF SimpleInv, SimpleTypeOK, SimpleLabels
<1>2. PICK label : Goto(u, label)
  BY DEF SimpleInKernel, SimpleCalls, SimpleInterrupted, SimpleTakesMutex, Lock, SimpleUnlock,
         SimpleRead, SimpleAllocate, SimpleCopy, SimpleSize, simple_char_open, simple_char_release,
         simple_char_read, simple_char_write, SimpleCall
<1>3. u = t
  BY <1>1, <1>2 DEF Goto, Leaves
<1>4. CASE SimpleUnlock(t)
  BY <1>4 DEF SimpleUnlock
<1>5. CASE SimpleAllocate(t) \/ SimpleCopy(t) \/ SimpleSize(t) \/ SimpleRead(t) \/ SimpleTakesMutex(t)
  BY <1>1, <1>5 DEF SimpleAllocate, SimpleCopy, SimpleSize, SimpleRead, SimpleTakesMutex, Lock, At,
                    Goto, Leaves, Inside
<1>6. CASE SimpleCalls(t) \/ SimpleInterrupted(t)
  BY <1>6 DEF SimpleCalls, SimpleInterrupted, simple_char_open, simple_char_release,
              simple_char_read, simple_char_write, SimpleCall, At, Leaves, Inside
<1> QED BY <1>3, <1>4, <1>5, <1>6 DEF SimpleInKernel

\* The mutex is given back on every way out of open, read and write, but for the
\* three that the property names.
THEOREM MutexAlwaysGivenBack == DriversSpec => MutexGivenBack
<1> DEFINE Back(t) ==
        \/ mutex' = Free
        \/ driver = "calculator" /\ At(t, "write") /\ local'[t].failed
        \/ driver = "calculator" /\ At(t, "compute") /\ pc'[t] = "dead"
        \/ driver = "simplechar" /\ At(t, "memset") /\ pc'[t] = "dead"
<1>1. DriversInv /\ [DriversNext]_<<vars, driver>>
        => [\A t \in Threads : pc[t] \in Inside /\ pc'[t] \notin Inside => Back(t)]_vars
  <2> SUFFICES ASSUME DriversInv, [DriversNext]_<<vars, driver>>, ~ UNCHANGED vars,
                      NEW t \in Threads, Leaves(t)
               PROVE  Back(t)
    BY DEF Leaves
  <2>1. CASE driver = "calculator"
    <3>1. CalcInv /\ CalcNext
      BY <2>1 DEF DriversInv, DriversNext
    <3> QED BY <2>1, <3>1, CalcGivesBack DEF CalcNext
  <2>2. CASE driver = "lab1"
    <3>1. GlobalInv /\ GlobalNext
      BY <2>2 DEF DriversInv, DriversNext
    <3> QED BY <3>1, GlobalGivesBack
  <2>3. CASE driver = "simplechar"
    <3>1. SimpleInv /\ SimpleNext
      BY <2>3 DEF DriversInv, DriversNext
    <3> QED BY <2>3, <3>1, SimpleGivesBack DEF SimpleNext
  <2> QED BY <2>1, <2>2, <2>3 DEF DriversInv
<1> QED BY <1>1, DriversInvAlways, PTL DEF DriversSpec, MutexGivenBack

\* While the driver is lab1, the shared message of the three drivers is its own.
LEMMA SameShared ==
    ASSUME driver = "lab1", driver' = "lab1", [Lab1!Next]_(Lab1!vars)
    PROVE  [ReadsOneMessage!Next]_(ReadsOneMessage!vars)
<1>1. CASE UNCHANGED Lab1!vars
  BY <1>1 DEF Lab1!vars, ReadsOneMessage!vars
<1>2. ASSUME NEW f \in Files, Lab1!Open(f) \/ Lab1!Close(f)
      PROVE  ReadsOneMessage!Next
  BY <1>2 DEF Lab1!Open, Lab1!Close, ReadsOneMessage!Open, ReadsOneMessage!Close,
              ReadsOneMessage!Next
<1>3. ASSUME NEW t \in Threads,
             \/ Lab1!Begin(t) \/ Lab1!Write(t) \/ Lab1!Read(t) \/ Lab1!ReadNothing(t)
             \/ Lab1!End(t) \/ Lab1!Fail(t)
      PROVE  ReadsOneMessage!Next
  <2>1. Lab1!Begin(t) => ReadsOneMessage!Begin(t)
    BY DEF Lab1!Begin, ReadsOneMessage!Begin
  <2>2. Lab1!Write(t) => ReadsOneMessage!Write(t)
    BY DEF Lab1!Write, ReadsOneMessage!Write, Lab1!Done, ReadsOneMessage!Done
  <2>3. Lab1!Read(t) => ReadsOneMessage!Read(t)
    BY DEF Lab1!Read, ReadsOneMessage!Read, Lab1!Done, ReadsOneMessage!Done
  <2>4. Lab1!ReadNothing(t) => ReadsOneMessage!ReadNothing(t)
    BY DEF Lab1!ReadNothing, ReadsOneMessage!ReadNothing, Lab1!Done, ReadsOneMessage!Done
  <2>5. Lab1!End(t) => ReadsOneMessage!End(t)
    BY DEF Lab1!End, ReadsOneMessage!End, Lab1!NoCall, ReadsOneMessage!NoCall
  <2>6. Lab1!Fail(t) => ReadsOneMessage!Fail(t)
    BY DEF Lab1!Fail, ReadsOneMessage!Fail, Lab1!NoCall, ReadsOneMessage!NoCall
  <2> QED BY <1>3, <2>1, <2>2, <2>3, <2>4, <2>5, <2>6 DEF ReadsOneMessage!Next
<1> QED BY <1>1, <1>2, <1>3 DEF Lab1!Next

\* lab1 implements the shared message, for buffers and messages of every length
\* and files shared by any number of threads: a write replaces it in one step, at
\* its memset; a read finds the bytes that one message has from the position its
\* file had when the call began, as many as were asked for or are left; and the
\* call stores that position, moved on by as many bytes, unless it fails.
THEOREM Lab1SharesOneMessage == DriversSpec => ImplementsSharedMessage
<1>1. DriversInit => ReadsOneMessage!Init
  <2> SUFFICES ASSUME DriversInit PROVE ReadsOneMessage!Init
    OBVIOUS
  <2>1. CallAt("open", NoRequest) = ReadsOneMessage!NoCall
    BY DEF CallAt, NoRequest, ReadsOneMessage!NoCall
  <2>2. CASE driver # "lab1"
    BY <2>1, <2>2 DEF ReadsOneMessage!Init
  <2>3. CASE driver = "lab1"
    <3>1. GlobalInit
      BY <2>3 DEF DriversInit
    <3>2. /\ dev.data_len = 0 /\ pos = [f \in Files |-> Closed]
          /\ \A t \in Threads : pc[t] = "open" /\ local[t] = NoRequest
      BY <3>1 DEF GlobalInit
    <3>3. ShownMessage = SubSeq(dev.data, 1, 0)
      BY <3>2, ShownQuiet, ShownIs DEF Replacing
    <3>4. ShownMessage = <<>>
      BY <3>3, SubSeqEmpty
    <3>5. ShownCalls = [t \in Threads |-> CallAt("open", NoRequest)]
      BY <3>2 DEF ShownCalls
    <3> QED BY <2>1, <2>3, <3>2, <3>4, <3>5 DEF ReadsOneMessage!Init
  <2> QED BY <2>2, <2>3
<1>2. DriversInv /\ DriversInv' /\ [DriversNext]_<<vars, driver>>
        => [ReadsOneMessage!Next]_(ReadsOneMessage!vars)
  <2> SUFFICES ASSUME DriversInv, DriversInv', [DriversNext]_<<vars, driver>>
               PROVE  [ReadsOneMessage!Next]_(ReadsOneMessage!vars)
    OBVIOUS
  <2>1. driver' = driver
    BY DEF DriversNext
  <2>2. CASE driver # "lab1"
    <3>1. [t \in Threads |-> CallAt("open", NoRequest)]'
            = [t \in Threads |-> CallAt("open", NoRequest)]
      OBVIOUS
    <3> QED BY <2>1, <2>2, <3>1 DEF ReadsOneMessage!vars
  <2>3. CASE driver = "lab1"
    <3>1. GlobalInv /\ GlobalInv' /\ [GlobalNext]_vars
      BY <2>1, <2>3 DEF DriversInv, DriversNext
    <3>2. [Lab1!Next]_(Lab1!vars)
      BY <3>1, GlobalShared
    <3> QED BY <2>1, <2>3, <3>2, SameShared
  <2> QED BY <2>2, <2>3
<1> QED BY <1>1, <1>2, DriversInvAlways, PTL
    DEF DriversSpec, ImplementsSharedMessage, ReadsOneMessage!Spec

=============================================================================
