----------------------------- MODULE Calculator -----------------------------
(***************************************************************************)
(* The calculator driver (chapter06/calculator/calculator.c): write() sets *)
(* the first operand and computes, read() gets the result, ioctl() sets    *)
(* the operator and the second operand.  read and write take the mutex of  *)
(* the device, ioctl does not, so that the operator and the second operand *)
(* change under a running write.                                           *)
(*                                                                         *)
(* A long wraps around.  A division that traps kills the thread where it   *)
(* is.  As in Linux a failing get_user stores 0.                           *)
(***************************************************************************)
EXTENDS CharDevice

CONSTANTS
    Admins,     \* the threads with CAP_SYS_ADMIN
    LongMax,    \* the greatest long
    Operands,   \* what users pass as an operand
    Choices,    \* what users pass as an operator
    Commands    \* the ioctl commands in use

LongMin == -LongMax - 1
Longs == LongMin .. LongMax

ASSUME CalculatorAssumption ==
    /\ LongMax \in Nat \ {0}
    /\ Admins \subseteq Threads
    /\ Operands \subseteq Longs
    /\ Choices \subseteq Int

\* enum operator, in its order.
ADD == 0
SUB == 1
DIV == 2
MUL == 3
Operators == {ADD, SUB, DIV, MUL}

\* sizeof(long), the size of first_op and of result.
LongSize == 8

\* arg: the operand or the count of the call; op: the operator write has read;
\* failed: did the last call return an error.
NoCall == [arg |-> 0, op |-> ADD, failed |-> FALSE]

CalcInit ==
    /\ dev = [first_op |-> 0, second_op |-> 1, result |-> 0, op |-> ADD]
    /\ mutex = Free
    /\ pos = [t \in Threads |-> 0]
    /\ pc = [t \in Threads |-> "closed"]
    /\ local = [t \in Threads |-> NoCall]

-----------------------------------------------------------------------------
(* Helpers *)

\* The call succeeds, or returns one of the error numbers.
Return(t) ==
    /\ Goto(t, "open")
    /\ local' = [local EXCEPT ![t] = NoCall]
Fail(t) ==
    /\ Goto(t, "open")
    /\ local' = [local EXCEPT ![t] = [NoCall EXCEPT !.failed = TRUE]]

\* Arithmetic of a long.
Wrap(x) == LongMin + ((x - LongMin) % (LongMax - LongMin + 1))

Abs(x) == IF x < 0 THEN -x ELSE x

\* C rounds towards zero.
Quotient(x, y) ==
    IF (x < 0) = (y < 0) THEN Abs(x) \div Abs(y) ELSE -(Abs(x) \div Abs(y))

Compute(op, x, y) ==
    CASE op = ADD -> Wrap(x + y)
      [] op = SUB -> Wrap(x - y)
      [] op = MUL -> Wrap(x * y)
      [] op = DIV -> Quotient(x, y)

\* The divisions that raise an exception.
Traps(op, x, y) == op = DIV /\ (y = 0 \/ (x = LongMin /\ y = -1))

-----------------------------------------------------------------------------
(* Slips a programmer could make in the actions below.                     *)

\* The operator is not checked.
Slip_Operator(tmp) == TRUE

\* No capable(CAP_SYS_ADMIN).
Slip_Capable(t) == TRUE

\* read returns at once when the copy fails.
Slip_ReadFaults(t) ==
    /\ Faults
    /\ At(t, "read")
    /\ pos[t] < LongSize
    /\ Fail(t)
    /\ UNCHANGED <<dev, mutex, pos>>

\* open locks a second time where it should unlock.
Slip_OpenUnlock(t) ==
    /\ At(t, "open_unlock")
    /\ mutex = Free
    /\ mutex' = t
    /\ Return(t)
    /\ UNCHANGED <<dev, pos>>

-----------------------------------------------------------------------------
(* open and close.  A write-only open takes the mutex and gives it back.   *)

CalcInterrupted(t) ==
    /\ Signals /\ mutex # Free
    /\ \/ /\ At(t, "open_lock")
          /\ Goto(t, "closed")
          /\ local' = [local EXCEPT ![t].failed = TRUE]
       \/ At(t, "read_lock") /\ Fail(t)
       \/ At(t, "write_lock") /\ Fail(t)
    /\ UNCHANGED <<dev, mutex, pos>>

calculator_dev_open(t) ==
    /\ At(t, "closed")
    /\ pos' = [pos EXCEPT ![t] = 0]
    /\ \/ Mode[t] = "O_RDWR" /\ Return(t)
       \/ Mode[t] = "O_WRONLY" /\ Goto(t, "open_lock") /\ UNCHANGED local
    /\ UNCHANGED <<dev, mutex>>

OpenUnlock(t) ==
    /\ At(t, "open_unlock")
    /\ mutex' = Free
    /\ Return(t)
    /\ UNCHANGED <<dev, pos>>

calculator_dev_release(t) ==
    /\ At(t, "open")
    /\ Goto(t, "closed")
    /\ UNCHANGED <<dev, mutex, pos, local>>

-----------------------------------------------------------------------------
(* read *)

calculator_dev_read(t) ==
    /\ Mode[t] = "O_RDWR"
    /\ At(t, "open")
    /\ \E count \in Counts : local' = [local EXCEPT ![t] = [NoCall EXCEPT !.arg = count]]
    /\ Goto(t, "read_lock")
    /\ UNCHANGED <<dev, mutex, pos>>

ReadFaults(t) ==
    /\ Faults
    /\ At(t, "read")
    /\ pos[t] < LongSize
    /\ mutex' = Free
    /\ Fail(t)
    /\ UNCHANGED <<dev, pos>>

\* The whole result is copied; only a count above its size is answered with it.
ReadResult(t) ==
    LET retval == IF pos[t] < LongSize /\ LongSize < local[t].arg THEN LongSize ELSE 0
    IN  /\ At(t, "read")
        /\ pos' = [pos EXCEPT ![t] = @ + retval]
        /\ mutex' = Free
        /\ Return(t)
        /\ UNCHANGED dev

-----------------------------------------------------------------------------
(* write *)

calculator_dev_write(t) ==
    /\ At(t, "open")
    /\ \/ /\ \E count \in Counts : count < LongSize
          /\ Fail(t)
       \/ /\ \E count \in Counts : count >= LongSize
          /\ \E x \in Operands :
                local' = [local EXCEPT ![t] = [NoCall EXCEPT !.arg = x]]
          /\ Goto(t, "write_lock")
    /\ UNCHANGED <<dev, mutex, pos>>

\* A failed copy_from_user zeroes what it could not copy; the mutex stays held.
WriteFaults(t) ==
    /\ Faults
    /\ At(t, "write")
    /\ dev' = [dev EXCEPT !.first_op = 0]
    /\ Fail(t)
    /\ UNCHANGED <<mutex, pos>>

\* copy_from_user, and the operator as the switch reads it.
WriteCopy(t) ==
    /\ At(t, "write")
    /\ dev' = [dev EXCEPT !.first_op = local[t].arg]
    /\ local' = [local EXCEPT ![t].op = dev.op]
    /\ Goto(t, "compute")
    /\ UNCHANGED <<mutex, pos>>

\* The case of the switch reads the second operand.
WriteCompute(t) ==
    /\ At(t, "compute")
    /\ IF Traps(local[t].op, dev.first_op, dev.second_op)
       THEN Goto(t, "dead") /\ UNCHANGED dev
       ELSE /\ dev' = [dev EXCEPT !.result =
                            Compute(local[t].op, dev.first_op, dev.second_op)]
            /\ Goto(t, "write_unlock")
    /\ UNCHANGED <<mutex, pos, local>>

WriteUnlock(t) ==
    /\ At(t, "write_unlock")
    /\ mutex' = Free
    /\ Return(t)
    /\ UNCHANGED <<dev, pos>>

-----------------------------------------------------------------------------
(* ioctl *)

\* The test on the operator, with the enum's order.
Operator(tmp) == tmp >= ADD /\ tmp <= DIV

Capable(t) == t \in Admins

\* Other magic, other number, or an address access_ok refuses.
IoctlRefused(t) ==
    /\ At(t, "open")
    /\ \/ "unknown" \in Commands /\ Fail(t)
       \/ Faults /\ Fail(t)
    /\ UNCHANGED <<dev, mutex, pos>>

SetOperator(t) ==
    /\ At(t, "open")
    /\ "SET_OPERATOR" \in Commands
    /\ \/ ~ Capable(t) /\ Fail(t) /\ UNCHANGED dev
       \/ /\ Capable(t)
          /\ \E tmp \in Choices :
                IF Operator(tmp)
                THEN Return(t) /\ dev' = [dev EXCEPT !.op = tmp]
                ELSE Fail(t) /\ UNCHANGED dev
       \/ /\ Capable(t) /\ Faults
          /\ Fail(t)
          /\ dev' = [dev EXCEPT !.op = ADD]
    /\ UNCHANGED <<mutex, pos>>

SetOperand(t) ==
    /\ At(t, "open")
    /\ "SET_OPERAND" \in Commands
    /\ \/ /\ Return(t)
          /\ \E y \in Operands : dev' = [dev EXCEPT !.second_op = y]
       \/ /\ Faults
          /\ Fail(t)
          /\ dev' = [dev EXCEPT !.second_op = 0]
    /\ UNCHANGED <<mutex, pos>>

\* RESET sets the operand first ...
Reset(t) ==
    /\ At(t, "open")
    /\ "RESET" \in Commands
    /\ dev' = [dev EXCEPT !.second_op = 1]
    /\ Goto(t, "reset")
    /\ UNCHANGED <<mutex, pos, local>>

\* ... and then the operator.
ResetOperator(t) ==
    /\ At(t, "reset")
    /\ dev' = [dev EXCEPT !.op = ADD]
    /\ Return(t)
    /\ UNCHANGED <<mutex, pos>>

Query(t) ==
    /\ At(t, "open")
    /\ "QUERY" \in Commands
    /\ \/ Return(t)
       \/ Faults /\ Fail(t)
    /\ UNCHANGED <<dev, mutex, pos>>

-----------------------------------------------------------------------------

CalcTakesMutex(t) ==
    \/ Lock(t, "open_lock", "open_unlock")
    \/ Lock(t, "read_lock", "read")
    \/ Lock(t, "write_lock", "write")

CalcInKernel(t) ==
    \/ CalcTakesMutex(t) \/ OpenUnlock(t)
    \/ ReadFaults(t) \/ ReadResult(t)
    \/ WriteFaults(t) \/ WriteCopy(t) \/ WriteCompute(t) \/ WriteUnlock(t)
    \/ ResetOperator(t)

CalcCalls(t) ==
    \/ calculator_dev_open(t) \/ calculator_dev_release(t)
    \/ calculator_dev_read(t) \/ calculator_dev_write(t)
    \/ IoctlRefused(t) \/ SetOperator(t) \/ SetOperand(t) \/ Reset(t) \/ Query(t)

CalcNext == \E t \in Threads : CalcInKernel(t) \/ CalcCalls(t) \/ CalcInterrupted(t)

CalcSpec == CalcInit /\ [][CalcNext]_vars

\* A thread in the kernel goes on, and gets a mutex that is free again and again.
\* Nothing makes a signal arrive.
CalcFairness ==
    \A t \in Threads : WF_vars(CalcInKernel(t)) /\ SF_vars(CalcTakesMutex(t))

CalcFairSpec == CalcSpec /\ CalcFairness

-----------------------------------------------------------------------------
(* Properties *)

\* Every variable has its type; in particular the operator is always one of the
\* cases of the switch in write, also after a get_user that failed.
CalcTypeOK ==
    /\ dev \in [first_op : Longs, second_op : Longs, result : Longs, op : Operators]
    /\ mutex \in Threads \cup {Free}
    /\ pos \in [Threads -> {0, LongSize}]
    /\ pc \in [Threads -> Inside \cup Waiting \cup {"closed", "open", "reset", "dead"}]
    /\ local \in [Threads -> [arg : Int, op : Operators, failed : BOOLEAN]]

\* "Only Admin user will be able to set the operation type": another operator
\* comes into effect only by an administrator's SET_OPERATOR, or is the default
\* that the second step of a RESET brings back, which is everybody's.
OnlyAdminSetsOperator ==
    dev'.op # dev.op =>
        \/ \E t \in Threads : ResetOperator(t)
        \/ \E t \in Admins : SetOperator(t)

=============================================================================
