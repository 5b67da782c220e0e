------------------------------- MODULE Drivers -------------------------------
(***************************************************************************)
(* The three drivers that are one device with a mutex: the calculator,     *)
(* lab1 and simplechar.  They share no state, so that a behaviour is one   *)
(* of one of them: driver is chosen at the start.                          *)
(***************************************************************************)
EXTENDS Calculator, KmsgGlobal, SimpleChar

VARIABLE driver

DriversInit ==
    \/ driver = "calculator" /\ CalcInit
    \/ driver = "lab1" /\ GlobalInit
    \/ driver = "simplechar" /\ SimpleInit

\* A thread in the kernel, and at a mutex.
InKernel(t) ==
    /\ UNCHANGED driver
    /\ \/ driver = "calculator" /\ CalcInKernel(t)
       \/ driver = "lab1" /\ GlobalInKernel(t)
       \/ driver = "simplechar" /\ SimpleInKernel(t)
TakesMutex(t) ==
    /\ UNCHANGED driver
    /\ \/ driver = "calculator" /\ CalcTakesMutex(t)
       \/ driver = "lab1" /\ GlobalTakesMutex(t)
       \/ driver = "simplechar" /\ SimpleTakesMutex(t)

DriversNext ==
    /\ UNCHANGED driver
    /\ \/ driver = "calculator" /\ CalcNext
       \/ driver = "lab1" /\ GlobalNext
       \/ driver = "simplechar" /\ SimpleNext

\* A thread in the kernel goes on, and gets a mutex that is free again and again.
\* Nothing makes a signal arrive or a user call.
DriversSpec ==
    /\ DriversInit
    /\ [][DriversNext]_<<vars, driver>>
    /\ \A t \in Threads :
        WF_<<vars, driver>>(InKernel(t)) /\ SF_<<vars, driver>>(TakesMutex(t))

-----------------------------------------------------------------------------
(* Properties *)

\* Every variable of the driver that runs has its type.
DriversTypeOK ==
    /\ driver = "calculator" => CalcTypeOK
    /\ driver = "lab1" => GlobalTypeOK
    /\ driver = "simplechar" => SimpleTypeOK

\* Of all ways out of the part under the mutex only these keep it: the write of
\* the calculator whose copy failed, its write that divided and trapped, and the
\* write of simplechar that used the memory it did not get.
MutexGivenBack ==
    [][\A t \in Threads : pc[t] \in Inside /\ pc'[t] \notin Inside =>
        \/ mutex' = Free
        \/ driver = "calculator" /\ At(t, "write") /\ local'[t].failed
        \/ driver = "calculator" /\ At(t, "compute") /\ pc'[t] = "dead"
        \/ driver = "simplechar" /\ At(t, "memset") /\ pc'[t] = "dead"]_vars

\* Only an administrator sets another operator; anybody may reset it.
OnlyAdminSetsCalculator == [][driver = "calculator" => OnlyAdminSetsOperator]_vars

\* While nobody writes, lab1's buffer is one message and zero behind it.
PreviousErasedInLab1 == driver = "lab1" => PreviousErased

\* The size of simplechar's data is that of its buffer.
SizeFitsDataInSimpleChar == driver = "simplechar" => SizeFitsData

\* lab1 implements the shared message: a read never sees a message half replaced,
\* and gets the bytes from its file's position on, which moves on by as many.
ReadsOneMessage == INSTANCE SharedMessage WITH
    message <- IF driver = "lab1" THEN ShownMessage ELSE <<>>,
    pos <- IF driver = "lab1" THEN pos ELSE [f \in Files |-> Closed],
    call <- IF driver = "lab1" THEN ShownCalls ELSE [t \in Threads |-> CallAt("open", NoRequest)]

ImplementsSharedMessage == ReadsOneMessage!Spec

=============================================================================
