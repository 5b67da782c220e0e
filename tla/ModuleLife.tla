----------------------------- MODULE ModuleLife -----------------------------
(***************************************************************************)
(* Loading and unloading the drivers: what module_init acquires, in which  *)
(* order, what it gives back when a step fails, and what module_exit gives *)
(* back, while users open and close the device, look at the stats file,    *)
(* and the cleanup work of lab4 runs.                                      *)
(*                                                                         *)
(* The kernel refuses to unload a module that is referred to, and refuses  *)
(* new references to one that is being unloaded.  An open device and an    *)
(* open stats file hold a reference (.owner = THIS_MODULE of their file    *)
(* operations).                                                            *)
(***************************************************************************)
EXTENDS Integers, Sequences

CONSTANTS
    Drivers,    \* which of the six drivers
    Users,      \* processes that open the device or the stats file
    MaxLoads,   \* bound on loads
    MaxBuffers  \* bound on the writes of one load of simplechar

Labs == {"lab1", "lab2", "lab3", "lab4"}

ASSUME ModuleLifeAssumption ==
    /\ Drivers \subseteq Labs \cup {"simplechar", "calculator"}
    /\ MaxLoads \in Nat
    /\ MaxBuffers \in Nat

-----------------------------------------------------------------------------
(* What init acquires, step by step; undo is what the error return of the  *)
(* step gives back.  "ready" stands for the initialisation of the ring     *)
(* buffer, the wait queues and the mutex.                                  *)

Step(r, undo) == [gets |-> r, undo |-> undo]

Lab1Load ==
    << Step("region", {}), Step("dev", {"region"}), Step("data", {"dev"}),
       Step("ready", {}), Step("cdev", {"data"}) >>

Lab2Load ==
    << Step("region", {}), Step("dev", {"region"}), Step("base", {"dev"}),
       Step("records", {"base", "dev"}), Step("ready", {}),
       Step("cdev", {"base", "records", "dev"}), Step("debugfs", {}) >>

Lab3Load == Lab2Load

Lab4Load == Append(Lab2Load, Step("work", {}))

SimpleLoad ==
    << Step("region", {}), Step("dev", {}), Step("ready", {}), Step("cdev", {}) >>

CalculatorLoad == SimpleLoad

InitSteps ==
    [lab1 |-> Lab1Load, lab2 |-> Lab2Load, lab3 |-> Lab3Load, lab4 |-> Lab4Load,
     simplechar |-> SimpleLoad, calculator |-> CalculatorLoad]

(* What exit gives back, in its order.                                     *)

\* The buffer is freed twice.
Slip_Lab1Exit == << "cdev", "data", "dev", "data", "region" >>
Lab1Exit == << "cdev", "data", "dev", "region" >>

Lab2Exit == << "cdev", "base", "records", "dev", "region", "debugfs" >>

\* The records are forgotten.
Slip_Lab3Exit == << "cdev", "base", "dev", "region", "debugfs" >>
Lab3Exit == << "cdev", "base", "records", "dev", "region", "debugfs" >>

\* The work is cancelled last.
Slip_Lab4Exit == << "debugfs", "cdev", "base", "records", "dev", "region", "work" >>
Lab4Exit == << "debugfs", "work", "cdev", "base", "records", "dev", "region" >>

\* The structure is not freed, and of the buffers only the last one.
SimpleExit == << "buffer", "cdev", "region" >>

CalculatorExit == << "cdev", "dev", "region" >>

ExitSteps ==
    [lab1 |-> Lab1Exit, lab2 |-> Lab2Exit, lab3 |-> Lab3Exit, lab4 |-> Lab4Exit,
     simplechar |-> SimpleExit, calculator |-> CalculatorExit]

Resources == {"region", "dev", "data", "base", "records", "ready", "cdev",
              "debugfs", "work", "buffer"}

\* What is there only if acquiring it, or a write, has succeeded.
Optional == {"cdev", "debugfs", "buffer"}

-----------------------------------------------------------------------------

VARIABLES
    driver,     \* the driver
    state,      \* of the module
    next,       \* the next step of init or exit
    held,       \* how many of each resource this load has
    kept,       \* how many earlier loads have left behind
    loads,      \* how often the module was loaded
    failed,     \* has an init failed
    where,      \* where every user is
    work        \* the delayed work

vars == <<driver, state, next, held, kept, loads, failed, where, work>>

Nothing == [r \in Resources |-> 0]

Init ==
    /\ driver \in Drivers
    /\ state = "unloaded"
    /\ next = 1
    /\ held = Nothing
    /\ kept = Nothing
    /\ loads = 0
    /\ failed = FALSE
    /\ where = [u \in Users |-> "out"]
    /\ work = "none"

\* What the handlers and the work use.
Needs == {r \in {"dev", "data", "base", "records", "ready"} :
            \E i \in DOMAIN InitSteps[driver] : InitSteps[driver][i].gets = r}

\* All of them set cdev.owner, but lab1.
OwnerSet == driver # "lab1"

\* Users that keep the module from being unloaded.
Refers(u) ==
    \/ where[u] \in {"reading", "viewing"}
    \/ where[u] = "found" /\ OwnerSet

\* New references are given out.
Alive == state \in {"coming", "live"}

\* Freeing the structure takes what was initialised in it along.
Without(has, R) ==
    [r \in Resources |->
        IF r \in R THEN has[r] - 1
        ELSE IF r = "ready" /\ "dev" \in R THEN 0 ELSE has[r]]

\* The module is gone; what it still has stays behind ("ready" is no resource).
Gone(has) ==
    /\ state' = "unloaded"
    /\ next' = 1
    /\ held' = Nothing
    /\ kept' = [r \in Resources |-> IF r = "ready" THEN 0 ELSE kept[r] + has[r]]

-----------------------------------------------------------------------------
(* module_init *)

Load ==
    /\ state = "unloaded"
    /\ loads < MaxLoads
    /\ \A u \in Users : where[u] # "found"
    /\ state' = "coming"
    /\ loads' = loads + 1
    /\ UNCHANGED <<driver, next, held, kept, failed, where, work>>

AtInit(r) ==
    /\ state = "coming"
    /\ next \in DOMAIN InitSteps[driver]
    /\ r = InitSteps[driver][next].gets

InitStep(r) ==
    /\ AtInit(r)
    /\ held' = [held EXCEPT ![r] = @ + 1]
    /\ work' = IF r = "work" THEN "armed" ELSE work
    /\ next' = next + 1
    /\ UNCHANGED <<driver, state, kept, loads, failed, where>>

InitFails(r) ==
    /\ AtInit(r)
    /\ \/ driver \in Labs /\ r \in {"region", "dev", "data", "base", "records", "cdev"}
       \/ r = "region"
    /\ Gone(Without(held, InitSteps[driver][next].undo))
    /\ failed' = TRUE
    /\ UNCHANGED <<driver, loads, where, work>>

\* debugfs may be missing; the two older drivers print the error of cdev_add.
InitGoesOn(r) ==
    /\ AtInit(r)
    /\ \/ r = "debugfs"
       \/ driver \notin Labs /\ r = "cdev"
    /\ next' = next + 1
    /\ UNCHANGED <<driver, state, held, kept, loads, failed, where, work>>

\* They use the structure they did not get, and the module hangs in its init.
InitDies(r) ==
    /\ AtInit(r)
    /\ driver \notin Labs /\ r = "dev"
    /\ state' = "dead"
    /\ UNCHANGED <<driver, next, held, kept, loads, failed, where, work>>

InitDone ==
    /\ state = "coming"
    /\ next > Len(InitSteps[driver])
    /\ state' = "live"
    /\ next' = 1
    /\ UNCHANGED <<driver, held, kept, loads, failed, where, work>>

-----------------------------------------------------------------------------
(* Users *)

\* The kernel finds the cdev, and refers to its owner, if it has one.
Lookup(u) ==
    /\ where[u] = "out"
    /\ held["cdev"] > 0
    /\ Alive \/ ~ OwnerSet
    /\ where' = [where EXCEPT ![u] = "found"]
    /\ UNCHANGED <<driver, state, next, held, kept, loads, failed, work>>

\* Then to the owner of its file operations, and calls open.
Open(u) ==
    /\ where[u] = "found"
    /\ where' = [where EXCEPT ![u] = IF Alive THEN "reading" ELSE "out"]
    /\ UNCHANGED <<driver, state, next, held, kept, loads, failed, work>>

OpenStats(u) ==
    /\ where[u] = "out"
    /\ held["debugfs"] > 0
    /\ Alive
    /\ where' = [where EXCEPT ![u] = "viewing"]
    /\ UNCHANGED <<driver, state, next, held, kept, loads, failed, work>>

\* release, of the device or the stats file.
Release(u) ==
    /\ where[u] \in {"reading", "viewing"}
    /\ where' = [where EXCEPT ![u] = "out"]
    /\ UNCHANGED <<driver, state, next, held, kept, loads, failed, work>>

\* A write to simplechar.
NewBuffer(u) ==
    /\ driver = "simplechar"
    /\ where[u] = "reading"
    /\ held["buffer"] < MaxBuffers
    /\ held' = [held EXCEPT !["buffer"] = @ + 1]
    /\ UNCHANGED <<driver, state, next, kept, loads, failed, where, work>>

-----------------------------------------------------------------------------
(* The cleanup work of lab4 *)

WorkStarts ==
    /\ work = "armed"
    /\ work' = "running"
    /\ UNCHANGED <<driver, state, next, held, kept, loads, failed, where>>

\* cancel_delayed_work_sync has begun.
Slip_Cancelling == FALSE
Cancelling ==
    /\ state = "going"
    /\ next \in DOMAIN ExitSteps[driver]
    /\ ExitSteps[driver][next] = "work"

\* It arms itself again, in vain while it is being cancelled.
WorkEnds ==
    /\ work = "running"
    /\ work' = IF Cancelling THEN "none" ELSE "armed"
    /\ UNCHANGED <<driver, state, next, held, kept, loads, failed, where>>

-----------------------------------------------------------------------------
(* module_exit *)

Unload ==
    /\ state = "live"
    /\ \A u \in Users : ~ Refers(u)
    /\ state' = "going"
    /\ UNCHANGED <<driver, next, held, kept, loads, failed, where, work>>

\* The work is gone when it neither runs nor will run.
ExitStep ==
    /\ state = "going"
    /\ next \in DOMAIN ExitSteps[driver]
    /\ LET r == ExitSteps[driver][next]
       IN  /\ r = "work" => work # "running"
           /\ work' = IF r = "work" THEN "none" ELSE work
           /\ held' = IF r \in Optional /\ held[r] = 0 THEN held ELSE Without(held, {r})
    /\ next' = next + 1
    /\ UNCHANGED <<driver, state, kept, loads, failed, where>>

ExitDone ==
    /\ state = "going"
    /\ next > Len(ExitSteps[driver])
    /\ Gone(held)
    /\ UNCHANGED <<driver, loads, failed, where, work>>

-----------------------------------------------------------------------------

Next ==
    \/ Load \/ InitDone
    \/ \E r \in Resources : InitStep(r) \/ InitFails(r) \/ InitGoesOn(r) \/ InitDies(r)
    \/ \E u \in Users : Lookup(u) \/ Open(u) \/ OpenStats(u) \/ Release(u) \/ NewBuffer(u)
    \/ WorkStarts \/ WorkEnds
    \/ Unload \/ ExitStep \/ ExitDone

Spec == Init /\ [][Next]_vars

\* exit goes on, and a work that runs comes to its end.  Nobody has to load,
\* unload, open or close anything.
Fairness == WF_vars(ExitStep) /\ WF_vars(ExitDone) /\ WF_vars(WorkEnds)

FairSpec == Spec /\ Fairness

-----------------------------------------------------------------------------
(* Properties *)

\* Every variable has its type; nothing is freed twice, on no path.
LifeTypeOK ==
    /\ driver \in Drivers
    /\ state \in {"unloaded", "coming", "live", "going", "dead"}
    /\ next \in 1 .. 9
    /\ held \in [Resources -> 0 .. IF driver = "simplechar" THEN MaxBuffers + 1 ELSE 1]
    /\ kept \in [Resources -> Nat]
    /\ loads \in 0 .. MaxLoads
    /\ failed \in BOOLEAN
    /\ where \in [Users -> {"out", "found", "reading", "viewing"}]
    /\ work \in {"none", "armed", "running"}

\* Whoever may be in a handler finds everything the handlers use, initialised and
\* not yet freed: a user who has the device or the stats file open, at any step of
\* init and exit, and the work of lab4.  A pending work has its timer inside the
\* structure, and an open under way its cdev; there lab1, without cdev.owner, is
\* the exception.
UsersFindDevice ==
    /\ \A u \in Users : Refers(u) => held["dev"] > 0
    /\ \A u \in Users : where[u] \in {"reading", "viewing"} => \A r \in Needs : held[r] > 0
    /\ work = "running" => \A r \in Needs : held[r] > 0
    /\ work = "armed" => held["dev"] > 0

\* What stays behind when the module is not loaded: nothing after a load that
\* succeeded, and after one that failed the device number, in lab1 the structure
\* too.  simplechar never frees its structure and frees one buffer only.
NothingKept ==
    \A r \in Resources : kept[r] > 0 =>
        \/ r = "region" /\ driver \in Labs /\ failed
        \/ r = "dev" /\ driver = "lab1" /\ failed
        \/ r \in {"dev", "buffer"} /\ driver = "simplechar"

\* Unloading comes to its end, although the work of lab4 arms itself again and
\* again.
ExitCompletes == state = "going" ~> state = "unloaded"

=============================================================================
