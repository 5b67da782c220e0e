-------------------------- MODULE ModuleLifeProofs --------------------------
(***************************************************************************)
(* Loading and unloading, for any number of users, loads and buffers.  The *)
(* first part is about the tables of what init gets and exit gives back,   *)
(* one case per driver; the second never looks at a table again.           *)
(***************************************************************************)
EXTENDS ModuleLife, TLAPS

AllDrivers == Labs \cup {"simplechar", "calculator"}

\* The resources that the handlers of driver d use.
NeedsOf(d) == {r \in {"dev", "data", "base", "records", "ready"} :
                \E i \in DOMAIN InitSteps[d] : InitSteps[d][i].gets = r}

\* A failure to get r makes the init of driver d return an error.
Fails(d, r) ==
    \/ d \in Labs /\ r \in {"region", "dev", "data", "base", "records", "cdev"}
    \/ r = "region"

\* ... or end in the use of the structure that is not there.
MayFail(d, r) == Fails(d, r) \/ r = "dev"

\* What may stay behind when the init of driver d fails.
MayStay(d, r) ==
    \/ r = "ready"
    \/ r = "region" /\ d \in Labs
    \/ r = "dev" /\ d = "lab1"

-----------------------------------------------------------------------------
(* The tables *)

\* Nothing is got twice, and the device is made known to the kernel when all is
\* there that its handlers use and nothing can fail any more; the work is last.
InitFacts(d) ==
    LET steps == InitSteps[d]
        n == Len(steps)
    IN  /\ n \in 4 .. 8 /\ DOMAIN steps = 1 .. n
        /\ \A i \in 1 .. n : steps[i].gets \in Resources \ {"buffer"}
        /\ \A i, j \in 1 .. n : steps[i].gets = steps[j].gets => i = j
        /\ \E i \in 1 .. n : steps[i].gets = "cdev"
        /\ "dev" \in NeedsOf(d)
        /\ \A i, j \in 1 .. n : steps[i].gets = "cdev" =>
                /\ steps[j].gets \in NeedsOf(d) => j < i
                /\ steps[j].gets = "debugfs" => i < j
                /\ MayFail(d, steps[j].gets) => j <= i
        /\ \A i \in 1 .. n : steps[i].gets = "work" => d = "lab4" /\ i = n

\* The error return of a step gives back what earlier steps have got, and what
\* it forgets is known.
FailFacts(d) ==
    LET steps == InitSteps[d]
        n == Len(steps)
    IN  /\ \A i \in 1 .. n : \A r \in steps[i].undo :
                /\ r \in Resources \ (Optional \cup {"ready", "buffer"})
                /\ \E j \in 1 .. i - 1 : steps[j].gets = r
        /\ \A i \in 1 .. n : Fails(d, steps[i].gets) =>
                \A j \in 1 .. i - 1 : steps[j].gets \in steps[i].undo \/ MayStay(d, steps[j].gets)

\* Nothing is given back twice, only what has been got, and all of it but the
\* structure of simplechar; and the work is cancelled before what it uses.
ExitFacts(d) ==
    LET steps == InitSteps[d]
        back == ExitSteps[d]
        m == Len(back)
    IN  /\ m \in 3 .. 7 /\ DOMAIN back = 1 .. m
        /\ \A i \in 1 .. m :
                /\ back[i] \in Resources \ {"ready"}
                /\ back[i] # "buffer" => \E j \in 1 .. Len(steps) : steps[j].gets = back[i]
        /\ \A i, j \in 1 .. m : back[i] = back[j] => i = j
        /\ \A j \in 1 .. Len(steps) :
                \/ \E i \in 1 .. m : back[i] = steps[j].gets
                \/ steps[j].gets = "ready"
                \/ d = "simplechar" /\ steps[j].gets = "dev"
        /\ \A i, j \in 1 .. m : back[i] = "work" /\ back[j] \in NeedsOf(d) => i < j
        /\ \A i \in 1 .. Len(steps) : steps[i].gets = "work" =>
                \E j \in 1 .. m : back[j] = "work"

TableFacts(d) == InitFacts(d) /\ FailFacts(d) /\ ExitFacts(d)

LEMMA Lab1Facts == TableFacts("lab1")
<1> DEFINE steps == InitSteps["lab1"]
<1> DEFINE back == ExitSteps["lab1"]
<1>1. /\ Len(steps) = 5 /\ DOMAIN steps = 1 .. 5
      /\ steps[1].gets = "region" /\ steps[1].undo = {}
      /\ steps[2].gets = "dev" /\ steps[2].undo = {"region"}
      /\ steps[3].gets = "data" /\ steps[3].undo = {"dev"}
      /\ steps[4].gets = "ready" /\ steps[4].undo = {}
      /\ steps[5].gets = "cdev" /\ steps[5].undo = {"data"}
  BY DEF InitSteps, Step, Lab1Load
<1>2. /\ Len(back) = 4 /\ DOMAIN back = 1 .. 4
      /\ back[1] = "cdev" /\ back[2] = "data" /\ back[3] = "dev" /\ back[4] = "region"
  BY DEF ExitSteps, Lab1Exit
<1> HIDE DEF steps, back
<1>3. NeedsOf("lab1") = {"dev", "data", "ready"}
  BY <1>1 DEF NeedsOf, steps
<1>4. InitFacts("lab1")
  <2> DEFINE n == Len(steps)
  <2>1. n = 5 /\ n \in 4 .. 8 /\ DOMAIN steps = 1 .. n
    BY <1>1
  <2> HIDE DEF n
  <2>2. \A i \in 1 .. n : steps[i].gets \in Resources \ {"buffer"}
    BY <1>1, <2>1 DEF Resources
  <2>3. \A i, j \in 1 .. n : steps[i].gets = steps[j].gets => i = j
    BY <1>1, <2>1
  <2>4. \E i \in 1 .. n : steps[i].gets = "cdev"
    <3>1. 5 \in 1 .. n
      BY <2>1
    <3> QED BY <1>1, <3>1
  <2>5. "dev" \in NeedsOf("lab1")
    BY <1>3
  <2>6. \A i, j \in 1 .. n : steps[i].gets = "cdev" =>
            /\ steps[j].gets \in NeedsOf("lab1") => j < i
            /\ steps[j].gets = "debugfs" => i < j
            /\ MayFail("lab1", steps[j].gets) => j <= i
    <3>1. \A i \in 1 .. n : steps[i].gets = "cdev" => i = 5
      BY <1>1, <2>1
    <3>2. \A j \in 1 .. n :
              /\ steps[j].gets \in NeedsOf("lab1") => j < 5
              /\ steps[j].gets = "debugfs" => 5 < j
              /\ MayFail("lab1", steps[j].gets) => j <= 5
      BY <1>1, <1>3, <2>1 DEF Fails, MayFail, Labs
    <3> QED BY <3>1, <3>2
  <2>7. \A i \in 1 .. n : steps[i].gets = "work" => "lab1" = "lab4" /\ i = n
    BY <1>1, <2>1
  <2> QED BY <2>1, <2>2, <2>3, <2>4, <2>5, <2>6, <2>7 DEF InitFacts, steps, n
<1>5. FailFacts("lab1")
  BY <1>1 DEF FailFacts, Fails, MayStay, Labs, Resources, Optional, steps
<1>6. ExitFacts("lab1")
  BY <1>1, <1>2, <1>3 DEF ExitFacts, Labs, Resources, steps, back
<1> QED BY <1>4, <1>5, <1>6 DEF TableFacts

LEMMA Lab2Facts == TableFacts("lab2")
<1> DEFINE steps == InitSteps["lab2"]
<1> DEFINE back == ExitSteps["lab2"]
<1>1. /\ Len(steps) = 7 /\ DOMAIN steps = 1 .. 7
      /\ steps[1].gets = "region" /\ steps[1].undo = {}
      /\ steps[2].gets = "dev" /\ steps[2].undo = {"region"}
      /\ steps[3].gets = "base" /\ steps[3].undo = {"dev"}
      /\ steps[4].gets = "records" /\ steps[4].undo = {"base", "dev"}
      /\ steps[5].gets = "ready" /\ steps[5].undo = {}
      /\ steps[6].gets = "cdev" /\ steps[6].undo = {"base", "records", "dev"}
      /\ steps[7].gets = "debugfs" /\ steps[7].undo = {}
  BY DEF InitSteps, Step, Lab2Load
<1>2. /\ Len(back) = 6 /\ DOMAIN back = 1 .. 6
      /\ back[1] = "cdev" /\ back[2] = "base" /\ back[3] = "records" /\ back[4] = "dev"
      /\ back[5] = "region" /\ back[6] = "debugfs"
  BY DEF ExitSteps, Lab2Exit
<1> HIDE DEF steps, back
<1>3. NeedsOf("lab2") = {"dev", "base", "records", "ready"}
  BY <1>1 DEF NeedsOf, steps
<1>4. InitFacts("lab2")
  <2> DEFINE n == Len(steps)
  <2>1. n = 7 /\ n \in 4 .. 8 /\ DOMAIN steps = 1 .. n
    BY <1>1
  <2> HIDE DEF n
  <2>2. \A i \in 1 .. n : steps[i].gets \in Resources \ {"buffer"}
    BY <1>1, <2>1 DEF Resources
  <2>3. \A i, j \in 1 .. n : steps[i].gets = steps[j].gets => i = j
    BY <1>1, <2>1
  <2>4. \E i \in 1 .. n : steps[i].gets = "cdev"
    <3>1. 6 \in 1 .. n
      BY <2>1
    <3> QED BY <1>1, <3>1
  <2>5. "dev" \in NeedsOf("lab2")
    BY <1>3
  <2>6. \A i, j \in 1 .. n : steps[i].gets = "cdev" =>
            /\ steps[j].gets \in NeedsOf("lab2") => j < i
            /\ steps[j].gets = "debugfs" => i < j
            /\ MayFail("lab2", steps[j].gets) => j <= i
    <3>1. \A i \in 1 .. n : steps[i].gets = "cdev" => i = 6
      BY <1>1, <2>1
    <3>2. \A j \in 1 .. n :
              /\ steps[j].gets \in NeedsOf("lab2") => j < 6
              /\ steps[j].gets = "debugfs" => 6 < j
              /\ MayFail("lab2", steps[j].gets) => j <= 6
      BY <1>1, <1>3, <2>1 DEF Fails, MayFail, Labs
    <3> QED BY <3>1, <3>2
  <2>7. \A i \in 1 .. n : steps[i].gets = "work" => "lab2" = "lab4" /\ i = n
    BY <1>1, <2>1
  <2> QED BY <2>1, <2>2, <2>3, <2>4, <2>5, <2>6, <2>7 DEF InitFacts, steps, n
<1>5. FailFacts("lab2")
  BY <1>1 DEF FailFacts, Fails, MayStay, Labs, Resources, Optional, steps
<1>6. ExitFacts("lab2")
  BY <1>1, <1>2, <1>3 DEF ExitFacts, Labs, Resources, steps, back
<1> QED BY <1>4, <1>5, <1>6 DEF TableFacts

LEMMA Lab3Facts == TableFacts("lab3")
<1> DEFINE steps == InitSteps["lab3"]
<1> DEFINE back == ExitSteps["lab3"]
<1>1. /\ Len(steps) = 7 /\ DOMAIN steps = 1 .. 7
      /\ steps[1].gets = "region" /\ steps[1].undo = {}
      /\ steps[2].gets = "dev" /\ steps[2].undo = {"region"}
      /\ steps[3].gets = "base" /\ steps[3].undo = {"dev"}
      /\ steps[4].gets = "records" /\ steps[4].undo = {"base", "dev"}
      /\ steps[5].gets = "ready" /\ steps[5].undo = {}
      /\ steps[6].gets = "cdev" /\ steps[6].undo = {"base", "records", "dev"}
      /\ steps[7].gets = "debugfs" /\ steps[7].undo = {}
  BY DEF InitSteps, Step, Lab2Load, Lab3Load
<1>2. /\ Len(back) = 6 /\ DOMAIN back = 1 .. 6
      /\ back[1] = "cdev" /\ back[2] = "base" /\ back[3] = "records" /\ back[4] = "dev"
      /\ back[5] = "region" /\ back[6] = "debugfs"
  BY DEF ExitSteps, Lab3Exit
<1> HIDE DEF steps, back
<1>3. NeedsOf("lab3") = {"dev", "base", "records", "ready"}
  BY <1>1 DEF NeedsOf, steps
<1>4. InitFacts("lab3")
  <2> DEFINE n == Len(steps)
  <2>1. n = 7 /\ n \in 4 .. 8 /\ DOMAIN steps = 1 .. n
    BY <1>1
  <2> HIDE DEF n
  <2>2. \A i \in 1 .. n : steps[i].gets \in Resources \ {"buffer"}
    BY <1>1, <2>1 DEF Resources
  <2>3. \A i, j \in 1 .. n : steps[i].gets = steps[j].gets => i = j
    BY <1>1, <2>1
  <2>4. \E i \in 1 .. n : steps[i].gets = "cdev"
    <3>1. 6 \in 1 .. n
      BY <2>1
    <3> QED BY <1>1, <3>1
  <2>5. "dev" \in NeedsOf("lab3")
    BY <1>3
  <2>6. \A i, j \in 1 .. n : steps[i].gets = "cdev" =>
            /\ steps[j].gets \in NeedsOf("lab3") => j < i
            /\ steps[j].gets = "debugfs" => i < j
            /\ MayFail("lab3", steps[j].gets) => j <= i
    <3>1. \A i \in 1 .. n : steps[i].gets = "cdev" => i = 6
      BY <1>1, <2>1
    <3>2. \A j \in 1 .. n :
              /\ steps[j].gets \in NeedsOf("lab3") => j < 6
              /\ steps[j].gets = "debugfs" => 6 < j
              /\ MayFail("lab3", steps[j].gets) => j <= 6
      BY <1>1, <1>3, <2>1 DEF Fails, MayFail, Labs
    <3> QED BY <3>1, <3>2
  <2>7. \A i \in 1 .. n : steps[i].gets = "work" => "lab3" = "lab4" /\ i = n
    BY <1>1, <2>1
  <2> QED BY <2>1, <2>2, <2>3, <2>4, <2>5, <2>6, <2>7 DEF InitFacts, steps, n
<1>5. FailFacts("lab3")
  BY <1>1 DEF FailFacts, Fails, MayStay, Labs, Resources, Optional, steps
<1>6. ExitFacts("lab3")
  BY <1>1, <1>2, <1>3 DEF ExitFacts, Labs, Resources, steps, back
<1> QED BY <1>4, <1>5, <1>6 DEF TableFacts

LEMMA Lab4Facts == TableFacts("lab4")
<1> DEFINE steps == InitSteps["lab4"]
<1> DEFINE back == ExitSteps["lab4"]
<1>1. /\ Len(steps) = 8 /\ DOMAIN steps = 1 .. 8
      /\ steps[1].gets = "region" /\ steps[1].undo = {}
      /\ steps[2].gets = "dev" /\ steps[2].undo = {"region"}
      /\ steps[3].gets = "base" /\ steps[3].undo = {"dev"}
      /\ steps[4].gets = "records" /\ steps[4].undo = {"base", "dev"}
      /\ steps[5].gets = "ready" /\ steps[5].undo = {}
      /\ steps[6].gets = "cdev" /\ steps[6].undo = {"base", "records", "dev"}
      /\ steps[7].gets = "debugfs" /\ steps[7].undo = {}
      /\ steps[8].gets = "work" /\ steps[8].undo = {}
  BY DEF InitSteps, Step, Lab2Load, Lab4Load
<1>2. /\ Len(back) = 7 /\ DOMAIN back = 1 .. 7
      /\ back[1] = "debugfs" /\ back[2] = "work" /\ back[3] = "cdev" /\ back[4] = "base"
      /\ back[5] = "records" /\ back[6] = "dev" /\ back[7] = "region"
  BY DEF ExitSteps, Lab4Exit
<1> HIDE DEF steps, back
<1>3. NeedsOf("lab4") = {"dev", "base", "records", "ready"}
  BY <1>1 DEF NeedsOf, steps
<1>4. InitFacts("lab4")
  <2> DEFINE n == Len(steps)
  <2>1. n = 8 /\ n \in 4 .. 8 /\ DOMAIN steps = 1 .. n
    BY <1>1
  <2> HIDE DEF n
  <2>2. \A i \in 1 .. n : steps[i].gets \in Resources \ {"buffer"}
    BY <1>1, <2>1 DEF Resources
  <2>3. \A i, j \in 1 .. n : steps[i].gets = steps[j].gets => i = j
    BY <1>1, <2>1
  <2>4. \E i \in 1 .. n : steps[i].gets = "cdev"
    <3>1. 6 \in 1 .. n
      BY <2>1
    <3> QED BY <1>1, <3>1
  <2>5. "dev" \in NeedsOf("lab4")
    BY <1>3
  <2>6. \A i, j \in 1 .. n : steps[i].gets = "cdev" =>
            /\ steps[j].gets \in NeedsOf("lab4") => j < i
            /\ steps[j].gets = "debugfs" => i < j
            /\ MayFail("lab4", steps[j].gets) => j <= i
    <3>1. \A i \in 1 .. n : steps[i].gets = "cdev" => i = 6
      BY <1>1, <2>1
    <3>2. \A j \in 1 .. n :
              /\ steps[j].gets \in NeedsOf("lab4") => j < 6
              /\ steps[j].gets = "debugfs" => 6 < j
              /\ MayFail("lab4", steps[j].gets) => j <= 6
      BY <1>1, <1>3, <2>1 DEF Fails, MayFail, Labs
    <3> QED BY <3>1, <3>2
  <2>7. \A i \in 1 .. n : steps[i].gets = "work" => "lab4" = "lab4" /\ i = n
    BY <1>1, <2>1
  <2> QED BY <2>1, <2>2, <2>3, <2>4, <2>5, <2>6, <2>7 DEF InitFacts, steps, n
<1>5. FailFacts("lab4")
  BY <1>1 DEF FailFacts, Fails, MayStay, Labs, Resources, Optional, steps
<1>6. ExitFacts("lab4")
  BY <1>1, <1>2, <1>3 DEF ExitFacts, Labs, Resources, steps, back
<1> QED BY <1>4, <1>5, <1>6 DEF TableFacts

LEMMA SimpleFacts == TableFacts("simplechar")
<1> DEFINE steps == InitSteps["simplechar"]
<1> DEFINE back == ExitSteps["simplechar"]
<1>1. /\ Len(steps) = 4 /\ DOMAIN steps = 1 .. 4
      /\ steps[1].gets = "region" /\ steps[1].undo = {}
      /\ steps[2].gets = "dev" /\ steps[2].undo = {}
      /\ steps[3].gets = "ready" /\ steps[3].undo = {}
      /\ steps[4].gets = "cdev" /\ steps[4].undo = {}
  BY DEF InitSteps, Step, SimpleLoad
<1>2. /\ Len(back) = 3 /\ DOMAIN back = 1 .. 3
      /\ back[1] = "buffer" /\ back[2] = "cdev" /\ back[3] = "region"
  BY DEF ExitSteps, SimpleExit
<1> HIDE DEF steps, back
<1>3. NeedsOf("simplechar") = {"dev", "ready"}
  BY <1>1 DEF NeedsOf, steps
<1>4. InitFacts("simplechar")
  <2> DEFINE n == Len(steps)
  <2>1. n = 4 /\ n \in 4 .. 8 /\ DOMAIN steps = 1 .. n
    BY <1>1
  <2> HIDE DEF n
  <2>2. \A i \in 1 .. n : steps[i].gets \in Resources \ {"buffer"}
    BY <1>1, <2>1 DEF Resources
  <2>3. \A i, j \in 1 .. n : steps[i].gets = steps[j].gets => i = j
    BY <1>1, <2>1
  <2>4. \E i \in 1 .. n : steps[i].gets = "cdev"
    <3>1. 4 \in 1 .. n
      BY <2>1
    <3> QED BY <1>1, <3>1
  <2>5. "dev" \in NeedsOf("simplechar")
    BY <1>3
  <2>6. \A i, j \in 1 .. n : steps[i].gets = "cdev" =>
            /\ steps[j].gets \in NeedsOf("simplechar") => j < i
            /\ steps[j].gets = "debugfs" => i < j
            /\ MayFail("simplechar", steps[j].gets) => j <= i
    <3>1. \A i \in 1 .. n : steps[i].gets = "cdev" => i = 4
      BY <1>1, <2>1
    <3>2. \A j \in 1 .. n :
              /\ steps[j].gets \in NeedsOf("simplechar") => j < 4
              /\ steps[j].gets = "debugfs" => 4 < j
              /\ MayFail("simplechar", steps[j].gets) => j <= 4
      BY <1>1, <1>3, <2>1 DEF Fails, MayFail, Labs
    <3> QED BY <3>1, <3>2
  <2>7. \A i \in 1 .. n : steps[i].gets = "work" => "simplechar" = "lab4" /\ i = n
    BY <1>1, <2>1
  <2> QED BY <2>1, <2>2, <2>3, <2>4, <2>5, <2>6, <2>7 DEF InitFacts, steps, n
<1>5. FailFacts("simplechar")
  BY <1>1 DEF FailFacts, Fails, MayStay, Labs, Resources, Optional, steps
<1>6. ExitFacts("simplechar")
  BY <1>1, <1>2, <1>3 DEF ExitFacts, Labs, Resources, steps, back
<1> QED BY <1>4, <1>5, <1>6 DEF TableFacts

LEMMA CalculatorFacts == TableFacts("calculator")
<1> DEFINE steps == InitSteps["calculator"]
<1> DEFINE back == ExitSteps["calculator"]
<1>1. /\ Len(steps) = 4 /\ DOMAIN steps = 1 .. 4
      /\ steps[1].gets = "region" /\ steps[1].undo = {}
      /\ steps[2].gets = "dev" /\ steps[2].undo = {}
      /\ steps[3].gets = "ready" /\ steps[3].undo = {}
      /\ steps[4].gets = "cdev" /\ steps[4].undo = {}
  BY DEF InitSteps, Step, SimpleLoad, CalculatorLoad
<1>2. /\ Len(back) = 3 /\ DOMAIN back = 1 .. 3
      /\ back[1] = "cdev" /\ back[2] = "dev" /\ back[3] = "region"
  BY DEF ExitSteps, CalculatorExit
<1> HIDE DEF steps, back
<1>3. NeedsOf("calculator") = {"dev", "ready"}
  BY <1>1 DEF NeedsOf, steps
<1>4. InitFacts("calculator")
  <2> DEFINE n == Len(steps)
  <2>1. n = 4 /\ n \in 4 .. 8 /\ DOMAIN steps = 1 .. n
    BY <1>1
  <2> HIDE DEF n
  <2>2. \A i \in 1 .. n : steps[i].gets \in Resources \ {"buffer"}
    BY <1>1, <2>1 DEF Resources
  <2>3. \A i, j \in 1 .. n : steps[i].gets = steps[j].gets => i = j
    BY <1>1, <2>1
  <2>4. \E i \in 1 .. n : steps[i].gets = "cdev"
    <3>1. 4 \in 1 .. n
      BY <2>1
    <3> QED BY <1>1, <3>1
  <2>5. "dev" \in NeedsOf("calculator")
    BY <1>3
  <2>6. \A i, j \in 1 .. n : steps[i].gets = "cdev" =>
            /\ steps[j].gets \in NeedsOf("calculator") => j < i
            /\ steps[j].gets = "debugfs" => i < j
            /\ MayFail("calculator", steps[j].gets) => j <= i
    <3>1. \A i \in 1 .. n : steps[i].gets = "cdev" => i = 4
      BY <1>1, <2>1
    <3>2. \A j \in 1 .. n :
              /\ steps[j].gets \in NeedsOf("calculator") => j < 4
              /\ steps[j].gets = "debugfs" => 4 < j
              /\ MayFail("calculator", steps[j].gets) => j <= 4
      BY <1>1, <1>3, <2>1 DEF Fails, MayFail, Labs
    <3> QED BY <3>1, <3>2
  <2>7. \A i \in 1 .. n : steps[i].gets = "work" => "calculator" = "lab4" /\ i = n
    BY <1>1, <2>1
  <2> QED BY <2>1, <2>2, <2>3, <2>4, <2>5, <2>6, <2>7 DEF InitFacts, steps, n
<1>5. FailFacts("calculator")
  BY <1>1 DEF FailFacts, Fails, MayStay, Labs, Resources, Optional, steps
<1>6. ExitFacts("calculator")
  BY <1>1, <1>2, <1>3 DEF ExitFacts, Labs, Resources, steps, back
<1> QED BY <1>4, <1>5, <1>6 DEF TableFacts

LEMMA Tables == \A d \in AllDrivers : TableFacts(d)
BY Lab1Facts, Lab2Facts, Lab3Facts, Lab4Facts, SimpleFacts, CalculatorFacts DEF AllDrivers, Labs

-----------------------------------------------------------------------------
(* The inductive invariant *)

\* What driver d has got before step n of init, and given back before step n of
\* exit.
Got(d, n) == {InitSteps[d][i].gets : i \in 1 .. n - 1}
Back(d, n) == {ExitSteps[d][i] : i \in 1 .. n - 1}

GotAll(d) == Got(d, Len(InitSteps[d]) + 1)

\* Freeing the structure takes what was initialised in it along.
Kept(d, n) ==
    {r \in GotAll(d) : r \notin Back(d, n) /\ (r = "ready" => "dev" \notin Back(d, n))}

Owned ==
    IF state \in {"coming", "dead"} THEN Got(driver, next)
    ELSE IF state = "live" THEN GotAll(driver)
    ELSE IF state = "going" THEN Kept(driver, next)
    ELSE {}

PlaceInv ==
    /\ driver \in Drivers
    /\ state \in {"unloaded", "coming", "live", "going", "dead"}
    /\ next \in Nat \ {0}
    /\ state \in {"coming", "dead"} => next <= Len(InitSteps[driver]) + 1
    /\ state \in {"live", "unloaded"} => next = 1
    /\ state = "going" => next <= Len(ExitSteps[driver]) + 1
    /\ loads \in 0 .. MaxLoads
    /\ failed \in BOOLEAN

\* One of each that is owned, of the optional ones perhaps none.
Accounted(has, own) ==
    \A r \in Resources \ {"buffer"} :
        /\ has[r] <= 1
        /\ has[r] > 0 => r \in own
        /\ r \in own \ Optional => has[r] = 1

HeldInv ==
    /\ held \in [Resources -> Nat]
    /\ Accounted(held, Owned)
    /\ held["buffer"] <= MaxBuffers
    /\ held["buffer"] > 0 => driver = "simplechar" /\ state # "unloaded"

\* Users are referred to a module that is there, and have come through a cdev
\* that is still registered.
UserInv ==
    /\ where \in [Users -> {"out", "found", "reading", "viewing"}]
    /\ \A u \in Users : Refers(u) => Alive
    /\ \A u \in Users : where[u] # "out" /\ Alive => "cdev" \in Owned

WorkInv ==
    /\ work \in {"none", "armed", "running"}
    /\ work # "none" => "work" \in Owned

KeptInv == kept \in [Resources -> Nat] /\ NothingKept

LifeInv == PlaceInv /\ HeldInv /\ UserInv /\ WorkInv /\ KeptInv

-----------------------------------------------------------------------------
(* What the tables say of Got, Back and Kept *)

LEMMA DriverTables == PlaceInv => driver \in AllDrivers /\ TableFacts(driver)
BY ModuleLifeAssumption, Tables DEF PlaceInv, AllDrivers

LEMMA GotNext ==
    ASSUME NEW d \in AllDrivers, NEW n \in 1 .. Len(InitSteps[d])
    PROVE  /\ Got(d, n + 1) = Got(d, n) \cup {InitSteps[d][n].gets}
           /\ InitSteps[d][n].gets \in Resources \ ({"buffer"} \cup Got(d, n))
<1>1. Len(InitSteps[d]) \in 4 .. 8 /\ InitFacts(d)
  BY Tables DEF TableFacts, InitFacts
<1>2. \A i : i \in 1 .. (n + 1) - 1 <=> i \in 1 .. n - 1 \/ i = n
  BY <1>1
<1>3. Got(d, n + 1) = Got(d, n) \cup {InitSteps[d][n].gets}
  BY <1>2 DEF Got
<1>4. \A i \in 1 .. n - 1 : i \in 1 .. Len(InitSteps[d]) /\ i # n
  BY <1>1
<1>5. InitSteps[d][n].gets \notin Got(d, n)
  BY <1>1, <1>4 DEF Got, InitFacts
<1>6. InitSteps[d][n].gets \in Resources \ {"buffer"}
  BY <1>1 DEF InitFacts
<1> QED BY <1>3, <1>5, <1>6

LEMMA GotNothing == \A d : Got(d, 1) = {}
BY DEF Got

\* The cdev comes after what its handlers need and before what refers to it.
LEMMA GotOrder ==
    ASSUME NEW d \in AllDrivers, NEW n \in 1 .. Len(InitSteps[d]) + 1
    PROVE  /\ Got(d, n) \subseteq Resources \ {"buffer"}
           /\ "cdev" \in Got(d, n) => NeedsOf(d) \subseteq Got(d, n)
           /\ "debugfs" \in Got(d, n) => "cdev" \in Got(d, n)
           /\ "work" \in Got(d, n) => n = Len(InitSteps[d]) + 1
           /\ n = Len(InitSteps[d]) + 1 => "cdev" \in Got(d, n)
           /\ n # Len(InitSteps[d]) + 1 /\ MayFail(d, InitSteps[d][n].gets) => "cdev" \notin Got(d, n)
<1> DEFINE steps == InitSteps[d]
<1> DEFINE m == Len(steps)
<1>1. /\ m \in 4 .. 8 /\ DOMAIN steps = 1 .. m
      /\ \A i \in 1 .. m : steps[i].gets \in Resources \ {"buffer"}
      /\ \A i, j \in 1 .. m : steps[i].gets = "cdev" =>
            /\ steps[j].gets \in NeedsOf(d) => j < i
            /\ steps[j].gets = "debugfs" => i < j
            /\ MayFail(d, steps[j].gets) => j <= i
      /\ \A i \in 1 .. m : steps[i].gets = "work" => i = m
  BY Tables DEF TableFacts, InitFacts
<1>2. PICK c \in 1 .. m : steps[c].gets = "cdev"
  BY Tables DEF TableFacts, InitFacts
<1>3. \A r : r \in Got(d, n) <=> \E i \in 1 .. n - 1 : steps[i].gets = r
  BY DEF Got
<1>4. \A r \in NeedsOf(d) : \E i \in 1 .. m : steps[i].gets = r
  BY <1>1 DEF NeedsOf
<1>5. \A i \in 1 .. n - 1 : i \in 1 .. m
  BY <1>1
<1> HIDE DEF steps, m
<1>6. n \in 1 .. m + 1
  BY DEF m, steps
<1>7. Got(d, n) \subseteq Resources \ {"buffer"}
  BY <1>1, <1>3, <1>5
<1>8. ASSUME "cdev" \in Got(d, n)
      PROVE  NeedsOf(d) \subseteq Got(d, n)
  <2>1. PICK i \in 1 .. n - 1 : steps[i].gets = "cdev"
    BY <1>3, <1>8
  <2>2. ASSUME NEW r \in NeedsOf(d)
        PROVE  r \in Got(d, n)
    <3>1. PICK j \in 1 .. m : steps[j].gets = r
      BY <1>4
    <3>2. j < i
      BY <1>1, <1>5, <2>1, <3>1
    <3>3. j \in 1 .. n - 1
      BY <1>1, <1>6, <3>2
    <3> QED BY <1>3, <3>1, <3>3
  <2> QED BY <2>2
<1>9. ASSUME "debugfs" \in Got(d, n)
      PROVE  "cdev" \in Got(d, n)
  <2>1. PICK j \in 1 .. n - 1 : steps[j].gets = "debugfs"
    BY <1>3, <1>9
  <2>2. c < j
    BY <1>1, <1>2, <1>5, <2>1
  <2>3. c \in 1 .. n - 1
    BY <1>1, <1>6, <2>2
  <2> QED BY <1>2, <1>3, <2>3
<1>10. "work" \in Got(d, n) => n = m + 1
  BY <1>1, <1>3, <1>5, <1>6
<1>11. n = m + 1 => "cdev" \in Got(d, n)
  BY <1>1, <1>2, <1>3
<1>12. ASSUME n # m + 1, MayFail(d, steps[n].gets)
       PROVE  "cdev" \notin Got(d, n)
  <2>1. n \in 1 .. m
    BY <1>1, <1>6, <1>12
  <2>2. \A i \in 1 .. n - 1 : steps[i].gets = "cdev" => n <= i
    BY <1>1, <1>5, <1>12, <2>1
  <2>3. \A i \in 1 .. n - 1 : ~ (n <= i)
    BY <2>1, <1>1
  <2> QED BY <1>3, <2>2, <2>3
<1> QED BY <1>7, <1>8, <1>9, <1>10, <1>11, <1>12 DEF steps, m

LEMMA KeptAtFirst == \A d : Kept(d, 1) = GotAll(d)
BY DEF Kept, Back

LEMMA KeptNext ==
    ASSUME NEW d \in AllDrivers, NEW n \in 1 .. Len(ExitSteps[d])
    PROVE  /\ Kept(d, n + 1) = {r \in Kept(d, n) : /\ r # ExitSteps[d][n]
                                                   /\ r = "ready" => ExitSteps[d][n] # "dev"}
           /\ ExitSteps[d][n] \in Kept(d, n) \cup {"buffer"}
           /\ ExitSteps[d][n] \in Resources \ {"ready"}
<1> DEFINE b == ExitSteps[d][n]
<1>1. /\ Len(ExitSteps[d]) \in 3 .. 7 /\ b \in Resources \ {"ready"}
      /\ b # "buffer" => \E j \in 1 .. Len(InitSteps[d]) : InitSteps[d][j].gets = b
      /\ \A i, j \in 1 .. Len(ExitSteps[d]) : ExitSteps[d][i] = ExitSteps[d][j] => i = j
  BY Tables DEF TableFacts, ExitFacts
<1>2. Len(InitSteps[d]) \in 4 .. 8
  BY Tables DEF TableFacts, InitFacts
<1>3. \A i : i \in 1 .. (n + 1) - 1 <=> i \in 1 .. n - 1 \/ i = n
  BY <1>1
<1>4. Back(d, n + 1) = Back(d, n) \cup {b}
  BY <1>3 DEF Back
<1>5. \A i \in 1 .. n - 1 : i \in 1 .. Len(ExitSteps[d]) /\ i # n
  BY <1>1
<1>6. b \notin Back(d, n)
  BY <1>1, <1>5 DEF Back
<1>7. b # "buffer" => b \in GotAll(d)
  <2>1. \A j : j \in 1 .. Len(InitSteps[d]) => j \in 1 .. (Len(InitSteps[d]) + 1) - 1
    BY <1>2
  <2> QED BY <1>1, <2>1 DEF GotAll, Got
<1> HIDE DEF b
<1>8. b \in Kept(d, n) \cup {"buffer"}
  BY <1>1, <1>6, <1>7 DEF Kept
<1>9. Kept(d, n + 1) = {r \in Kept(d, n) : r # b /\ (r = "ready" => b # "dev")}
  BY <1>4 DEF Kept
<1> QED BY <1>1, <1>8, <1>9 DEF b

LEMMA KeptOrder ==
    ASSUME NEW d \in AllDrivers, NEW n \in 1 .. Len(ExitSteps[d]) + 1
    PROVE  /\ "work" \in Kept(d, n) => NeedsOf(d) \subseteq Kept(d, n)
           /\ n = Len(ExitSteps[d]) + 1 =>
                \A r \in Kept(d, n) : r = "ready" \/ (r = "dev" /\ d = "simplechar")
<1> DEFINE back == ExitSteps[d]
<1> DEFINE m == Len(back)
<1> DEFINE steps == InitSteps[d]
<1>1. /\ m \in 3 .. 7 /\ Len(steps) \in 4 .. 8
      /\ \A i, j \in 1 .. m : back[i] = "work" /\ back[j] \in NeedsOf(d) => i < j
      /\ \A i \in 1 .. Len(steps) : steps[i].gets = "work" => \E j \in 1 .. m : back[j] = "work"
      /\ \A j \in 1 .. Len(steps) :
            \/ \E i \in 1 .. m : back[i] = steps[j].gets
            \/ steps[j].gets = "ready"
            \/ d = "simplechar" /\ steps[j].gets = "dev"
  BY Tables DEF TableFacts, InitFacts, ExitFacts
<1>2. \A r : r \in GotAll(d) <=> \E i \in 1 .. Len(steps) : steps[i].gets = r
  <2>1. \A i : i \in 1 .. Len(steps) <=> i \in 1 .. (Len(steps) + 1) - 1
    BY <1>1
  <2> QED BY <2>1 DEF GotAll, Got
<1>3. \A r : r \in Back(d, n) <=> \E i \in 1 .. n - 1 : back[i] = r
  BY DEF Back
<1>4. "cdev" \in GotAll(d) /\ NeedsOf(d) \subseteq GotAll(d)
  <2>1. Len(steps) + 1 \in 1 .. Len(steps) + 1
    BY <1>1
  <2> QED BY <2>1, GotOrder DEF GotAll
<1> HIDE DEF back, m, steps
<1>5. n \in 1 .. m + 1
  BY DEF m, back
<1>6. ASSUME "work" \in Kept(d, n)
      PROVE  NeedsOf(d) \subseteq Kept(d, n)
  <2>1. PICK w \in 1 .. m : back[w] = "work"
    BY <1>1, <1>2, <1>6 DEF Kept
  <2>2. ~ (w \in 1 .. n - 1)
    BY <1>3, <1>6, <2>1 DEF Kept
  <2>3. \A j \in 1 .. n - 1 : j \in 1 .. m /\ ~ (w < j)
    BY <1>1, <1>5, <2>2
  <2>4. ASSUME NEW r \in NeedsOf(d), r \in Back(d, n)
        PROVE  FALSE
    <3>1. PICK j \in 1 .. n - 1 : back[j] = r
      BY <1>3, <2>4
    <3>2. w < j
      BY <1>1, <2>1, <2>3, <2>4, <3>1
    <3> QED BY <2>3, <3>2
  <2>5. "dev" \in NeedsOf(d)
    BY Tables DEF TableFacts, InitFacts
  <2> QED BY <1>4, <2>4, <2>5 DEF Kept
<1>7. n = m + 1 => \A r \in Kept(d, n) : r = "ready" \/ (r = "dev" /\ d = "simplechar")
  <2>1. n = m + 1 => \A i \in 1 .. m : i \in 1 .. n - 1
    BY <1>1
  <2> QED BY <1>1, <1>2, <1>3, <2>1 DEF Kept
<1> QED BY <1>6, <1>7 DEF m, back

-----------------------------------------------------------------------------
(* Keeping account of what is owned *)

LEMMA AccountedGet ==
    ASSUME NEW has \in [Resources -> Nat], NEW own, Accounted(has, own),
           NEW r \in Resources \ ({"buffer"} \cup own), NEW new,
           new = [has EXCEPT ![r] = @ + 1]
    PROVE  /\ new \in [Resources -> Nat]
           /\ new["buffer"] = has["buffer"]
           /\ Accounted(new, own \cup {r})
<1>1. has[r] = 0
  BY DEF Accounted
<1>2. new \in [Resources -> Nat] /\ new[r] = 1 /\ \A x \in Resources \ {r} : new[x] = has[x]
  BY <1>1
<1>3. "buffer" \in Resources
  BY DEF Resources
<1> QED BY <1>2, <1>3 DEF Accounted

LEMMA AccountedWithout ==
    ASSUME NEW has \in [Resources -> Nat], NEW own, Accounted(has, own),
           NEW R, R \subseteq Resources \ {"ready"}, \A r \in R : has[r] > 0,
           NEW new, new = Without(has, R),
           NEW rest, rest = {r \in own : r \notin R /\ (r = "ready" => "dev" \notin R)}
    PROVE  /\ new \in [Resources -> Nat]
           /\ new["buffer"] <= has["buffer"]
           /\ Accounted(new, rest)
<1>1. \A r \in Resources :
        new[r] = IF r \in R THEN has[r] - 1
                 ELSE IF r = "ready" /\ "dev" \in R THEN 0 ELSE has[r]
  BY DEF Without
<1>2. \A r \in Resources : new[r] \in Nat /\ new[r] <= has[r]
  BY <1>1
<1>3. new \in [Resources -> Nat]
  BY <1>2 DEF Without
<1>4. "buffer" \in Resources
  BY DEF Resources
<1>5. Accounted(new, rest)
  <2>1. \A r \in R : r \in Resources /\ r # "ready"
    OBVIOUS
  <2> QED BY <1>1, <1>2, <2>1 DEF Accounted, Optional
<1> QED BY <1>2, <1>3, <1>4, <1>5

LEMMA OwnedNext ==
    /\ Owned' = IF state' \in {"coming", "dead"} THEN Got(driver', next')
                ELSE IF state' = "live" THEN GotAll(driver')
                ELSE IF state' = "going" THEN Kept(driver', next')
                ELSE {}
    /\ Accounted(held, Owned)' <=> Accounted(held', Owned')
BY DEF Owned, Got, GotAll, Kept, Back, Accounted

\* What the handlers and the work need is there when they can run.
LEMMA OwnedFacts ==
    ASSUME PlaceInv
    PROVE  /\ Owned \subseteq Resources \ {"buffer"}
           /\ "dev" \in Needs /\ Needs \subseteq Resources \ (Optional \cup {"buffer"})
           /\ Alive /\ "cdev" \in Owned => Needs \subseteq Owned
           /\ Alive /\ "debugfs" \in Owned => "cdev" \in Owned
           /\ "work" \in Owned => Needs \subseteq Owned
<1>1. driver \in AllDrivers /\ InitFacts(driver)
  BY DriverTables DEF TableFacts
<1>2. NeedsOf(driver) = Needs
  BY DEF NeedsOf, Needs
<1>3. "dev" \in Needs /\ Needs \subseteq Resources \ (Optional \cup {"buffer"})
  <2>1. "dev" \in Needs
    BY <1>1, <1>2 DEF InitFacts
  <2> QED BY <2>1 DEF Needs, Resources, Optional
<1> DEFINE m == Len(InitSteps[driver])
<1>4. m \in Nat
  BY <1>1 DEF InitFacts
<1>5. \A n \in 1 .. m + 1 :
        /\ Got(driver, n) \subseteq Resources \ {"buffer"}
        /\ "cdev" \in Got(driver, n) => Needs \subseteq Got(driver, n)
        /\ "debugfs" \in Got(driver, n) => "cdev" \in Got(driver, n)
        /\ "work" \in Got(driver, n) => "cdev" \in Got(driver, n)
  BY <1>1, <1>2, GotOrder
<1>6. CASE state \in {"coming", "dead"}
  <2>1. next \in 1 .. m + 1 /\ Owned = Got(driver, next)
    BY <1>4, <1>6 DEF PlaceInv, Owned
  <2> QED BY <1>3, <1>5, <2>1
<1>7. CASE state = "live"
  <2>1. m + 1 \in 1 .. m + 1 /\ Owned = Got(driver, m + 1)
    BY <1>4, <1>7 DEF Owned, GotAll
  <2> QED BY <1>3, <1>5, <2>1
<1>8. CASE state = "going"
  <2>1. Owned = Kept(driver, next) /\ ~ Alive
    BY <1>8 DEF Owned, Alive
  <2>2. next \in 1 .. Len(ExitSteps[driver]) + 1
    <3>1. Len(ExitSteps[driver]) \in Nat
      BY DriverTables DEF TableFacts, ExitFacts
    <3> QED BY <1>8, <3>1 DEF PlaceInv
  <2>3. "work" \in Owned => Needs \subseteq Owned
    BY <1>1, <1>2, <2>1, <2>2, KeptOrder
  <2>4. m + 1 \in 1 .. m + 1 /\ Owned \subseteq Got(driver, m + 1)
    BY <1>4, <2>1 DEF Kept, GotAll
  <2> QED BY <1>3, <1>5, <2>1, <2>3, <2>4
<1>9. CASE state = "unloaded"
  BY <1>3, <1>9 DEF Owned, Alive
<1> QED BY <1>6, <1>7, <1>8, <1>9 DEF PlaceInv

-----------------------------------------------------------------------------
(* A step that leaves alone what a part of the invariant speaks of *)

LEMMA PlaceSame ==
    PlaceInv /\ UNCHANGED <<driver, state, next, loads, failed>> => PlaceInv'
BY DEF PlaceInv

LEMMA OwnedSame ==
    UNCHANGED <<driver, state, next>> => /\ Owned' = Owned
                                         /\ Alive' <=> Alive
                                         /\ OwnerSet' <=> OwnerSet
BY OwnedNext DEF Owned, Alive, OwnerSet

LEMMA HeldSame ==
    HeldInv /\ UNCHANGED <<driver, state, next, held>> => HeldInv'
BY OwnedNext, OwnedSame DEF HeldInv

LEMMA UserSame ==
    UserInv /\ UNCHANGED <<driver, state, next, where>> => UserInv'
BY OwnedSame DEF UserInv, Refers

LEMMA WorkSame ==
    WorkInv /\ UNCHANGED <<driver, state, next, work>> => WorkInv'
BY OwnedSame DEF WorkInv

LEMMA KeptSame ==
    KeptInv /\ UNCHANGED <<driver, kept, failed>> => KeptInv'
BY DEF KeptInv, NothingKept

-----------------------------------------------------------------------------
(* Users and the work *)

LEMMA UserSteps ==
    ASSUME LifeInv, NEW u \in Users, Lookup(u) \/ Open(u) \/ OpenStats(u) \/ Release(u)
    PROVE  LifeInv'
<1> USE DEF LifeInv
<1>1. /\ UNCHANGED <<driver, state, next, held, kept, loads, failed, work>>
      /\ \E w \in {"out", "found", "reading", "viewing"} :
            where' = [where EXCEPT ![u] = w]
  BY DEF Lookup, Open, OpenStats, Release
<1>2. PlaceInv' /\ HeldInv' /\ WorkInv' /\ KeptInv'
  BY <1>1, PlaceSame, HeldSame, WorkSame, KeptSame
<1>3. where' \in [Users -> {"out", "found", "reading", "viewing"}]
  BY <1>1 DEF UserInv
<1>4. \A v \in Users \ {u} : where'[v] = where[v]
  BY <1>1 DEF UserInv
<1>5. /\ where'[u] \in {"reading", "viewing"} => Alive
      /\ where'[u] = "found" /\ OwnerSet => Alive
      /\ where'[u] # "out" /\ Alive => "cdev" \in Owned
  <2>1. held["cdev"] > 0 => "cdev" \in Owned
    BY DEF HeldInv, Accounted, Resources
  <2>2. held["debugfs"] > 0 /\ Alive => "cdev" \in Owned
    BY OwnedFacts DEF HeldInv, Accounted, Resources
  <2>3. CASE Lookup(u)
    BY <2>1, <2>3 DEF Lookup, UserInv
  <2>4. CASE Open(u)
    BY <2>4 DEF Open, UserInv
  <2>5. CASE OpenStats(u)
    BY <2>2, <2>5 DEF OpenStats, UserInv
  <2>6. CASE Release(u)
    BY <2>6 DEF Release, UserInv
  <2> QED BY <2>3, <2>4, <2>5, <2>6
<1>6. UserInv'
  <2>1. Owned' = Owned /\ (Alive' <=> Alive) /\ (OwnerSet' <=> OwnerSet)
    BY <1>1, OwnedSame
  <2>2. \A v \in Users :
            /\ Refers(v)' => Alive
            /\ where'[v] # "out" /\ Alive => "cdev" \in Owned
    BY <1>4, <1>5, <2>1 DEF UserInv, Refers
  <2> QED BY <1>3, <2>1, <2>2 DEF UserInv
<1> QED BY <1>2, <1>6

LEMMA NewBufferStep ==
    ASSUME LifeInv, NEW u \in Users, NewBuffer(u)
    PROVE  LifeInv'
<1> USE DEF LifeInv
<1>1. PlaceInv' /\ UserInv' /\ WorkInv' /\ KeptInv'
  BY PlaceSame, UserSame, WorkSame, KeptSame DEF NewBuffer
<1>2. /\ held' \in [Resources -> Nat]
      /\ held'["buffer"] = held["buffer"] + 1
      /\ \A r \in Resources \ {"buffer"} : held'[r] = held[r]
  <2>1. "buffer" \in Resources
    BY DEF Resources
  <2> QED BY <2>1 DEF NewBuffer, HeldInv
<1>3. held'["buffer"] <= MaxBuffers
  <2>1. held["buffer"] \in Nat
    BY DEF HeldInv, Resources
  <2> QED BY <1>2, <2>1, ModuleLifeAssumption DEF NewBuffer
<1>4. Accounted(held', Owned)
  BY <1>2 DEF HeldInv, Accounted
<1>5. driver' = "simplechar" /\ state' # "unloaded"
  BY DEF NewBuffer, UserInv, Refers, Alive
<1>6. HeldInv'
  BY <1>2, <1>3, <1>4, <1>5, OwnedNext, OwnedSame DEF HeldInv, NewBuffer
<1> QED BY <1>1, <1>6

LEMMA WorkSteps == LifeInv /\ (WorkStarts \/ WorkEnds) => LifeInv'
<1> SUFFICES ASSUME LifeInv, WorkStarts \/ WorkEnds PROVE LifeInv'
  OBVIOUS
<1> USE DEF LifeInv
<1>1. PlaceInv' /\ HeldInv' /\ UserInv' /\ KeptInv'
  BY PlaceSame, HeldSame, UserSame, KeptSame DEF WorkStarts, WorkEnds
<1>2. WorkInv'
  BY OwnedSame DEF WorkInv, WorkStarts, WorkEnds
<1> QED BY <1>1, <1>2

-----------------------------------------------------------------------------
(* init *)

LEMMA LifeAtFirst == Init => LifeInv
<1> SUFFICES ASSUME Init PROVE LifeInv
  OBVIOUS
<1> USE DEF Init
<1>1. PlaceInv
  <2>1. loads \in 0 .. MaxLoads /\ next \in Nat \ {0}
    BY ModuleLifeAssumption
  <2>2. failed \in BOOLEAN
    OBVIOUS
  <2>3. driver \in Drivers /\ state = "unloaded" /\ next = 1
    OBVIOUS
  <2> HIDE DEF Init
  <2> QED BY <2>1, <2>2, <2>3 DEF PlaceInv
<1>2. HeldInv
  BY ModuleLifeAssumption DEF HeldInv, Accounted, Owned, Nothing, Resources
<1>3. UserInv /\ WorkInv
  BY DEF UserInv, Refers, Alive, WorkInv
<1>4. KeptInv
  BY DEF KeptInv, NothingKept, Nothing
<1> QED BY <1>1, <1>2, <1>3, <1>4 DEF LifeInv

LEMMA LoadStep == LifeInv /\ Load => LifeInv'
<1> SUFFICES ASSUME LifeInv, Load PROVE LifeInv'
  OBVIOUS
<1> USE DEF LifeInv
<1>1. Owned = {} /\ Owned' = {} /\ next = 1
  BY OwnedNext, GotNothing DEF PlaceInv, Owned, Load
<1>2. PlaceInv'
  <2>1. Len(InitSteps[driver]) \in Nat
    BY DriverTables DEF TableFacts, InitFacts
  <2>2. loads + 1 \in 0 .. MaxLoads
    BY ModuleLifeAssumption DEF PlaceInv, Load
  <2> QED BY <1>1, <2>1, <2>2 DEF PlaceInv, Load
<1>3. HeldInv'
  BY <1>1, OwnedNext DEF HeldInv, Load
<1>4. UserInv'
  <2>1. \A u \in Users : where[u] = "out"
    BY DEF UserInv, Refers, Alive, Load
  <2> QED BY <2>1 DEF UserInv, Refers, Load
<1>5. WorkInv'
  BY <1>1 DEF WorkInv, Load
<1>6. KeptInv'
  BY KeptSame DEF Load
<1> QED BY <1>2, <1>3, <1>4, <1>5, <1>6

\* What a step of init sees.
LEMMA AtInitFacts ==
    ASSUME LifeInv, NEW r, AtInit(r)
    PROVE  /\ driver \in AllDrivers /\ TableFacts(driver)
           /\ Len(InitSteps[driver]) \in 4 .. 8 /\ next \in 1 .. Len(InitSteps[driver])
           /\ Owned = Got(driver, next)
           /\ Got(driver, next + 1) = Owned \cup {r}
           /\ r \in Resources \ ({"buffer"} \cup Owned)
           /\ work = "none"
           /\ MayFail(driver, r) => \A u \in Users : where[u] = "out"
<1> USE DEF LifeInv
<1>1. driver \in AllDrivers /\ TableFacts(driver)
  BY DriverTables
<1>2. Len(InitSteps[driver]) \in 4 .. 8 /\ next \in 1 .. Len(InitSteps[driver])
  BY <1>1 DEF TableFacts, InitFacts, AtInit
<1>3. Owned = Got(driver, next)
  BY DEF Owned, AtInit
<1>4. r = InitSteps[driver][next].gets
  BY DEF AtInit
<1>5. /\ Got(driver, next + 1) = Owned \cup {r}
      /\ r \in Resources \ ({"buffer"} \cup Owned)
  BY <1>1, <1>2, <1>3, <1>4, GotNext
<1>6. next \in 1 .. Len(InitSteps[driver]) + 1 /\ next # Len(InitSteps[driver]) + 1
  BY <1>2
<1>7. work = "none"
  BY <1>1, <1>3, <1>6, GotOrder DEF WorkInv
<1>8. MayFail(driver, r) => "cdev" \notin Owned
  BY <1>1, <1>3, <1>4, <1>6, GotOrder
<1>9. MayFail(driver, r) => \A u \in Users : where[u] = "out"
  BY <1>8 DEF UserInv, Alive, AtInit
<1> QED BY <1>1, <1>2, <1>3, <1>5, <1>7, <1>9

LEMMA InitStepStep ==
    ASSUME LifeInv, NEW r, InitStep(r)
    PROVE  LifeInv'
<1> USE DEF LifeInv
<1>1. AtInit(r)
  BY DEF InitStep
<1>2. /\ Len(InitSteps[driver]) \in Nat /\ next \in 1 .. Len(InitSteps[driver])
      /\ r \in Resources \ ({"buffer"} \cup Owned) /\ work = "none"
  BY <1>1, AtInitFacts
<1>3. Owned' = Owned \cup {r}
  BY <1>1, AtInitFacts, OwnedNext DEF InitStep, AtInit
<1>4. PlaceInv'
  BY <1>2 DEF PlaceInv, InitStep, AtInit
<1>5. HeldInv'
  <2>1. /\ held' \in [Resources -> Nat]
        /\ held'["buffer"] = held["buffer"]
        /\ Accounted(held', Owned \cup {r})
    BY <1>2, AccountedGet DEF HeldInv, InitStep
  <2> QED BY <1>3, <2>1, OwnedNext DEF HeldInv, InitStep
<1>6. UserInv'
  BY <1>3 DEF UserInv, Refers, OwnerSet, Alive, InitStep
<1>7. WorkInv'
  BY <1>2, <1>3 DEF WorkInv, InitStep
<1>8. KeptInv'
  BY KeptSame DEF InitStep
<1> QED BY <1>4, <1>5, <1>6, <1>7, <1>8

LEMMA InitGoesOnStep ==
    ASSUME LifeInv, NEW r, InitGoesOn(r)
    PROVE  LifeInv'
<1> USE DEF LifeInv
<1>1. AtInit(r) /\ r \in Optional
  BY DEF InitGoesOn, Optional
<1>2. Len(InitSteps[driver]) \in Nat /\ next \in 1 .. Len(InitSteps[driver])
  BY <1>1, AtInitFacts
<1>3. Owned' = Owned \cup {r}
  BY <1>1, AtInitFacts, OwnedNext DEF InitGoesOn, AtInit
<1>4. PlaceInv'
  BY <1>2 DEF PlaceInv, InitGoesOn, AtInit
<1>5. Accounted(held, Owned \cup {r})
  BY <1>1 DEF HeldInv, Accounted
<1>6. HeldInv'
  BY <1>3, <1>5, OwnedNext DEF HeldInv, InitGoesOn
<1>7. UserInv'
  BY <1>3 DEF UserInv, Refers, OwnerSet, Alive, InitGoesOn
<1>8. WorkInv' /\ KeptInv'
  BY <1>3, KeptSame DEF WorkInv, InitGoesOn
<1> QED BY <1>4, <1>6, <1>7, <1>8

LEMMA InitDiesStep ==
    ASSUME LifeInv, NEW r, InitDies(r)
    PROVE  LifeInv'
<1> USE DEF LifeInv
<1>1. AtInit(r) /\ MayFail(driver, r)
  BY DEF InitDies, MayFail
<1>2. \A u \in Users : where[u] = "out"
  BY <1>1, AtInitFacts
<1>3. Owned' = Owned
  BY <1>1, AtInitFacts, OwnedNext DEF InitDies
<1>4. PlaceInv'
  BY DEF PlaceInv, InitDies, AtInit
<1>5. HeldInv'
  BY <1>3, OwnedNext DEF HeldInv, InitDies
<1>6. UserInv'
  BY <1>2 DEF UserInv, Refers, InitDies
<1>7. WorkInv' /\ KeptInv'
  BY <1>3, KeptSame DEF WorkInv, InitDies
<1> QED BY <1>4, <1>5, <1>6, <1>7

LEMMA InitDoneStep == LifeInv /\ InitDone => LifeInv'
<1> SUFFICES ASSUME LifeInv, InitDone PROVE LifeInv'
  OBVIOUS
<1> USE DEF LifeInv
<1>1. next = Len(InitSteps[driver]) + 1
  <2>1. Len(InitSteps[driver]) \in Nat
    BY DriverTables DEF TableFacts, InitFacts
  <2> QED BY <2>1 DEF PlaceInv, InitDone
<1>2. Owned = GotAll(driver) /\ Owned' = Owned
  BY <1>1, OwnedNext DEF Owned, GotAll, InitDone
<1>3. PlaceInv'
  BY DEF PlaceInv, InitDone
<1>4. HeldInv'
  BY <1>2, OwnedNext DEF HeldInv, InitDone
<1>5. UserInv'
  BY <1>2 DEF UserInv, Refers, OwnerSet, Alive, InitDone
<1>6. WorkInv' /\ KeptInv'
  BY <1>2, KeptSame DEF WorkInv, InitDone
<1> QED BY <1>3, <1>4, <1>5, <1>6

\* The error return gives back what is there, and leaves what MayStay says.
LEMMA InitFailsStep ==
    ASSUME LifeInv, NEW r, InitFails(r)
    PROVE  LifeInv'
<1> USE DEF LifeInv
<1> DEFINE undo == InitSteps[driver][next].undo
<1> DEFINE has == Without(held, undo)
<1>1. AtInit(r) /\ Fails(driver, r) /\ r = InitSteps[driver][next].gets
  BY DEF InitFails, Fails, AtInit
<1>2. /\ next \in 1 .. Len(InitSteps[driver]) /\ Owned = Got(driver, next)
      /\ work = "none" /\ \A u \in Users : where[u] = "out"
  BY <1>1, AtInitFacts DEF MayFail
<1>3. FailFacts(driver)
  BY DriverTables DEF TableFacts
<1>4. \A x \in undo : x \in Resources \ (Optional \cup {"ready", "buffer"}) /\ x \in Owned
  BY <1>2, <1>3 DEF FailFacts, Got
<1>5. \A x \in Owned : x \in undo \/ MayStay(driver, x)
  BY <1>1, <1>2, <1>3 DEF FailFacts, Got
<1> HIDE DEF undo
<1>6. held \in [Resources -> Nat] /\ Accounted(held, Owned)
  BY DEF HeldInv
<1>7. undo \subseteq Resources \ {"ready"} /\ \A x \in undo : held[x] > 0
  BY <1>4, <1>6 DEF Accounted
<1>8. /\ has \in [Resources -> Nat]
      /\ has["buffer"] <= held["buffer"]
      /\ \A x \in Resources \ {"buffer"} : has[x] > 0 => MayStay(driver, x)
  <2>1. /\ has \in [Resources -> Nat]
        /\ has["buffer"] <= held["buffer"]
        /\ Accounted(has, {x \in Owned : x \notin undo /\ (x = "ready" => "dev" \notin undo)})
    <3> DEFINE rest == {x \in Owned : x \notin undo /\ (x = "ready" => "dev" \notin undo)}
    <3>1. has = Without(held, undo)
      OBVIOUS
    <3> HIDE DEF has, rest
    <3>2. rest = {x \in Owned : x \notin undo /\ (x = "ready" => "dev" \notin undo)}
      BY DEF rest
    <3>3. /\ has \in [Resources -> Nat] /\ has["buffer"] <= held["buffer"]
          /\ Accounted(has, rest)
      BY <1>6, <1>7, <3>1, <3>2, AccountedWithout
    <3> QED BY <3>2, <3>3
  <2> HIDE DEF has
  <2> QED BY <1>5, <2>1 DEF Accounted
<1>9. /\ state' = "unloaded" /\ next' = 1 /\ held' = Nothing /\ failed' = TRUE
      /\ kept' = [x \in Resources |-> IF x = "ready" THEN 0 ELSE kept[x] + has[x]]
      /\ UNCHANGED <<driver, loads, where, work>>
  BY DEF InitFails, Gone, undo, has
<1> HIDE DEF has
<1>10. PlaceInv'
  BY <1>9 DEF PlaceInv
<1>11. HeldInv'
  <2>1. Owned' = {}
    BY <1>9, OwnedNext
  <2> QED BY <1>9, <2>1, OwnedNext, ModuleLifeAssumption DEF HeldInv, Accounted, Nothing, Resources
<1>12. UserInv' /\ WorkInv'
  BY <1>2, <1>9 DEF UserInv, Refers, WorkInv
<1>13. KeptInv'
  <2>1. /\ kept \in [Resources -> Nat]
        /\ \A x \in Resources : has[x] \in Nat /\ kept[x] \in Nat
    BY <1>8 DEF KeptInv
  <2>2. kept' \in [Resources -> Nat]
    BY <1>9, <2>1
  <2>3. \A x \in Resources : kept'[x] > 0 => x # "ready" /\ (kept[x] > 0 \/ has[x] > 0)
    BY <1>9, <2>1
  <2>4. "buffer" \in Resources /\ held["buffer"] \in Nat
    BY <1>6 DEF Resources
  <2>5. has["buffer"] > 0 => driver = "simplechar"
    BY <1>8, <2>1, <2>4 DEF HeldInv
  <2>6. \A x \in Resources : has[x] > 0 /\ x # "ready" =>
            \/ x = "region" /\ driver \in Labs
            \/ x = "dev" /\ driver = "lab1"
            \/ x = "buffer" /\ driver = "simplechar"
    BY <1>8, <2>5 DEF MayStay
  <2>7. \A x \in Resources : kept[x] > 0 =>
            \/ x = "region" /\ driver \in Labs
            \/ x = "dev" /\ driver = "lab1"
            \/ x \in {"dev", "buffer"} /\ driver = "simplechar"
    BY DEF KeptInv, NothingKept
  <2>8. driver' = driver /\ failed'
    BY <1>9
  <2>9. NothingKept'
    BY <2>3, <2>6, <2>7, <2>8 DEF NothingKept
  <2> QED BY <2>2, <2>9 DEF KeptInv
<1> QED BY <1>10, <1>11, <1>12, <1>13

-----------------------------------------------------------------------------
(* exit *)

LEMMA UnloadStep == LifeInv /\ Unload => LifeInv'
<1> SUFFICES ASSUME LifeInv, Unload PROVE LifeInv'
  OBVIOUS
<1> USE DEF LifeInv
<1>1. Owned' = Owned
  BY OwnedNext, KeptAtFirst DEF PlaceInv, Owned, Unload
<1>2. PlaceInv'
  <2>1. Len(ExitSteps[driver]) \in Nat
    BY DriverTables DEF TableFacts, ExitFacts
  <2> QED BY <2>1 DEF PlaceInv, Unload
<1>3. HeldInv'
  BY <1>1, OwnedNext DEF HeldInv, Unload
<1>4. UserInv'
  BY DEF UserInv, Refers, OwnerSet, Alive, Unload
<1>5. WorkInv' /\ KeptInv'
  BY <1>1, KeptSame DEF WorkInv, Unload
<1> QED BY <1>2, <1>3, <1>4, <1>5

LEMMA ExitStepStep == LifeInv /\ ExitStep => LifeInv'
<1> SUFFICES ASSUME LifeInv, ExitStep PROVE LifeInv'
  OBVIOUS
<1> USE DEF LifeInv
<1>1. PICK r : r = ExitSteps[driver][next]
  OBVIOUS
<1>2. /\ state = "going" /\ state' = "going" /\ next' = next + 1
      /\ next \in DOMAIN ExitSteps[driver]
      /\ r = "work" => work # "running"
      /\ work' = IF r = "work" THEN "none" ELSE work
      /\ held' = IF r \in Optional /\ held[r] = 0 THEN held ELSE Without(held, {r})
      /\ UNCHANGED <<driver, kept, loads, failed, where>>
  BY <1>1 DEF ExitStep
<1>3. driver \in AllDrivers /\ Len(ExitSteps[driver]) \in Nat /\ next \in 1 .. Len(ExitSteps[driver])
  BY <1>2, DriverTables DEF TableFacts, ExitFacts
<1>4. PICK rest : rest = {x \in Owned : x # r /\ (x = "ready" => r # "dev")}
  OBVIOUS
<1>5. /\ Owned' = rest
      /\ r \in Owned \cup {"buffer"}
      /\ r \in Resources \ {"ready"}
  BY <1>1, <1>2, <1>3, <1>4, KeptNext, OwnedNext DEF Owned
<1>6. PlaceInv'
  BY <1>2, <1>3 DEF PlaceInv
<1>7. /\ held \in [Resources -> Nat] /\ Accounted(held, Owned)
      /\ held["buffer"] \in Nat /\ held["buffer"] <= MaxBuffers
  BY DEF HeldInv, Resources
<1>8. /\ held' \in [Resources -> Nat]
      /\ held'["buffer"] <= held["buffer"]
      /\ Accounted(held', rest)
  <2>1. CASE r \in Optional /\ held[r] = 0
    <3>1. held' = held
      BY <1>2, <2>1
    <3>2. r # "dev"
      BY <2>1 DEF Optional
    <3>3. Accounted(held, rest)
      BY <1>4, <1>7, <2>1, <3>2 DEF Accounted
    <3> QED BY <1>7, <3>1, <3>3
  <2>2. CASE ~ (r \in Optional /\ held[r] = 0)
    <3>1. held' = Without(held, {r})
      BY <1>2, <2>2
    <3>2. held[r] > 0
      <4>1. CASE r \in Optional
        <5>1. held[r] \in Nat
          BY <1>5, <1>7
        <5> QED BY <2>2, <4>1, <5>1
      <4>2. CASE r \notin Optional
        BY <1>5, <1>7, <4>2 DEF Accounted, Optional
      <4> QED BY <4>1, <4>2
    <3>3. PICK new, has, own, R : new = held' /\ has = held /\ own = Owned /\ R = {r}
      OBVIOUS
    <3>4. R \subseteq Resources \ {"ready"} /\ \A x \in R : has[x] > 0
      BY <1>5, <3>2, <3>3
    <3>5. rest = {x \in own : x \notin R /\ (x = "ready" => "dev" \notin R)}
      BY <1>4, <3>3
    <3>6. has \in [Resources -> Nat] /\ Accounted(has, own) /\ new = Without(has, R)
      BY <1>7, <3>1, <3>3
    <3>7. /\ new \in [Resources -> Nat] /\ new["buffer"] <= has["buffer"]
          /\ Accounted(new, rest)
      BY <3>4, <3>5, <3>6, AccountedWithout
    <3> QED BY <3>3, <3>7
  <2> QED BY <2>1, <2>2
<1>9. HeldInv'
  <2>1. held'["buffer"] \in Nat
    BY <1>8 DEF Resources
  <2>2. held'["buffer"] <= MaxBuffers /\ (held'["buffer"] > 0 => held["buffer"] > 0)
    BY <1>7, <1>8, <2>1, ModuleLifeAssumption
  <2>3. Accounted(held, Owned)'
    BY <1>5, <1>8, OwnedNext
  <2>4. held'["buffer"] > 0 => driver' = "simplechar" /\ state' # "unloaded"
    BY <1>2, <2>2 DEF HeldInv
  <2> QED BY <1>8, <2>2, <2>3, <2>4 DEF HeldInv
<1>10. UserInv'
  <2>1. \A u \in Users : ~ Refers(u)
    BY <1>2 DEF UserInv, Alive
  <2> QED BY <1>2, <2>1 DEF UserInv, Refers, OwnerSet, Alive
<1>11. WorkInv'
  BY <1>2, <1>4, <1>5 DEF WorkInv
<1>12. KeptInv'
  BY <1>2, KeptSame
<1> QED BY <1>6, <1>9, <1>10, <1>11, <1>12

LEMMA ExitDoneStep == LifeInv /\ ExitDone => LifeInv'
<1> SUFFICES ASSUME LifeInv, ExitDone PROVE LifeInv'
  OBVIOUS
<1> USE DEF LifeInv
<1>1. /\ state = "going" /\ state' = "unloaded" /\ next' = 1 /\ held' = Nothing
      /\ kept' = [x \in Resources |-> IF x = "ready" THEN 0 ELSE kept[x] + held[x]]
      /\ UNCHANGED <<driver, loads, failed, where, work>>
  BY DEF ExitDone, Gone
<1>2. /\ driver \in AllDrivers /\ Len(ExitSteps[driver]) \in Nat
      /\ next = Len(ExitSteps[driver]) + 1 /\ next \in 1 .. Len(ExitSteps[driver]) + 1
  <2>1. driver \in AllDrivers /\ Len(ExitSteps[driver]) \in Nat
    BY DriverTables DEF TableFacts, ExitFacts
  <2> QED BY <2>1 DEF PlaceInv, ExitDone
<1>3. \A x \in Owned : x = "ready" \/ (x = "dev" /\ driver = "simplechar")
  BY <1>1, <1>2, KeptOrder DEF Owned
<1>4. work = "none"
  BY <1>3 DEF WorkInv
<1>5. PlaceInv'
  BY <1>1 DEF PlaceInv
<1>6. HeldInv'
  <2>1. Owned' = {}
    BY <1>1, OwnedNext
  <2> QED BY <1>1, <2>1, OwnedNext, ModuleLifeAssumption DEF HeldInv, Accounted, Nothing, Resources
<1>7. UserInv' /\ WorkInv'
  <2>1. \A u \in Users : ~ Refers(u)
    BY <1>1 DEF UserInv, Alive
  <2> QED BY <1>1, <1>4, <2>1 DEF UserInv, WorkInv, Refers, OwnerSet, Alive
<1>8. KeptInv'
  <2>1. \A x \in Resources : held[x] \in Nat /\ kept[x] \in Nat
    BY DEF HeldInv, KeptInv
  <2>2. kept' \in [Resources -> Nat]
    BY <1>1, <2>1
  <2>3. \A x \in Resources : kept'[x] > 0 => x # "ready" /\ (kept[x] > 0 \/ held[x] > 0)
    BY <1>1, <2>1
  <2>4. \A x \in Resources : held[x] > 0 /\ x # "ready" =>
            x \in {"dev", "buffer"} /\ driver = "simplechar"
    BY <1>3 DEF HeldInv, Accounted
  <2>5. NothingKept'
    BY <1>1, <2>3, <2>4 DEF KeptInv, NothingKept
  <2> QED BY <2>2, <2>5 DEF KeptInv
<1> QED BY <1>5, <1>6, <1>7, <1>8

-----------------------------------------------------------------------------
(* The theorems *)

LEMMA LifeStep == LifeInv /\ [Next]_vars => LifeInv'
<1> SUFFICES ASSUME LifeInv, [Next]_vars PROVE LifeInv'
  OBVIOUS
<1>1. CASE UNCHANGED vars
  BY <1>1, PlaceSame, HeldSame, UserSame, WorkSame, KeptSame DEF LifeInv, vars
<1>2. ASSUME NEW r \in Resources,
             InitStep(r) \/ InitFails(r) \/ InitGoesOn(r) \/ InitDies(r)
      PROVE  LifeInv'
  BY <1>2, InitStepStep, InitFailsStep, InitGoesOnStep, InitDiesStep
<1>3. ASSUME NEW u \in Users,
             Lookup(u) \/ Open(u) \/ OpenStats(u) \/ Release(u) \/ NewBuffer(u)
      PROVE  LifeInv'
  BY <1>3, UserSteps, NewBufferStep
<1>4. CASE Load \/ InitDone \/ WorkStarts \/ WorkEnds
  BY <1>4, LoadStep, InitDoneStep, WorkSteps
<1>5. CASE Unload \/ ExitStep \/ ExitDone
  BY <1>5, UnloadStep, ExitStepStep, ExitDoneStep
<1> QED BY <1>1, <1>2, <1>3, <1>4, <1>5 DEF Next

LEMMA LifeAlways == Spec => []LifeInv
BY LifeAtFirst, LifeStep, PTL DEF Spec

\* Of nothing there is more than one, of nothing less than none: no path of init
\* or exit frees a thing twice or one it has not got, for any driver, any number
\* of users, and loads that fail at any step.
THEOREM LifeTypeCorrect == Spec => []LifeTypeOK
<1>1. LifeInv => LifeTypeOK
  <2> SUFFICES ASSUME LifeInv PROVE LifeTypeOK
    OBVIOUS
  <2>1. next \in 1 .. 9
    <3>1. Len(InitSteps[driver]) \in 4 .. 8 /\ Len(ExitSteps[driver]) \in 3 .. 7
      BY DriverTables DEF LifeInv, TableFacts, InitFacts, ExitFacts
    <3>2. PICK n \in 4 .. 8 : n = Len(InitSteps[driver])
      BY <3>1
    <3>3. PICK m \in 3 .. 7 : m = Len(ExitSteps[driver])
      BY <3>1
    <3>4. next \in Nat \ {0} /\ (next <= n + 1 \/ next <= m + 1 \/ next = 1)
      BY <3>2, <3>3 DEF LifeInv, PlaceInv
    <3>5. 1 <= next /\ next <= 9
      BY <3>4
    <3> QED BY <3>4, <3>5
  <2>2. held \in [Resources -> 0 .. IF driver = "simplechar" THEN MaxBuffers + 1 ELSE 1]
    <3> DEFINE top == IF driver = "simplechar" THEN MaxBuffers + 1 ELSE 1
    <3>1. held \in [Resources -> Nat] /\ top \in Nat /\ 1 <= top
      BY ModuleLifeAssumption DEF LifeInv, HeldInv
    <3>2. \A r \in Resources : held[r] <= top
      <4>1. \A r \in Resources \ {"buffer"} : held[r] <= 1
        BY DEF LifeInv, HeldInv, Accounted
      <4>2. held["buffer"] <= top
        <5>1. held["buffer"] \in Nat
          BY <3>1 DEF Resources
        <5> QED BY <5>1, ModuleLifeAssumption DEF LifeInv, HeldInv
      <4> HIDE DEF top
      <4> QED BY <3>1, <4>1, <4>2
    <3> HIDE DEF top
    <3>3. held \in [Resources -> 0 .. top]
      BY <3>1, <3>2
    <3> QED BY <3>3 DEF top
  <2> QED BY <2>1, <2>2 DEF LifeTypeOK, LifeInv, PlaceInv, UserInv, WorkInv, KeptInv
<1> QED BY <1>1, LifeAlways, PTL

\* A handler that runs, and the cleanup work, find the structure, the buffers and
\* what was initialised in them, at every step of init and exit, whatever fails;
\* an open under way and a pending work find the structure.
THEOREM UsersAlwaysFindDevice == Spec => []UsersFindDevice
<1>1. LifeInv => UsersFindDevice
  <2> SUFFICES ASSUME LifeInv PROVE UsersFindDevice
    OBVIOUS
  <2> USE DEF LifeInv
  <2>1. Needs \subseteq Owned => \A r \in Needs : held[r] > 0
    BY OwnedFacts DEF HeldInv, Accounted
  <2>2. "dev" \in Needs
    BY OwnedFacts
  <2>3. \A u \in Users : Refers(u) => Needs \subseteq Owned
    BY OwnedFacts DEF UserInv, Refers
  <2>4. work # "none" => Needs \subseteq Owned
    BY OwnedFacts DEF WorkInv
  <2>5. \A u \in Users : where[u] \in {"reading", "viewing"} => Refers(u)
    BY DEF Refers
  <2> QED BY <2>1, <2>2, <2>3, <2>4, <2>5 DEF UsersFindDevice
<1> QED BY <1>1, LifeAlways, PTL

\* Nothing stays behind after any number of loads and unloads, but what the error
\* returns of the kmsgpipe drivers and the exit of simplechar forget.
THEOREM NothingEverKept == Spec => []NothingKept
<1>1. LifeInv => NothingKept
  BY DEF LifeInv, KeptInv
<1> QED BY <1>1, LifeAlways, PTL

=============================================================================
