------------------------------ MODULE MCDrivers ------------------------------
(* t1 is an administrator and opens for reading and writing, t2 opens        *)
(* write-only (lab1 does not look at the mode).  With these operands and     *)
(* longs of two bits sums wrap around, and both divisions that trap occur (0 *)
(* comes from failed copies).                                                *)
EXTENDS Drivers

CONSTANTS t1, t2

MCOperands == {-1, -2}
MCMode == [t \in Threads |-> IF t = t1 THEN "O_RDWR" ELSE "O_WRONLY"]
MCChoices == 0 .. 4

=============================================================================
