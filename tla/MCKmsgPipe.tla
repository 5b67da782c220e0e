----------------------------- MODULE MCKmsgPipe -----------------------------
(* The device with two readers and two writers, or one of each and a viewer *)
(* of the statistics.  The readers differ: root, who may read everything,   *)
(* and a user who may not read what the first writer writes.                *)
EXTENDS KmsgPipe, TLC

CONSTANTS r1, r2, w1, w2, v1

MCAllCred ==
    (r1 :> [uid |-> 0, gid |-> 0]) @@ (r2 :> [uid |-> 2, gid |-> 2]) @@
    (w1 :> [uid |-> 1, gid |-> 1]) @@ (w2 :> [uid |-> 2, gid |-> 1]) @@
    (v1 :> [uid |-> 0, gid |-> 0])

MCCred == [p \in Threads |-> MCAllCred[p]]

=============================================================================
