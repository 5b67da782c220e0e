--------------------------- MODULE MCKmsgCleanup ---------------------------
(* The device with the cleanup worker: a reader, one or two writers, and    *)
(* where it matters a controller that clears the buffer or sets the expiry. *)
EXTENDS KmsgCleanup, TLC

CONSTANTS r1, w1, w2, c1

MCCred == [p \in Threads |-> [uid |-> 1, gid |-> 1]]

=============================================================================
