---------------------------- MODULE MCKmsgIoctl ----------------------------
(* The device with ioctl: one reader, one or two writers, one controller.  *)
EXTENDS KmsgIoctl, TLC

CONSTANTS r1, w1, w2, c1

MCCred == [p \in Threads |-> [uid |-> 1, gid |-> 1]]

=============================================================================
