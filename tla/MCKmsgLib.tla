----------------------------- MODULE MCKmsgLib -----------------------------
(* The library on a small buffer, for two users that share no group.        *)
EXTENDS KmsgLib

MCUsers == {[uid |-> 1, gid |-> 1], [uid |-> 2, gid |-> 2]}
MCLongTimes == 0 .. 2

=============================================================================
