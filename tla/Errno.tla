------------------------------- MODULE Errno -------------------------------
(***************************************************************************)
(* The error numbers of <linux/errno.h> that the drivers and the library   *)
(* return.  As in the C code a call returns -E... on failure and a number  *)
(* that is not negative on success.                                        *)
(***************************************************************************)
EXTENDS Integers

EPERM == 1
EAGAIN == 11
ENOMEM == 12
EACCES == 13
EFAULT == 14
EINVAL == 22
ENOTTY == 25
ENOSPC == 28
ENODATA == 61
EMSGSIZE == 90
ERESTARTSYS == 512

=============================================================================
