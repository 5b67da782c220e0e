---------------------------- MODULE MCModuleLife ----------------------------
(* All six drivers, two users, and two loads, so that what a failed load has *)
(* left behind meets a second one.                                           *)
EXTENDS ModuleLife

CONSTANTS u1, u2

MCDrivers == Labs \cup {"simplechar", "calculator"}

=============================================================================
