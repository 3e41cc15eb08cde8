------------------------------ MODULE MCIoTrap ------------------------------
(***************************************************************************)
(* Values of IoTrap's constants for TLC: shared ranges of 8 bytes instead  *)
(* of 256, two dwords each; clients of every kind, and the cycles in and   *)
(* around what they ask for.                                               *)
(***************************************************************************)
EXTENDS IoTrap

MCPoolBases == <<32>>

Std(address, len, type) ==
  [address |-> address, len |-> len, type |-> type, ex |-> FALSE, be |-> {}, bem |-> Lanes]
Ex(address, len, type, be) ==
  [address |-> address, len |-> len, type |-> type, ex |-> TRUE, be |-> be, bem |-> {}]

MCRequests ==
  { Std(0, 1, "readwrite"), Std(0, 4, "read"), Std(0, 8, "readwrite"),
    Std(22, 2, "readwrite"), Ex(24, 4, "write", {1}) }

\* The first example of IoTrapExDispatch.h that traps one byte of a dword, and a child for
\* the byte below it.
PauseRequests == { Std(23, 1, "write"), Ex(24, 4, "read", {1}) }

Cy(address, bytes, type) == [address |-> address, bytes |-> bytes, type |-> type]

MCCycles ==
  { Cy(20, {2, 3}, "read"), Cy(24, {1}, "write"),
    Cy(32, {1}, "read"), Cy(36, {0}, "write") }
=============================================================================
