---------------------------- MODULE MCHeciExchange -----------------------------
(* Instances of HeciExchange for TLC. With three dwords in a buffer a packet  *)
(* has at most 8 bytes: a message of 12 bytes takes two of them, one of 4     *)
(* takes one, and one of 9 is a byte longer than a packet.                    *)
EXTENDS HeciExchange

\* HeciExchange.cfg
MCCommands == {"whole", "over"}
MCReqLength == [c \in MCCommands |-> IF c = "whole" THEN 12 ELSE 9]
MCAckLength == [c \in MCCommands |-> IF c = "whole" THEN 12 ELSE 0]
MCRecLengths == [c \in MCCommands |-> IF c = "whole" THEN {4, 12} ELSE {0}]

\* HeciAck.cfg
MCAckCommands == {"long", "short"}
MCAckReqLength == [c \in MCAckCommands |-> IF c = "long" THEN 12 ELSE 4]
MCShortAck == [c \in MCAckCommands |-> 4]
MCAckRecLengths == [c \in MCAckCommands |-> IF c = "long" THEN {0} ELSE {4, 12}]
===============================================================================
