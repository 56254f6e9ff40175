------------------------------ MODULE MCDhcp69 ------------------------------
(* Instances of Dhcp69 for TLC. *)
EXTENDS Dhcp69
CONSTANTS c1, c2, c3

HashSame == [c \in Client |-> 0]
HashC3 == [c \in Client |-> IF c = c1 THEN 0 ELSE 1]
RangeNone == [c \in Client |-> {}]
RangeC3 == [c \in Client |-> IF c = c3 THEN {0, 5} ELSE {}]
=============================================================================
