--------------------------- MODULE MCIcspHandshake ---------------------------
(* Instances of IcspHandshake for TLC. *)
EXTENDS IcspHandshake
CONSTANTS c1, c2

SkewNone == [c \in Client |-> 0]
SkewC2 == [c \in Client |-> IF c = c2 THEN 1 ELSE 0]
=============================================================================
