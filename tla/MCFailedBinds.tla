--------------------------- MODULE MCFailedBinds ---------------------------
(***************************************************************************)
(* Instances of FailedBinds for TLC.  The configurations choose between    *)
(* connections that each have an address of their own and connections that *)
(* share one, and which [behaviors] a reload may install.                  *)
(***************************************************************************)
EXTENDS FailedBindsThrottle

TwoConns == {1, 2}
OwnAddress == [c \in TwoConns |-> IF c = 1 THEN "a1" ELSE "a2"]
OneAddress == [c \in TwoConns |-> "a1"]
TwoAddresses == {"a1", "a2"}
TheAddress == {"a1"}

TwoEach == [s \in TwoAddresses |-> 2]
ThreeEach == [s \in TwoAddresses |-> 3]
TwoAndOne == [s \in TwoAddresses |-> IF s = "a1" THEN 2 ELSE 1]

Cells3 == 1 .. 3

Limited(n) == [LimitFailedBinds |-> TRUE, NumberOfFailedBinds |-> n]
Unlimited(n) == [LimitFailedBinds |-> FALSE, NumberOfFailedBinds |-> n]

One == Limited(1)
Two == Limited(2)
OnlyOne == {Limited(1)}
OnlyTwo == {Limited(2)}
OffOrTwo == {Unlimited(2), Limited(2)}

=============================================================================
