----------------------------- MODULE MCOwnCloud -----------------------------
(***************************************************************************)
(* Instances of OwnCloud for TLC: connections that share an address.       *)
(***************************************************************************)
EXTENDS OwnCloud

TwoConns == {"c1", "c2"}
OneAddr == {"a1"}
OnlyOne == [c \in TwoConns |-> "a1"]

=============================================================================
