----------------------------- MODULE MCRefresher -----------------------------
(***************************************************************************)
(* Instances of Refresher for TLC: the script alone edits the file, and it *)
(* may do so before glauth has loaded it.                                  *)
(***************************************************************************)
EXTENDS Refresher

Versions == 1 .. 3
Merging == [v \in Versions |-> v]
EmptyFile == 4
Fixed == 5
Texts == Versions \cup {EmptyFile, Fixed}
Loadable(c) == c # EmptyFile
FromTheStart ==
    {[first |-> Fixed, kinds |-> {"script"}, during |-> {"off", "loaded", "watching"},
      to |-> {}, left |-> 0]}

=============================================================================
