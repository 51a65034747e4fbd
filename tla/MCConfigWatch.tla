---------------------------- MODULE MCConfigWatch ----------------------------
(***************************************************************************)
(* Instances of ConfigWatch for TLC: two configurations that load, one     *)
(* that does not, and an editor that deletes the file and writes it anew.  *)
(***************************************************************************)
EXTENDS ConfigWatch

Texts == {"old", "new", "broken"}
Loadable(c) == c # "broken"
Unlinking ==
    {[first |-> "old", kinds |-> {"unlink", "create"}, during |-> {"watching"},
      to |-> Texts, left |-> 4]}

=============================================================================
