----------------------------- MODULE MCSqlGroups -----------------------------
(***************************************************************************)
(* Every table of up to three rows over the groups 1 and 2, in every order *)
(* of its rows, which may include the group 3 that is not in the table.    *)
(* Three rows make up to three entries, two of them with the same number.  *)
(***************************************************************************)
EXTENDS SqlGroups

Entries == 1 .. 3
Numbers == 0 .. 3
Row == [gid : 1 .. 2, included : Numbers]

\* A left join has a row with NULL for a group that includes nothing, only.
Joined(result) ==
    \A i, j \in DOMAIN result :
        i # j => /\ result[i] # result[j]
                 /\ result[i].gid = result[j].gid => result[i].included # 0

Results == {r \in UNION {[1 .. n -> Row] : n \in 1 .. 3} : Joined(r)}

=============================================================================
