----------------------------- MODULE MCLdapProxy -----------------------------
(***************************************************************************)
(* Instances of LdapProxy for TLC.                                         *)
(***************************************************************************)
EXTENDS LdapProxy

\* The second server is the faster one.
TwoServers == <<{2}, {1}>>

=============================================================================
