--------------------------- MODULE ConfigPipeline ---------------------------
(***************************************************************************)
(* From what is on disk to the configuration doConfig installs             *)
(* (v2/glauth.go): parseConfigFile, which merges the files if the path is  *)
(* a directory, then handleArgs, handleLegacyConfig and validateConfig.    *)
(*                                                                         *)
(* A document maps the sections it has to what they hold: a table maps the *)
(* settings it has to values, a list of tables is a sequence, a scalar     *)
(* stands for itself.  The kind of a section is the one config.Config asks *)
(* for.  Only the sections that decide what is started are told apart.     *)
(***************************************************************************)
EXTENDS Naturals, SequencesExt

Tables == {"ldap", "ldaps", "frontend", "backend"}
Lists == {"backends", "users"}

\* What Go gives to a string that is not set.
Unset == ""

\* What doConfig goes by: one file, or the files of a directory in name order,
\* and the flags of the command line.
NoArgs == [ldap |-> Unset, ldaps |-> Unset, cert |-> Unset]
OneFile(doc) == [dir |-> FALSE, docs |-> <<doc>>, args |-> NoArgs]
ManyFiles(docs) == [dir |-> TRUE, docs |-> docs, args |-> NoArgs]

-----------------------------------------------------------------------------
(* mergeConfigs.                                                           *)

Shared(d, e) == DOMAIN d \cap DOMAIN e

\* e cannot be merged into d: a value that is no table and no list is in both.
Clash(d, e) ==
    \E s \in Shared(d, e) :
        \/ s \notin Tables \cup Lists
        \/ s \in Tables /\ Shared(d[s], e[s]) # {}

\* A table with what only e sets added to what d sets.
Joined(d, e) ==
    [n \in DOMAIN d \cup DOMAIN e |-> IF n \in DOMAIN d THEN d[n] ELSE e[n]]

\* Slip: a list in a later file replaces the one before.
MergeLastWins(d, e) ==
    [s \in DOMAIN d \cup DOMAIN e |->
       IF s \notin DOMAIN e THEN d[s]
       ELSE IF s \notin DOMAIN d THEN e[s]
       ELSE IF s \in Lists THEN e[s] ELSE Joined(d[s], e[s])]

Merge(d, e) ==
    [s \in DOMAIN d \cup DOMAIN e |->
       IF s \notin DOMAIN e THEN d[s]
       ELSE IF s \notin DOMAIN d THEN e[s]
       ELSE IF s \in Lists THEN d[s] \o e[s] ELSE Joined(d[s], e[s])]

\* The files are merged into an empty document one after the other.
Merged(docs) ==
    LET upTo[n \in 0 .. Len(docs)] ==
          IF n = 0 THEN <<>> ELSE Merge(upTo[n - 1], docs[n]) IN
    upTo[Len(docs)]

MergeFails(docs) == \E i, j \in DOMAIN docs : i < j /\ Clash(docs[i], docs[j])

-----------------------------------------------------------------------------
(* parseConfigFile.                                                        *)

\* A setting, or the value Go gives to what is not set.
Setting(doc, table, name, default) ==
    IF table \in DOMAIN doc /\ name \in DOMAIN doc[table] THEN doc[table][name] ELSE default

Entries(doc, list) == IF list \in DOMAIN doc THEN doc[list] ELSE <<>>

\* [backend] is the old form of the one entry of [[backends]].
Backends(doc) ==
    LET single == Setting(doc, "backend", "datastore", Unset) IN
    IF single # Unset THEN <<single>> ELSE Entries(doc, "backends")

ParseFails(disk) ==
    \/ disk.dir /\ MergeFails(disk.docs)
    \/ LET doc == Merged(disk.docs) IN
       Setting(doc, "backend", "datastore", Unset) # Unset /\ "backends" \in DOMAIN doc

\* The default of [ldaps] enabled is for a single file.
Parsed(disk) ==
    LET doc == Merged(disk.docs)
        text(table, name) == Setting(doc, table, name, Unset) IN
    [ldap |-> [enabled |-> Setting(doc, "ldap", "enabled", FALSE),
               listen |-> text("ldap", "listen")],
     ldaps |-> [enabled |-> Setting(doc, "ldaps", "enabled", ~disk.dir),
                listen |-> text("ldaps", "listen"), cert |-> text("ldaps", "cert")],
     frontend |-> [tls |-> Setting(doc, "frontend", "tls", FALSE),
                   listen |-> text("frontend", "listen"), cert |-> text("frontend", "cert")],
     backends |-> Backends(doc),
     yubikey |-> IF "yubikey" \in DOMAIN doc THEN doc["yubikey"] ELSE Unset,
     users |-> Entries(doc, "users")]

-----------------------------------------------------------------------------
(* The rest of doConfig.  A certificate stands for certificate and key.     *)

Or(value, default) == IF value # Unset THEN value ELSE default

\* Slip: a flag gives the address and leaves [ldaps] as enabled as it was.
ArgsAddressOnly(cfg, args) ==
    [cfg EXCEPT !.ldap.enabled = @ \/ args.ldap # Unset, !.ldap.listen = Or(args.ldap, @),
                !.ldaps.listen = Or(args.ldaps, @), !.ldaps.cert = Or(args.cert, @)]

\* handleArgs
WithArgs(cfg, args) ==
    [cfg EXCEPT !.ldap.enabled = @ \/ args.ldap # Unset, !.ldap.listen = Or(args.ldap, @),
                !.ldaps.enabled = @ \/ args.ldaps # Unset, !.ldaps.listen = Or(args.ldaps, @),
                !.ldaps.cert = Or(args.cert, @)]

LegacyFails(cfg) ==
    cfg.frontend.listen # Unset /\ (cfg.ldap.listen # Unset \/ cfg.ldaps.listen # Unset)

\* handleLegacyConfig: [frontend] is the old form of [ldap] and [ldaps].
WithLegacy(cfg) ==
    LET old == cfg.frontend IN
    IF old.listen = Unset THEN cfg
    ELSE [cfg EXCEPT !.ldap.enabled = ~old.tls, !.ldaps.enabled = old.tls,
                     !.ldap.listen = IF old.tls THEN @ ELSE old.listen,
                     !.ldaps.listen = IF old.tls THEN old.listen ELSE @,
                     !.ldaps.cert = Or(old.cert, @)]

\* validateConfig; an entry of [[backends]] without a datastore is "config".
ValidateFails(cfg) ==
    \/ ~cfg.ldap.enabled /\ ~cfg.ldaps.enabled
    \/ cfg.ldaps.enabled /\ (cfg.ldaps.cert = Unset \/ cfg.ldaps.listen = Unset)
    \/ cfg.ldap.enabled /\ cfg.ldap.listen = Unset
    \/ \E b \in ToSet(cfg.backends) :
         b \notin {Unset, "config", "ldap", "owncloud", "plugin"}

Validated(cfg) ==
    [cfg EXCEPT !.backends = [i \in DOMAIN @ |-> Or(@[i], "config")]]

\* External: the credentials yubigo.NewYubiAuth refuses.
BadYubikey == "not base64"

BeforeValidation(disk) == WithLegacy(WithArgs(Parsed(disk), disk.args))

\* doConfig succeeds.
Accepted(disk) ==
    /\ ~ParseFails(disk)
    /\ ~LegacyFails(WithArgs(Parsed(disk), disk.args))
    /\ ~ValidateFails(BeforeValidation(disk))
    /\ Parsed(disk).yubikey # BadYubikey

\* The configuration it installs.
Config(disk) == Validated(BeforeValidation(disk))

=============================================================================
