------------------------------- MODULE Startup -------------------------------
(***************************************************************************)
(* The glauth process around the watcher of ConfigWatch and the script of  *)
(* Refresher: what a configuration means (ConfigPipeline), the server that *)
(* NewServer builds from it (v2/pkg/server/server.go) and the listeners    *)
(* startService starts (v2/glauth.go).  main goes on to read activeConfig  *)
(* while the watcher's goroutine may already be replacing it.              *)
(*                                                                         *)
(* External: plugins, which may not load; listening always succeeds.       *)
(***************************************************************************)
EXTENDS Refresher, ConfigPipeline

CONSTANT MaxHandlers     \* 10, the slots of the array of handlers

ASSUME StartupAssumption ==
    /\ \A c \in Contents : Valid(c) <=> Accepted(c)
    /\ MaxHandlers \in Nat
    /\ Nil \notin [listen : STRING, cert : STRING]

\* External: what the TOML decoder accepts fills the fields of config.Config
\* with values of their types; flags are strings, whether given or not.
Args == [ldap : STRING, ldaps : STRING, cert : STRING]

ASSUME DecoderAssumption ==
  /\ NoArgs \in Args
  /\ \A c \in Contents :
      /\ c.dir \in BOOLEAN
      /\ c.docs \in Seq(ToSet(c.docs)) /\ (~c.dir => Len(c.docs) = 1)
      /\ c.args \in Args
      /\ Accepted(c) => \A d \in ToSet(c.docs) :
           /\ \A t \in Tables \cap DOMAIN d : \A n \in DOMAIN d[t] :
                d[t][n] \in IF n \in {"enabled", "tls"} THEN BOOLEAN ELSE STRING
           /\ \A l \in Lists \cap DOMAIN d : d[l] \in Seq(STRING)
           /\ "yubikey" \in DOMAIN d => d["yubikey"] \in STRING

VARIABLES
    handlers,       \* HandlerWrapper.Handlers: the datastore of each slot
    count,          \* HandlerWrapper.Count
    yubikey,        \* the credentials of the server's yubiAuth; Nil: no server
    background,     \* the goroutine that is to listen for LDAP is not there yet
    plain,          \* the address listened on for LDAP, or Nil
    tls,            \* the address and the certificate for LDAPS, or Nil
    seen            \* history: what was in force until main was done

listeners == <<background, plain, tls>>
server == <<handlers, count, yubikey>>
svars == <<rvars, server, listeners, seen>>

InForce == Config(active)

SInit ==
    /\ RInit
    /\ handlers = <<>>
    /\ count = -1
    /\ yubikey = Nil
    /\ background = FALSE
    /\ plain = Nil
    /\ tls = Nil
    /\ seen = {}

-----------------------------------------------------------------------------
(* startService, once the watcher is there.  main blocks when it listens.   *)

MainGoes(l) ==
    /\ main' = l
    /\ UNCHANGED <<disk, watch, events, active, watcher, edits, script, portal,
                   crashes, seen>>

\* Slip: backendCounter starts with the first slot.
WireFromZero ==
    /\ main = "watching"
    /\ Len(InForce.backends) <= MaxHandlers
    /\ handlers' = InForce.backends
    /\ count' = Len(InForce.backends)
    /\ yubikey' = InForce.yubikey
    /\ MainGoes("wired")
    /\ UNCHANGED listeners

\* NewServer: the slots are filled in the order of [[backends]].
Wire ==
    /\ main = "watching"
    /\ Len(InForce.backends) <= MaxHandlers
    /\ handlers' = InForce.backends
    /\ count' = count + Len(InForce.backends)
    /\ yubikey' = InForce.yubikey
    /\ MainGoes("wired")
    /\ UNCHANGED listeners

\* A plugin does not load, or there are more backends than slots: a panic.
WireFails ==
    /\ main = "watching"
    /\ \/ "plugin" \in ToSet(InForce.backends)
       \/ Len(InForce.backends) > MaxHandlers
    /\ MainGoes("exited")
    /\ UNCHANGED <<server, listeners>>

\* Slip: main never waits for the listener it has started.
StartLdapNeverBlocks ==
    /\ main = "wired"
    /\ background' = InForce.ldap.enabled
    /\ MainGoes("ldaps")
    /\ UNCHANGED <<server, plain, tls>>

\* if activeConfig.LDAP.Enabled { .. }
StartLdap ==
    /\ main = "wired"
    /\ IF InForce.ldap.enabled /\ ~InForce.ldaps.enabled
       THEN plain' = InForce.ldap.listen /\ MainGoes("serving") /\ UNCHANGED background
       ELSE background' = InForce.ldap.enabled /\ MainGoes("ldaps") /\ UNCHANGED plain
    /\ UNCHANGED <<server, tls>>

\* go func() { s.ListenAndServe() .. }
ListenInBackground ==
    /\ background
    /\ main # "exited"
    /\ background' = FALSE
    /\ plain' = InForce.ldap.listen
    /\ MainGoes(main)
    /\ UNCHANGED <<server, tls>>

\* if activeConfig.LDAPS.Enabled { .. }; without it main runs to its end.
StartLdaps ==
    /\ main = "ldaps"
    /\ IF InForce.ldaps.enabled
       THEN /\ tls' = [listen |-> InForce.ldaps.listen, cert |-> InForce.ldaps.cert]
            /\ MainGoes("serving")
       ELSE MainGoes("exited") /\ UNCHANGED tls
    /\ UNCHANGED <<server, background, plain>>

Main == Wire \/ WireFails \/ StartLdap \/ StartLdaps

Done == main = "serving" /\ ~background

\* A step of Refresher.
Meanwhile(A) ==
    /\ A
    /\ seen' = IF Done THEN seen ELSE seen \cup ({active'} \ {Nil})
    /\ UNCHANGED <<server, listeners>>

SNext == Meanwhile(RNext) \/ Main \/ ListenInBackground

SSpec == SInit /\ [][SNext]_svars

\* As in Refresher, and main and the goroutine it starts are scheduled.
SFairSpec ==
    /\ SSpec
    /\ WF_svars(Meanwhile(Elsewhere(Load \/ FirstWatch)) \/ Main)
    /\ WF_svars(Meanwhile(Elsewhere(Watcher))) /\ WF_svars(Meanwhile(Elsewhere(DropBackup)))
    /\ WF_svars(Meanwhile(Script)) /\ WF_svars(ListenInBackground)

-----------------------------------------------------------------------------
(* Properties.                                                             *)

\* Every variable keeps its type.
STypeOK ==
    /\ RTypeOK
    /\ handlers \in Seq({"config", "ldap", "owncloud", "plugin"})
    /\ count \in -1 .. MaxHandlers - 1
    /\ yubikey \in STRING \cup {Nil}
    /\ background \in BOOLEAN
    /\ plain \in STRING \cup {Nil}
    /\ tls \in [listen : STRING, cert : STRING] \cup {Nil}
    /\ seen \subseteq Contents

\* What a configuration says of a setting, in whichever of its files.
Said(c, table, name) ==
    {d[table][name] : d \in {e \in ToSet(c.docs) : table \in DOMAIN e /\ name \in DOMAIN e[table]}}

\* Does it enable the listener, if nothing but its own section is looked at?
SaysEnabled(c, table) ==
    \/ TRUE \in Said(c, table, "enabled")
    \/ table = "ldaps" /\ ~c.dir /\ Said(c, table, "enabled") = {}

\* The address for a listener: that of the command line, else that of its
\* section; where [frontend] has one, that one and no other.
Address(c, table, flag) ==
    IF Said(c, "frontend", "listen") \ {Unset} # {}
    THEN IF (TRUE \in Said(c, "frontend", "tls")) = (table = "ldaps")
         THEN Said(c, "frontend", "listen") ELSE {}
    ELSE IF flag # Unset THEN {flag}
    ELSE IF SaysEnabled(c, table) THEN Said(c, table, "listen") ELSE {}

\* Once startService is done, unless a reload came in between, glauth listens
\* where command line and configuration say it should and nowhere else: file
\* or directory, old form or new, LDAP alone, LDAPS alone, or both.
ListensAsConfigured ==
    Done => \A c \in seen : seen = {c} =>
        LET ldap == Address(c, "ldap", c.args.ldap)
            ldaps == Address(c, "ldaps", c.args.ldaps) IN
        /\ plain \in IF ldap = {} THEN {Nil} ELSE ldap
        /\ IF ldaps = {} THEN tls = Nil ELSE tls # Nil /\ tls.listen \in ldaps

\* The same is said in one file and in the files of a directory, lists in the
\* order of the files.
SaysTheSame(c, d) ==
    /\ c.args = d.args
    /\ UNION {DOMAIN e : e \in ToSet(c.docs)} = UNION {DOMAIN e : e \in ToSet(d.docs)}
    /\ \A t \in Tables : \A n \in {"enabled", "listen", "cert", "tls", "datastore"} :
         Said(c, t, n) = Said(d, t, n)
    /\ {e["yubikey"] : e \in {f \in ToSet(c.docs) : "yubikey" \in DOMAIN f}}
         = {e["yubikey"] : e \in {f \in ToSet(d.docs) : "yubikey" \in DOMAIN f}}
    /\ \A l \in Lists :
         LET of(x) == FlattenSeq([i \in DOMAIN x.docs |-> Entries(x.docs[i], l)]) IN
         of(c) = of(d)

\* Splitting a configuration into files changes nothing, provided it says what
\* is enabled: "we are not going to use the default values .. so do not forget
\* to specify them!"
SplittingChangesNothing ==
    main = "loaded" /\ active.dir /\ Said(active, "ldaps", "enabled") # {} =>
        \A c \in Contents : ~c.dir /\ SaysTheSame(c, active) =>
            Accepted(c) /\ Config(c) = InForce

\* The slots at which a bind of the LDAP backend looks for the user.
Asked == {i \in 1 .. MaxHandlers : i = 1 \/ i - 2 < count}

\* The LDAP backend asks every backend for the user whose code it checks, and
\* never an empty slot.
EveryBackendAsked ==
    \A i \in DOMAIN handlers : handlers[i] = "ldap" => Asked = DOMAIN handlers

\* main leaves a server that is set up only if a reload came while it read the
\* listener sections.
StaysUnlessReloaded ==
    [][main = "ldaps" /\ main' = "exited" => \E c, d \in seen : c # d]_svars

\* Hot reload "does NOT work" for [ldap], [ldaps], [backend] and [api]
\* (v2/sample-simple.cfg:11): for the rest, such as the access to the Yubico
\* service, the server goes by the configuration in force.
YubikeyReloaded == Done /\ Settled => yubikey = InForce.yubikey

=============================================================================
