------------------------------ MODULE MCStartup ------------------------------
(***************************************************************************)
(* Instances of Startup for TLC.  Every configuration of a certain form is *)
(* loaded once and left alone; a few are edited in every way ConfigWatch   *)
(* and Refresher know, once glauth serves or while it starts.              *)
(***************************************************************************)
EXTENDS Startup

LdapArgs == [NoArgs EXCEPT !.ldap = "p9"]
LdapsArgs == [NoArgs EXCEPT !.ldaps = "s9", !.cert = "c9"]

\* Sections; {} leaves a section out.
Opt(section, values) == {[s \in {section} |-> v] : v \in values} \cup {<<>>}
Both(S, T) == {d @@ e : d \in S, e \in T}

LdapSections ==
    Opt("ldap", {[enabled |-> TRUE, listen |-> "p1"], [enabled |-> FALSE, listen |-> "p1"],
                 [enabled |-> TRUE], [listen |-> "p1"]})
LdapsSections ==
    Opt("ldaps", {[enabled |-> TRUE, listen |-> "s1", cert |-> "c1"],
                  [listen |-> "s1", cert |-> "c1"], [enabled |-> TRUE, listen |-> "s1"],
                  [enabled |-> FALSE]})
FrontendSections ==
    Opt("frontend", {[listen |-> "f1"], [listen |-> "f1", tls |-> TRUE, cert |-> "c2"]})
BackendSections ==
    Both(Opt("backend", {[datastore |-> "config"], [datastore |-> ""]}),
         Opt("backends", {<<"ldap">>, <<"ldap", "config">>, <<"", "owncloud">>, <<"x">>,
                          <<"plugin">>, <<"ldap", "config", "config">>}))

\* Files that start, and what they are changed to.
Start(enabled, others) ==
    [ldap |-> [enabled |-> "ldap" \in enabled, listen |-> "p1"],
     ldaps |-> [enabled |-> "ldaps" \in enabled, listen |-> "s1", cert |-> "c1"]]
    @@ others

Plain(users) == OneFile(Start({"ldap"}, [users |-> users]))
WithKey(key) == OneFile(Start({"ldap"}, [yubikey |-> key]))
Listening(enabled) == OneFile(Start(enabled, <<>>))
Broken == OneFile(<<>>)

Singles ==
    Both(LdapSections, Both(LdapsSections, FrontendSections))
    \cup {Start({"ldap"}, b) : b \in BackendSections}
    \cup {d @@ [users |-> <<"u1", "u2">>] : d \in Both(LdapSections, LdapsSections)}

\* A document in two parts: some sections, or one setting, or part of a list.
Only(d, S) == [s \in DOMAIN d \cap S |-> d[s]]
Parts(d) ==
    {<<Only(d, S), Only(d, DOMAIN d \ S)>> : S \in SUBSET DOMAIN d}
    \cup {<<[d EXCEPT ![s] = Only(@, {"enabled"})],
            [t \in {s} |-> Only(d[s], {"listen", "cert"})]>> : s \in DOMAIN d \cap {"ldap", "ldaps"}}
    \cup {<<[d EXCEPT ![l] = <<Head(@)>>], [k \in {l} |-> Tail(d[l])]>> : l \in DOMAIN d \cap Lists}
    \cup {<<d, d>>}

Loads ==
    {OneFile(d) : d \in Singles}
    \cup {[OneFile(d) EXCEPT !.args = a] :
            a \in {LdapArgs, LdapsArgs}, d \in Both(LdapSections, LdapsSections)}
    \cup UNION {{ManyFiles(p) : p \in Parts(d)} :
                  d \in {Start(e, o) : e \in {{"ldap"}, {"ldaps"}, {"ldap", "ldaps"}},
                           o \in {<<>>, [users |-> <<"u1", "u2">>]}}
                        \cup Both(LdapSections, LdapsSections)}

Versions == 1 .. 3
Merging == <<Plain(<<"v1">>), Plain(<<"v2">>), Plain(<<"v3">>)>>
Fixed == Plain(<<>>)

Keys == {WithKey(""), WithKey("k1"), WithKey(BadYubikey)}
Starting == {Listening({"ldap"}), Listening({"ldaps"}), Listening({"ldap", "ldaps"})}
Edited == {Fixed, Merging[1], Broken}

AllContents ==
    Loads \cup Keys \cup Starting \cup Edited \cup {Merging[v] : v \in Versions}
    \cup {OneFile(Start(e, o)) : e \in {{"ldap"}, {"ldaps"}, {"ldap", "ldaps"}},
                                 o \in {<<>>, [users |-> <<"u1", "u2">>]}}
Loadable(c) == Accepted(c)

By(kinds, first, during, to, left) ==
    [first |-> first, kinds |-> kinds, during |-> during, to |-> to, left |-> left]
Untouched == {By({}, c, {}, {}, 0) : c \in AllContents}
Serving == {"serving"}
Always == {"watching", "wired", "ldaps", "serving"}

Everything ==
    Untouched
    \cup {By({"write", "replace"}, Fixed, Serving, Edited, 4),
          By({"unlink", "move", "create"}, Fixed, Serving, Edited, 3),
          By({"script"}, Fixed, Serving, {}, 0)}
    \cup {By({"write"}, c, Always, Starting, 2) : c \in Starting}

KeyChanges == {By({"write"}, c, Serving, Keys, 1) : c \in Keys}

=============================================================================
