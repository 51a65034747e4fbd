----------------------------- MODULE MCDirectory -----------------------------
(***************************************************************************)
(* Instances of Directory for TLC.  Some configurations differ in users,   *)
(* groups and [backend], some stand for a database; the others have one    *)
(* user and differ in how that user proves who it is, with codes of two    *)
(* characters and of one.                                                  *)
(***************************************************************************)
EXTENDS Directory

Capitals == [Bob |-> "bob", Dev |-> "dev", GL |-> "gl"]
AllAttributes == {"cn", "ou", "dc", "*"}
AllNames ==
    {"", "*", "GL", "gl", "groups", "users", "schema", "ops", "Dev", "dev", "all",
     "Bob", "bob", "eve", "bob@gl", "eve@gl", "x"}
BaseDN == <<Rdn("dc", "gl")>>
Capital == <<Rdn("dc", "GL")>>

\* Secrets.
Genuine == {<<"y", "y">>, <<"t", "y">>}
Plain == [yubikey |-> None, otpSecret |-> None, apps |-> {}, custom |-> None,
          bcrypt |-> <<"p">>, sha256 |-> None]
Secrets ==
    [yubikey : {None, <<"y">>}, otpSecret : {None, <<"t">>, <<"y">>},
     apps : {{}, {<<"p", "p", "t">>, <<"p", "y", "y">>}}, custom : {None, {<<"p", "t">>}},
     bcrypt : {None, BadHex, <<"p">>}, sha256 : {None, <<"p">>}]
Attempts == UNION {[1 .. n -> {"p", "t", "y"}] : n \in 0 .. 4}

\* Users and groups.
User(name, mail, gid, objects, secret) ==
    [name |-> name, mail |-> mail, gid |-> gid, capabilities |-> objects,
     secret |-> secret, disabled |-> FALSE]
Group(name, gid) == [name |-> name, gid |-> gid]

Bobs == {User("Bob", "bob@gl", gid, objects, Plain) :
           gid \in 1 .. 3, objects \in {{}, {AnyObject}, {OuUsers \o BaseDN}}}
Eve == User("eve", "eve@gl", 1, {AnyObject}, Plain)
Groups == <<Group("ops", 1), Group("Dev", 2), Group("all", 1)>>

Config(users, groupFormat, ignore, dse, on, base) ==
    [sql |-> FALSE, users |-> users, groups |-> Groups, baseDN |-> base,
     nameFormat |-> "cn", groupFormat |-> groupFormat,
     ignoreCapabilities |-> ignore, anonymousDSE |-> dse, yubikeyAuth |-> on]

Trees ==
    {Config(<<b, Eve>>, f, FALSE, TRUE, TRUE, BaseDN) : b \in Bobs, f \in {"ou", "cn"}}
    \cup {Config(<<b>>, "ou", ignore, FALSE, TRUE, base)
            : b \in Bobs, ignore \in BOOLEAN, base \in {BaseDN, Capital}}

\* Rows: Bob is disabled or not, or there twice.
Rows ==
    {[Config(users, "ou", FALSE, TRUE, TRUE, BaseDN) EXCEPT !.sql = TRUE]
       : users \in UNION {{<<[b EXCEPT !.disabled = d], Eve>>, <<b, [b EXCEPT !.disabled = d]>>}
                          : b \in {x \in Bobs : x.gid # 3}, d \in BOOLEAN}}

OneUser ==
    {Config(<<User("eve", "eve@gl", 1, {}, s)>>, "ou", FALSE, FALSE, on, BaseDN)
       : s \in Secrets, on \in BOOLEAN}

Name(v) == <<Rdn("cn", v)>>
Ou(v) == <<Rdn("ou", v)>>

TreeNames == {Anonymous, ByMail("bob@gl"),
              ByDN(Name("Bob") \o BaseDN), ByDN(Name("eve") \o BaseDN),
              ByDN(Name("bob") \o Ou("ops") \o BaseDN),
              ByDN(Name("bob") \o Ou("Dev") \o OuUsers \o BaseDN),
              ByDN(Name("bob") \o Ou("ops") \o OuGroups \o BaseDN),
              ByDN(Name("bob") \o Schema)}
EveAlone == {ByDN(Name("eve") \o BaseDN)}

AllConfigs == Trees \cup Rows \cup OneUser
AllBinds ==
    [c \in AllConfigs |->
       IF c \notin OneUser THEN [who : TreeNames, pw : {<<>>, <<"p">>}]
       ELSE [who : EveAlone, pw : Attempts]]

AllBases ==
    {<<>>, Schema, BaseDN, OuUsers \o BaseDN, OuGroups \o BaseDN,
     Ou("ops") \o BaseDN, Ou("ops") \o OuUsers \o BaseDN,
     Ou("ops") \o OuGroups \o BaseDN, Ou("Dev") \o OuUsers \o BaseDN,
     Name("Bob") \o Ou("ops") \o BaseDN,
     Name("Bob") \o Ou("ops") \o OuUsers \o BaseDN, Ou("x")}

AllRequests ==
    [c \in AllConfigs |->
       IF c \notin OneUser
       THEN [base : AllBases, scope : {"base", "one", "sub"},
             filter : {"", "posixgroup", "posixaccount", "person"}]
       ELSE {}]

=============================================================================
