------------------------------ MODULE Directory ------------------------------
(***************************************************************************)
(* Bind and Search of v2/pkg/handler/ldapopshelper.go over the config      *)
(* backend or a database, for one client connection, with reloads of the   *)
(* configuration and changes of the database in between: how a bind DN     *)
(* names a user, which searches are refused, which stage of the chain      *)
(* answers the others, and what the client sees.                           *)
(*                                                                         *)
(* A DN is a sequence of components [a |-> attribute, v |-> value], the    *)
(* most specific first.  The throttle of FailedBinds is left out.          *)
(*                                                                         *)
(* External: the front end (github.com/nmcclain/ldap).  It handles the     *)
(* requests of a connection one after the other, keeps the DN of the last  *)
(* bind that succeeded, and, with EnforceLDAP set, filters what Search     *)
(* returns by filter and scope, subtree searches by filter only.           *)
(***************************************************************************)
EXTENDS BindDecision, SequencesExt

CONSTANTS
    Attributes,     \* of the components of DNs
    Names,          \* their values, names and mail addresses
    Configs,        \* configurations, or contents of the database (`sql`)
    Lower,          \* strings.ToLower, on the values that are not lower case
    Binds,          \* what the client may bind with under each of them
    Requests        \* what it may search for under each of them

DN == Seq([a : Attributes, v : Names])

ASSUME NameAssumption ==
    /\ None \notin Names /\ DOMAIN Lower \subseteq Names
    /\ {"ou", "cn", "*"} \subseteq Attributes
    /\ {"", "groups", "users", "schema", "*"} \subseteq Names \ DOMAIN Lower
    /\ \A v \in DOMAIN Lower : Lower[v] \in Names \ DOMAIN Lower

ASSUME ConfigAssumption ==
    \A c \in Configs :
      /\ c.sql \in BOOLEAN
      /\ c.baseDN \in DN
      /\ {c.nameFormat, c.groupFormat} \subseteq Attributes
      /\ c.users \in Seq(ToSet(c.users)) /\ c.groups \in Seq(ToSet(c.groups))
      /\ \A u \in ToSet(c.users) : {u.name, u.mail} \subseteq Names
      /\ \A g \in ToSet(c.groups) : g.name \in Names

ASSUME RequestAssumption ==
    /\ DOMAIN Binds = Configs /\ DOMAIN Requests = Configs
    /\ \A c \in Configs : \A b \in Binds[c] :
         b.pw \in Seq(ToSet(b.pw)) /\ b.who \in [dn : DN, mail : Names \cup {None}]
    /\ \A c \in Configs : \A req \in Requests[c] :
         req \in [base : DN, scope : {"base", "one", "sub"}, filter : STRING]

VARIABLES
    cfg,            \* activeConfig, and the backend's settings and rows
    boundDN,        \* whom the front end takes the connection for
    answer          \* of the request just handled, until it is delivered

vars == <<cfg, boundDN, answer>>

-----------------------------------------------------------------------------
Rdn(attr, value) == [a |-> attr, v |-> value]
OuGroups == <<Rdn("ou", "groups")>>
OuUsers == <<Rdn("ou", "users")>>
Schema == <<Rdn("cn", "schema")>>
AnyObject == <<Rdn("*", "*")>>

LowerValue(v) == IF v \in DOMAIN Lower THEN Lower[v] ELSE v
LowerDN(dn) == [i \in DOMAIN dn |-> [dn[i] EXCEPT !.v = LowerValue(@)]]
EqualFold(v, w) == LowerValue(v) = LowerValue(w)

\* baseDN of the helper's methods
Base == LowerDN(cfg.baseDN)

\* The components of dn above which the base DN starts.
Above(dn) == SubSeq(dn, 1, Len(dn) - Len(Base))

ByDN(dn) == [dn |-> dn, mail |-> None]
ByMail(mail) == [dn |-> <<>>, mail |-> mail]
Anonymous == ByDN(<<>>)

\* Of the places of a list that pass a test the config backend takes the last,
\* a query the first row the database returns; 0 if there is none.
Match(places) ==
    IF places = {} THEN 0 ELSE IF cfg.sql THEN Min(places) ELSE Max(places)

\* strings.TrimPrefix(part, attr + "="): with another attribute the rest is
\* not a name anybody has.
NameIn(part, attr) == IF part.a = attr THEN part.v ELSE None

\* Slip: the row's disabled column is not looked at.
EnabledAnyway(i) == i

\* The user of row i, unless it is a disabled one in the database.
Enabled(i) == IF i # 0 /\ cfg.sql /\ cfg.users[i].disabled THEN 0 ELSE i

FindUser(name) ==
    Enabled(Match({i \in DOMAIN cfg.users : EqualFold(cfg.users[i].name, name)}))
FindUserByMail(mail) ==
    Enabled(Match({i \in DOMAIN cfg.users : EqualFold(cfg.users[i].mail, mail)}))
FindGroup(name) ==
    Match({i \in DOMAIN cfg.groups : EqualFold(cfg.groups[i].name, name)})

\* Slip: the users node is not allowed for.
WellFormedShort(parts) == Len(parts) \in {1, 2}

\* len(parts) is 1, 2, or 3 with a last part that names the users node
WellFormed(parts) ==
    \/ Len(parts) \in {1, 2}
    \/ Len(parts) = 3 /\ parts[3] = Rdn(cfg.groupFormat, "users")

\* The group that a DN of two or three parts names.
GroupPart(parts) ==
    IF Len(parts) = 1 THEN "" ELSE NameIn(parts[2], cfg.groupFormat)

\* The user's primary group is the named one; no name, no check.
InGroup(i, name) ==
    \/ name = ""
    \/ FindGroup(name) # 0
       /\ cfg.groups[FindGroup(name)].gid = cfg.users[i].gid

\* findUser: the user's place in the list, 0 if the name is no good.
UserOf(who, checkGroup) ==
    LET dn == LowerDN(who.dn)
        parts == Above(dn)
        i == FindUser(NameIn(parts[1], cfg.nameFormat)) IN
    IF who.mail # None THEN FindUserByMail(who.mail)
    ELSE IF /\ IsStrictSuffix(Base, dn)
            /\ WellFormed(parts)
            /\ i # 0
            /\ checkGroup => InGroup(i, GroupPart(parts))
         THEN i ELSE 0

-----------------------------------------------------------------------------
(* What the backend lists.  Data other than DN and class is left out.      *)

\* getGroupName: the first group with this number
GroupName(gid) ==
    LET places == {i \in DOMAIN cfg.groups : cfg.groups[i].gid = gid} IN
    IF places = {} THEN "" ELSE cfg.groups[Min(places)].name

Entry(class, dn) == [class |-> class, dn |-> dn]

FindPosixAccounts(hierarchy) ==
    {Entry("posixaccount",
           <<Rdn(cfg.nameFormat, u.name), Rdn(cfg.groupFormat, GroupName(u.gid))>>
           \o hierarchy \o cfg.baseDN) : u \in ToSet(cfg.users)}

FindPosixGroups(hierarchy) ==
    {Entry(IF hierarchy = OuGroups THEN "groupofuniquenames" ELSE "posixgroup",
           <<Rdn(cfg.groupFormat, g.name)>> \o hierarchy \o cfg.baseDN)
       : g \in ToSet(cfg.groups)}

Node(dn) == Entry("organizationalunit", dn)

\* preFilterEntries
Under(base, entries) == {e \in entries : IsSuffix(base, e.dn)}

-----------------------------------------------------------------------------
(* Search.  A request is [base, scope, filter]; `fails` is the set of those *)
(* of its reads that return an error, each on its own, and `lost` what it   *)
(* does not find because the rows of a read broke off, which no loop over   *)
(* rows notices.                                                            *)

\* Slip: a capability extends to what is below its object.
CapableBelow(i, base) ==
    \/ cfg.ignoreCapabilities
    \/ AnyObject \in cfg.users[i].capabilities
    \/ \E object \in cfg.users[i].capabilities : IsSuffix(object, base)

\* checkCapability, unless capabilities are ignored
Capable(i, base) ==
    \/ cfg.ignoreCapabilities
    \/ {AnyObject, base} \cap cfg.users[i].capabilities # {}

\* Why a search is refused, "" if it is not.  The code also tests that the
\* user's DN is under the base DN; UserOf has seen to that.
Refusal(who, req) ==
    LET base == LowerDN(req.base)
        i == UserOf(who, FALSE) IN
    IF who # Anonymous /\ i = 0 THEN "InvalidCredentials"
    ELSE IF base = <<>> /\ req.scope # "base" THEN "UnwillingToPerform"
    ELSE IF base = <<>> /\ who = Anonymous /\ ~cfg.anonymousDSE
         THEN "InsufficientAccessRights"
    ELSE IF base = <<>> THEN ""
    ELSE IF who = Anonymous THEN "InsufficientAccessRights"
    ELSE IF base = Schema THEN ""
    ELSE IF ~IsSuffix(cfg.baseDN, base) \/ ~Capable(i, base)
         THEN "InsufficientAccessRights"
    ELSE ""

\* What a read of the backend adds.
Read(read, fails, entries) == IF read \in fails THEN {} ELSE entries

\* The node itself, for a search that includes its base.
Itself(base, scope) == IF scope # "one" THEN {Node(base)} ELSE {}

\* searchMaybeTopLevelNodes
TopLevelNodes(base, scope, fails) ==
    Itself(base, scope)
    \cup {Node(OuGroups \o base), Node(OuUsers \o base)}
    \cup (IF scope = "sub"
          THEN Read("node groups", fails, FindPosixGroups(OuUsers))
               \cup Read("node accounts", fails, FindPosixAccounts(OuUsers))
          ELSE {})

\* searchMaybeTopLevelGroupsNode
TopLevelGroupsNode(base, scope, fails) ==
    Itself(base, scope)
    \cup (IF scope # "base"
          THEN Read("node groups", fails, FindPosixGroups(OuGroups)) ELSE {})

\* Slip: a subtree search lists the accounts and forgets the groups.
UsersNodeWithoutGroups(base, scope, fails) ==
    Itself(base, scope)
    \cup (IF scope = "one"
          THEN Read("node groups", fails, FindPosixGroups(OuUsers)) ELSE {})
    \cup (IF scope = "sub"
          THEN Read("node accounts", fails, FindPosixAccounts(OuUsers)) ELSE {})

\* searchMaybeTopLevelUsersNode
TopLevelUsersNode(base, scope, fails) ==
    Itself(base, scope)
    \cup (IF scope # "base"
          THEN Read("node groups", fails, FindPosixGroups(OuUsers)) ELSE {})
    \cup (IF scope = "sub"
          THEN Read("node accounts", fails, FindPosixAccounts(OuUsers)) ELSE {})

\* Slip: the node a group DN is under is not looked at.
HierarchyFixed(base, filter) ==
    IF filter = "posixgroup" \/ Len(Above(base)) = 2 THEN OuGroups ELSE <<>>

\* The node searchMaybePosixGroups looks under: ou=groups for a search by
\* class, the parent for a search at or under a group's own DN, else none.
Hierarchy(base, filter) ==
    LET parent == IF Len(Above(base)) = 2 THEN SubSeq(base, 2, 2) ELSE <<>> IN
    IF filter = "posixgroup" THEN OuGroups
    ELSE IF parent \in {OuGroups, OuUsers} THEN parent
    ELSE <<>>

\* searchMaybePosixGroups
PosixGroups(base, scope, hierarchy, fails) ==
    (IF scope # "one"
     THEN Read("group", fails, Under(base, FindPosixGroups(hierarchy))) ELSE {})
    \cup (IF scope # "base" /\ hierarchy = OuUsers
          THEN Read("group accounts", fails, Under(base, FindPosixAccounts(OuUsers))) ELSE {})

\* Slip: a filter for accounts is not recognised.
Unfiltered == {""}

\* What searchMaybePosixAccounts takes; shadowaccount is like posixaccount.
Accountable == {"", "posixaccount"}

\* searchMaybePosixAccounts, which ignores the scope
PosixAccounts(base, fails) ==
    Read("accounts", fails,
         FindPosixAccounts(IF IsSuffix(OuUsers \o Base, base) THEN OuUsers ELSE <<>>))

\* The reads that a stage makes.
ReadsOf(stage, scope, hierarchy) ==
    CASE stage = "top" -> IF scope = "sub" THEN {"node groups", "node accounts"} ELSE {}
      [] stage = "groups node" -> IF scope = "base" THEN {} ELSE {"node groups"}
      [] stage = "users node" ->
           (IF scope = "base" THEN {} ELSE {"node groups"})
           \cup (IF scope = "sub" THEN {"node accounts"} ELSE {})
      [] stage = "groups" ->
           (IF scope = "one" THEN {} ELSE {"group"})
           \cup (IF scope # "base" /\ hierarchy = OuUsers THEN {"group accounts"} ELSE {})
      [] stage = "accounts" -> {"accounts"}

\* Slip: a stage reports what it has when a read fails.
GivesUpNever(stage, scope, hierarchy, fails) == FALSE

\* A stage in which a read fails returns OperationsError.
GivesUp(stage, scope, hierarchy, fails) ==
    ReadsOf(stage, scope, hierarchy) \cap fails # {}

\* The entries of a tree search.  The stages are tried in this order; one
\* that gives up is passed over like one that is not concerned, and when no
\* stage is left the search succeeds with no entries.
TreeEntries(req, fails) ==
    LET base == LowerDN(req.base)
        hierarchy == Hierarchy(base, req.filter)
        goesOn(stage) == ~GivesUp(stage, req.scope, hierarchy, fails) IN
    IF base = Base /\ goesOn("top")
    THEN TopLevelNodes(base, req.scope, fails)
    ELSE IF base = OuGroups \o Base /\ goesOn("groups node")
    THEN TopLevelGroupsNode(base, req.scope, fails)
    ELSE IF base = OuUsers \o Base /\ goesOn("users node")
    THEN TopLevelUsersNode(base, req.scope, fails)
    ELSE IF hierarchy # <<>> /\ goesOn("groups")
    THEN PosixGroups(base, req.scope, hierarchy, fails)
    ELSE IF req.filter \in Accountable /\ goesOn("accounts")
    THEN PosixAccounts(base, fails)
    ELSE {}

\* The search gets as far as reading a database.
ReadsRows(req) == cfg.sql /\ Refusal(boundDN, req) = ""

\* The reads of a request that may fail: of a database, or of schema files.
MayFail(req) ==
    LET base == LowerDN(req.base)
        hierarchy == Hierarchy(base, req.filter)
        Of(stage, concerned) ==
            IF concerned /\ ReadsRows(req) THEN ReadsOf(stage, req.scope, hierarchy) ELSE {} IN
    Of("top", base = Base)
    \cup Of("groups node", base = OuGroups \o Base)
    \cup Of("users node", base = OuUsers \o Base)
    \cup Of("groups", hierarchy # <<>>)
    \cup Of("accounts", req.filter \in Accountable)
    \cup (IF base = Schema THEN {"schema"} ELSE {})

\* What a search of a database may miss: nobody looks at rows.Err, and rows come
\* in no particular order.
MayLose(req, fails) ==
    IF ReadsRows(req)
    THEN {e \in TreeEntries(req, fails) : e.class # "organizationalunit"} ELSE {}

\* External: what the front end lets through.
Passes(e, req) ==
    /\ req.filter \in {"", e.class} \/ e.class \in {"dse", "schema"}
    /\ CASE req.scope = "base" -> e.dn = req.base
         [] req.scope = "one" -> Len(e.dn) > 1 /\ Tail(e.dn) = req.base
         [] OTHER -> TRUE

Through(req, entries) == {e \in entries : Passes(e, req)}

\* What the client sees of a tree search that is allowed.
Seen(req) == Through(req, TreeEntries(req, {}))

Entries(req, fails) ==
    CASE req.base = <<>> -> {Entry("dse", <<>>)}
      [] LowerDN(req.base) = Schema -> {Entry("schema", Schema)}
      [] OTHER -> TreeEntries(req, fails)

-----------------------------------------------------------------------------
NoAnswer == [op |-> "none"]

Init ==
    /\ cfg \in Configs
    /\ boundDN = Anonymous
    /\ answer = NoAnswer

Secret(i) == cfg.users[i].secret

\* A bind succeeds: anonymously, or as user i with a credential.
BindSuccess(who, i, pw) ==
    \/ who = Anonymous /\ pw = <<>>
    \/ i # 0 /\ Accepted(Secret(i), cfg.yubikeyAuth, pw)

\* The throttle hears of it.
BindCounted(who, i, pw) ==
    ~BindSuccess(who, i, pw) /\ i # 0 /\ Counted(Secret(i), cfg.yubikeyAuth, pw)

Bind(who, pw) ==
    LET i == UserOf(who, TRUE) IN
    /\ answer = NoAnswer
    /\ answer' = [op |-> "bind", who |-> who, user |-> i, pw |-> pw,
                  success |-> BindSuccess(who, i, pw),
                  counted |-> BindCounted(who, i, pw)]
    /\ boundDN' = IF BindSuccess(who, i, pw) THEN who ELSE boundDN
    /\ UNCHANGED cfg

Search(req, fails, lost) ==
    LET refusal == Refusal(boundDN, req)
        broken == LowerDN(req.base) = Schema /\ "schema" \in fails IN
    /\ answer = NoAnswer
    /\ answer' = [op |-> "search", req |-> req, fails |-> fails, whole |-> lost = {},
                  code |-> IF refusal # "" THEN refusal
                           ELSE IF broken THEN "OperationsError" ELSE "Success",
                  seen |-> IF refusal # "" \/ broken THEN {}
                           ELSE Through(req, Entries(req, fails) \ lost)]
    /\ UNCHANGED <<cfg, boundDN>>

\* The front end writes the answer and reads the next request.
Deliver ==
    /\ answer # NoAnswer
    /\ answer' = NoAnswer
    /\ UNCHANGED <<cfg, boundDN>>

\* What NewServer gave the backend: a reload does not reach it.
Wiring(c) ==
    <<c.sql, c.baseDN, c.nameFormat, c.groupFormat, c.anonymousDSE, c.yubikeyAuth>>

\* doConfig installs another configuration, or the database changes.
Reload ==
    /\ answer = NoAnswer
    /\ cfg' \in Configs \ {cfg}
    /\ Wiring(cfg') = Wiring(cfg)
    /\ UNCHANGED <<boundDN, answer>>

Next ==
    \/ \E b \in Binds[cfg] : Bind(b.who, b.pw)
    \/ /\ answer = NoAnswer
       /\ \E req \in Requests[cfg] : \E fails \in SUBSET MayFail(req) :
            \E lost \in SUBSET MayLose(req, fails) : Search(req, fails, lost)
    \/ Deliver
    \/ Reload

Spec == Init /\ [][Next]_vars

-----------------------------------------------------------------------------
(* Properties.                                                             *)

\* A bind succeeds only with what the user was given: an application password,
\* what custom authentication takes, or the password followed by the code of a
\* second factor if the user has one; a user with a key may send any key code
\* after it.  No order in which the codes are cut off lets anything else pass.
\* Only of a user for whom no password was set any is taken, with a code that
\* is right.
OnlyCredentialsBind ==
    answer.op = "bind" /\ answer.success /\ answer.who # Anonymous =>
        LET u == Secret(answer.user)
            on == cfg.yubikeyAuth
            Proof(pw) == Credential(u, on, pw) \/ AnyPassword(u, on, pw) IN
        \/ Proof(answer.pw)
        \/ CutsYubikey(u, on, answer.pw) /\ Proof(AllBut(YubikeyOtpLen, answer.pw))

\* The code of one factor cut off never spoils a credential of another kind:
\* whatever the user was given is accepted.
CredentialsBind ==
    answer.op = "bind" /\ answer.user # 0 =>
        LET u == Secret(answer.user)
            on == cfg.yubikeyAuth IN
        /\ Credential(u, on, answer.pw)
        /\ Recognisable(u, on, answer.pw)
        /\ u.bcrypt # BadHex
        => answer.success

\* The throttle counts wrong passwords, never a credential, a wrong code, or a
\* user who has no password or whose stored hash nobody can match.
OnlyWrongPasswordsCount ==
    answer.op = "bind" /\ answer.counted =>
        LET u == Secret(answer.user)
            on == cfg.yubikeyAuth IN
        /\ ~Credential(u, on, answer.pw)
        /\ OtpValid(u, on, answer.pw)
        /\ u.bcrypt # BadHex /\ ~Passwordless(u)

OfTree(e) == e.class \notin {"dse", "schema"}

Answered == answer.op = "search" /\ answer.code = "Success"
Undisturbed == Answered /\ answer.fails = {} /\ answer.whole

\* Whoever sees anything of the tree is, in the configuration of that moment
\* and not of the bind, a user with the capability for it, and not disabled in
\* the database: a change that removes a user or a capability takes effect on
\* open connections.
SearchesAreAllowed ==
    Answered /\ (\E e \in answer.seen : OfTree(e)) =>
        /\ boundDN # Anonymous
        /\ \E u \in ToSet(cfg.users) :
             /\ IF boundDN.mail # None
                THEN EqualFold(u.mail, boundDN.mail)
                ELSE EqualFold(u.name, Head(boundDN.dn).v)
             /\ ~(cfg.sql /\ u.disabled)
             /\ \/ cfg.ignoreCapabilities
                \/ u.capabilities \cap {AnyObject, LowerDN(answer.req.base)} # {}

\* Every entry of the tree that a search shows can be looked up by its DN, if
\* that is in lower case: the chain of stages leads a base search for it to a
\* stage that knows it.
EntriesCanBeLookedUp ==
    Answered => \A e \in answer.seen :
        OfTree(e) /\ LowerDN(e.dn) = e.dn
            => e \in Seen([base |-> e.dn, scope |-> "base", filter |-> ""])

Unique(list) ==
    \A i, j \in DOMAIN list : EqualFold(list[i].name, list[j].name) => i = j

\* Every account that a search shows, save the disabled ones of a database, can
\* bind with the DN it is shown with, as the user it stands for:
\* FindPosixAccounts, getGroupName, findUser and FindGroup agree, whatever
\* groups share a number or are missing.
ListedAccountsCanBind ==
    /\ Answered
    /\ Unique(cfg.users) /\ Unique(cfg.groups)
    /\ cfg.groupFormat = "ou"
    => \A e \in answer.seen : e.class = "posixaccount" =>
         LET i == UserOf(ByDN(e.dn), TRUE) IN
         \/ i # 0 /\ cfg.users[i].name = Head(e.dn).v
         \/ cfg.sql /\ \E u \in ToSet(cfg.users) : u.disabled /\ u.name = Head(e.dn).v

\* A filter by class selects among the entries the same search shows without
\* it.  (A search for posixgroup is led to ou=groups by its filter.)
FiltersSelect ==
    /\ Undisturbed /\ answer.req.filter \notin {"", "posixgroup"}
    /\ LowerDN(answer.req.base) \notin {<<>>, Schema}
    => {e \in answer.seen : OfTree(e)}
         = {e \in Seen([answer.req EXCEPT !.filter = ""]) : e.class = answer.req.filter}

\* A subtree search shows whatever a base or one-level search shows.
SubtreeHoldsLevels ==
    Undisturbed =>
        {e \in answer.seen : OfTree(e)}
            \subseteq Seen([answer.req EXCEPT !.scope = "sub"])

\* What each stage that is concerned with a request lists when nothing fails.
Listings(req) ==
    LET base == LowerDN(req.base)
        hierarchy == Hierarchy(base, req.filter) IN
    (IF base = Base THEN {TopLevelNodes(base, req.scope, {})} ELSE {})
    \cup (IF base = OuGroups \o Base
          THEN {TopLevelGroupsNode(base, req.scope, {})} ELSE {})
    \cup (IF base = OuUsers \o Base
          THEN {TopLevelUsersNode(base, req.scope, {})} ELSE {})
    \cup (IF hierarchy # <<>> THEN {PosixGroups(base, req.scope, hierarchy, {})} ELSE {})
    \cup (IF req.filter \in Accountable THEN {PosixAccounts(base, {})} ELSE {})

\* Whatever reads of the database return an error, the client sees the whole of
\* what one stage lists, or nothing: no read leaves a part of a listing.  It may
\* be the listing of a later stage than without the error, with Success all the
\* same: when the groups cannot be read (412), the accounts alone (533).  Rows
\* that break off without an error are excepted: they do cut a listing off.
NothingCutOff ==
    Answered /\ answer.whole =>
        {e \in answer.seen : OfTree(e)}
            \in {{}} \cup {Through(answer.req, listing) : listing \in Listings(answer.req)}

=============================================================================
