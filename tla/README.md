# Formal model of glauth

This directory holds TLA+ models of glauth (`v2/` of this repository) and of the
script that refreshes its configuration, the TLC configurations that check them,
and proofs checked by TLAPS.  File and line references are relative to the root
of the repository.

    tlc -config own.cfg MCFailedBinds        # model-check one instance
    tlapm FailedBinds_proofs.tla             # check the proofs of a module

`PROJECT.json` lists the components, the runs, for every property a mutated
definition that breaks it, the source lines of every definition, the findings,
the hazards and the theorems.

## 1. Inventory

glauth is an LDAP server in front of a configuration file, an SQL database, other
LDAP servers or ownCloud.  `main` loads the configuration, starts the watcher of
the configuration file and the server.  The server's library runs **one goroutine
per client connection**, which calls the handler of the first backend for each
bind and search, one after the other.  The handlers share their state without, or
with one global, lock.

### Components

| Part | Source | State it keeps | Operations | Called by |
|---|---|---|---|---|
| Front end (LDAP library) | external, used by `v2/pkg/server/server.go` | per connection: bound DN | accept; dispatch bind, search, close; filter results (`EnforceLDAP`); recover from panics | network |
| Server wiring | `v2/pkg/server/server.go`, `startService` in `v2/glauth.go` | ten slots for handlers and their number, its own access to the Yubico service, the shared `LDAPOpsHelper`, the listeners | `NewServer`, `ListenAndServe`, `ListenAndServeTLS`, `Shutdown` | `main` |
| Failed-bind throttle | `v2/pkg/handler/ldapopshelper.go:40-61,692-766` | table `sources`; per source `lastSeen`, channel `failures`, `waitUntil`; `nextPruning` | `isInTimeout`, `maybePutInTimeout` | Bind and Search of every connection, no lock |
| Bind | same, 63-196, 590-656 | none | `Bind`, `findUser` | config and SQL handlers |
| Search | same, 213-588, 658-690 | none | `Search` and its `searchMaybe...` stages, `checkCapability` | config and SQL handlers |
| Config handler | `v2/pkg/handler/config.go` | pointer to the active configuration | `FindUser`, `FindGroup`, `FindPosixAccounts`, `FindPosixGroups`, group closure | bind, search |
| SQL handler | `v2/pkg/plugins/basesqlhandler.go` | connection pool; groups memoized per call | the same interface | bind, search |
| LDAP proxy handler | `v2/pkg/handler/ldap.go` | `sessions` and `servers` (one global lock), `doPing` | `Bind`, `Search`, `Close`, `getSession`, `getBestServer`, `ping`, monitor | front end, timer |
| ownCloud handler | `v2/pkg/handler/owncloud.go` | `sessions` (one global lock) | `Bind`, `Search`, `Close`, `login`, `getUsers`, `getGroups` | front end |
| Configuration pipeline | `v2/glauth.go:264-781` | `activeConfig` | `parseConfigFile`, `mergeConfigs`, `handleArgs`, `handleLegacyConfig`, `validateConfig`, `doConfig` | `main`, watcher |
| Configuration watcher | `v2/glauth.go:200-248` | `isChanged`, `isRemoved`, the inotify watch | `startConfigWatcher` | file events, one-second ticker |
| Configuration refresher | `systemd-conf/refresher/refresh-glauth-config.sh`, `v2/docker/assets/` | fetched and previous accounts, the configuration file | fetch, diff, merge, file | init system |
| Web API, metrics, logging | `v2/pkg/frontend`, `v2/pkg/stats`, `v2/pkg/logging` | counters | HTTP handlers, log lines | HTTP clients |

### What makes them interact

| State | Written by | Read by | Protection |
|---|---|---|---|
| `sources` and the records in it | every connection goroutine | every connection goroutine | none |
| `activeConfig` | watcher (`copier.Copy`, field by field) | every handler | none |
| bound DN | front end, after a successful bind | search, on each request | one goroutine per connection |
| proxy `sessions` | connection goroutines | the same | global lock per access, not per request |
| proxy `servers` | monitor goroutine | `getBestServer` | written under the lock, read without |
| ownCloud `sessions` | connection goroutines, keyed by the client's address | the same | global lock per access; no request is made under it |
| the groups of a database | others, meanwhile | every call of the walk over groups | none, each query sees the table of its moment |
| slots and listeners | `main`, while it starts | handlers | none; `main` reads `activeConfig` while the watcher may replace it |
| the configuration file | editors, refresher | watcher | none |

### What is hard, and what makes each part correct

- **Throttle.**  Interleavings on an unlocked map and on bounded channels that
  block; sources pruned while their bans or failures count, by loops of other
  addresses that test and delete in two steps; a channel sized for a limit that a
  reload has changed since.  *Correct*: a ban is earned by the banned address, is
  kept until it ends, and no request waits for ever.
- **Bind.**  Codes of two second factors are cut off the password by length, in
  an order; application passwords, custom authentication and two stored hashes
  look at different remainders.  *Correct*: exactly what a user was given is
  accepted, and only wrong passwords are counted.
- **Search.**  A chain of stages in which the first that answers wins, over DNs
  that other code has built; reads that fail one by one, so that a later stage may
  answer for an earlier one; users that a reload removed. *Correct*: what is listed can
  be looked up and can bind, filters and scopes nest, refusals follow the configuration
  of the moment.
- **Group closure.**  Two recursions in opposite directions.  *Correct*: both
  compute the transitive closure, so they agree.
- **LDAP proxy.**  Sessions keyed by an address that is free again before its
  entry is deleted; servers that vanish or hang; a monitor that exits the process.
  *Correct*: nobody travels on another's session (true of who comes to an address
  that is free of earlier connections; section 5 has the rest), the map does not
  grow, an outage is noticed, only a server that hangs keeps a request waiting.
- **Watcher.**  Events are late, merged, and die with the inode; the file can
  vanish between stat, watch and load.  *Correct*: when things are quiet, what
  the file says is in force.
- **Refresher.**  The live file is rewritten in place in three writes, any of
  which may be loaded; the script may die in between, and nothing starts it again.
  *Correct*: while the script lives the accounts arrive, and what it was killed at
  before does no lasting harm.
- **SQL handler.**  Rows in no particular order, tables that change during a
  request, queries that fail without a word.  *Correct*: whoever did not move is
  listed where the table has them, and nobody else is.
- **ownCloud.**  Sessions keyed by an address that is free again before its
  session is deleted; logins that fail, come late, or never end.  *Correct*: a
  search carries the credentials its connection is bound with (or, after a late
  login from the same address, those), no session outlives its connection, a request
  that hangs holds up nobody else.
- **Configuration pipeline.**  Several files, an old form and a new one, flags and
  defaults speak of the same listener.  *Correct*: glauth listens where it was
  told to; a configuration split into files is the same configuration.
- **Server wiring.**  Started while the watcher already reloads.  *Correct*: a
  handler asks the slots that are filled, and glauth stays.

## 2. Modules

    FailedBinds <- FailedBindsThrottle (refines Throttle) <- MCFailedBinds
        ^-- FailedBinds_proofs <- FailedBindsThrottle_proofs
    BindDecision <- Directory <- MCDirectory ^-- Directory_proofs
    GroupClosure <- SqlGroups <- MCSqlGroups
        ^-- GroupClosure_proofs <- SqlGroups_proofs
    LdapProxy    <- MCLdapProxy              ^-- LdapProxy_proofs
    OwnCloud     <- MCOwnCloud               ^-- OwnCloud_proofs
    ConfigWatch  <- MCConfigWatch
        ^-- Refresher <- MCRefresher
                ^-- Startup (with ConfigPipeline) <- MCStartup
                        ^-- Startup_proofs

`A <- B` says that `B` extends `A`; `FailedBindsThrottle_proofs` extends
`FailedBindsThrottle` as well.  `Startup` is the composition: the process from
its command line to its listeners, the watcher, the file, and the script that
rewrites it.

Next to some definitions stands a *slip*: the same operation with a plausible
mistake in it.  Slips are used by no specification; they show which mistakes the
properties catch.

| Module | Models | Correspondence |
|---|---|---|
| `FailedBinds` | the throttle | one action is one write to shared state, or one read that a later action relies on: `Lookup`/`Insert` are the test and the store of `isInTimeout`, `Send`, `Check`, `Pop`, `Ban`, `Drain`, `Recv` the channel operations of `maybePutInTimeout`; `Sweep` is the pruning loop coming to an entry and testing its age (750), `Delete` the delete that follows (751), and others may run between the two.  `pc[c]` is where the goroutine of connection `c` is; records live in `heap` cells, so that a record that left the table but is still in a goroutine's hands is visible.  `Abort` is the Go runtime's "concurrent map read and map write" |
| `Throttle` | what the throttle promises | per address: failures that count, a sentence, the end of the ban; no table, no channel |
| `FailedBindsThrottle` | refinement mapping | a failure counts from the moment the code has decided what it leads to |
| `BindDecision` | lines 86-195 of Bind | operators on a password (a sequence) and a user record, and a reference (`Credential`, `AnyPassword`, `Recognisable`) that says what a client must send without any order of steps and compares with the stored hashes in its own words |
| `Directory` | Bind and Search over a configuration file or a database (`sql`) | DNs are sequences of components over `Attributes` and `Names`; `Match` is which of several places is taken, the last of a list or the first row; `UserOf` is `findUser` with the handler's `FindUser`; `Refusal` the checks at the start of `Search`; `TreeEntries` the chain of stages; `fails` is the set of the request's reads that return an error, each on its own, and `lost` the entries missing because rows broke off; the front end's filtering (`Passes`) is external |
| `GroupClosure` | `getGroupMemberDNs`, `getGroupMemberIDs`, `getGroupDNs` | one step is one recursive call; pending calls are a set, as the results are collected in a map |
| `SqlGroups` | `memoizeGroups` and the walks over a database | `Memo` and `Memoized` are what the loop over the rows makes of them, entries and their inclusions: an entry goes by the row that opened it (`Opens`); `Scan` is a call of `getGroupMemberDNs`, `ScanFails` one whose query fails, `ClimbAfter` a call of `getGroupDNs`; `Change` is external |
| `LdapProxy` | sessions, servers, monitor | `Lookup`, `Choose`, `DialDone`/`DialFailed` and `Store` are `getSession` from its first hold of the lock to its second; connections to servers live in `links`, so that one which left the map but is still in use is visible; `Ping` is one turn of the loop of `ping`; `Hangup` and `Delete` are the two halves of `Close`.  A client may come back to an address as soon as no connection from it is in the network (`live`), whatever their goroutines still do; `Hang` is a server that never answers |
| `OwnCloud` | `Bind`, `Search`, `Close` of the ownCloud handler | the points between two requests to ownCloud or two holds of the lock are labels; a connection is gone from the network (`live`) before its goroutine is done; `late[c]` records who was being bound from the address when `c` came |
| `ConfigWatch` | `main`'s first load, `startConfigWatcher`, `doConfig` | files are inodes, watches are on inodes, the queue merges equal neighbours; editors are external |
| `Refresher` | the script, with `ConfigWatch` | each shell command that changes a file is a step; `Crash` kills the script, which leaves its files as they are; `Restart` is somebody starting it again, which nothing in the repository does |
| `ConfigPipeline` | `parseConfigFile` to `validateConfig` | operators on documents, in the order of `doConfig`: `Merged`, `Parsed`, `WithArgs`, `WithLegacy`, `Validated`; `Accepted` says that none of them fails |
| `Startup` | `startService`, `NewServer`, the listeners | `Wire`/`WireFails` are `NewServer`, `StartLdap` and `StartLdaps` the two listener sections, `ListenInBackground` the goroutine between them; `Valid` of `ConfigWatch` is `Accepted` |

## 3. Runs

Times are with two workers on a small machine.

| Run | Instance | Shows |
|---|---|---|
| `own` | 2 connections, each with an address of its own; limit 2; one address sends up to 2 wrong passwords, the other 1; period 3, bans of 2, pruning after 3, clock to 5, fair (816k states, 3 min) | bans are earned, and kept but for a delete that comes after an outdated test; nobody is parked on a channel, every request is answered (the recovered nil dereference included), and the code implements `Throttle` |
| `shared` | 2 connections of one address, the limit switched on and off by reloads (871k, 1 min) | bans are earned even then |
| `ban_overwritten` | 2 connections of one address, limit 1 | **violated**: a ban is overwritten by a late insert |
| `drained_by_two` | 2 connections of one address, limit 2, fair | **violated**: one of two goroutines that purge one channel waits for ever |
| `directory` | trees that differ in users with and without capabilities, in `[backend]`, in capitals; rows of a database with a disabled user or two of a name; 288 settings of one user's secrets; all attempts of up to 4 characters; 12 bases, 3 scopes, 4 filters, every set of reads that fail and of entries that break off (233k, 30 s) | the nine properties of `Directory` |
| `groups` | every acyclic table of up to three rows in every order, 1 user, one change or failed query at any point (428k, 2 min) | both walks end, compute the closure and agree; who stayed is listed, who never was there is not |
| `proxy` | 2 connections from one address, one after the other or overlapping, 2 servers of which the second is the faster, one outage, resets and hangs at any point (164k, 3 min) | who comes alone travels as himself, who does not travels at most as one bound from his address; outages are noticed, requests are answered unless a server hangs |
| `owncloud` | 2 connections from one address, 2 users, resets and hangs at any point (36k) | searches go as bound, or as the late login from the address; sessions end with their connections, nobody waits for who hangs |
| `reload` | every form of configuration loaded once; and some edited: 4 edits in place or by rename, 3 steps of an editor that moves or deletes the file, the script with 2 publications, killed up to twice and started again or not, 2 edits while the server starts (56k, 2 min) | nothing is missed, the accounts arrive while the script lives, partial files are made good; listeners are as configured; splitting changes nothing |
| `watch_unlinked` | an editor that deletes and recreates the file, repeatedly | **violated**: the watch is lost for good |
| `refresher_cold` | a container start without a configuration file | **violated**: glauth serves no accounts until the next change |
| `yubikey_kept` | one edit of the key for the Yubico service | **violated**: the server goes on with the one it was started with |

Deadlock is not checked where the system may stop: clients owe no request, the
process may exit, edits and clock are bounded, a walk over groups ends, ownCloud
may never answer.  `directory` never stops and is checked for deadlock.

### Bounds, and why they are enough

- `MaxTime`, `MaxStrikes` (`FailedBinds`): the limit is 2, so two strikes of one
  address cover a failure below the limit and a ban; three in `shared` also one
  after it.  The one strike of the other address starts its pruning loop.  With bans
  of 2 and pruning after 3, five instants let a source be seen once, be found stale,
  be seen again and banned before the delete, and ask during that ban.  These times
  are the shortest that meet `LongMemory` and `LongCount` (section 4).
  `MaxService` says that a request that is not parked takes at most one tick; it
  stands for the fact that processing is short against the seconds of
  `[behaviors]`.  A goroutine that inserts holds no cell; the other
  goroutine's record and one more table entry take two, so with three cells one
  is always free and a replaced record survives its replacement.  Where an
  instance has to be kept small the connections have one address each (`own`) or
  share one (`shared`); the theorems cover any number.
- `groups`: three rows make up to three entries, among them two of one number
  with another between; of the three numbers one is in no entry; chains of
  inclusion hold all three.  `MaxTroubles` 1 puts a change or a failed query
  between any two calls; `SteadyListed` has no such bound.
- `directory`: what fails is any set of the reads a request can make, what is cut off
  any set of the entries its rows can hold; codes of 2 and 1 characters in place of 44
  and 6 keep all the orders between length of password, key code and TOTP code; one more
  character than both codes together reaches every branch.
- `proxy`: `MaxOutages` 1 takes either server away at any moment and brings it
  back at any other; servers may also be away from the start.  The code keeps no
  count of outages.  A second connection is the one that reuses the address or works
  beside the first.  Three links are the entry of the map and one for each goroutine
  that still uses another, or is about to store one; one name and the anonymous one
  tell own from not own.  The theorems have no such bounds.
- `owncloud`: the second connection is the one that reuses the address or works
  beside the first; the lock has one holder however many wait.
- `reload`: the watcher has four steps from an event to the end of a load, so with
  four edits each gap can be hit in one execution; three inodes are the file, an
  editor's backup and a new one.  Two publications let the accounts change again
  during a merge, `MaxCrashes` 2 lets the script be killed in a merge, started again and
  killed again for good.  Two edits during the start come between any two of its three reads.
  `MaxHandlers` is 2 in place of 10: one backend fewer, as many, and one more are
  all there is to tell apart; `SlotsAsked` holds for any number.

### Fairness

- A connection goroutine that can run is run (`WF` of `Step(c)`): the Go
  scheduler is preemptive and runs every runnable goroutine.  A goroutine parked
  on a channel is not runnable; its step is then disabled.
- The watcher goroutine, `main` and the goroutine that listens in the background
  likewise (`SFairSpec`); the one-second ticker makes `Wake` part of that.  Editors
  owe nothing, but one that has written its file removes its backup.
- Of the proxy: the minute passes, dials end (the network answers or the operating
  system gives up), and a server answers what it does not hang.  Bind and Search
  (`ldap.go:147`, `197`) have no timeout, so nothing makes a server that hangs
  answer: `Hang` is a step of its own, is not fair, and has no end but the break of
  the link.
- Of ownCloud's handler: `SF` of what a connection's goroutine does, since a Go
  mutex is handed on to whoever waits for long; a request that does not hang is
  answered (`Hang` is a step of its own and is not fair).
- Of the refresher: while it lives the loop goes on and some fetch succeeds.  That it
  lives is not assumed: its unit has no `Restart=`, and `start-standalone-custom.sh:11`
  starts it once in the background, so `Restart` is not fair.
- Of a walk over groups: the calls are made one after the other.
- Clients, the clock, reloads, publications, crashes, restarts, resets and outages are
  not fair.

## 4. What is proved

TLAPS proves, for every value of the constants:

| Module | Theorem | Says | Assumes |
|---|---|---|---|
| `FailedBinds_proofs` | `TypeCorrect` | types, and a goroutine that uses `info` has one | finitely many connections |
| | `BansAreEarned` | an address in a timeout sent, itself, as many wrong passwords as the smallest limit ever in force | the same: any connections sharing any addresses, any reloads |
| | `NobodyIsParked` | no goroutine waits on a channel | `OwnAddresses`: one connection per address, no reload, a limit of at least 1 |
| | `BansAreHonoured` | no request that arrives during a ban is served, except after a pruning loop has deleted an entry that was seen again since its test (750, 751) | `OwnAddresses`, and `LongMemory`: sources are kept as long as a ban and two requests |
| `FailedBindsThrottle_proofs` | `GoroutinesKeepThePromise` | `FailedBinds` implements `Throttle`: every step is a step of it or a stutter; pruning forgets nothing that counts and is older than the request that prunes | `OwnAddresses`, `LongMemory`, and `LongCount`: sources are kept as long as the counting period and a request |
| `Directory_proofs` | `OnlyCredentials`, `EveryCredential` | a bind succeeds with a credential only, or, for a user without a stored hash, with anything followed by a valid code; and with every recognisable credential | codes of any lengths, an id no longer than its code |
| | `OnlyWrongOnes` | no credential, wrong code or hash nobody can match is counted | the same; `ShortSecrets` of the user, if there is a key: passwords end before a key code could begin |
| | `SearchesAllowed` | who sees the tree is a user of the configuration in force, enabled and capable | any configurations, DNs, requests and reloads |
| | `NeverCutOff` | whichever reads return an error, a listing is all that some one stage lists, or nothing | the same; unless rows break off, in the property |
| | `SubtreesHoldLevels` | a subtree search shows what a base or one-level search shows | the same |
| | `FiltersOnlySelect` | a filter by class selects from what is shown without it | the same; a filter for `posixgroup` is excepted in the property |
| | `EveryAccountBinds` | an account that is listed binds with its DN, as itself | the same; names are distinct and `groupformat` is "ou", in the property |
| | `EntriesLookedUp` | an entry in lower case is found by its DN | `PlainGroupNames`: with `groupformat` "ou" no group is called groups or users |
| `GroupClosure_proofs` | `MembersFound`, `MemberOfFound` | when a walk over groups ends, its result is the closure | nothing: circular configurations included |
| | `DirectionsAgree` | a user lists a group if and only if the group lists the user | nothing |
| `SqlGroups_proofs` | `SqlDirectionsAgree` | the undisturbed walks over a database find the closure and agree | any rows, changes and failures |
| | `SteadyListed` | who stays in a group that the listed one includes, by the table, is listed unless a query fails | the same: rows in any order, several for one group, entries of one number |
| | `NobodyElse` | who never was in such a group is not listed, at any moment of the walk | the same |
| `LdapProxy_proofs` | `TypeCorrect` | types | `None` is not a session |
| | `OwnIdentityAlways` | a request goes to a server as its own client, or anonymously; as somebody else only if it came to an address that an earlier connection still had, and then as one who has bound from there | the same: any connections sharing any addresses, resets, hangs, outages |
| | `NoSessionLeft` | the session map holds links of connections that are not over, bound as one of these is or may have asked to be | the same |
| `OwnCloud_proofs` | `TypeCorrect` | types, and the lock has one holder | any connections sharing any addresses |
| | `SearchesGoAsBound` | a search carries the credentials its connection is bound with; if another connection from the address was not over when it came, perhaps none, or those of the user that one was binding as; nobody else's | the same |
| | `SessionsAreOfTheConnected` | a session is that of a user bound on a connection from its address that is not over | the same |
| `Startup_proofs` | `TypesKept` | types; only what `validateConfig` accepts is ever in force | `DecoderAssumption`: what is accepted has been decoded to values of the types of its fields; any editors, any number of slots |
| | `SlotsAsked` | the LDAP backend asks every slot that is filled and no other | the same |
| | `Stays` | a server that is set up leaves only if a reload came while it read the listener sections | the same |
| | `ListensAsSaid` | glauth listens where command line and configuration say and nowhere else, unless a reload came before | the same: file or directory, any number of files, any sections |
| | `SplitsAreHarmless` | a directory that says whether LDAPS is enabled is accepted, and is what its text is in one file | the same |
| | `NothingIsMissed` | a watcher at rest watches the file and has put in force what it says | `SteadyPath`: files are written in place or renamed over, any number of times, by editors or the script, from the first watch on |
| | `SkipsAreNoLoss` | the script skips a merge only if the file holds what it fetched, wherever it was killed and started again before | `ScriptAlone`: nobody else edits; the offering does not go back to earlier accounts |

The assumptions about the throttle cannot be dropped: `drained_by_two` and
`ban_overwritten` are what happens without `OwnAddresses`.  The settings of
`v2/sample-simple.cfg:58-64` (a limit of 3, a period of 10 s, bans of 60 s, sources
kept for 600 s) meet all of them if no request takes more than four and a half
minutes.  Nor can `SteadyPath`: without it, `watch_unlinked` is what happens to an
editor that takes the file away twice, and `refresher_cold` to an edit before the
first watch.  Without `ShortSecrets` a password is cut where a key code could begin
and counted as wrong; without `PlainGroupNames` the account `cn=x,ou=users,dc=..` of
a group users is taken for a group at the users node (section 5).

**The throttle** is proved in three layers, each an inductive invariant that
contains the one before.  `BanNeedsStrikes` alone is not inductive: it says
nothing of failures still in a queue, or received and not yet queued.
`BanInv` adds who may refer to which cell (`OneOwner`), that the failures in any
cell an address holds, together with those its goroutines are about to add, are
no more than its strikes (`QueueCounted`), and that every goroutine on its way to
`Ban` has enough of them (`BanEarned`).  `RoomInv` adds that a channel has the
size of the limit and that each label finds it as full or as empty as its next
operation needs (`Room`).  `HonourInv` adds that a request is at most
`MaxService` old (`Young`), that the table still holds the record with the last
ban, or lost it to a delete that came too late (`Remembered`), and that a goroutine's
idea of the table is still right (`Known`). Step lemmas (`PcStep`, `HoldStep`,
`HeapStep`, `TableStep`, ...) say once what one goroutine's step does to labels, table,
cells and times; the preservation of each layer is proved from them.

**The throttle keeps its promise**: the refinement needs one layer more,
`TimedInv`.  The code judges the window by a time it took before the failure was
recorded, so `Counting` says that a goroutine took its times one after the other
and that the youngest failure is its own; `Dated` that no failure in a channel is
younger than the request last seen plus its time, so that what is stale no longer
counts; and `Doomed` that what an address is about to lose was stale at the time the
pruning request took, so that whatever still counts against it is younger than that.
Then every action is mapped: `Check` below the limit is `Fail`, `Pop` is
`FailAtLimit`, `Ban` is `Impose`, `Delete` is `Forget`, and all others, `Sweep` among
them, show nothing.  `Throttle` lets `Forget` take what is younger than a request: the
delete after an outdated test does that, and the promise would be false without it.

**Group closure**: `WalkDown` and `WalkUp` say that what was passed or is still
pending contains the start, stays inside the closure, and is closed but for what
is pending.  When nothing is pending, what was passed is the closure.  For the
walk up the argument is by complement: the numbers *not* passed are closed under
inclusion, so nothing that includes the user's groups is among them.

**Groups of a database**: every action of the walks carries one of `GroupClosure` or
none (`SqlImplementsClosure`, a lemma), which carries over what is proved there but says
nothing yet of what is listed.  `Follows` says that the walk that reads the tables does
not stray from the one of `GroupClosure`, and is where it is unless a query
failed; `Remembered` brackets what the tables say now between what they always
said and what they said at some time; `Seen` relates both to who is listed.
What is listed at the end then follows from the closure already proved.  That the
entries keep the inclusions of the rows (`EntriesKeepInclusions`) takes no
induction over the rows: the entry that holds a row was opened by the first of the
rows before it from which on the number does not change (`HeldByEntry`, by
`LeastOf`).

**Bind**: `Sound` and `Complete` go through the cuts of a password in the order of
the code; lemmas say once what is cut off (`Cut`, `CutNothing`, `CutEverywhere`), and what the
code's own comparison, which a hash that is not set always passes, comes to in terms of
the reference (`WhatMatches`): for a user without a stored hash it is `AnyPassword`.

**Search**: `SearchInv` says that the answer under way is what the stages give for
its request in the configuration in force, and that the request was permitted.  The
properties then are facts about the stages.  `LevelsInSubtree` and `WithoutFilter` say what
a wider scope and a filter change in `TreeEntries`; `OneStage` that whatever fails the
entries are those of one stage that does not give up, `WholeStage` that it lists all it
would without failures.
For a DN that is listed and read again the lemmas follow it there and back: how
lowering and concatenation commute (`LowerConcat`), what lies above the base of a DN
that was put together from parts (`AboveOf`, `AccountOf`, `GroupOf`, `NodeOf`), that
its names find their user and group (`UserFoundAgain`, `GroupFoundAgain`), and to
which stage a base search for it is led (`StageOf`).

**Sessions of the proxy**: an address may have one connection in the network and
others still at work (`Places`); a link is used from one address (`Apart`), is
anonymous until it is stored (`Fresh`), and is bound at most as a name bound from its
address (`Known`).  Who came alone has the entry of his address to himself, bound as he
is (`Own`), whatever the late requests of others do elsewhere; and for every entry of
the map some connection that is not over vouches (`Vouched`).

**Sessions of ownCloud**: the promise is about connections that share an address,
so the invariant has to say who may be there at once: one in the network
(`Alone`), and others that only finish what they had at hand; and that the session
found is the connection's own unless a late delete or a late login of one of those
touched it (`Kept`), the latter by a user that was being bound when it came (`late`).

**Start and reload**: `TypesKept` needs that what was read and is about to be
copied was validated (`Checked`); `Stays` that `main` reaches the second listener
section only if it can block there, or the configuration was another before
(`WillBlock`).  `NothingMissed` speaks of a watcher at rest, so it is not
inductive.  `PendingInv` says what holds meanwhile: the watch is on the file, or a
removal is noted or queued (`WatchKept`); what is in force is what the file
says, or a load is noted, queued or, having read the file, has read what it
says now (`LoadPending`).  `MergeInv` says of the script that what it merged
last is still in the file, or something newer has been fetched.  `ListenInv` says
that, if one configuration has been in force so far, `main` has gone by that one and
the goroutine it has started will.

**What a configuration means**: `Merged` and `FlattenSeq` are recursive functions.
What they compute is shown by the least number of files for which it would fail
(`Accumulates`, `Flattens`, `LeastOf`), in place of an induction.  `Merges` says what
merging leaves of each section, `ListsMerge` that lists come one after the other,
`OnceSaid` that what can be merged says a scalar once.  `ParsedSays` then ties what is
parsed to what the files say (`Said`), `ListensWhere` the accepted configuration to where
glauth should listen, and `ReadsTheSame` the directory to the single file.

Every invariant that a passing run checks is stated by one of these theorems.  Only
model-checked are liveness (`EveryRequestAnswered`, `AccountsArrive`,
`OutageNoticed`, `WalksEnd`), which under fairness is out of the prover's reach, and what
the hypotheses of the theorems leave out: `NothingMissed` for editors that take the file
away, `OnlyWrongPasswordsCount` for a user with a key of whom some secret is so long
that a key code could be cut off it (other constants refute it then).

## 5. Findings

Five runs show the code doing other than a comment or document says:

1. `ban_overwritten`: `isInTimeout` tests for an address and inserts it in two
   steps.  A second connection that looked before the first insert replaces the
   entry, and with it a ban ("we will wait for 'n' seconds no matter what happens
   next", `ldapopshelper.go:737`).
2. `drained_by_two`: `for len(info.failures) > 0 { <-info.failures }` with two
   purgers leaves one of them in the receive.
3. `watch_unlinked`: `watcher.Add` fails when the file has vanished since
   `os.Stat`; the error is ignored, the pending removal is cleared, and no watch
   is left (`glauth.go:229-233`).
4. `refresher_cold`: `start-standalone-custom.sh` waits for the file to exist,
   which it does before the accounts are in it; the first watch is set after
   the first load.
5. `yubikey_kept`: a reload renews the global `yubiAuth` (`glauth.go:757-758`),
   which nothing reads: `NewServer` made one of its own (`server.go:33`).  Hot
   reload is said to except only listeners, backends and the API
   (`sample-simple.cfg:10-11`).

Other disagreements met while modelling, which no run shows.  Most of them are
kept out of the passing runs by a constant or a precondition, named here:

- A ban ends early if `pruneSourcesOlderThan` is shorter than
  `blockFailedBindsFor` (`ldapopshelper.go:750`; `own` has it longer).
- Even with long memory a ban can be erased: a pruning loop finds an address stale
  (750), the address comes back, fails and is banned (711, 738), and the delete that
  follows the test (751) takes the new ban with it.  `BanHonoured` excepts this and
  nothing else (`erased`).
- A limit lowered or raised by a reload while failures are queued can block the
  send or never match the length (730-732); a limit of 0 blocks the first failure
  (705).  `own` has no reload.
- `nextPruning` is assigned on a copy of the helper (754): the table is swept
  after every counted failure.  The model does the same.
- Failures "in a row" (731) are not reset by a success.
- An edit before the first watch is not noticed (`glauth.go:247`; the passing run
  has edits from then on), nor one by an editor that keeps its backup: the watch
  stays with the backup (`ConfigWatch` lets the editor delete it).  Of a watched
  directory, files that are added are not noticed: Create events are ignored
  (217-223).
- A reload while `startService` reads the listener sections can leave glauth with
  no listener main waits for, and it exits (`glauth.go:188`; `StaysUnlessReloaded`
  excepts it).
- A `[backend]` section that names no datastore is dropped without a word
  (`glauth.go:387`); an eleventh backend is an index out of range
  (`server.go:147`; `WireFails`).
- The deprecated `unixid` is copied to `uidnumber` and `gidnumber` of the loop's
  copies, so it has no effect (`glauth.go:707-719`).
- After a crash between merge and filing the refresher, once started again, skips
  accounts that went back to what they were (script:43-61; `MayRevert = FALSE`).
- A refresher that is killed stays dead (`refresh-glauth-config.service` has no
  `Restart=`).  Killed in the middle of the rewrite (script:58) it leaves a truncated
  file, which glauth refuses, or one without accounts, which it loads.  `AccountsArrive`
  says nothing of the accounts then.
- Groups that include each other make the recursion endless (`config.go:256`,
  `295`; `Cyclic = FALSE`).
- An account with neither `passbcrypt` nor `passsha256`, one that was given only
  application passwords included, binds with any password, even an empty one, as each
  comparison is made only if its hash is set (`ldapopshelper.go:171-195`).
  `OnlyCredentialsBind` excepts it by name (`AnyPassword`) and asks of it only the code
  of its second factor, if it has one.
- An application password longer than a Yubikey code loses its end if the user
  has a key (`ldapopshelper.go:92-112`; `Recognisable`).
- An account whose primary group is called users or groups is listed outside the
  users node as `cn=x,ou=users,..`; a base search for that is led to the groups
  stage and finds nothing (`ldapopshelper.go:271-301`; `PlainGroupNames`).
- With `groupformat = "cn"` a listed DN cannot bind (612); with a capital in a
  group's name it cannot be looked up (583); with a capital in the base DN every
  tree search is refused (263).
- A backend error ends as Success (303), with no entries or with those of a later
  stage: if the groups under a node cannot be read (412) the search goes on to the
  accounts, and lists all of them without groups and nodes (533).  `NothingCutOff` says
  that what is listed is the whole of one stage, not that it is the right one.
- A subtree search at an account's DN returns all accounts (519).
- The config backend lets a user with `disabled` set bind; the SQL backend does
  not find such a user (`basesqlhandler.go:157`).
- SQL: a query that fails counts as one without rows (358), as does an error in
  the middle of the rows, which no loop asks for (213): a listing is then cut off
  (`lost`; excepted by `NothingCutOff`).  Group rows lost inside the listing of accounts,
  which change DNs of accounts, are not modelled.  Capabilities are looked up by
  the user's number, which need not be unique (165), and if that query fails
  `Close` is called on no rows at all (174).  A user who changes groups during a
  request may be in both or in neither.
- ownCloud: a session deleted late takes that of the next connection from the
  address (`owncloud.go:200`), and a login that ends after its client has reset
  the connection leaves one for the next connection from the address, which may then
  search as that user (78; `SearchesAsBound` allows it of the users in `late`); a login
  without a response dereferences it (222), a search without a session uses
  a nil client (111), and the front end recovers from both; a refused login never
  closes its response (225); the HTTP client has no timeout (364); a search base
  in lower case is compared with the base DN as written (100).
- Proxy: as in ownCloud's handler the entry is deleted after the address is free
  (`ldap.go:324`, `327`), and a client may reset its connection while its request is
  at work; who comes to the address then finds the other's session, bound as the other,
  and is served on it (369).  `OwnIdentity` allows this of connections that did not come
  `alone`, and only as to names bound from the address.
- Proxy: a server that keeps its link and never answers parks the request for ever, as
  Bind and Search have no timeout (147, 197; `EveryRequestAnswered` excepts it).
- Proxy: `Close` never closes the connection to the server (324); an unreachable
  server exits the process in `ping` (422), so that another is never chosen; a dead
  session stays in the map (369), which every later bind of the client then meets; a
  network error on bind is reported as wrong credentials (143).  That a request's ping
  is lost while the monitor is busy is made good by its timer.

## 6. What is not modelled

- The LDAP library, inotify, the Yubico service, ownCloud, the database and the
  LDAP servers behind the proxy: external, modelled as far as the code depends
  on them.
- `copier.Copy` is one step (`Apply`, `Reload`).  A request that runs during the
  copy may see a mixture; the repository does not say what it should see.
- SQL: creation and migration of the schema, which run once before anything is
  served and ignore their errors; the comma-separated lists, custom attributes
  and capabilities by number, which are data of an entry.  The capabilities a user
  has are an input of `Directory`.
- Server: `[helper]`, whose handler is built but which nothing asks; `Shutdown`,
  which nothing calls; errors of listening, which end the process.
- A configuration in S3: one more source of the same text, never watched.
- Attributes of entries, schema files, log lines, metrics, the web pages: no
  decision of the directory depends on them.
- The vendored TOML decoder: `DecoderAssumption` says what is expected of it, that
  the settings of an accepted file are Booleans, strings and lists as
  `config.Config` asks for.

## 7. Plan

Done, in this order: throttle and its abstraction; watcher and refresher; group
closure; bind decision; directory; proxy; configuration pipeline, server and their
composition with watcher and refresher; groups of a database and its users;
ownCloud; the theorems of section 4.

What could follow:

1. `NothingMissed` for an editor that takes the file away once.
2. An abstract directory (entries as a set, search by scope and filter) that
   `Directory` refines for the searches where it does.
