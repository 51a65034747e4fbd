------------------------------ MODULE Refresher ------------------------------
(***************************************************************************)
(* refresh-glauth-config.sh beside glauth: a loop that fetches the         *)
(* accounts of an offering, compares them with those of the previous       *)
(* merge, and if they differ rewrites glauth's configuration file in place *)
(* ("cat preconfig users > config.cfg"): the shell truncates the file, cat *)
(* writes the fixed part, then the accounts.  glauth watches that file as  *)
(* ConfigWatch says.                                                       *)
(***************************************************************************)
EXTENDS ConfigWatch

CONSTANTS
    Accounts,       \* versions of the offering's accounts, numbered
    WithAccounts,   \* what the file holds once each of them is merged
    Empty,          \* the truncated file; validateConfig rejects it
    Preconfig,      \* the fixed part alone: it loads, with no accounts
    Cold,           \* TRUE: no configuration file exists at start
    MayRevert,      \* the offering may go back to earlier accounts
    MaxPublished,   \* bound: changes of the offering
    MaxCrashes      \* bound: how often the script is killed

ASSUME RefresherAssumption ==
    /\ Accounts \subseteq Nat /\ Nil \notin Accounts
    /\ \E a \in Accounts : \A b \in Accounts : a <= b
    /\ WithAccounts \in [Accounts -> Contents]
    /\ {Empty, Preconfig} \subseteq Contents
    /\ ~Valid(Empty) /\ Valid(Preconfig)
    /\ \A a \in Accounts : Valid(WithAccounts[a])
    /\ {Cold, MayRevert} \subseteq BOOLEAN
    /\ MaxPublished \in Nat
    /\ MaxCrashes \in Nat

VARIABLES
    offering,       \* the accounts the portal publishes
    rpc,            \* where the script is
    fetched,        \* /tmp/offering-users-config.cfg
    prev,           \* /tmp/prev-offering-users-config.cfg, Nil if missing
    published, crashes

glauth == <<main, active, watcher>>
script == <<rpc, fetched, prev>>
portal == <<offering, published>>
rvars == <<vars, script, portal, crashes>>

RInit ==
    /\ InitAt(IF Cold THEN Nil ELSE AnInode)
    /\ offering = CHOOSE a \in Accounts : \A b \in Accounts : a <= b
    /\ rpc = "sleep"
    /\ fetched = offering
    /\ prev = Nil
    /\ published = 0
    /\ crashes = 0

-----------------------------------------------------------------------------
At(l) ==
    /\ rpc = l
    /\ "script" \in edits.kinds
    /\ main \in edits.during

\* wget succeeds; after a failure the script sleeps and tries again.
Fetch ==
    /\ At("sleep")
    /\ fetched' = offering
    /\ rpc' = "compare"
    /\ UNCHANGED <<vars, prev, portal, crashes>>

\* diff with the accounts of the previous merge, if there was one
Compare ==
    /\ At("compare")
    /\ rpc' = IF prev = fetched THEN "sleep" ELSE "truncate"
    /\ UNCHANGED <<vars, fetched, prev, portal, crashes>>

Truncated ==
    IF path # Nil THEN Overwrite(Empty)
    ELSE \E f \in Files :
           /\ path' = f
           /\ text' = [text EXCEPT ![f] = Empty]
           /\ UNCHANGED <<aside, watch, events>>

\* Slip: the accounts are filed as merged before they are.
TruncateAfterFiling ==
    /\ At("truncate")
    /\ Truncated
    /\ rpc' = "preconfig"
    /\ prev' = fetched
    /\ UNCHANGED <<edits, glauth, fetched, portal, crashes>>

\* > config.cfg
Truncate ==
    /\ At("truncate")
    /\ Truncated
    /\ rpc' = "preconfig"
    /\ UNCHANGED <<edits, glauth, fetched, prev, portal, crashes>>

\* cat writes the first file ..
WritePreconfig ==
    /\ At("preconfig")
    /\ Overwrite(Preconfig)
    /\ rpc' = "users"
    /\ UNCHANGED <<edits, glauth, fetched, prev, portal, crashes>>

\* .. and the second.
WriteUsers ==
    /\ At("users")
    /\ Overwrite(WithAccounts[fetched])
    /\ rpc' = "file"
    /\ UNCHANGED <<edits, glauth, fetched, prev, portal, crashes>>

\* Slip: the wrong file is kept for the next comparison.
FileOffering ==
    /\ At("file")
    /\ prev' = offering
    /\ rpc' = "sleep"
    /\ UNCHANGED <<vars, fetched, portal, crashes>>

\* mv offering-users-config.cfg prev-offering-users-config.cfg
File ==
    /\ At("file")
    /\ prev' = fetched
    /\ rpc' = "sleep"
    /\ UNCHANGED <<vars, fetched, portal, crashes>>

Script == Fetch \/ Compare \/ Truncate \/ WritePreconfig \/ WriteUsers \/ File

\* The script is killed, at any moment, or a command fails under `set -e`; its
\* files stay as they are.  Nothing in the repository starts it again: the unit
\* refresh-glauth-config.service has no Restart=, and the container's start
\* script puts it in the background once.
Crash ==
    /\ "script" \in edits.kinds
    /\ rpc # "dead"
    /\ crashes < MaxCrashes
    /\ crashes' = crashes + 1
    /\ rpc' = "dead"
    /\ UNCHANGED <<vars, fetched, prev, portal>>

\* Somebody may start it again, and need not: no fairness is assumed of this.
Restart ==
    /\ rpc = "dead"
    /\ rpc' = "sleep"
    /\ UNCHANGED <<vars, fetched, prev, portal, crashes>>

\* The offering's accounts change.
Publish ==
    /\ "script" \in edits.kinds
    /\ published < MaxPublished
    /\ published' = published + 1
    /\ offering' \in Accounts \ {offering}
    /\ MayRevert \/ offering' > offering
    /\ UNCHANGED <<vars, script, crashes>>

\* A step of ConfigWatch.
Elsewhere(A) == A /\ UNCHANGED <<script, portal, crashes>>

RNext ==
    \/ Elsewhere(Next)
    \/ Script
    \/ Crash
    \/ Restart
    \/ Publish

RSpec == RInit /\ [][RNext]_rvars

\* glauth and the script are scheduled, and some fetch succeeds in the end.
RFairSpec ==
    /\ RSpec
    /\ WF_rvars(Elsewhere(Load)) /\ WF_rvars(Elsewhere(FirstWatch))
    /\ WF_rvars(Elsewhere(Watcher)) /\ WF_rvars(Elsewhere(DropBackup))
    /\ WF_rvars(Script)

-----------------------------------------------------------------------------
(* Properties.                                                             *)

\* Every variable keeps its type.
RTypeOK ==
    /\ TypeOK
    /\ offering \in Accounts
    /\ rpc \in {"sleep", "compare", "truncate", "preconfig", "users", "file", "dead"}
    /\ fetched \in Accounts
    /\ prev \in Accounts \cup {Nil}
    /\ published \in Nat
    /\ crashes \in Nat

\* The script skips a merge only when the configuration file holds the
\* accounts it has just fetched ("There are no changes in the new glauth
\* config, skipping merge"), wherever it was killed before it was started again.
SkipMeansNoChanges ==
    [][rpc = "compare" /\ rpc' = "sleep"
         => path # Nil /\ text[path] = WithAccounts[fetched]]_rvars

\* Hot reload, with the script or without: unless glauth has exited, what the
\* file says is in force for good once the edits are over, and while the script
\* lives these are the accounts of the offering, however it was killed and
\* started again before and whatever half-written file glauth has loaded.  A
\* script that stays dead leaves the file as it was then, truncated or without
\* accounts if it was killed in the middle of the rewrite: nothing is claimed of
\* the accounts then.
AccountsArrive ==
    <>[](\/ main = "exited"
         \/ /\ UpToDate
            /\ "script" \in edits.kinds /\ rpc # "dead" => active = WithAccounts[offering])

=============================================================================
