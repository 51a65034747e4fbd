----------------------------- MODULE ConfigWatch -----------------------------
(***************************************************************************)
(* Hot reload of the configuration file (v2/glauth.go): main loads the     *)
(* file, starts the goroutine of startConfigWatcher and then adds the      *)
(* first watch; the goroutine waits for a file event or a one-second tick, *)
(* stats the file, renews the watch after a removal, and runs doConfig,    *)
(* which parses and validates the file and copies it over activeConfig.    *)
(*                                                                         *)
(* External: the file system and the inotify watch behind fsnotify.  A     *)
(* watch is on a file (an inode), not on a path; it dies with the file.    *)
(***************************************************************************)
EXTENDS Naturals, Sequences

CONSTANTS
    Files,          \* inodes
    Contents,       \* what the file may hold
    Valid(_),       \* parseConfigFile .. validateConfig accept the contents
    Nil,            \* no file, no configuration
    Editors         \* who edits the file: see Editor

\* What the file holds at first, the kinds of edits, where main is when there
\* are any, what they write, and how many there are (a bound).
Editor ==
    [first : Contents,
     kinds : SUBSET {"write", "replace", "unlink", "move", "create", "script"},
     during : SUBSET STRING, to : SUBSET Contents, left : Nat]

ASSUME WatchAssumption ==
    /\ Files # {}
    /\ Nil \notin Files /\ Nil \notin Contents
    /\ \A c \in Contents : Valid(c) \in BOOLEAN
    /\ Editors \subseteq Editor

VARIABLES
    path,           \* the file the configuration path names, or Nil
    aside,          \* the file an editor moved away, or Nil
    text,           \* what each file holds
    watch,          \* files with an inotify watch
    events,         \* events not received yet
    main,           \* where main is; "watching" and on: startService
    active,         \* activeConfig, Nil before the first load
    wpc,            \* where the watcher goroutine is
    isChanged, isRemoved,
    read,           \* the configuration doConfig has validated
    edits           \* the editor, with the edits that are left

disk == <<path, aside, text>>
watcher == <<wpc, isChanged, isRemoved, read>>
vars == <<disk, watch, events, main, active, watcher, edits>>

-----------------------------------------------------------------------------
Event == [file : Files, op : {"Write", "Remove", "Rename"}]

\* The queue after operation op on file f.  The kernel merges an event with
\* an equal one at the end of the queue if that one was not read yet.
Queues(f, op) ==
    LET e == [file |-> f, op |-> op] IN
    IF f \notin watch THEN {events}
    ELSE {Append(events, e)}
         \cup (IF events # <<>> /\ events[Len(events)] = e THEN {events} ELSE {})

Usable == path # Nil /\ Valid(text[path])

InitAt(p) ==
    /\ edits \in Editors
    /\ path = p
    /\ aside = Nil
    /\ text = [f \in Files |-> edits.first]
    /\ watch = {}
    /\ events = <<>>
    /\ main = "off"
    /\ active = Nil
    /\ wpc = "select"
    /\ isChanged = FALSE
    /\ isRemoved = FALSE
    /\ read = edits.first

\* Some inode; which one makes no difference.
AnInode == CHOOSE f \in Files : TRUE

Init == InitAt(AnInode)

-----------------------------------------------------------------------------
(* Main.                                                                   *)

\* doConfig at start: without a valid file glauth exits.
Load ==
    /\ main = "off"
    /\ IF Usable
       THEN main' = "loaded" /\ active' = text[path]
       ELSE main' = "exited" /\ UNCHANGED active
    /\ UNCHANGED <<disk, watch, events, watcher, edits>>

\* watcher.Add, whose error is ignored: a path without a file is not watched.
Watched == watch \cup ({path} \ {Nil})

\* startConfigWatcher: the goroutine runs, then the first watch is set.
FirstWatch ==
    /\ main = "loaded"
    /\ main' = "watching"
    /\ watch' = Watched
    /\ UNCHANGED <<disk, events, active, watcher, edits>>

-----------------------------------------------------------------------------
(* The watcher goroutine.                                                  *)

Runs(l) == main \notin {"off", "exited"} /\ wpc = l

\* Slip: a removal is taken for a change only.
ReceiveForgetsRemove ==
    /\ Runs("select")
    /\ events # <<>>
    /\ events' = Tail(events)
    /\ isChanged' = (isChanged \/ Head(events).op \in {"Write", "Remove"})
    /\ wpc' = "stat"
    /\ UNCHANGED <<disk, watch, main, active, isRemoved, read, edits>>

\* case event := <-watcher.Events.  fsnotify drops a Write of a path that no
\* longer exists.
Receive ==
    LET op == Head(events).op IN
    /\ Runs("select")
    /\ events # <<>>
    /\ events' = Tail(events)
    /\ isChanged' = (isChanged \/ op = "Remove" \/ (op = "Write" /\ path # Nil))
    /\ isRemoved' = (isRemoved \/ op = "Remove")
    /\ wpc' = "stat"
    /\ UNCHANGED <<disk, watch, main, active, read, edits>>

\* case <-ticker.C: nothing comes of it unless something is pending.
Wake ==
    /\ Runs("select")
    /\ isChanged \/ isRemoved
    /\ wpc' = "stat"
    /\ UNCHANGED <<disk, watch, events, main, active, isChanged, isRemoved, read, edits>>

\* os.Stat(configFileLocation)
Stat ==
    /\ Runs("stat")
    /\ wpc' = IF path = Nil \/ ~(isRemoved \/ isChanged) THEN "select"
              ELSE IF isRemoved THEN "rewatch" ELSE "parse"
    /\ UNCHANGED <<disk, watch, events, main, active, isChanged, isRemoved, read, edits>>

\* Slip: the watch is not renewed.
RewatchForgotten ==
    /\ Runs("rewatch")
    /\ isChanged' = TRUE
    /\ isRemoved' = FALSE
    /\ wpc' = "parse"
    /\ UNCHANGED <<disk, watch, events, main, active, read, edits>>

\* if isRemoved { watcher.Add(configFileLocation) .. }
Rewatch ==
    /\ Runs("rewatch")
    /\ watch' = Watched
    /\ isChanged' = TRUE
    /\ isRemoved' = FALSE
    /\ wpc' = "parse"
    /\ UNCHANGED <<disk, events, main, active, read, edits>>

\* Slip: the file is copied without being validated.
ParseUnchecked ==
    /\ Runs("parse")
    /\ path # Nil
    /\ wpc' = "apply"
    /\ read' = text[path]
    /\ UNCHANGED <<disk, watch, events, main, active, isChanged, isRemoved, edits>>

\* doConfig up to validateConfig.  On an error the old configuration stays.
Parse ==
    /\ Runs("parse")
    /\ IF Usable
       THEN wpc' = "apply" /\ read' = text[path] /\ UNCHANGED isChanged
       ELSE wpc' = "select" /\ isChanged' = FALSE /\ UNCHANGED read
    /\ UNCHANGED <<disk, watch, events, main, active, isRemoved, edits>>

\* The rest of doConfig: copier.Copy(activeConfig, cfg)
Apply ==
    /\ Runs("apply")
    /\ active' = read
    /\ isChanged' = FALSE
    /\ wpc' = "select"
    /\ UNCHANGED <<disk, watch, events, main, isRemoved, read, edits>>

Watcher == Receive \/ Wake \/ Stat \/ Rewatch \/ Parse \/ Apply

-----------------------------------------------------------------------------
(* What may happen to the file (external).                                 *)

MayEdit(kind) ==
    /\ kind \in edits.kinds
    /\ main \in edits.during
    /\ edits.left > 0
    /\ edits' = [edits EXCEPT !.left = @ - 1]

\* The file is rewritten in place.
Overwrite(c) ==
    /\ path # Nil
    /\ text' = [text EXCEPT ![path] = c]
    /\ events' \in Queues(path, "Write")
    /\ UNCHANGED <<path, aside, watch>>

Write(c) ==
    /\ MayEdit("write")
    /\ Overwrite(c)
    /\ UNCHANGED <<main, active, watcher>>

\* A file nobody knows of.
Fresh(f) == f # path /\ f # aside /\ f \notin watch

\* Another file is renamed over it; the old one is gone, with its watch.
Replace(f, c) ==
    /\ MayEdit("replace")
    /\ path # Nil
    /\ Fresh(f)
    /\ path' = f
    /\ text' = [text EXCEPT ![f] = c]
    /\ events' \in Queues(path, "Remove")
    /\ watch' = watch \ {path}
    /\ UNCHANGED <<aside, main, active, watcher>>

Unlink ==
    /\ MayEdit("unlink")
    /\ path # Nil
    /\ path' = Nil
    /\ events' \in Queues(path, "Remove")
    /\ watch' = watch \ {path}
    /\ UNCHANGED <<aside, text, main, active, watcher>>

\* An editor moves the file away as its backup; the watch goes with it.
Move ==
    /\ MayEdit("move")
    /\ path # Nil
    /\ aside = Nil
    /\ path' = Nil
    /\ aside' = path
    /\ events' \in Queues(path, "Rename")
    /\ UNCHANGED <<text, watch, main, active, watcher>>

Create(f, c) ==
    /\ MayEdit("create")
    /\ path = Nil
    /\ Fresh(f)
    /\ path' = f
    /\ text' = [text EXCEPT ![f] = c]
    /\ UNCHANGED <<aside, watch, events, main, active, watcher>>

\* The editor deletes its backup once the new file is there.
DropBackup ==
    /\ aside # Nil
    /\ path # Nil
    /\ aside' = Nil
    /\ events' \in Queues(aside, "Remove")
    /\ watch' = watch \ {aside}
    /\ UNCHANGED <<path, text, main, active, watcher, edits>>

Edit ==
    \/ \E c \in edits.to : Write(c)
    \/ \E f \in Files, c \in edits.to : Replace(f, c) \/ Create(f, c)
    \/ Unlink
    \/ Move
    \/ DropBackup

Next ==
    \/ Load
    \/ FirstWatch
    \/ Watcher
    \/ Edit

Spec == Init /\ [][Next]_vars

\* Main and the watcher goroutine are scheduled; the ticker ticks.  Nobody
\* owes an edit, but an editor that has saved its file deletes its backup.
FairSpec ==
    /\ Spec
    /\ WF_vars(Load) /\ WF_vars(FirstWatch) /\ WF_vars(Watcher)
    /\ WF_vars(DropBackup)

-----------------------------------------------------------------------------
(* Properties.                                                             *)

\* Every variable keeps its type.
TypeOK ==
    /\ path \in Files \cup {Nil}
    /\ aside \in Files \cup {Nil}
    /\ text \in [Files -> Contents]
    /\ watch \subseteq Files
    /\ events \in Seq(Event)
    /\ main \in {"off", "loaded", "watching", "wired", "ldaps", "serving", "exited"}
    /\ active = Nil \/ (active \in Contents /\ Valid(active))
    /\ wpc \in {"select", "stat", "rewatch", "parse", "apply"}
    /\ isChanged \in BOOLEAN
    /\ isRemoved \in BOOLEAN
    /\ read \in Contents
    /\ edits \in Editor

\* The watcher has nothing left to do.
Settled ==
    /\ main \notin {"off", "loaded", "exited"}
    /\ wpc = "select"
    /\ events = <<>>
    /\ ~isChanged
    /\ ~isRemoved

\* glauth serves what the file says, if the file can be served.
UpToDate == Usable => active = text[path]

\* When the watcher has nothing left to do and no editor is halfway through a
\* save, nothing was missed: the file the path names is watched, and what it
\* holds is in force unless it is unusable.  Edits may have come between any
\* two steps of the loop.
NothingMissed ==
    Settled /\ path # Nil /\ aside = Nil => path \in watch /\ UpToDate

\* Hot reload ("Enable hot-reload of configuration on changes",
\* v2/sample-simple.cfg:10): once the edits are over, what the file says is in
\* force for good, or glauth has exited.
FollowsTheFile == <>[](UpToDate \/ main = "exited")

=============================================================================
