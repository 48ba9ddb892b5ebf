----------------------------- MODULE ConfigWatch -----------------------------
(***************************************************************************)
(* The configuration file and what follows it while the client runs: Load  *)
(* at start, the inotify goroutine of Watch with reloadAndApply            *)
(* (config/*.go), the logger's level and the statistics switch it sets     *)
(* (logger/logger.go, stats/stats.go), and the statistics ticker of a      *)
(* session (tunnel(), main.go), which obeys that switch.                   *)
(*                                                                         *)
(* The file is edited at any time, the way editors do it: truncated and    *)
(* rewritten in place piece by piece, moved away and created anew,         *)
(* removed, or replaced by a rename.  A watch belongs to an inode, not to  *)
(* the path.                                                               *)
(***************************************************************************)
EXTENDS Naturals

CONSTANTS
    Inodes,    \* inodes the file may have
    NoFile,    \* no inode
    NoKey,     \* the file does not have a key
    Versions,  \* what is saved: the values of LOG_LEVEL and ENABLE_STATISTIC
    Drafts,    \* what a file says while it is written, up to half a line
    MaxEdits   \* bound: edits in a behaviour

ASSUME ConfigAssumption ==
    /\ NoFile \notin Inodes /\ Inodes # {}
    /\ NoKey \notin STRING
    /\ Versions \cup Drafts
           \subseteq [level : STRING \cup {NoKey}, stat : STRING \cup {NoKey}]
    /\ MaxEdits \in Nat

\* What a reader finds in a file that was truncated and not yet rewritten.
Blank == [level |-> NoKey, stat |-> NoKey]

Contents == Versions \cup Drafts \cup {Blank}

VARIABLES
    path,      \* inode at CONF_PATH
    backup,    \* inode the file was moved to
    content,   \* inode -> what it says
    writing,   \* inode an editor has open for writing
    edits,     \* edits begun
    watched,   \* inodes the inotify descriptor watches
    events,    \* kinds of events not read yet
    main,      \* main(): "load", "run", or "dead" after log.Fatalf or a panic
    bootStats, \* the context's ENABLE_STATISTIC is true
    wpc,       \* where the watcher goroutine stands
    opened,    \* inode reloadAndApply has open
    level,     \* level of the logger
    enabled,   \* the statistics switch
    session,   \* a session is up
    ticker,    \* it has a statistics ticker
    reported,  \* a [STATISTIC] line came since the switch or session went on
    unarmed,   \* history: the last addWatch failed
    early      \* history: a save fell between Load and the first addWatch,
               \* and nothing was applied since

fileVars == <<path, backup, content, writing, edits>>
queueVars == <<watched, events>>
settings == <<level, enabled>>
statVars == <<session, ticker, reported>>
vars == <<fileVars, queueVars, main, bootStats, wpc, opened, settings, statVars,
          unarmed, early>>

\* IN_CLOSE_WRITE; IN_MOVE_SELF or IN_DELETE_SELF; IN_IGNORED.
EventKinds == {"write", "gone", "ignored"}

WatcherLabels == {"off", "init", "read", "settle", "open", "apply", "failed"}

LogLevels == {"FATAL", "ERROR", "WARN", "INFO", "DEBUG", "TRACE"}

TypeOK ==
    /\ path \in Inodes \cup {NoFile} /\ backup \in Inodes \cup {NoFile}
    /\ content \in [Inodes -> Contents]
    /\ writing \in Inodes \cup {NoFile}
    /\ edits \in 0..MaxEdits
    /\ watched \in SUBSET Inodes
    /\ events \in SUBSET EventKinds
    /\ main \in {"load", "run", "dead"} /\ bootStats \in BOOLEAN
    /\ wpc \in WatcherLabels
    /\ opened \in Inodes \cup {NoFile}
    /\ wpc = "apply" <=> opened # NoFile
    /\ level \in LogLevels /\ enabled \in BOOLEAN
    /\ session \in BOOLEAN /\ ticker \in BOOLEAN /\ reported \in BOOLEAN
    /\ unarmed \in BOOLEAN /\ early \in BOOLEAN

----------------------------------------------------------------------------
(* What a value means *)

\* Faulty variant: an unknown name is taken as it is.
ConvertUnchecked(text) == text

\* strings.ToUpper, of the names that mean something.
Upper == [fatal |-> "FATAL", error |-> "ERROR", warn |-> "WARN",
          info |-> "INFO", debug |-> "DEBUG", trace |-> "TRACE"]
ToUpper(text) == IF text \in DOMAIN Upper THEN Upper[text] ELSE text

ConvertStringToLogLevel(text) ==
    IF ToUpper(text) \in LogLevels THEN ToUpper(text) ELSE "INFO"

\* strconv.ParseBool with its error ignored.
ParseBool(text) == text \in {"1", "t", "T", "true", "TRUE", "True"}

----------------------------------------------------------------------------
(* main() *)

Init ==
    /\ path \in {NoFile, CHOOSE i \in Inodes : TRUE}  \* whichever
    /\ backup = NoFile
    /\ content \in [Inodes -> Versions \cup {Blank}]
    /\ \A i \in Inodes \ {path} : content[i] = Blank
    /\ writing = NoFile /\ edits = 0
    /\ watched = {} /\ events = {}
    /\ main = "load" /\ bootStats = FALSE
    /\ wpc = "off" /\ opened = NoFile
    /\ level = "INFO" /\ enabled = FALSE
    /\ session = FALSE /\ ticker = FALSE /\ reported = FALSE
    /\ unarmed = FALSE /\ early = FALSE

\* Load, the first settings, and the start of the watcher goroutine.  The
\* assertion that LOG_LEVEL is a string panics when the key is missing.
Load ==
    /\ main = "load"
    /\ \/ /\ path # NoFile /\ content[path].level # NoKey
          /\ bootStats' = ParseBool(content[path].stat)
          /\ level' = ConvertStringToLogLevel(content[path].level)
          /\ enabled' = ParseBool(content[path].stat)
          /\ main' = "run" /\ wpc' = "init"
       \/ /\ path # NoFile => content[path].level = NoKey
          /\ main' = "dead"
          /\ UNCHANGED <<bootStats, settings, wpc>>
    /\ UNCHANGED <<fileVars, queueVars, opened, statVars, unarmed, early>>

(* The statistics ticker of a session: started from the value at boot.     *)

SessionUp ==
    /\ main = "run" /\ ~session
    /\ session' = TRUE
    /\ ticker' = bootStats
    /\ reported' = FALSE
    /\ UNCHANGED <<fileVars, queueVars, main, bootStats, wpc, opened, settings,
                   unarmed, early>>

SessionDown ==
    /\ session
    /\ session' = FALSE /\ ticker' = FALSE /\ reported' = FALSE
    /\ UNCHANGED <<fileVars, queueVars, main, bootStats, wpc, opened, settings,
                   unarmed, early>>

\* Faulty variant: the ticker ends when it finds the switch off.
TickOrStop ==
    /\ ticker /\ ~(enabled /\ reported)
    /\ ticker' = enabled
    /\ reported' = (reported \/ enabled)
    /\ UNCHANGED <<fileVars, queueVars, main, bootStats, wpc, opened, settings,
                   session, unarmed, early>>

\* A tick that prints; the counters it prints are in Observers.
Tick ==
    /\ ticker /\ enabled /\ ~reported
    /\ reported' = TRUE
    /\ UNCHANGED <<fileVars, queueVars, main, bootStats, wpc, opened, settings,
                   session, ticker, unarmed, early>>

----------------------------------------------------------------------------
(* The watcher goroutine *)

\* InotifyAddWatch may always fail, and does when there is no file.
addWatch ==
    \/ /\ path # NoFile
       /\ watched' = watched \cup {path} /\ unarmed' = FALSE
    \/ unarmed' = TRUE /\ UNCHANGED watched

\* InotifyInit1 fails and the goroutine returns.
WatchFails ==
    /\ wpc = "init"
    /\ wpc' = "failed"
    /\ UNCHANGED <<fileVars, queueVars, main, bootStats, opened, settings,
                   statVars, unarmed, early>>

\* InotifyInit1 and the first addWatch.
WatchStart ==
    /\ wpc = "init"
    /\ addWatch
    /\ wpc' = "read"
    /\ UNCHANGED <<fileVars, events, main, bootStats, opened, settings, statVars, early>>

\* Faulty variant: a file that is moved away is not treated as replaced.
ReadEventsMoveMissed ==
    /\ wpc = "read"
    /\ \E some \in SUBSET events \ {{}} :
           /\ events' = events \ some
           /\ wpc' = IF "ignored" \in some THEN "settle" ELSE "open"
    /\ UNCHANGED <<fileVars, watched, main, bootStats, opened, settings, statVars,
                   unarmed, early>>

\* Read returns some of the queued events, and they are looked at.
ReadEvents ==
    /\ wpc = "read"
    /\ \E some \in SUBSET events \ {{}} :
           /\ events' = events \ some
           /\ wpc' = IF some = {"write"} THEN "open" ELSE "settle"
    /\ UNCHANGED <<fileVars, watched, main, bootStats, opened, settings, statVars,
                   unarmed, early>>

\* Faulty variant: the new file is watched but not read.
ReArmOnly ==
    /\ wpc = "settle"
    /\ addWatch
    /\ wpc' = "read"
    /\ UNCHANGED <<fileVars, events, main, bootStats, opened, settings, statVars, early>>

\* The 50 ms are over: watch whatever is at the path now, then reload.
ReArm ==
    /\ wpc = "settle"
    /\ addWatch
    /\ wpc' = "open"
    /\ UNCHANGED <<fileVars, events, main, bootStats, opened, settings, statVars, early>>

(* reloadAndApply: open the file, then read and apply what it says. *)

OpenConf ==
    /\ wpc = "open"
    /\ opened' = path
    /\ wpc' = IF path = NoFile THEN "read" ELSE "apply"
    /\ UNCHANGED <<fileVars, queueVars, main, bootStats, settings, statVars,
                   unarmed, early>>

\* The kernel reports a deleted inode once nobody has it open any more.
Report(i) ==
    IF i \in watched
    THEN /\ events' = events \cup {"gone", "ignored"}
         /\ watched' = watched \ {i}
    ELSE UNCHANGED queueVars

\* The hot-reloadable settings of version v.
ApplyVersion(v) ==
    /\ level' = IF v.level \in {NoKey, ""} THEN level
                ELSE ConvertStringToLogLevel(v.level)
    /\ enabled' = IF v.stat = NoKey THEN enabled ELSE ParseBool(v.stat)

reloadAndApply ==
    /\ wpc = "apply"
    /\ ApplyVersion(content[opened])
    /\ reported' = (reported /\ (enabled \/ ~enabled'))
    /\ opened' = NoFile /\ wpc' = "read"
    /\ early' = FALSE
    /\ IF opened \in {path, backup} THEN UNCHANGED queueVars ELSE Report(opened)
    /\ UNCHANGED <<fileVars, main, bootStats, session, ticker, unarmed>>

Watcher ==
    WatchFails \/ WatchStart \/ ReadEvents \/ ReArm \/ OpenConf \/ reloadAndApply

----------------------------------------------------------------------------
(* Edits while the client runs (those before Load are in Init, those after *)
(* its end do not matter).  Every one of them leaves the client alone.     *)

Untouched == UNCHANGED <<main, bootStats, wpc, opened, settings, statVars, unarmed>>

\* An inode gets an event of its own, or loses its last name.
Notify(i, event) ==
    /\ events' = IF i \in watched THEN events \cup {event} ELSE events
    /\ UNCHANGED watched

Unlinked(i) == IF i = opened THEN UNCHANGED queueVars ELSE Report(i)

\* A complete new version is at the path.
Saved == early' = (early \/ wpc = "init")

Readable == {path, opened}

Unused == Inodes \ (Readable \cup {backup, writing} \cup watched)

\* Which unused inode a new file gets makes no difference.
NewInode == CHOOSE i \in Unused : TRUE

\* Inode i says v; what nobody can read any more is forgotten.
Put(i, v) ==
    content' = [j \in Inodes |-> IF j = i THEN v
                                 ELSE IF j \in Readable THEN content[j]
                                 ELSE Blank]

Truncate ==
    /\ edits < MaxEdits /\ path # NoFile /\ writing = NoFile
    /\ Put(path, Blank)
    /\ writing' = path
    /\ edits' = edits + 1
    /\ UNCHANGED <<path, backup, queueVars, early>> /\ Untouched

CreateFile ==
    /\ path = NoFile /\ writing = NoFile /\ Unused # {}
    /\ path' = NewInode /\ writing' = NewInode
    /\ Put(NewInode, Blank)
    /\ UNCHANGED <<backup, edits, queueVars, early>> /\ Untouched

\* The editor writes part of the file, which is no event the mask asks for.
WritePart(d) ==
    /\ writing # NoFile /\ content[writing] # d
    /\ Put(writing, d)
    /\ UNCHANGED <<path, backup, writing, edits, queueVars, early>> /\ Untouched

CloseWrite(v) ==
    /\ writing # NoFile
    /\ Put(writing, v)
    /\ writing' = NoFile
    /\ Notify(writing, "write")
    /\ Saved
    /\ UNCHANGED <<path, backup, edits>> /\ Untouched

MoveAway ==
    /\ edits < MaxEdits /\ path # NoFile /\ writing = NoFile /\ backup = NoFile
    /\ backup' = path /\ path' = NoFile
    /\ edits' = edits + 1
    /\ Notify(path, "gone")
    /\ UNCHANGED <<content, writing, early>> /\ Untouched

DeleteBackup ==
    /\ backup # NoFile
    /\ backup' = NoFile
    /\ Unlinked(backup)
    /\ UNCHANGED <<path, content, writing, edits, early>> /\ Untouched

Remove ==
    /\ edits < MaxEdits /\ path # NoFile /\ writing = NoFile
    /\ path' = NoFile
    /\ edits' = edits + 1
    /\ Unlinked(path)
    /\ UNCHANGED <<backup, content, writing, early>> /\ Untouched

\* A temporary file is renamed over the path.
RenameOver(v) ==
    /\ edits < MaxEdits /\ writing = NoFile /\ Unused # {}
    /\ path' = NewInode
    /\ Put(NewInode, v)
    /\ edits' = edits + 1
    /\ IF path = NoFile THEN UNCHANGED queueVars ELSE Unlinked(path)
    /\ Saved
    /\ UNCHANGED <<backup, writing>> /\ Untouched

Edit ==
    /\ main = "run"
    /\ \/ Truncate \/ CreateFile \/ MoveAway \/ DeleteBackup \/ Remove
       \/ \E v \in Versions : CloseWrite(v) \/ RenameOver(v)
       \/ \E d \in Drafts : WritePart(d)

----------------------------------------------------------------------------
Next == Load \/ Watcher \/ Tick \/ SessionUp \/ SessionDown \/ Edit

Spec == Init /\ [][Next]_vars

\* main, the watcher and the ticker run; nothing is assumed of edits and
\* sessions.
FairSpec == Spec /\ WF_vars(Load) /\ WF_vars(Watcher) /\ WF_vars(Tick)

----------------------------------------------------------------------------
\* The current version, if complete, is in force.
InForce ==
    path # NoFile /\ writing = NoFile =>
        LET v == content[path]
        IN  /\ v.level \notin {NoKey, ""} => level = ConvertStringToLogLevel(v.level)
            /\ v.stat # NoKey => enabled = ParseBool(v.stat)

\* The file at the path is watched, or the watcher is about to look at it.
Attentive ==
    \/ path \in watched
    \/ events \cap {"gone", "ignored"} # {}
    \/ wpc \in {"init", "settle"}
    \/ wpc = "apply" /\ opened \in watched /\ opened \notin {path, backup}

\* Once it runs, the watcher loses sight of the file only when arming its
\* watch fails: no order of replacing, moving and deleting the file, with
\* reloads in between, leaves it with a watch on an inode nobody will save
\* to (watch.go:66, 73).
DeafOnlyIfUnarmed ==
    main = "run" /\ wpc # "failed" => Attentive \/ unarmed

\* No save is missed: whenever the watcher waits and no event is queued for
\* it, the current version is in force, however saves, replacements and
\* reloads were interleaved, and settings that were read from a half-written
\* file are put right; except when the last watch could not be armed, and for
\* a save before the first watch (watch.go:52, 75, 96).
NoSaveMissed == wpc = "read" /\ events = {} => InForce \/ unarmed \/ early

(* Liveness *)

\* Once edits stop, the last save is in force, however saves, events and
\* reloads interleaved; except when the last watch could not be armed, and
\* for a save before the first watch (watch.go:20, main.go:343).
LastSaveInForce ==
    <>[](InForce \/ unarmed \/ early \/ main = "dead" \/ wpc = "failed")

\* With statistics on at boot, switching them off and on again brings the
\* [STATISTIC] lines back in the session that is up (main.go:838).
StatsResume ==
    (bootStats /\ session /\ enabled)
        ~> (reported \/ ~session \/ ~enabled)

(* What the repository says and the code does not do *)

\* "LOG_LEVEL and ENABLE_STATISTIC are hot-reloaded when this file is saved
\* (no restart needed)" and "ENABLE_STATISTIC=true turns on the [STATISTIC]
\* pre-reseq diagnostics" (tmasque.conf.template:1, 11).
HotStatsReported == (session /\ enabled) ~> (reported \/ ~session \/ ~enabled)

==============================================================================
