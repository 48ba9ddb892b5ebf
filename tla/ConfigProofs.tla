---------------------------- MODULE ConfigProofs ----------------------------
(***************************************************************************)
(* Proofs about ConfigWatch, for any inodes, versions and number of edits. *)
(***************************************************************************)
EXTENDS ConfigWatch, TLAPS

USE DEF fileVars, queueVars, settings, statVars

\* A file has one name, and there is no watcher before the file is loaded, nor
\* after that failed.
NameInv == path # NoFile => path # backup
StartInv == main # "run" => wpc = "off"

Inv == TypeOK /\ NameInv /\ StartInv /\ DeafOnlyIfUnarmed

\* What TypeOK says of the variables that the properties below depend on.
LEMMA Types ==
    ASSUME TypeOK
    PROVE  /\ path \in Inodes \cup {NoFile} /\ backup \in Inodes \cup {NoFile}
           /\ opened \in Inodes \cup {NoFile} /\ writing \in Inodes \cup {NoFile}
           /\ watched \subseteq Inodes /\ NoFile \notin Inodes
           /\ NoFile \notin watched /\ events \subseteq EventKinds
           /\ wpc = "apply" <=> opened # NoFile
           /\ content \in [Inodes -> Contents]
  BY ConfigAssumption DEF ConfigAssumption, TypeOK

LEMMA LevelType ==
    ASSUME NEW text
    PROVE  ConvertStringToLogLevel(text) \in LogLevels /\ ParseBool(text) \in BOOLEAN
  BY DEF ConvertStringToLogLevel, LogLevels, ParseBool

LEMMA InitInv == Init => Inv
<1> SUFFICES ASSUME Init PROVE Inv
  OBVIOUS
<1>1. (CHOOSE i \in Inodes : TRUE) \in Inodes
  BY ConfigAssumption DEF ConfigAssumption
<1>2. TypeOK
  <2>1. path \in Inodes \cup {NoFile} /\ edits \in 0..MaxEdits
    BY <1>1, ConfigAssumption DEF Init, ConfigAssumption
  <2> QED
    BY <2>1 DEF Init, TypeOK, Contents, LogLevels, WatcherLabels, EventKinds
<1> QED
  BY <1>2 DEF Init, Inv, NameInv, StartInv, DeafOnlyIfUnarmed

----------------------------------------------------------------------------
(* The client *)

LEMMA LoadInv == ASSUME Inv, Load PROVE Inv'
<1> USE DEF Inv
<1>1. level' \in LogLevels /\ enabled' \in BOOLEAN /\ bootStats' \in BOOLEAN
  BY LevelType DEF Load, TypeOK
<1>2. wpc = "off" /\ main' \in {"run", "dead"} /\ wpc' \in {"off", "init"}
  BY DEF Load, StartInv
<1>3. TypeOK'
  BY <1>1, <1>2, Types DEF Load, TypeOK, WatcherLabels
<1> QED
  BY <1>2, <1>3 DEF Load, NameInv, StartInv, DeafOnlyIfUnarmed, Attentive

LEMMA SessionInv ==
    ASSUME Inv, SessionUp \/ SessionDown \/ Tick
    PROVE  Inv'
<1> USE DEF Inv
<1>1. UNCHANGED <<fileVars, queueVars, main, bootStats, wpc, opened, settings,
                  unarmed, early>>
  BY DEF SessionUp, SessionDown, Tick
<1>2. session' \in BOOLEAN /\ ticker' \in BOOLEAN /\ reported' \in BOOLEAN
  BY DEF SessionUp, SessionDown, Tick, TypeOK
<1>3. TypeOK'
  BY <1>1, <1>2 DEF TypeOK
<1> QED
  BY <1>1, <1>3 DEF NameInv, StartInv, DeafOnlyIfUnarmed, Attentive

\* Arming the watch leaves the file watched, unless it fails.
LEMMA Armed ==
    ASSUME TypeOK, addWatch
    PROVE  watched' \subseteq Inodes /\ unarmed' \in BOOLEAN /\ (path \in watched' \/ unarmed')
  BY Types DEF addWatch

LEMMA WatcherInv == ASSUME Inv, Watcher PROVE Inv'
<1> USE DEF Inv
<1>1. UNCHANGED <<fileVars, main, bootStats, session, ticker>>
  BY DEF Watcher, WatchFails, WatchStart, ReadEvents, ReArm, OpenConf, reloadAndApply
<1>2. NameInv' /\ StartInv'
  BY <1>1 DEF NameInv, StartInv, Watcher, WatchFails, WatchStart, ReadEvents, ReArm,
     OpenConf, reloadAndApply
<1>3. CASE WatchFails
  BY <1>2, <1>3 DEF WatchFails, TypeOK, DeafOnlyIfUnarmed, WatcherLabels
<1>4. CASE WatchStart \/ ReArm
  <2>1. addWatch /\ wpc' \in {"read", "open"} /\ wpc # "apply" /\ path' = path
    BY <1>1, <1>4 DEF WatchStart, ReArm
  <2>2. TypeOK'
    BY <1>4, <2>1, Armed, Types DEF WatchStart, ReArm, TypeOK, WatcherLabels
  <2> QED
    BY <1>2, <2>1, <2>2, Armed DEF DeafOnlyIfUnarmed, Attentive
<1>5. CASE ReadEvents
  <2>1. PICK some \in SUBSET events \ {{}} :
          /\ events' = events \ some
          /\ wpc' = IF some = {"write"} THEN "open" ELSE "settle"
    BY <1>5 DEF ReadEvents
  <2>2. TypeOK'
    BY <1>5, <2>1, Types DEF ReadEvents, TypeOK, WatcherLabels
  <2> QED
    BY <1>2, <1>5, <2>1, <2>2, Types DEF ReadEvents, DeafOnlyIfUnarmed, Attentive
<1>6. CASE OpenConf
  <2>1. TypeOK'
    BY <1>6, Types DEF OpenConf, TypeOK, WatcherLabels
  <2> QED
    BY <1>2, <1>6, <2>1, Types DEF OpenConf, DeafOnlyIfUnarmed, Attentive
<1>7. CASE reloadAndApply
  <2>1. level' \in LogLevels /\ enabled' \in BOOLEAN
    BY <1>7, LevelType DEF reloadAndApply, ApplyVersion, TypeOK
  <2>2. watched' \subseteq watched /\ events \subseteq events' /\ events' \subseteq EventKinds
    BY <1>7, Types DEF reloadAndApply, Report, EventKinds
  <2>3. reported' \in BOOLEAN /\ early' \in BOOLEAN
    BY <1>7 DEF reloadAndApply, TypeOK
  <2>4. TypeOK'
    BY <1>1, <1>7, <2>1, <2>2, <2>3, Types DEF reloadAndApply, TypeOK, WatcherLabels
  <2>5. DeafOnlyIfUnarmed'
    BY <1>7, <2>2, Types DEF reloadAndApply, Report, DeafOnlyIfUnarmed, Attentive
  <2> QED
    BY <1>2, <2>4, <2>5
<1> QED
  BY <1>3, <1>4, <1>5, <1>6, <1>7 DEF Watcher

----------------------------------------------------------------------------
(* The editor *)

LEMMA Fresh ==
    ASSUME Unused # {}
    PROVE  NewInode \in Inodes /\ NewInode \notin {path, opened, backup}
<1>1. NewInode \in Unused
  BY DEF NewInode
<1> QED
  BY <1>1 DEF Unused, Readable

LEMMA PutType ==
    ASSUME TypeOK, NEW i \in Inodes, NEW v \in Contents, Put(i, v)
    PROVE  content' \in [Inodes -> Contents]
  BY Types DEF Put, Contents

\* TypeOK after an edit, which leaves the client alone.
LEMMA EditType ==
    ASSUME TypeOK, Untouched,
           path' \in Inodes \cup {NoFile}, backup' \in Inodes \cup {NoFile},
           writing' \in Inodes \cup {NoFile}, edits' \in 0..MaxEdits,
           content' \in [Inodes -> Contents],
           watched' \subseteq watched, events' \subseteq EventKinds,
           early' \in BOOLEAN
    PROVE  TypeOK'
  BY DEF TypeOK, Untouched

LEMMA Notified ==
    ASSUME TypeOK, NEW i \in Inodes, NEW e \in EventKinds, Notify(i, e)
    PROVE  /\ watched' = watched
           /\ events \subseteq events' /\ events' \subseteq EventKinds
           /\ i \in watched => e \in events'
  BY Types DEF Notify

\* Removing a name keeps the other inodes watched, and is either reported or
\* put off until the client has closed the file.
LEMMA Unlinking ==
    ASSUME TypeOK, NEW i \in Inodes, Unlinked(i)
    PROVE  /\ watched' \subseteq watched /\ watched \ {i} \subseteq watched'
           /\ events \subseteq events' /\ events' \subseteq EventKinds
           /\ i \in watched => "gone" \in events' \/ (i = opened /\ watched' = watched)
           /\ i = opened => watched' = watched
  BY Types DEF Unlinked, Report, EventKinds

LEMMA EditInv == ASSUME Inv, Edit PROVE Inv'
<1> USE DEF Inv
<1>0. Untouched
  BY DEF Edit, Truncate, CreateFile, MoveAway, DeleteBackup, Remove, WritePart,
     CloseWrite, RenameOver
<1>1. edits' \in 0..MaxEdits /\ early' \in BOOLEAN
  <2>1. edits' = edits \/ (edits < MaxEdits /\ edits' = edits + 1)
    BY DEF Edit, Truncate, CreateFile, MoveAway, DeleteBackup, Remove, WritePart,
       CloseWrite, RenameOver
  <2>2. early' = early \/ Saved
    BY DEF Edit, Truncate, CreateFile, MoveAway, DeleteBackup, Remove, WritePart,
       CloseWrite, RenameOver
  <2>3. early' \in BOOLEAN
    BY <2>2 DEF Saved, TypeOK
  <2> QED
    BY <2>1, <2>3, ConfigAssumption DEF ConfigAssumption, TypeOK
<1>2. StartInv'
  BY <1>0 DEF StartInv, Untouched
<1>3. CASE Truncate
  <2>1. path \in Inodes /\ content' \in [Inodes -> Contents]
    BY <1>3, Types, PutType DEF Truncate, Contents
  <2>2. TypeOK'
    BY <1>0, <1>1, <1>3, <2>1, EditType, Types DEF Truncate
  <2> QED
    BY <1>0, <1>2, <1>3, <2>2
    DEF Truncate, Untouched, NameInv, DeafOnlyIfUnarmed, Attentive
<1>4. CASE CreateFile
  <2>1. /\ path = NoFile /\ path' = NewInode /\ writing' = NewInode
        /\ UNCHANGED <<backup, queueVars>>
    BY <1>4 DEF CreateFile
  <2>2. NewInode \in Inodes /\ NewInode \notin {path, opened, backup}
    BY <1>4, Fresh DEF CreateFile
  <2>3. TypeOK'
    BY <1>0, <1>1, <1>4, <2>1, <2>2, EditType, Types, PutType DEF CreateFile, Contents
  <2>4. NameInv'
    BY <2>1, <2>2 DEF NameInv
  <2>5. DeafOnlyIfUnarmed'
    BY <1>0, <2>1, <2>2, Types DEF Untouched, DeafOnlyIfUnarmed, Attentive
  <2> QED
    BY <1>2, <2>3, <2>4, <2>5
<1>5. ASSUME NEW v \in Versions, CloseWrite(v) PROVE Inv'
  <2>1. writing \in Inodes /\ content' \in [Inodes -> Contents]
    BY <1>5, Types, PutType DEF CloseWrite, Contents
  <2>2. /\ watched' = watched /\ events \subseteq events' /\ events' \subseteq EventKinds
        /\ UNCHANGED <<path, backup>>
    <3>1. "write" \in EventKinds /\ Notify(writing, "write")
      BY <1>5 DEF CloseWrite, EventKinds
    <3> QED
      BY <1>5, <2>1, <3>1, Notified DEF CloseWrite
  <2>3. TypeOK'
    BY <1>0, <1>1, <1>5, <2>1, <2>2, EditType, Types DEF CloseWrite
  <2> QED
    BY <1>0, <1>2, <2>2, <2>3 DEF Untouched, NameInv, DeafOnlyIfUnarmed, Attentive
<1>6. CASE MoveAway
  <2>1. path \in Inodes /\ backup' = path /\ path' = NoFile
    BY <1>6, Types DEF MoveAway
  <2>2. /\ watched' = watched /\ events \subseteq events' /\ events' \subseteq EventKinds
        /\ path \in watched => "gone" \in events'
    <3>1. "gone" \in EventKinds /\ Notify(path, "gone")
      BY <1>6 DEF MoveAway, EventKinds
    <3> QED
      BY <2>1, <3>1, Notified
  <2>3. TypeOK'
    BY <1>0, <1>1, <1>6, <2>1, <2>2, EditType, Types DEF MoveAway
  <2>4. DeafOnlyIfUnarmed'
    BY <1>0, <2>1, <2>2, Types DEF Untouched, DeafOnlyIfUnarmed, Attentive
  <2> QED
    BY <1>2, <2>1, <2>3, <2>4 DEF NameInv
<1>7. CASE DeleteBackup
  <2>1. backup \in Inodes /\ backup' = NoFile /\ path' = path
    BY <1>7, Types DEF DeleteBackup
  <2>2. /\ watched' \subseteq watched /\ watched \ {backup} \subseteq watched'
        /\ events \subseteq events' /\ events' \subseteq EventKinds
        /\ backup = opened => watched' = watched
    BY <1>7, <2>1, Unlinking DEF DeleteBackup
  <2>3. TypeOK'
    BY <1>0, <1>1, <1>7, <2>1, <2>2, EditType, Types DEF DeleteBackup
  <2>4. DeafOnlyIfUnarmed'
    BY <1>0, <2>1, <2>2, Types DEF Untouched, DeafOnlyIfUnarmed, Attentive, NameInv
  <2>5. NameInv'
    BY <2>1 DEF NameInv
  <2> QED
    BY <1>2, <2>3, <2>4, <2>5
<1>8. CASE Remove
  <2>1. path \in Inodes /\ path' = NoFile /\ backup' = backup
    BY <1>8, Types DEF Remove
  <2>2. /\ watched' \subseteq watched /\ watched \ {path} \subseteq watched'
        /\ events \subseteq events' /\ events' \subseteq EventKinds
        /\ path \in watched => "gone" \in events' \/ (path = opened /\ watched' = watched)
        /\ path = opened => watched' = watched
    BY <1>8, <2>1, Unlinking DEF Remove
  <2>3. TypeOK'
    BY <1>0, <1>1, <1>8, <2>1, <2>2, EditType, Types DEF Remove
  <2>4. DeafOnlyIfUnarmed'
    BY <1>0, <2>1, <2>2, Types DEF Untouched, DeafOnlyIfUnarmed, Attentive, NameInv
  <2> QED
    BY <1>2, <2>1, <2>3, <2>4 DEF NameInv
<1>9. ASSUME NEW v \in Versions, RenameOver(v) PROVE Inv'
  <2>1. path' = NewInode /\ backup' = backup /\ writing' = writing
    BY <1>9 DEF RenameOver
  <2>2. NewInode \in Inodes /\ NewInode \notin {path, opened, backup}
    BY <1>9, Fresh DEF RenameOver
  <2>3. /\ watched' \subseteq watched /\ watched \ {path} \subseteq watched'
        /\ events \subseteq events' /\ events' \subseteq EventKinds
        /\ path \in watched => "gone" \in events' \/ (path = opened /\ watched' = watched)
        /\ path = opened => watched' = watched
    <3>1. CASE path = NoFile
      BY <1>9, <3>1, Types DEF RenameOver
    <3>2. CASE path \in Inodes
      BY <1>9, <3>2, Unlinking, Types DEF RenameOver
    <3> QED
      BY <3>1, <3>2, Types
  <2>4. TypeOK'
    BY <1>0, <1>1, <1>9, <2>1, <2>2, <2>3, EditType, Types, PutType DEF RenameOver, Contents
  <2>5. DeafOnlyIfUnarmed'
    BY <1>0, <2>1, <2>2, <2>3, Types DEF Untouched, DeafOnlyIfUnarmed, Attentive, NameInv
  <2>6. NameInv'
    BY <2>1, <2>2 DEF NameInv
  <2> QED
    BY <1>2, <2>4, <2>5, <2>6
<1>10. ASSUME NEW d \in Drafts, WritePart(d) PROVE Inv'
  <2>1. writing \in Inodes /\ content' \in [Inodes -> Contents]
    BY <1>10, Types, PutType DEF WritePart, Contents
  <2>2. TypeOK'
    BY <1>0, <1>1, <1>10, <2>1, EditType, Types DEF WritePart
  <2> QED
    BY <1>0, <1>2, <1>10, <2>2
    DEF WritePart, Untouched, NameInv, DeafOnlyIfUnarmed, Attentive
<1> QED
  BY <1>3, <1>4, <1>5, <1>6, <1>7, <1>8, <1>9, <1>10 DEF Edit

----------------------------------------------------------------------------
\* Inv is an inductive invariant.
THEOREM Invariance == Spec => []Inv
<1>1. Inv /\ [Next]_vars => Inv'
  <2> SUFFICES ASSUME Inv, [Next]_vars PROVE Inv'
    OBVIOUS
  <2>1. CASE UNCHANGED vars
    BY <2>1 DEF vars, Inv, TypeOK, NameInv, StartInv, DeafOnlyIfUnarmed, Attentive
  <2>2. CASE Next
    BY <2>2, LoadInv, SessionInv, WatcherInv, EditInv DEF Next
  <2> QED
    BY <2>1, <2>2
<1> QED
  BY <1>1, InitInv, PTL DEF Spec

\* Every variable of the watcher, the file and the ticker keeps its type: in
\* particular no level is ever in force that the logger does not know.
THEOREM TypeCorrect == Spec => []TypeOK
  BY Invariance, PTL DEF Inv

\* No order of edits and reloads makes the watcher lose sight of the file,
\* except a watch that could not be armed.
THEOREM StaysAttentive == Spec => []DeafOnlyIfUnarmed
  BY Invariance, PTL DEF Inv

----------------------------------------------------------------------------
(* No save is missed. *)

\* An editor writes to the file at the path.
WriteInv == writing \in {NoFile, path}

\* A file that was replaced while the watcher had it open is succeeded by one
\* that is not watched yet.
OpenInv == wpc = "apply" /\ opened # path => path \notin watched

\* Until the first watch the settings are those that were loaded.
FirstInv == wpc = "init" => InForce \/ early

SyncInv == WriteInv /\ OpenInv /\ FirstInv /\ NoSaveMissed

\* While the watcher waits with nothing queued, it watches the file at the
\* path, or could not arm its watch.
LEMMA WaitsOnPath ==
    ASSUME Inv, wpc = "read", events = {}
    PROVE  path \in watched \/ unarmed
  BY DEF Inv, StartInv, DeafOnlyIfUnarmed, Attentive

LEMMA ClientSync ==
    ASSUME Inv, SyncInv, Load \/ SessionUp \/ SessionDown \/ Tick
    PROVE  SyncInv'
<1> USE DEF SyncInv
<1>1. CASE Load
  <2>1. wpc = "off" /\ wpc' \in {"off", "init"} /\ UNCHANGED <<fileVars, queueVars, opened>>
    BY <1>1 DEF Load, Inv, StartInv
  <2>2. wpc' = "init" => InForce'
    BY <1>1, <2>1 DEF Load, InForce
  <2> QED
    BY <2>1, <2>2 DEF WriteInv, OpenInv, FirstInv, NoSaveMissed
<1>2. CASE SessionUp \/ SessionDown \/ Tick
  <2>1. UNCHANGED <<fileVars, queueVars, wpc, opened, settings, unarmed, early>>
    BY <1>2 DEF SessionUp, SessionDown, Tick
  <2> QED
    BY <2>1 DEF WriteInv, OpenInv, FirstInv, NoSaveMissed, InForce
<1> QED
  BY <1>1, <1>2

LEMMA WatcherSync ==
    ASSUME Inv, SyncInv, Watcher
    PROVE  SyncInv'
<1> USE DEF SyncInv
<1>1. UNCHANGED fileVars
  BY DEF Watcher, WatchFails, WatchStart, ReadEvents, ReArm, OpenConf, reloadAndApply
<1>2. WriteInv'
  BY <1>1 DEF WriteInv
<1>3. CASE WatchFails \/ ReadEvents \/ ReArm
  <2>1. wpc' \in {"failed", "open", "settle"}
    BY <1>3 DEF WatchFails, ReadEvents, ReArm
  <2> QED
    BY <1>2, <2>1 DEF OpenInv, FirstInv, NoSaveMissed
<1>4. CASE WatchStart
  <2>1. wpc = "init" /\ wpc' = "read" /\ UNCHANGED <<settings, early>>
    BY <1>4 DEF WatchStart
  <2> QED
    BY <1>1, <1>2, <2>1 DEF OpenInv, FirstInv, NoSaveMissed, InForce
<1>5. CASE OpenConf
  <2>1. /\ opened' = path /\ UNCHANGED <<settings, path>>
        /\ wpc' = IF path = NoFile THEN "read" ELSE "apply"
    BY <1>1, <1>5 DEF OpenConf
  <2>2. path = NoFile => InForce'
    BY <2>1 DEF InForce
  <2> QED
    BY <1>2, <2>1, <2>2 DEF OpenInv, FirstInv, NoSaveMissed
<1>6. CASE reloadAndApply
  <2>1. /\ wpc = "apply" /\ wpc' = "read" /\ unarmed' = unarmed
        /\ ApplyVersion(content[opened])
        /\ IF opened \in {path, backup} THEN UNCHANGED queueVars ELSE Report(opened)
    BY <1>6 DEF reloadAndApply
  <2>2. CASE opened = path
    <3>1. InForce'
      BY <1>1, <2>1, <2>2 DEF ApplyVersion, InForce
    <3> QED
      BY <1>2, <2>1, <3>1 DEF OpenInv, FirstInv, NoSaveMissed
  <2>3. CASE opened # path
    <3>1. path \notin watched
      BY <2>1, <2>3 DEF OpenInv
    <3>2. \/ events # {} \/ unarmed
          \/ opened \in watched /\ opened \notin {path, backup}
      BY <2>1, <3>1 DEF Inv, StartInv, DeafOnlyIfUnarmed, Attentive
    <3>3. events' # {} \/ unarmed
      BY <2>1, <3>2 DEF Report
    <3> QED
      BY <1>2, <2>1, <3>3 DEF OpenInv, FirstInv, NoSaveMissed
  <2> QED
    BY <2>2, <2>3
<1> QED
  BY <1>3, <1>4, <1>5, <1>6 DEF Watcher

LEMMA EditSync ==
    ASSUME Inv, SyncInv, Edit
    PROVE  SyncInv'
<1> USE DEF SyncInv
<1>1. UNCHANGED <<wpc, opened, settings, unarmed>> /\ (early => early')
  <2>1. Untouched
    BY DEF Edit, Truncate, CreateFile, MoveAway, DeleteBackup, Remove, WritePart,
       CloseWrite, RenameOver
  <2>2. early' = early \/ Saved
    BY DEF Edit, Truncate, CreateFile, MoveAway, DeleteBackup, Remove, WritePart,
       CloseWrite, RenameOver
  <2>3. early \in BOOLEAN
    BY DEF Inv, TypeOK
  <2>4. early => early'
    BY <2>2, <2>3 DEF Saved
  <2> QED
    BY <2>1, <2>4 DEF Untouched
<1>2. NoFile \notin watched /\ TypeOK
  BY Types DEF Inv
<1>3. watched' \subseteq watched /\ (events' = {} => events = {})
  BY DEF Edit, Truncate, CreateFile, MoveAway, DeleteBackup, Remove, WritePart,
     CloseWrite, RenameOver, Notify, Unlinked, Report
<1>4. CASE Truncate \/ CreateFile
  <2>1. writing' = path' /\ writing' # NoFile /\ (path' = path \/ path' \notin watched)
    <3>1. CASE Truncate
      BY <3>1 DEF Truncate
    <3>2. CASE CreateFile
      <4>1. NewInode \in Unused
        BY <3>2 DEF CreateFile, NewInode
      <4> QED
        BY <1>2, <3>2, <4>1, Types DEF CreateFile, Unused
    <3> QED
      BY <1>4, <3>1, <3>2
  <2>2. InForce'
    BY <2>1 DEF InForce
  <2> QED
    BY <1>1, <1>3, <2>1, <2>2 DEF WriteInv, OpenInv, FirstInv, NoSaveMissed
<1>5. CASE MoveAway \/ Remove
  <2>1. path' = NoFile /\ writing' = NoFile
    BY <1>5 DEF MoveAway, Remove
  <2>2. InForce'
    BY <2>1 DEF InForce
  <2> QED
    BY <1>1, <1>2, <1>3, <2>1, <2>2 DEF WriteInv, OpenInv, FirstInv, NoSaveMissed
<1>6. CASE DeleteBackup
  <2>1. UNCHANGED <<path, content, writing, early>>
    BY <1>6 DEF DeleteBackup
  <2> QED
    BY <1>1, <1>3, <2>1 DEF WriteInv, OpenInv, FirstInv, NoSaveMissed, InForce
<1>7. ASSUME NEW v \in Versions, CloseWrite(v) PROVE SyncInv'
  <2>1. /\ writing = path /\ writing' = NoFile /\ path' = path
        /\ Notify(path, "write") /\ Saved
    BY <1>7 DEF CloseWrite, WriteInv
  <2>2. wpc = "init" => early'
    BY <2>1 DEF Saved
  <2>3. path \in watched => events' # {}
    BY <2>1 DEF Notify
  <2>4. wpc = "read" /\ events' = {} => unarmed'
    BY <1>1, <1>3, <2>3, WaitsOnPath
  <2> QED
    BY <1>1, <1>3, <2>1, <2>2, <2>4 DEF WriteInv, OpenInv, FirstInv, NoSaveMissed
<1>8. ASSUME NEW v \in Versions, RenameOver(v) PROVE SyncInv'
  <2>1. /\ path' = NewInode /\ writing' = NoFile /\ Saved
        /\ IF path = NoFile THEN UNCHANGED queueVars ELSE Unlinked(path)
    BY <1>8 DEF RenameOver
  <2>2. path' \notin watched'
    <3>1. NewInode \in Unused
      BY <1>8 DEF RenameOver, NewInode
    <3> QED
      BY <1>3, <2>1, <3>1 DEF Unused
  <2>3. wpc = "init" => early'
    BY <2>1 DEF Saved
  <2>4. wpc = "read" /\ path \in watched => events' # {}
    <3>1. wpc = "read" => opened = NoFile
      BY <1>2 DEF TypeOK
    <3> QED
      BY <1>2, <2>1, <3>1 DEF Unlinked, Report
  <2>5. wpc = "read" /\ events' = {} => unarmed'
    BY <1>1, <1>3, <2>4, WaitsOnPath
  <2> QED
    BY <1>1, <2>1, <2>2, <2>3, <2>5 DEF WriteInv, OpenInv, FirstInv, NoSaveMissed
<1>9. ASSUME NEW d \in Drafts, WritePart(d) PROVE SyncInv'
  <2>1. UNCHANGED <<path, writing>> /\ writing # NoFile
    BY <1>9 DEF WritePart
  <2>2. InForce'
    BY <2>1 DEF InForce
  <2> QED
    BY <1>1, <1>3, <2>1, <2>2 DEF WriteInv, OpenInv, FirstInv, NoSaveMissed
<1> QED
  BY <1>4, <1>5, <1>6, <1>7, <1>8, <1>9 DEF Edit

\* No order of edits, events and reloads makes the watcher wait with a save
\* that is not in force.  What is left for LastSaveInForce is that it gets to
\* wait.
THEOREM SavesAreApplied == Spec => []NoSaveMissed
<1>1. Init => SyncInv
  BY DEF Init, SyncInv, WriteInv, OpenInv, FirstInv, NoSaveMissed
<1>2. Inv /\ SyncInv /\ [Next]_vars => SyncInv'
  <2> SUFFICES ASSUME Inv, SyncInv, [Next]_vars PROVE SyncInv'
    OBVIOUS
  <2>1. CASE UNCHANGED vars
    BY <2>1 DEF vars, SyncInv, WriteInv, OpenInv, FirstInv, NoSaveMissed, InForce
  <2>2. CASE Next
    BY <2>2, ClientSync, WatcherSync, EditSync DEF Next
  <2> QED
    BY <2>1, <2>2
<1>3. SyncInv => NoSaveMissed
  BY DEF SyncInv
<1> QED
  BY <1>1, <1>2, <1>3, Invariance, PTL DEF Spec
=============================================================================
