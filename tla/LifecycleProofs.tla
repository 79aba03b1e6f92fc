--------------------------- MODULE LifecycleProofs ---------------------------
(***************************************************************************)
(* Proofs about the storage coordinator, for every value of the constants, *)
(* in three parts.                                                         *)
(*                                                                         *)
(* First, type correctness, that a kernel mount always has an unblocked    *)
(* record, that a conflict, once recorded, stops all automatic work, and   *)
(* that the coordinator implements Custody: each of its steps is a step of *)
(* Custody or leaves stage, contents and conflict as they are.             *)
(*                                                                         *)
(* Then, on top of it, that nothing is lost: whatever the owner, the       *)
(* mount's clients, crashes, errors and power losses do, a recoverable     *)
(* copy of every credential exists, staging is empty once neither row nor  *)
(* marker is left, and the store admits every transition the coordinator   *)
(* asks for.                                                               *)
(*                                                                         *)
(* Last, that left alone it never stops: every namespace that may be met   *)
(* is one the committed phase names, and no conflict is declared.          *)
(***************************************************************************)
EXTENDS CustodyRefinement, LifecycleInvariants, TLAPS

\* The situation of an operation past its checks.
Alone == mounted = "no" /\ db.blocked = "no"

\* The grouping loses nothing.
LEMMA TypeGroups == TypeOK <=> StoreType /\ DiskType /\ ProcType /\ WorldType
  BY DEF TypeOK, StoreType, DiskType, ProcType, WorldType, Ops, Obs

LEMMA TypeGroupsAfter == TypeOK' <=> StoreType' /\ DiskType' /\ ProcType' /\ WorldType'
  BY DEF TypeOK, StoreType, DiskType, ProcType, WorldType, Ops, Obs

-----------------------------------------------------------------------------
(* The values operators build                                              *)

\* The neutral values are values of their types.
LEMMA NeutralTypes == /\ NoId \in Identity /\ Missing \in Entry
                      /\ Nothing \in File /\ NoObs \in Obs
  BY DEF NoId, Identity, Missing, Entry, Phases, Reasons, Empty, Nothing, File, NoObs, Obs

\* What an observation returns.
LEMMA SeenType ==
  ASSUME DiskType, NEW name \in Names
  PROVE  /\ Id(name) \in Identity /\ fs[name] \in File /\ fs[name].body \in Nat
         /\ Seen(name) \in Obs
  BY DEF DiskType, Id, Seen, File, Obs, Names

\* A rename advances the change time and nothing else.
LEMMA RenamedType ==
  ASSUME NEW file \in File
  PROVE  Renamed(file) \in File
  BY DEF Renamed, File, Identity

\* Every name a coordinator uses is a name of the model.
LEMMA NamesType ==
  /\ "target" \in Names /\ "swap" \in Names /\ "stored" \in Names
  /\ "restore" \in Names /\ "final" \in Names /\ "retired" \in Names
  /\ \A n \in Final : n \in Names /\ Building(n) \in Names
  BY DEF Names, StagingNames, Final, Building

-----------------------------------------------------------------------------
(* Control                                                                 *)

\* Every label but the one from which the kernel mount is made.
Onward == Labels \ {"mount"}

\* The labels the actions name are labels.
LEMMA LabelsInUse ==
     "idle" \in Onward /\ "serving" \in Onward /\ "stop" \in Onward /\
     "beginUnmount" \in Onward /\ "commitUnmount" \in Onward /\
     "detach" \in Onward /\ "reconcile" \in Onward /\
     "leaveCheck" \in Onward /\ "commitLeave" \in Onward /\
     "prepare" \in Onward /\ "beginMount" \in Onward /\
     "commitMount" \in Onward /\ "capture" \in Onward /\
     "commitCaptured" \in Onward /\ "beginInstall" \in Onward /\
     "buildPlaceholder" \in Onward /\ "promotePlaceholder" \in Onward /\
     "commitInstallIntent" \in Onward /\ "installObserve" \in Onward /\
     "installRename" \in Onward /\ "installReobserve" \in Onward /\
     "installVerify" \in Onward /\ "installSync" \in Onward /\
     "commitInstalled" \in Onward /\ "requireInstalled" \in Onward /\
     "restoreLoad" \in Onward /\ "beginRestore" \in Onward /\
     "commitRestoreIntent" \in Onward /\ "restoreBuild" \in Onward /\
     "promoteRestore" \in Onward /\ "commitRestoreFile" \in Onward /\
     "restoreObserve" \in Onward /\ "restoreRename" \in Onward /\
     "restoreReobserve" \in Onward /\ "restoreVerify" \in Onward /\
     "restoreSync" \in Onward /\ "commitRestored" \in Onward /\
     "cleanup" \in Onward /\ "commitDelete" \in Onward /\
     "finalBuild" \in Onward /\ "promoteFinal" \in Onward /\
     "retire" \in Onward /\ "retireRename" \in Onward /\
     "retireCheck" \in Onward /\ "removeDisplaced" \in Onward /\
     "removeDetached" \in Onward /\ "removeRetired" \in Onward /\
     "finalCheck" \in Onward /\ "beginFinalization" \in Onward /\
     "finObserve" \in Onward /\ "finRename" \in Onward /\
     "finVerify" \in Onward /\ "finSync" \in Onward /\
     "finRecheck" \in Onward /\ "deleteMarker" \in Onward /\
     "storeLoad" \in Onward /\ "storeStaging" \in Onward /\
     "commitStoreIntent" \in Onward /\ "storeObserve" \in Onward /\
     "storeRename" \in Onward /\ "storeReobserve" \in Onward /\
     "storeVerify" \in Onward /\ "storeSync" \in Onward /\
     "commitStored" \in Onward /\ "requireStored" \in Onward
  BY DEF Onward, Labels

LEMMA OnwardLabels == Onward \subseteq Labels /\ "mount" \in Labels
  BY DEF Onward, Labels

\* The reasons conflicts are recorded with are reasons.
LEMMA ReasonsInUse ==
     "source" \in Reasons /\ "staging" \in Reasons /\ "install" \in Reasons /\
     "snapshot" \in Reasons /\ "installed" \in Reasons /\
     "store" \in Reasons /\ "storedSnapshot" \in Reasons /\
     "stored" \in Reasons /\ "restore" \in Reasons /\ "verify" \in Reasons /\
     "reappeared" \in Reasons /\ "parent" \in Reasons /\
     "target" \in Reasons /\ "unexpectedFinal" \in Reasons /\
     "displaced" \in Reasons /\ "detached" \in Reasons /\
     "retired" \in Reasons /\ "unrecognized" \in Reasons /\ "final" \in Reasons /\
     "io" \in Reasons
  BY DEF Reasons

\* The commands the actions name are commands.
LEMMA OpsInUse ==
     "none" \in Ops /\ "setup" \in Ops /\ "start" \in Ops /\ "stop" \in Ops /\
     "drop" \in Ops /\ "restore" \in Ops /\ "store" \in Ops
  BY DEF Ops

-----------------------------------------------------------------------------
(* Control                                                                 *)

\* Moving on keeps the coordinator's own state well typed ...
LEMMA ProceedType ==
  ASSUME ProcType, NEW label \in Labels, NEW entry \in Entry, NEW seen \in Obs,
         NEW file \in Identity, Proceed(label, entry, seen, file)
  PROVE  ProcType'
  BY DEF Proceed, ProcType

LEMMA GotoType ==
  ASSUME ProcType, NEW label \in Labels, Goto(label)
  PROVE  ProcType'
  BY ProceedType DEF Goto, ProcType

\* ... as does beginning a command, ending the process, and failing.
LEMMA EnterType ==
  ASSUME ProcType, NEW command \in Ops, NEW label \in Labels, NEW flag \in BOOLEAN,
         Enter(command, label, flag), mounted' \in {"no", "live", "stale"}
  PROVE  ProcType'
  BY NeutralTypes DEF Enter, ProcType

LEMMA ExitType ==
  ASSUME ProcType, Exit
  PROVE  ProcType'
  BY EnterType, LabelsInUse, OnwardLabels, OpsInUse DEF Exit, ProcType

LEMMA FailType ==
  ASSUME ProcType, Fail
  PROVE  ProcType'
  <1>1. CASE op = "start"
    BY <1>1, EnterType, LabelsInUse, OnwardLabels, OpsInUse DEF Fail, ProcType
  <1>2. CASE op = "stop"
    BY <1>2, EnterType, LabelsInUse, OnwardLabels, OpsInUse DEF Fail, ProcType
  <1>3. CASE op # "start" /\ op # "stop"
    BY <1>3, ExitType DEF Fail
  <1> QED BY <1>1, <1>2, <1>3

LEMMA StillType ==
  ASSUME StoreType, DiskType, Still
  PROVE  StoreType' /\ DiskType'
  BY DEF Still, disk, StoreType, DiskType

\* Past the checks, and away from the labels that hold a session, the
\* operation is alone with an unblocked entry.
LEMMA PastChecks ==
  ASSUME Sound, pc \notin Unchecked, pc \notin Holding
  PROVE  Alone
  <1>1. db.blocked = "no"
    BY DEF Sound, Safe, ChecksHold
  <1>2. mounted # "live"
    BY DEF Sound, Safe, MountPlaces
  <1>3. mounted # "stale"
    BY DEF Sound, Safe, MountPlaces, Unchecked
  <1> QED BY <1>1, <1>2, <1>3 DEF Sound, ProcType, Alone

\* Before them there may at least be no mount.
LEMMA Unmounted ==
  ASSUME Sound, pc \notin {"idle"}, pc \notin Holding
  PROVE  mounted = "no"
  <1>1. mounted # "live"
    BY DEF Sound, Safe, MountPlaces
  <1>2. mounted # "stale"
    BY DEF Sound, Safe, MountPlaces, Holding
  <1> QED BY <1>1, <1>2 DEF Sound, ProcType

-----------------------------------------------------------------------------
(* The outcomes a step of an operation may have                            *)

\* A failure ends the process, or turns a start into a stop: what a session
\* held is still recorded, and no label past the checks is reached.
LEMMA FailSafe ==
  ASSUME Sound, Fail, db'.phase = db.phase, MarkerUnblocked',
         mounted # "no" => db'.blocked = db.blocked
  PROVE  Safe'
  <1>1. \/ /\ pc' = "stop" /\ op \in {"start", "stop"} /\ mounted' = mounted
        \/ /\ pc' = "idle" /\ op' = "none"
           /\ mounted' = IF mounted = "live" THEN "stale" ELSE mounted
    BY DEF Fail, Exit, Enter
  <1>2. ChecksHold'
    BY <1>1 DEF ChecksHold, Unchecked
  <1>3. MountIsRecorded'
    BY <1>1 DEF MountIsRecorded, Sound, Safe, ProcType
  <1>4. MountPlaces'
    BY <1>1 DEF MountPlaces, Sound, Safe, ProcType, Holding
  <1> QED BY <1>2, <1>3, <1>4 DEF Safe

LEMMA ExitSafe ==
  ASSUME Sound, Exit, db' = db
  PROVE  Safe'
  <1>1. /\ pc' = "idle" /\ op' = "none"
        /\ mounted' = IF mounted = "live" THEN "stale" ELSE mounted
    BY DEF Exit, Enter
  <1>2. ChecksHold' /\ MarkerUnblocked'
    BY <1>1 DEF ChecksHold, Unchecked, MarkerUnblocked, Sound, Safe
  <1>3. MountIsRecorded'
    BY <1>1 DEF MountIsRecorded, Sound, Safe, ProcType
  <1>4. MountPlaces'
    BY <1>1 DEF MountPlaces, Sound, Safe, ProcType, Holding
  <1> QED BY <1>2, <1>3, <1>4 DEF Safe

\* An operation without a mount goes on to a label past the checks with an
\* unblocked entry, to one before them with any.
LEMMA OnwardSafe ==
  ASSUME Sound, mounted = "no", mounted' = "no", MarkerUnblocked', pc' \in Onward,
         pc' \in Unchecked \/ db'.blocked = "no"
  PROVE  Safe'
  BY DEF Safe, ChecksHold, MountIsRecorded, MountPlaces, Onward

LEMMA AbandonStep ==
  ASSUME Sound, Abandon
  PROVE  Sound'
  <1>1. StoreType' /\ DiskType' /\ ProcType' /\ db' = db
    BY StillType, FailType DEF Abandon, Sound, Still
  <1>2. MarkerUnblocked'
    BY <1>1 DEF MarkerUnblocked, Sound, Safe
  <1>3. Safe'
    BY <1>1, <1>2, FailSafe DEF Abandon
  <1> QED BY <1>1, <1>3 DEF Sound

\* Ending the process without an error.
LEMMA ExitStep ==
  ASSUME Sound, Still, Exit
  PROVE  Sound'
  <1>1. StoreType' /\ DiskType' /\ ProcType' /\ db' = db
    BY StillType, ExitType DEF Sound, Still
  <1> QED BY <1>1, ExitSafe DEF Sound

\* A check that touches nothing: on to the next label with what it observed.
LEMMA ReadStep ==
  ASSUME Sound, mounted = "no", NEW label \in Onward, NEW entry \in Entry, NEW seen \in Obs,
         NEW file \in Identity, label \in Unchecked \/ db.blocked = "no",
         Still, Proceed(label, entry, seen, file)
  PROVE  Sound'
  <1>1. StoreType' /\ DiskType' /\ ProcType'
    BY StillType, ProceedType, OnwardLabels DEF Sound
  <1>2. db' = db /\ mounted' = "no" /\ pc' = label
    BY DEF Still, Proceed
  <1>3. MarkerUnblocked'
    BY <1>2 DEF MarkerUnblocked, Sound, Safe
  <1>4. Safe'
    BY <1>2, <1>3, OnwardSafe
  <1> QED BY <1>1, <1>4 DEF Sound

LEMMA PassStep ==
  ASSUME Sound, mounted = "no", NEW label \in Onward,
         label \in Unchecked \/ db.blocked = "no", Pass(label) \/ Loaded(label)
  PROVE  Sound'
  <1>1. /\ cur \in Entry /\ db \in Entry /\ obs \in Obs /\ made \in Identity
        /\ NoObs \in Obs /\ NoId \in Identity
    BY NeutralTypes DEF Sound, StoreType, ProcType
  <1>2. Still /\ (Proceed(label, cur, obs, made) \/ Proceed(label, db, NoObs, NoId))
    BY DEF Pass, Goto, Loaded
  <1> QED BY <1>1, <1>2, ReadStep

\* The outcomes of a check past require_unblocked.
LEMMA CheckStep ==
  ASSUME Sound, Alone, NEW label \in Onward, Pass(label) \/ Abandon \/ Loaded(label)
  PROVE  Sound'
  BY AbandonStep, PassStep DEF Alone

\* An observation carried to the next label, the entry unchanged.
LEMMA ObservedStep ==
  ASSUME Sound, Alone, NEW name \in Names, NEW label \in Onward,
         Still, Proceed(label, cur, Seen(name), NoId)
  PROVE  Sound'
  <1>1. cur \in Entry /\ Seen(name) \in Obs /\ NoId \in Identity
    BY SeenType, NeutralTypes DEF Sound, ProcType
  <1> QED BY <1>1, ReadStep DEF Alone

\* A blocked copy of an entry is an entry.
LEMMA BlockedEntry ==
  ASSUME NEW e \in Entry, NEW reason \in Reasons
  PROVE  /\ [e EXCEPT !.blocked = reason] \in Entry
         /\ [e EXCEPT !.blocked = reason].phase = e.phase
  BY DEF Entry

\* The store keeps no row in the phases that are not a row's, and no other
\* row than a successor of the one expected.
LEMMA AcceptedRow ==
  ASSUME NEW stored, NEW expected, NEW next, Accepts(stored, expected, next)
  PROVE  /\ next.phase \notin {"missing", "finalizing"}
         /\ \/ expected = Missing /\ next.phase = "captured" /\ next.blocked = "no"
               /\ stored = Missing
            \/ stored = expected /\ stored.blocked = "no"
  <1>1. ValidStructure(next)
    BY DEF Accepts, ValidSnapshot
  <1>2. next.phase \notin {"missing", "finalizing"}
    BY <1>1 DEF ValidStructure
  <1>3. \/ expected = Missing /\ next.phase = "captured" /\ next.blocked = "no"
           /\ stored = Missing
        \/ stored = expected /\ stored.blocked = "no"
    BY DEF Accepts, ValidSuccessor
  <1> QED BY <1>2, <1>3

\* conflict leaves the phase alone, and only when no mount is there.
LEMMA BlockStep ==
  ASSUME Sound, Alone, NEW reason \in Reasons, Block(reason)
  PROVE  Sound'
  <1> DEFINE blocked == [cur EXCEPT !.blocked = reason]
  <1>1. cur \in Entry /\ blocked \in Entry /\ blocked.phase = cur.phase
    BY BlockedEntry DEF Sound, ProcType
  <1>2. ProcType' /\ DiskType' /\ captures' \in Nat
    BY FailType DEF Block, Sound, disk, DiskType, StoreType
  <1>3. CASE Accepts(db, cur, blocked)
    <2>1. db' = blocked /\ refused' = refused /\ Fail
      BY <1>3 DEF Block
    <2>2. blocked.phase \notin {"missing", "finalizing"}
      BY <1>3, AcceptedRow
    <2>3. db = cur
      <3>1. CASE cur = Missing /\ blocked.phase = "captured"
        BY <1>1, <3>1 DEF Missing
      <3> QED BY <1>3, <3>1, AcceptedRow
    <2>4. MarkerUnblocked'
      BY <2>1, <2>2 DEF MarkerUnblocked
    <2>5. Safe'
      BY <1>1, <2>1, <2>3, <2>4, FailSafe DEF Alone
    <2> QED BY <1>1, <1>2, <2>1, <2>5 DEF Sound, StoreType
  <1>4. CASE ~Accepts(db, cur, blocked)
    <2>1. db' = db /\ refused' = TRUE /\ Fail
      BY <1>4 DEF Block
    <2>2. MarkerUnblocked'
      BY <2>1 DEF MarkerUnblocked, Sound, Safe
    <2>3. Safe'
      BY <2>1, <2>2, FailSafe
    <2> QED BY <1>2, <2>1, <2>3 DEF Sound, StoreType
  <1> QED BY <1>3, <1>4

\* A refused transaction fails with nothing changed.
LEMMA RefusedStep ==
  ASSUME Sound, Fail, refused' = TRUE, UNCHANGED <<db, disk>>, captures' \in Nat
  PROVE  Sound'
  <1>1. StoreType' /\ DiskType' /\ ProcType'
    BY FailType DEF Sound, StoreType, disk, DiskType
  <1>2. MarkerUnblocked'
    BY DEF MarkerUnblocked, Sound, Safe
  <1>3. Safe'
    BY <1>2, FailSafe
  <1> QED BY <1>1, <1>3 DEF Sound

\* A transition is stored, or the operation fails.
LEMMA CommitStep ==
  ASSUME Sound, Alone, NEW next \in Entry, next.phase # "captured",
         next.blocked = cur.blocked, NEW label \in Onward, Commit(next, label)
  PROVE  Sound'
  <1>1. UNCHANGED disk /\ captures' = captures
    BY DEF Commit, CommitFrom
  <1>2. CASE Accepts(db, cur, next)
    <2>1. db' = next /\ Proceed(label, next, NoObs, NoId) /\ refused' = refused
      BY <1>2 DEF Commit, CommitFrom
    <2>2. StoreType' /\ DiskType' /\ ProcType'
      BY <1>1, <2>1, ProceedType, NeutralTypes, OnwardLabels
         DEF Sound, StoreType, disk, DiskType
    <2>3. next.blocked = "no"
      BY <1>2, AcceptedRow
    <2>4. mounted' = "no" /\ pc' = label /\ MarkerUnblocked'
      BY <2>1, <2>3 DEF Alone, Proceed, MarkerUnblocked
    <2>5. Safe'
      BY <2>1, <2>3, <2>4, OnwardSafe DEF Alone
    <2> QED BY <2>2, <2>5 DEF Sound
  <1>3. CASE ~Accepts(db, cur, next)
    <2>1. refused' = TRUE /\ Fail /\ db' = db
      BY <1>3 DEF Commit, CommitFrom
    <2>2. captures' \in Nat
      BY <1>1 DEF Sound, StoreType
    <2> QED BY <1>1, <2>1, <2>2, RefusedStep
  <1> QED BY <1>2, <1>3

-----------------------------------------------------------------------------
(* File operations                                                         *)

LEMMA RenameType ==
  ASSUME DiskType, NEW files \in [Names -> File], Rename(files)
  PROVE  DiskType'
  <1>1. files["target"].id.ino \in Nat
    BY NamesType DEF File, Identity
  <1> QED BY <1>1 DEF Rename, DiskType

LEMMA ExchangeType ==
  ASSUME DiskType, NEW name \in Names, Exchange(name)
  PROVE  DiskType'
  <1>1. Renamed(fs[name]) \in File /\ Renamed(fs["target"]) \in File
    BY RenamedType, NamesType DEF DiskType
  <1>2. [fs EXCEPT !["target"] = Renamed(fs[name]), ![name] = Renamed(fs["target"])]
          \in [Names -> File]
    BY <1>1 DEF DiskType
  <1> QED BY <1>2, RenameType DEF Exchange

LEMMA MoveType ==
  ASSUME DiskType, NEW from \in Names, NEW to \in Names, MoveFile(from, to)
  PROVE  DiskType'
  <1>1. Renamed(fs[from]) \in File
    BY RenamedType DEF DiskType
  <1>2. [fs EXCEPT ![to] = Renamed(fs[from]), ![from] = Nothing] \in [Names -> File]
    BY <1>1, NeutralTypes DEF DiskType
  <1> QED BY <1>2, RenameType DEF MoveFile

LEMMA SyncedType ==
  ASSUME DiskType, NEW files \in [Names -> File], Synced(files), nextIno' \in Nat
  PROVE  DiskType'
  BY DEF Synced, DiskType

LEMMA RemoveType ==
  ASSUME DiskType, NEW name \in Names, Remove(name)
  PROVE  DiskType'
  <1>1. [fs EXCEPT ![name] = Nothing] \in [Names -> File] /\ nextIno' \in Nat
    BY NeutralTypes DEF Remove, DiskType
  <1> QED BY <1>1, SyncedType DEF Remove

LEMMA SyncWithType ==
  ASSUME DiskType, SyncWith
  PROVE  DiskType'
  BY DEF SyncWith, DiskType

\* A file operation, and on to the next label.
LEMMA FileStep ==
  ASSUME Sound, Alone, DiskType', NEW label \in Onward, NEW file \in Identity,
         NEW seen \in Obs, Proceed(label, cur, seen, file), UNCHANGED <<db, refused, captures>>
  PROVE  Sound'
  <1>1. StoreType' /\ ProcType'
    <2>1. cur \in Entry
      BY DEF Sound, ProcType
    <2> QED BY <2>1, ProceedType, OnwardLabels DEF Sound, StoreType
  <1>2. mounted' = "no" /\ pc' = label /\ MarkerUnblocked'
    BY DEF Alone, Proceed, MarkerUnblocked, Sound, Safe
  <1>3. Safe'
    BY <1>2, OnwardSafe DEF Alone
  <1> QED BY <1>1, <1>3 DEF Sound

LEMMA FileGoto ==
  ASSUME Sound, Alone, DiskType', NEW label \in Onward, Goto(label),
         UNCHANGED <<db, refused, captures>>
  PROVE  Sound'
  <1>1. obs \in Obs /\ made \in Identity /\ Proceed(label, cur, obs, made)
    BY DEF Sound, ProcType, Goto
  <1> QED BY <1>1, FileStep

\* Construction behind a name: keep what verifies, or build it anew.
LEMMA KeepOrBuildStep ==
  ASSUME Sound, Alone, NEW name \in Final, NEW good \in BOOLEAN,
         NEW body \in Nat, NEW meta \in Nat, NEW kept \in Onward, NEW built \in Onward,
         KeepOrBuild(name, good, body, meta, kept, built)
  PROVE  Sound'
  <1> DEFINE clean == [fs EXCEPT ![Building(name)] = Nothing]
             new   == [id |-> [ino |-> nextIno, meta |-> meta, ctime |-> 0], body |-> body]
  <1>1. name \in Names /\ Building(name) \in Names
    BY NamesType
  <1>2. clean \in [Names -> File] /\ new \in File
    BY <1>1, NeutralTypes DEF Sound, DiskType, File, Identity
  <1>3. [clean EXCEPT ![name] = Nothing, ![Building(name)] = new] \in [Names -> File]
    BY <1>1, <1>2, NeutralTypes
  <1>4. UNCHANGED <<db, refused, captures>>
    BY DEF KeepOrBuild
  <1>5. CASE There(name) /\ good
    <2>1. Synced(clean) /\ nextIno' = nextIno /\ Proceed(kept, cur, NoObs, Id(name))
      BY <1>5 DEF KeepOrBuild
    <2>2. NoObs \in Obs /\ Id(name) \in Identity
      BY <1>1, NeutralTypes, SeenType DEF Sound
    <2>3. DiskType'
      BY <1>2, <2>1, SyncedType DEF Sound, DiskType
    <2> QED BY <1>4, <2>1, <2>2, <2>3, FileStep
  <1>6. CASE ~(There(name) /\ good)
    <2>1. /\ Synced([clean EXCEPT ![name] = Nothing, ![Building(name)] = new])
          /\ nextIno' = nextIno + 1 /\ Goto(built)
      BY <1>6 DEF KeepOrBuild
    <2>2. nextIno' \in Nat
      BY <2>1 DEF Sound, DiskType
    <2>3. DiskType'
      BY <1>3, <2>1, <2>2, SyncedType DEF Sound
    <2> QED BY <1>4, <2>1, <2>3, FileGoto
  <1> QED BY <1>5, <1>6

LEMMA PromoteStep ==
  ASSUME Sound, Alone, NEW name \in Final, NEW label \in Onward, Promote(name, label)
  PROVE  Sound'
  <1> DEFINE file  == Renamed(fs[Building(name)])
             files == [fs EXCEPT ![name] = file, ![Building(name)] = Nothing]
  <1>1. name \in Names /\ Building(name) \in Names
    BY NamesType
  <1>2. file \in File
    BY <1>1, RenamedType DEF Sound, DiskType
  <1>3. files \in [Names -> File]
    BY <1>1, <1>2, NeutralTypes DEF Sound, DiskType
  <1>4. Synced(files) /\ nextIno' = nextIno /\ UNCHANGED <<db, refused, captures>>
    BY DEF Promote
  <1>5. DiskType'
    BY <1>3, <1>4, SyncedType DEF Sound, DiskType
  <1>6. NoObs \in Obs /\ file.id \in Identity
    BY <1>2, NeutralTypes DEF File
  <1>7. Proceed(label, cur, NoObs, file.id)
    BY DEF Promote
  <1> QED BY <1>4, <1>5, <1>6, <1>7, FileStep

-----------------------------------------------------------------------------
(* The actions, group by group                                             *)

\* Commands are issued only from "idle", or to a serving daemon.
LEMMA IssueStep ==
  ASSUME Sound, Issue
  PROVE  Sound'
  <1>1. CASE StoreCommand \/ RestoreCommand
    <2>1. PICK command \in {"store", "restore"}, label \in {"storeLoad", "restoreLoad"} :
            Enter(command, label, FALSE) /\ Still /\ mounted' = "no" /\ mounted = "no"
      BY <1>1 DEF StoreCommand, RestoreCommand
    <2>2. command \in Ops /\ label \in Onward /\ label \in Unchecked
      BY LabelsInUse, OpsInUse DEF Unchecked
    <2>3. StoreType' /\ DiskType' /\ ProcType'
      BY <2>1, <2>2, StillType, EnterType, OnwardLabels DEF Sound
    <2>4. pc' = label /\ MarkerUnblocked'
      BY <2>1 DEF Enter, Still, MarkerUnblocked, Sound, Safe
    <2>5. Safe'
      BY <2>1, <2>2, <2>4, OnwardSafe
    <2> QED BY <2>3, <2>5 DEF Sound
  <1>2. CASE StopCommand
    <2>1. StoreType' /\ DiskType' /\ ProcType'
      BY <1>2, StillType, EnterType, LabelsInUse, OnwardLabels, OpsInUse
         DEF StopCommand, Sound, ProcType
    <2>2. pc = "serving" /\ pc' = "stop" /\ op' = "stop" /\ mounted' = mounted /\ db' = db
      BY <1>2 DEF StopCommand, Enter, Still
    <2>3. mounted # "stale"
      BY <2>2 DEF Sound, Safe, MountPlaces
    <2>4. Safe'
      BY <2>2, <2>3 DEF Sound, Safe, ChecksHold, MarkerUnblocked, MountIsRecorded,
                        MountPlaces, Unchecked, Holding
    <2> QED BY <2>1, <2>4 DEF Sound
  <1>3. CASE \E flag \in RestoreOnStop : Start(flag)
    <2>1. PICK flag \in RestoreOnStop : Start(flag)
      BY <1>3
    <2>2. flag \in BOOLEAN
      BY LifecycleAssumption
    <2>3. mounted' = mounted /\ Still /\ pc = "idle"
      BY <2>1 DEF Start
    <2>4. StoreType' /\ DiskType' /\ mounted' \in {"no", "live", "stale"} /\ db' = db
      BY <2>3, StillType DEF Sound, Still, ProcType
    <2>5. mounted # "live"
      BY <2>3 DEF Sound, Safe, MountPlaces, Holding
    <2>6. CASE Enter("setup", "detach", flag)
      <3>1. ProcType'
        BY <2>2, <2>4, <2>6, EnterType, LabelsInUse, OnwardLabels, OpsInUse DEF Sound
      <3>2. pc' = "detach" /\ op' = "setup"
        BY <2>6 DEF Enter
      <3>3. Safe'
        BY <2>3, <2>4, <2>5, <3>2 DEF Sound, Safe, ChecksHold, MarkerUnblocked,
                                      MountIsRecorded, MountPlaces, Unchecked
      <3> QED BY <2>4, <3>1, <3>3 DEF Sound
    <2>7. CASE Enter("start", "prepare", flag) /\ mounted = "no"
      <3>1. ProcType'
        BY <2>2, <2>4, <2>7, EnterType, LabelsInUse, OnwardLabels, OpsInUse DEF Sound
      <3>2. pc' = "prepare" /\ mounted' = "no"
        BY <2>3, <2>7 DEF Enter
      <3>3. Safe'
        BY <2>4, <3>2 DEF Sound, Safe, ChecksHold, MarkerUnblocked, MountIsRecorded,
                          MountPlaces, Unchecked
      <3> QED BY <2>4, <3>1, <3>3 DEF Sound
    <2> QED BY <2>1, <2>6, <2>7 DEF Start
  <1> QED BY <1>1, <1>2, <1>3 DEF Issue

\* Where the shared procedures return to: on, or out of the process.
LEMMA ReconciledStep ==
  ASSUME Sound, mounted = "no", StoreType', DiskType', MarkerUnblocked', Reconciled
  PROVE  Sound'
  <1>1. CASE op = "setup"
    <2>1. Enter("start", "prepare", restoreOnStop) /\ mounted' = "no"
      BY <1>1 DEF Reconciled
    <2>2. restoreOnStop \in BOOLEAN /\ mounted' \in {"no", "live", "stale"}
      BY <2>1 DEF Sound, ProcType
    <2>3. ProcType'
      BY <2>1, <2>2, EnterType, LabelsInUse, OnwardLabels, OpsInUse DEF Sound
    <2>4. pc' \in Onward /\ pc' \in Unchecked
      BY <2>1, LabelsInUse DEF Enter, Unchecked
    <2> QED BY <2>1, <2>3, <2>4, OnwardSafe DEF Sound
  <1>2. CASE op # "setup" /\ restoreOnStop
    <2>1. Proceed("restoreLoad", Missing, NoObs, NoId)
      BY <1>2 DEF Reconciled
    <2>2. ProcType'
      BY <2>1, ProceedType, NeutralTypes, LabelsInUse, OnwardLabels DEF Sound
    <2>3. mounted' = "no" /\ pc' \in Onward /\ pc' \in Unchecked
      BY <2>1, LabelsInUse DEF Proceed, Unchecked
    <2> QED BY <2>2, <2>3, OnwardSafe DEF Sound
  <1>3. CASE op # "setup" /\ ~restoreOnStop
    <2>1. Exit
      BY <1>3 DEF Reconciled
    <2>2. ProcType'
      BY <2>1, ExitType DEF Sound
    <2>3. mounted' = "no" /\ pc' \in Onward /\ pc' \in Unchecked
      BY <2>1, LabelsInUse DEF Exit, Enter, Unchecked
    <2> QED BY <2>2, <2>3, OnwardSafe DEF Sound
  <1> QED BY <1>1, <1>2, <1>3

LEMMA HandedBackStep ==
  ASSUME Sound, mounted = "no", StoreType', DiskType', MarkerUnblocked', HandedBack
  PROVE  Sound'
  <1>1. \/ Proceed("prepare", Missing, NoObs, NoId)
        \/ Proceed("capture", Missing, NoObs, NoId)
        \/ Exit
        \/ Reconciled
    BY DEF HandedBack
  <1>2. ASSUME NEW label \in {"prepare", "capture"}, Proceed(label, Missing, NoObs, NoId)
        PROVE  Sound'
    <2>1. label \in Onward /\ label \in Unchecked
      BY LabelsInUse DEF Unchecked
    <2>2. ProcType'
      BY <1>2, <2>1, ProceedType, NeutralTypes, OnwardLabels DEF Sound
    <2>3. mounted' = "no" /\ pc' = label
      BY <1>2 DEF Proceed
    <2> QED BY <2>1, <2>2, <2>3, OnwardSafe DEF Sound
  <1>3. CASE Exit
    <2>1. ProcType'
      BY <1>3, ExitType DEF Sound
    <2>2. mounted' = "no" /\ pc' \in Onward /\ pc' \in Unchecked
      BY <1>3, LabelsInUse DEF Exit, Enter, Unchecked
    <2> QED BY <2>1, <2>2, OnwardSafe DEF Sound
  <1> QED BY <1>1, <1>2, <1>3, ReconciledStep

LEMMA ReplayStep ==
  ASSUME Sound, Alone, Replay
  PROVE  Sound'
  <1>1. \/ Loaded("finObserve") \/ Loaded("beginInstall") \/ Loaded("installObserve")
        \/ Loaded("restoreBuild") \/ Loaded("cleanup") \/ Abandon
    BY DEF Replay
  <1> QED BY <1>1, CheckStep, LabelsInUse

\* The interceptor: the only place where a mount comes and goes.
LEMMA InterceptorStep ==
  ASSUME Sound, Interceptor
  PROVE  Sound'
  <1>1. CASE EnterStop
    <2>1. PICK label \in {"beginUnmount", "detach"} :
            Still /\ Goto(label) /\ (label = "beginUnmount" \/ mounted # "live")
      BY <1>1 DEF EnterStop, Pass
    <2>2. label \in Onward
      BY LabelsInUse
    <2>3. StoreType' /\ DiskType' /\ ProcType'
      BY <2>1, <2>2, StillType, GotoType, OnwardLabels DEF Sound
    <2>4. pc = "stop" /\ pc' = label /\ op' = op /\ mounted' = mounted /\ db' = db
      BY <1>1, <2>1 DEF EnterStop, Goto, Proceed, Still
    <2>5. mounted # "stale"
      BY <2>4 DEF Sound, Safe, MountPlaces
    <2>6. Safe'
      BY <2>4, <2>5 DEF Sound, Safe, ChecksHold, MarkerUnblocked, MountIsRecorded,
                        MountPlaces, Unchecked, Holding
    <2> QED BY <2>3, <2>6 DEF Sound
  <1>2. CASE BeginUnmount
    <2>1. \/ Abandon
          \/ Loaded("commitUnmount") /\ db.blocked = "no"
          \/ Pass("detach") /\ db.blocked = "no"
      BY <1>2 DEF BeginUnmount
    <2>2. CASE Abandon
      BY <2>2, AbandonStep
    <2>3. CASE ~Abandon
      <3>1. PICK label \in {"commitUnmount", "detach"}, entry \in {cur, db},
                 seen \in {obs, NoObs}, file \in {made, NoId} :
              Still /\ Proceed(label, entry, seen, file) /\ db.blocked = "no"
        BY <2>1, <2>3 DEF Loaded, Pass, Goto
      <3>2. label \in Onward /\ entry \in Entry /\ seen \in Obs /\ file \in Identity
        BY LabelsInUse, NeutralTypes DEF Sound, StoreType, ProcType
      <3>3. StoreType' /\ DiskType' /\ ProcType'
        BY <3>1, <3>2, StillType, ProceedType, OnwardLabels DEF Sound
      <3>4. /\ pc = "beginUnmount" /\ pc' = label /\ op' = op /\ mounted' = mounted
            /\ db' = db
        BY <1>2, <3>1 DEF BeginUnmount, Proceed, Still
      <3>5. mounted # "stale"
        BY <3>4 DEF Sound, Safe, MountPlaces
      <3>6. Safe'
        BY <3>1, <3>4, <3>5 DEF Sound, Safe, ChecksHold, MarkerUnblocked, MountIsRecorded,
                                MountPlaces, Holding
      <3> QED BY <3>3, <3>6 DEF Sound
    <2> QED BY <2>2, <2>3
  <1>3. CASE CommitUnmount
    <2> DEFINE next == [cur EXCEPT !.phase = "unmountIntent", !.next = UnmountOutcome]
    <2>1. pc = "commitUnmount" /\ db.blocked = "no" /\ mounted # "stale"
      BY <1>3 DEF CommitUnmount, Sound, Safe, ChecksHold, MountPlaces, Unchecked
    <2>2. next \in Entry /\ next.phase = "unmountIntent" /\ next.blocked = cur.blocked
      BY DEF UnmountOutcome, Sound, ProcType, Entry, Phases
    <2>3. Pass("beginUnmount") \/ Commit(next, "detach")
      BY <1>3 DEF CommitUnmount
    <2> HIDE DEF next
    <2>4. CASE Pass("beginUnmount")
      <3>1. StoreType' /\ DiskType' /\ ProcType'
        BY <2>4, StillType, GotoType, LabelsInUse, OnwardLabels DEF Pass, Sound
      <3>2. pc' = "beginUnmount" /\ op' = op /\ mounted' = mounted /\ db' = db
        BY <2>4 DEF Pass, Goto, Proceed, Still
      <3>3. Safe'
        BY <2>1, <3>2 DEF Sound, Safe, ChecksHold, MarkerUnblocked, MountIsRecorded,
                          MountPlaces, Holding
      <3> QED BY <3>1, <3>3 DEF Sound
    <2>5. CASE Commit(next, "detach") /\ Accepts(db, cur, next)
      <3>1. /\ db' = next /\ Proceed("detach", next, NoObs, NoId) /\ refused' = refused
            /\ UNCHANGED disk /\ captures' = captures
        BY <2>5 DEF Commit, CommitFrom
      <3>2. StoreType' /\ DiskType' /\ ProcType'
        BY <2>2, <3>1, ProceedType, NeutralTypes, LabelsInUse, OnwardLabels
           DEF Sound, StoreType, disk, DiskType
      <3>3. next.blocked = "no"
        BY <2>2, <2>5, AcceptedRow
      <3>4. pc' = "detach" /\ op' = op /\ mounted' = mounted
        BY <3>1 DEF Proceed
      <3>5. Safe'
        BY <2>1, <2>2, <3>1, <3>3, <3>4
           DEF Sound, Safe, ChecksHold, MarkerUnblocked, MountIsRecorded, MountPlaces,
               Holding
      <3> QED BY <3>2, <3>5 DEF Sound
    <2>6. CASE Commit(next, "detach") /\ ~Accepts(db, cur, next)
      <3>1. Fail /\ refused' = TRUE /\ UNCHANGED <<db, disk>> /\ captures' = captures
        BY <2>6 DEF Commit, CommitFrom
      <3>2. captures' \in Nat
        BY <3>1 DEF Sound, StoreType
      <3> QED BY <3>1, <3>2, RefusedStep
    <2> QED BY <2>3, <2>4, <2>5, <2>6
  <1>4. CASE Detach
    <2>1. StoreType' /\ DiskType' /\ db' = db
      BY <1>4, StillType DEF Detach, Sound, Still
    <2>2. /\ mounted' = "no" /\ pc' = "reconcile"
          /\ UNCHANGED <<op, cur, obs, made, restoreOnStop>>
      BY <1>4 DEF Detach
    <2>3. "reconcile" \in Labels
      BY LabelsInUse, OnwardLabels
    <2>4. ProcType'
      BY <2>2, <2>3 DEF Sound, ProcType
    <2>5. Safe'
      BY <2>1, <2>2 DEF Sound, Safe, ChecksHold, MarkerUnblocked, MountIsRecorded,
                        MountPlaces, Unchecked
    <2> QED BY <2>1, <2>4, <2>5 DEF Sound
  <1>5. CASE Reconcile
    <2>1. mounted = "no"
      BY <1>5, Unmounted DEF Reconcile, Holding
    <2>2. \/ Abandon
          \/ db.blocked = "no" /\ Loaded("finObserve")
          \/ db.blocked = "no" /\ Loaded("beginRestore")
          \/ db.blocked = "no" /\ Loaded("leaveCheck")
          \/ Still /\ Reconciled
      BY <1>5 DEF Reconcile, Sound, Safe, MarkerUnblocked
    <2>3. CASE Still /\ Reconciled
      <3>1. StoreType' /\ DiskType' /\ MarkerUnblocked'
        BY <2>3, StillType DEF Sound, Safe, MarkerUnblocked, Still
      <3> QED BY <2>1, <2>3, <3>1, ReconciledStep
    <2> QED BY <2>1, <2>2, <2>3, AbandonStep, PassStep, LabelsInUse
  <1>6. CASE LeaveCheck
    <2>1. Alone
      BY <1>6, PastChecks DEF LeaveCheck, Unchecked, Holding
    <2>2. Pass("commitLeave") \/ Block("installed")
      BY <1>6 DEF LeaveCheck
    <2> QED BY <2>1, <2>2, CheckStep, BlockStep, LabelsInUse, ReasonsInUse
  <1>7. CASE CommitLeave
    <2>1. Alone
      BY <1>7, PastChecks DEF CommitLeave, Unchecked, Holding
    <2> DEFINE next == [cur EXCEPT !.phase = "installed", !.next = "none"]
    <2>2. next \in Entry /\ next.phase = "installed" /\ next.blocked = cur.blocked
      BY DEF Sound, ProcType, Entry, Phases
    <2>3. UNCHANGED <<disk, captures>>
      BY <1>7 DEF CommitLeave
    <2>4. DiskType' /\ captures' \in Nat
      BY <2>3 DEF Sound, StoreType, disk, DiskType
    <2>5. CASE Accepts(db, cur, next)
      <3>1. db' = next /\ Reconciled /\ refused' = refused
        BY <1>7, <2>5 DEF CommitLeave
      <3>2. StoreType' /\ MarkerUnblocked'
        BY <2>2, <2>4, <3>1 DEF Sound, StoreType, MarkerUnblocked
      <3> QED BY <2>1, <2>4, <3>1, <3>2, ReconciledStep DEF Alone
    <2>6. CASE ~Accepts(db, cur, next)
      <3>1. Fail /\ refused' = TRUE /\ db' = db
        BY <1>7, <2>6 DEF CommitLeave
      <3> QED BY <2>3, <2>4, <3>1, RefusedStep
    <2> QED BY <2>5, <2>6
  <1>8. CASE Prepare
    <2>1. mounted = "no"
      BY <1>8, Unmounted DEF Prepare, Holding
    <2>2. \/ Pass("capture")
          \/ Abandon
          \/ db.blocked = "no" /\ (Loaded("requireInstalled") \/ Replay)
      BY <1>8 DEF Prepare
    <2>3. "capture" \in Unchecked
      BY DEF Unchecked
    <2> QED BY <2>1, <2>2, <2>3, AbandonStep, PassStep, ReplayStep, LabelsInUse DEF Alone
  <1>9. CASE BeginMount
    <2>1. Alone
      BY <1>9, PastChecks DEF BeginMount, Unchecked, Holding
    <2>2. Pass("commitMount") \/ Block("installed")
      BY <1>9 DEF BeginMount
    <2> QED BY <2>1, <2>2, CheckStep, BlockStep, LabelsInUse, ReasonsInUse
  <1>10. CASE CommitMount
    <2>1. Alone
      BY <1>10, PastChecks DEF CommitMount, Unchecked, Holding
    <2> DEFINE next == [cur EXCEPT !.phase = "mountIntent"]
    <2>2. next \in Entry /\ next.phase = "mountIntent" /\ next.blocked = cur.blocked
      BY DEF Sound, ProcType, Entry, Phases
    <2>3. Commit(next, "mount")
      BY <1>10 DEF CommitMount
    <2> HIDE DEF next
    <2>4. UNCHANGED disk /\ captures' = captures
      BY <2>3 DEF Commit, CommitFrom
    <2>5. CASE Accepts(db, cur, next)
      <3>1. db' = next /\ Proceed("mount", next, NoObs, NoId) /\ refused' = refused
        BY <2>3, <2>5 DEF Commit, CommitFrom
      <3>2. StoreType' /\ DiskType' /\ ProcType'
        BY <2>2, <2>4, <3>1, ProceedType, NeutralTypes, OnwardLabels
           DEF Sound, StoreType, disk, DiskType
      <3>3. next.blocked = "no"
        BY <2>2, <2>5, AcceptedRow
      <3>4. pc' = "mount" /\ mounted' = "no"
        BY <2>1, <3>1 DEF Alone, Proceed
      <3>5. Safe'
        BY <2>2, <3>1, <3>3, <3>4
           DEF Safe, ChecksHold, MarkerUnblocked, MountIsRecorded, MountPlaces
      <3> QED BY <3>2, <3>5 DEF Sound
    <2>6. CASE ~Accepts(db, cur, next)
      <3>1. Fail /\ refused' = TRUE /\ db' = db
        BY <2>3, <2>6 DEF Commit, CommitFrom
      <3>2. captures' \in Nat
        BY <2>4 DEF Sound, StoreType
      <3> QED BY <2>4, <3>1, <3>2, RefusedStep
    <2> QED BY <2>5, <2>6
  <1>11. CASE Mount
    <2>1. Alone
      BY <1>11, PastChecks DEF Mount, Unchecked, Holding
    <2>2. \/ Abandon
          \/ /\ Still /\ mounted' = "live" /\ pc' = "serving" /\ cur' = Missing
             /\ UNCHANGED <<op, obs, made, restoreOnStop>>
      BY <1>11 DEF Mount
    <2>3. CASE Abandon
      BY <2>3, AbandonStep
    <2>4. CASE ~Abandon
      <3>1. StoreType' /\ DiskType' /\ db' = db
        BY <2>2, <2>4, StillType DEF Sound, Still
      <3>2. "serving" \in Labels
        BY LabelsInUse, OnwardLabels
      <3>3. ProcType'
        BY <2>2, <2>4, <3>2, NeutralTypes DEF Sound, ProcType
      <3>4. db.phase = "mountIntent"
        BY <1>11 DEF Mount, Sound, Safe, MountPlaces
      <3>5. Safe'
        BY <2>1, <2>2, <2>4, <3>1, <3>4
           DEF Alone, Safe, ChecksHold, MarkerUnblocked, MountIsRecorded, MountPlaces, Holding
      <3> QED BY <3>1, <3>3, <3>5 DEF Sound
    <2> QED BY <2>3, <2>4
  <1> QED BY <1>1, <1>2, <1>3, <1>4, <1>5, <1>6, <1>7, <1>8, <1>9, <1>10, <1>11
          DEF Interceptor

\* Capture and installation.
LEMMA InstallStep ==
  ASSUME Sound, Install
  PROVE  Sound'
  <1>1. CASE Capture
    <2> DEFINE entry == [Missing EXCEPT !.phase = "captured", !.original = Id("target"),
                                        !.meta = Id("target").meta, !.body = fs["target"].body,
                                        !.logical = There("target")]
    <2>1. mounted = "no"
      BY <1>1, Unmounted DEF Capture, Holding
    <2>2. Id("target") \in Identity /\ Id("target").meta \in Nat
          /\ fs["target"].body \in Nat /\ There("target") \in BOOLEAN
      BY SeenType, NamesType DEF Sound, Identity, There, Exists
    <2>3. entry \in Entry
      BY <2>2, NeutralTypes DEF Entry, Phases
    <2>4. Abandon \/ (Still /\ Proceed("commitCaptured", entry, NoObs, NoId))
      BY <1>1 DEF Capture
    <2>5. "commitCaptured" \in Unchecked
      BY DEF Unchecked
    <2> QED BY <2>1, <2>3, <2>4, <2>5, AbandonStep, ReadStep, NeutralTypes, LabelsInUse
  <1>2. CASE CommitCaptured
    <2>1. mounted = "no"
      BY <1>2, Unmounted DEF CommitCaptured, Holding
    <2>2. cur \in Entry /\ captures' \in Nat
      BY <1>2 DEF CommitCaptured, Sound, ProcType, StoreType
    <2>3. PICK label \in {"storeStaging", "beginInstall"} : CommitFrom(Missing, cur, label)
      BY <1>2 DEF CommitCaptured
    <2>4. label \in Onward /\ UNCHANGED disk
      BY <2>3, LabelsInUse DEF CommitFrom
    <2>5. CASE Accepts(db, Missing, cur)
      <3>1. db' = cur /\ Proceed(label, cur, NoObs, NoId) /\ refused' = refused
        BY <2>3, <2>5 DEF CommitFrom
      <3>2. StoreType' /\ DiskType' /\ ProcType'
        BY <2>2, <2>4, <3>1, ProceedType, NeutralTypes, OnwardLabels
           DEF Sound, StoreType, disk, DiskType
      <3>3. cur.blocked = "no"
        BY <2>5 DEF Accepts
      <3>4. mounted' = "no" /\ pc' = label /\ MarkerUnblocked'
        BY <2>1, <3>1, <3>3 DEF Proceed, MarkerUnblocked
      <3> QED BY <2>1, <2>4, <3>1, <3>2, <3>3, <3>4, OnwardSafe DEF Sound
    <2>6. CASE ~Accepts(db, Missing, cur)
      <3>1. Fail /\ refused' = TRUE /\ db' = db
        BY <2>3, <2>6 DEF CommitFrom
      <3> QED BY <2>2, <2>4, <3>1, RefusedStep
    <2> QED BY <2>5, <2>6
  <1>3. CASE BeginInstall
    <2>1. Alone
      BY <1>3, PastChecks DEF BeginInstall, Unchecked, Holding
    <2>2. Abandon \/ Pass("buildPlaceholder") \/ Block("source")
      BY <1>3 DEF BeginInstall
    <2> QED BY <2>1, <2>2, CheckStep, BlockStep, LabelsInUse, ReasonsInUse
  <1>4. CASE BuildPlaceholder
    <2>1. Alone
      BY <1>4, PastChecks DEF BuildPlaceholder, Unchecked, Holding
    <2>2. "swap" \in Final /\ Empty \in Nat /\ 0 \in Nat
          /\ (fs["swap"].body = Empty) \in BOOLEAN
      BY DEF Final, Empty
    <2> QED BY <1>4, <2>1, <2>2, KeepOrBuildStep, LabelsInUse DEF BuildPlaceholder
  <1>5. CASE PromotePlaceholder
    <2>1. Alone
      BY <1>5, PastChecks DEF PromotePlaceholder, Unchecked, Holding
    <2>2. "swap" \in Final
      BY DEF Final
    <2> QED BY <1>5, <2>1, <2>2, PromoteStep, LabelsInUse DEF PromotePlaceholder
  <1>6. CASE CommitInstallIntent
    <2>1. Alone
      BY <1>6, PastChecks DEF CommitInstallIntent, Unchecked, Holding
    <2> DEFINE next == [cur EXCEPT !.phase = "installIntent", !.placeholder = made]
    <2>2. next \in Entry /\ next.phase # "captured" /\ next.blocked = cur.blocked
      BY DEF Sound, ProcType, Entry, Phases
    <2>3. Commit(next, "installObserve")
      BY <1>6 DEF CommitInstallIntent
    <2> QED BY <2>1, <2>2, <2>3, CommitStep, LabelsInUse
  <1>7. CASE InstallObserve
    <2>1. Alone
      BY <1>7, PastChecks DEF InstallObserve, Unchecked, Holding
    <2>2. \/ Abandon \/ Pass("installRename") \/ Block("install")
          \/ Still /\ Proceed("installVerify", cur, Seen("swap"), NoId)
      BY <1>7 DEF InstallObserve
    <2> QED BY <2>1, <2>2, ObservedStep, CheckStep, BlockStep, NamesType, LabelsInUse,
               ReasonsInUse
  <1>8. CASE InstallRename
    <2>1. Alone
      BY <1>8, PastChecks DEF InstallRename, Unchecked, Holding
    <2>2. \/ Abandon
          \/ /\ Exchange("swap") \/ MoveFile("swap", "target")
             /\ Goto("installReobserve") /\ UNCHANGED <<db, refused, captures>>
      BY <1>8 DEF InstallRename
    <2>3. CASE Abandon
      BY <2>3, AbandonStep
    <2>4. CASE ~Abandon
      <3>1. DiskType'
        BY <2>2, <2>4, ExchangeType, MoveType, NamesType DEF Sound
      <3> QED BY <2>1, <2>2, <2>4, <3>1, FileGoto, LabelsInUse
    <2> QED BY <2>3, <2>4
  <1>9. CASE InstallReobserve
    <2>1. Alone
      BY <1>9, PastChecks DEF InstallReobserve, Unchecked, Holding
    <2>2. \/ Abandon \/ Block("install")
          \/ Still /\ Proceed("installVerify", cur, Seen("swap"), NoId)
      BY <1>9 DEF InstallReobserve
    <2> QED BY <2>1, <2>2, ObservedStep, CheckStep, BlockStep, NamesType, LabelsInUse,
               ReasonsInUse
  <1>10. CASE InstallVerify
    <2>1. Alone
      BY <1>10, PastChecks DEF InstallVerify, Unchecked, Holding
    <2>2. Pass("installSync") \/ Block("snapshot")
      BY <1>10 DEF InstallVerify
    <2> QED BY <2>1, <2>2, CheckStep, BlockStep, LabelsInUse, ReasonsInUse
  <1>11. CASE InstallSync
    <2>1. Alone
      BY <1>11, PastChecks DEF InstallSync, Unchecked, Holding
    <2>2. \/ Abandon
          \/ /\ SyncWith
             /\ Goto("commitInstalled") /\ UNCHANGED <<db, refused, captures>>
      BY <1>11 DEF InstallSync
    <2>3. SyncWith => DiskType'
      BY SyncWithType DEF Sound
    <2> QED BY <2>1, <2>2, <2>3, AbandonStep, FileGoto, LabelsInUse
  <1>12. CASE CommitInstalled
    <2>1. Alone
      BY <1>12, PastChecks DEF CommitInstalled, Unchecked, Holding
    <2> DEFINE next == [cur EXCEPT !.phase = "installed", !.placeholder = obs.t,
                              !.detached = obs.s]
    <2>2. next \in Entry /\ next.phase # "captured" /\ next.blocked = cur.blocked
      BY DEF Sound, ProcType, Entry, Phases, Obs
    <2>3. Commit(next, "requireInstalled")
      BY <1>12 DEF CommitInstalled
    <2> QED BY <2>1, <2>2, <2>3, CommitStep, LabelsInUse
  <1>13. CASE RequireInstalled
    <2>1. Alone
      BY <1>13, PastChecks DEF RequireInstalled, Unchecked, Holding
    <2>2. Pass("beginMount") \/ Pass("beginRestore") \/ Block("installed")
      BY <1>13 DEF RequireInstalled, AfterInstall
    <2> QED BY <2>1, <2>2, CheckStep, BlockStep, LabelsInUse, ReasonsInUse
  <1> QED BY <1>1, <1>2, <1>3, <1>4, <1>5, <1>6, <1>7, <1>8, <1>9,
             <1>10, <1>11, <1>12, <1>13 DEF Install

\* Restoration, up to the commit of "restored".
LEMMA RestoreStep ==
  ASSUME Sound, Restore
  PROVE  Sound'
  <1>1. CASE RestoreLoad
    <2>1. mounted = "no"
      BY <1>1, Unmounted DEF RestoreLoad, Holding
    <2>2. \/ Still /\ Exit
          \/ Abandon
          \/ db.blocked = "no" /\ (Loaded("beginRestore") \/ Loaded("storeObserve") \/ Replay)
      BY <1>1 DEF RestoreLoad
    <2> QED BY <2>1, <2>2, ExitStep, AbandonStep, PassStep, ReplayStep, LabelsInUse DEF Alone
  <1>2. CASE BeginRestore
    <2>1. Alone
      BY <1>2, PastChecks DEF BeginRestore, Unchecked, Holding
    <2>2. \/ Pass("commitRestoreIntent") \/ Block("stored")
          \/ Block("installed")
      BY <1>2 DEF BeginRestore
    <2> QED BY <2>1, <2>2, CheckStep, BlockStep, LabelsInUse, ReasonsInUse
  <1>3. CASE CommitRestoreIntent
    <2>1. Alone
      BY <1>3, PastChecks DEF CommitRestoreIntent, Unchecked, Holding
    <2> DEFINE next == [cur EXCEPT !.phase  = "restoreIntent",
                              !.next   = "none",
                              !.origin = IF cur.phase = "stored" THEN "stored"
                                         ELSE "installed"]
    <2>2. next \in Entry /\ next.phase # "captured" /\ next.blocked = cur.blocked
      BY DEF Sound, ProcType, Entry, Phases
    <2>3. Commit(next, "restoreBuild")
      BY <1>3 DEF CommitRestoreIntent
    <2> QED BY <2>1, <2>2, <2>3, CommitStep, LabelsInUse
  <1>4. CASE RestoreBuild
    <2>1. Alone
      BY <1>4, PastChecks DEF RestoreBuild, Unchecked, Holding
    <2> DEFINE clean == [fs EXCEPT ![Building("restore")] = Nothing]
    <2>2. "restore" \in Final
      BY DEF Final
    <2>3. clean \in [Names -> File]
      BY <2>2, NamesType, NeutralTypes DEF Sound, DiskType
    <2>4. cur.body \in Nat /\ cur.meta \in Nat
          /\ Matches("restore", cur.body, cur.meta) \in BOOLEAN
      BY DEF Sound, ProcType, Entry, Matches
    <2>5. CASE cur.logical /\ ~Exists(cur.restore)
      BY <1>4, <2>1, <2>2, <2>4, <2>5, KeepOrBuildStep, LabelsInUse DEF RestoreBuild
    <2>6. CASE ~(cur.logical /\ ~Exists(cur.restore))
      <3>1. Synced(clean) /\ nextIno' = nextIno /\ Goto("restoreObserve")
            /\ UNCHANGED <<db, refused, captures>>
        BY <1>4, <2>6 DEF RestoreBuild
      <3>2. DiskType'
        BY <2>3, <3>1, SyncedType DEF Sound, DiskType
      <3> QED BY <2>1, <3>1, <3>2, FileGoto, LabelsInUse
    <2> QED BY <2>5, <2>6
  <1>5. CASE PromoteRestore
    <2>1. Alone
      BY <1>5, PastChecks DEF PromoteRestore, Unchecked, Holding
    <2>2. "restore" \in Final
      BY DEF Final
    <2> QED BY <1>5, <2>1, <2>2, PromoteStep, LabelsInUse DEF PromoteRestore
  <1>6. CASE CommitRestoreFile
    <2>1. Alone
      BY <1>6, PastChecks DEF CommitRestoreFile, Unchecked, Holding
    <2> DEFINE next == [cur EXCEPT !.restore = made]
    <2>2. next \in Entry /\ next.phase = cur.phase /\ next.blocked = cur.blocked
      BY DEF Sound, ProcType, Entry
    <2>3. Commit(next, "restoreObserve")
      BY <1>6 DEF CommitRestoreFile
    <2>4. next.phase # "captured" \/ ~Accepts(db, cur, next)
      BY <2>2 DEF Accepts, ValidSuccessor, ValidTransition, Missing
    <2>5. CASE next.phase # "captured"
      BY <2>1, <2>2, <2>3, <2>5, CommitStep, LabelsInUse
    <2>6. CASE ~Accepts(db, cur, next)
      <3>1. Fail /\ refused' = TRUE /\ UNCHANGED <<db, disk>> /\ captures' = captures
        BY <2>3, <2>6 DEF Commit, CommitFrom
      <3>2. captures' \in Nat
        BY <3>1 DEF Sound, StoreType
      <3> QED BY <3>1, <3>2, RefusedStep
    <2> QED BY <2>4, <2>5, <2>6
  <1>7. CASE RestoreObserve
    <2>1. Alone
      BY <1>7, PastChecks DEF RestoreObserve, Unchecked, Holding
    <2>2. \/ Abandon \/ Pass("restoreRename") \/ Block("restore")
          \/ Still /\ Proceed("restoreVerify", cur, Seen("restore"), NoId)
      BY <1>7 DEF RestoreObserve
    <2> QED BY <2>1, <2>2, ObservedStep, CheckStep, BlockStep, NamesType, LabelsInUse,
               ReasonsInUse
  <1>8. CASE RestoreRename
    <2>1. Alone
      BY <1>8, PastChecks DEF RestoreRename, Unchecked, Holding
    <2>2. \/ Abandon
          \/ /\ \/ MoveFile("restore", "target") \/ Exchange("restore")
                \/ MoveFile("target", "restore")
             /\ Goto("restoreReobserve") /\ UNCHANGED <<db, refused, captures>>
      BY <1>8 DEF RestoreRename
    <2>3. CASE Abandon
      BY <2>3, AbandonStep
    <2>4. CASE ~Abandon
      <3>1. DiskType'
        BY <2>2, <2>4, ExchangeType, MoveType, NamesType DEF Sound
      <3> QED BY <2>1, <2>2, <2>4, <3>1, FileGoto, LabelsInUse
    <2> QED BY <2>3, <2>4
  <1>9. CASE RestoreReobserve
    <2>1. Alone
      BY <1>9, PastChecks DEF RestoreReobserve, Unchecked, Holding
    <2>2. \/ Abandon \/ Block("restore")
          \/ Still /\ Proceed("restoreVerify", cur, Seen("restore"), NoId)
      BY <1>9 DEF RestoreReobserve
    <2> QED BY <2>1, <2>2, ObservedStep, CheckStep, BlockStep, NamesType, LabelsInUse,
               ReasonsInUse
  <1>10. CASE RestoreVerify
    <2>1. Alone
      BY <1>10, PastChecks DEF RestoreVerify, Unchecked, Holding
    <2> DEFINE seen == [obs EXCEPT !.t = Id("target")]
    <2>2. cur \in Entry /\ seen \in Obs /\ NoId \in Identity
      BY SeenType, NamesType, NeutralTypes DEF Sound, ProcType, Obs
    <2>3. \/ Still /\ Proceed("restoreSync", cur, seen, NoId)
          \/ Block("verify") \/ Abandon \/ Block("reappeared") \/ Pass("restoreSync")
      BY <1>10 DEF RestoreVerify
    <2>4. (Still /\ Proceed("restoreSync", cur, seen, NoId)) => Sound'
      BY <2>1, <2>2, ReadStep, LabelsInUse DEF Alone
    <2> QED BY <2>1, <2>3, <2>4, CheckStep, BlockStep, LabelsInUse, ReasonsInUse
  <1>11. CASE RestoreSync
    <2>1. Alone
      BY <1>11, PastChecks DEF RestoreSync, Unchecked, Holding
    <2>2. \/ Abandon
          \/ /\ SyncWith
             /\ Goto("commitRestored") /\ UNCHANGED <<db, refused, captures>>
      BY <1>11 DEF RestoreSync
    <2>3. SyncWith => DiskType'
      BY SyncWithType DEF Sound
    <2> QED BY <2>1, <2>2, <2>3, AbandonStep, FileGoto, LabelsInUse
  <1>12. CASE CommitRestored
    <2>1. Alone
      BY <1>12, PastChecks DEF CommitRestored, Unchecked, Holding
    <2> DEFINE next == [cur EXCEPT !.phase = "restored", !.restore = obs.t,
                              !.displaced = obs.s]
    <2>2. next \in Entry /\ next.phase # "captured" /\ next.blocked = cur.blocked
      BY DEF Sound, ProcType, Entry, Phases, Obs
    <2>3. Commit(next, "cleanup")
      BY <1>12 DEF CommitRestored
    <2> QED BY <2>1, <2>2, <2>3, CommitStep, LabelsInUse
  <1> QED BY <1>1, <1>2, <1>3, <1>4, <1>5, <1>6, <1>7, <1>8, <1>9,
             <1>10, <1>11, <1>12 DEF Restore

LEMMA RemoveRecordedStep ==
  ASSUME Sound, Alone, NEW name \in Names, NEW id \in Identity,
         NEW label \in Onward, NEW reason \in Reasons,
         RemoveRecorded(name, id, label, reason)
  PROVE  Sound'
  <1>1. \/ Pass(label)
        \/ Block(reason)
        \/ Remove(name) /\ Goto(label) /\ UNCHANGED <<db, refused, captures>>
    BY DEF RemoveRecorded
  <1>2. Remove(name) => DiskType'
    BY RemoveType DEF Sound
  <1> QED BY <1>1, <1>2, CheckStep, BlockStep, FileGoto

\* Cleanup, up to the marker that replaces the row.
LEMMA CleanStep ==
  ASSUME Sound, Clean
  PROVE  Sound'
  <1>1. CASE Cleanup
    <2>1. Alone
      BY <1>1, PastChecks DEF Cleanup, Unchecked, Holding
    <2>2. \/ Block("parent") \/ Pass("finalBuild")
          \/ Pass("commitDelete") \/ Block("target")
      BY <1>1 DEF Cleanup
    <2> QED BY <2>1, <2>2, CheckStep, BlockStep, LabelsInUse, ReasonsInUse
  <1>2. CASE CommitDelete
    <2>1. Alone
      BY <1>2, PastChecks DEF CommitDelete, Unchecked, Holding
    <2> DEFINE next == [cur EXCEPT !.phase = "deleteIntent"]
    <2>2. next \in Entry /\ next.phase # "captured" /\ next.blocked = cur.blocked
      BY DEF Sound, ProcType, Entry, Phases
    <2>3. Commit(next, "finalBuild")
      BY <1>2 DEF CommitDelete
    <2> QED BY <2>1, <2>2, <2>3, CommitStep, LabelsInUse
  <1>3. CASE FinalBuild
    <2>1. Alone
      BY <1>3, PastChecks DEF FinalBuild, Unchecked, Holding
    <2>2. "final" \in Final /\ cur.body \in Nat /\ cur.meta \in Nat
          /\ Matches("final", cur.body, cur.meta) \in BOOLEAN
      BY DEF Final, Sound, ProcType, Entry, Matches
    <2>3. \/ KeepOrBuild("final", Matches("final", cur.body, cur.meta), cur.body, cur.meta,
                         "retire", "promoteFinal")
          \/ Block("unexpectedFinal") \/ Pass("retire")
      BY <1>3 DEF FinalBuild
    <2> QED BY <2>1, <2>2, <2>3, KeepOrBuildStep, CheckStep, BlockStep, LabelsInUse, ReasonsInUse
  <1>4. CASE PromoteFinal
    <2>1. Alone
      BY <1>4, PastChecks DEF PromoteFinal, Unchecked, Holding
    <2>2. "final" \in Final
      BY DEF Final
    <2> QED BY <1>4, <2>1, <2>2, PromoteStep, LabelsInUse DEF PromoteFinal
  <1>5. CASE Retire
    <2>1. Alone
      BY <1>5, PastChecks DEF Retire, Unchecked, Holding
    <2>2. Abandon \/ Pass("removeDisplaced") \/ Pass("retireRename")
      BY <1>5 DEF Retire
    <2> QED BY <2>1, <2>2, CheckStep, BlockStep, LabelsInUse, ReasonsInUse
  <1>6. CASE RetireRename
    <2>1. Alone
      BY <1>6, PastChecks DEF RetireRename, Unchecked, Holding
    <2>2. \/ Abandon
          \/ /\ MoveFile("target", "retired")
             /\ Goto("retireCheck") /\ UNCHANGED <<db, refused, captures>>
      BY <1>6 DEF RetireRename
    <2>3. CASE Abandon
      BY <2>3, AbandonStep
    <2>4. CASE ~Abandon
      <3>1. DiskType'
        BY <2>2, <2>4, MoveType, NamesType DEF Sound
      <3> QED BY <2>1, <2>2, <2>4, <3>1, FileGoto, LabelsInUse
    <2> QED BY <2>3, <2>4
  <1>7. CASE RetireCheck
    <2>1. Alone
      BY <1>7, PastChecks DEF RetireCheck, Unchecked, Holding
    <2>2. Pass("removeDisplaced") \/ Abandon
      BY <1>7 DEF RetireCheck
    <2> QED BY <2>1, <2>2, CheckStep, BlockStep, LabelsInUse, ReasonsInUse
  <1>8. CASE RemoveDisplaced
    <2>1. Alone
      BY <1>8, PastChecks DEF RemoveDisplaced, Unchecked, Holding
    <2>2. cur.displaced \in Identity
      BY DEF Sound, ProcType, Entry
    <2> QED BY <1>8, <2>1, <2>2, RemoveRecordedStep, NamesType, LabelsInUse, ReasonsInUse
            DEF RemoveDisplaced
  <1>9. CASE RemoveDetached
    <2>1. Alone
      BY <1>9, PastChecks DEF RemoveDetached, Unchecked, Holding
    <2>2. cur.detached \in Identity /\ DetachedName(cur) \in Names
      BY NamesType DEF Sound, ProcType, Entry, DetachedName
    <2> QED BY <1>9, <2>1, <2>2, RemoveRecordedStep, LabelsInUse, ReasonsInUse
            DEF RemoveDetached
  <1>10. CASE RemoveRetired
    <2>1. Alone
      BY <1>10, PastChecks DEF RemoveRetired, Unchecked, Holding
    <2>2. \/ Pass("finalCheck") \/ Block("retired") \/ Abandon
          \/ /\ Remove("retired")
             /\ Goto("finalCheck") /\ UNCHANGED <<db, refused, captures>>
      BY <1>10 DEF RemoveRetired
    <2>3. Remove("retired") => DiskType'
      BY RemoveType, NamesType DEF Sound
    <2> QED BY <2>1, <2>2, <2>3, CheckStep, BlockStep, FileGoto, LabelsInUse, ReasonsInUse
  <1>11. CASE FinalCheck
    <2>1. Alone
      BY <1>11, PastChecks DEF FinalCheck, Unchecked, Holding
    <2>2. \/ Block("unrecognized") \/ Abandon \/ Block("final")
          \/ /\ SyncWith
             /\ Goto("beginFinalization") /\ UNCHANGED <<db, refused, captures>>
      BY <1>11 DEF FinalCheck
    <2>3. SyncWith => DiskType'
      BY SyncWithType DEF Sound
    <2> QED BY <2>1, <2>2, <2>3, AbandonStep, BlockStep, FileGoto, LabelsInUse, ReasonsInUse
  <1>12. CASE BeginFinalization
    <2>1. Alone
      BY <1>12, PastChecks DEF BeginFinalization, Unchecked, Holding
    <2> DEFINE marker == MarkerOf(cur, made)
    <2>2. marker \in Entry /\ marker.blocked = "no"
      BY NeutralTypes DEF MarkerOf, Sound, ProcType, Entry, Phases, Missing
    <2>3. UNCHANGED <<disk, captures>>
      BY <1>12 DEF BeginFinalization
    <2>4. DiskType' /\ captures' \in Nat
      BY <2>3 DEF Sound, StoreType, disk, DiskType
    <2>5. CASE AcceptsMarker(db, cur, marker)
      <3>1. db' = marker /\ Proceed("finObserve", marker, NoObs, NoId) /\ refused' = refused
        BY <1>12, <2>5 DEF BeginFinalization
      <3>2. StoreType' /\ ProcType'
        BY <2>2, <2>4, <3>1, ProceedType, NeutralTypes, LabelsInUse, OnwardLabels
           DEF Sound, StoreType
      <3>3. mounted' = "no" /\ pc' \in Onward /\ MarkerUnblocked'
        BY <2>1, <2>2, <3>1, LabelsInUse DEF Alone, Proceed, MarkerUnblocked
      <3> QED BY <2>1, <2>2, <2>4, <3>1, <3>2, <3>3, OnwardSafe DEF Alone, Sound
    <2>6. CASE ~AcceptsMarker(db, cur, marker)
      <3>1. Fail /\ refused' = TRUE /\ db' = db
        BY <1>12, <2>6 DEF BeginFinalization
      <3> QED BY <2>3, <2>4, <3>1, RefusedStep
    <2> QED BY <2>5, <2>6
  <1> QED BY <1>1, <1>2, <1>3, <1>4, <1>5, <1>6, <1>7, <1>8, <1>9,
             <1>10, <1>11, <1>12 DEF Clean

\* The transfer of the last private copy, and the end of the marker.
LEMMA FinalizeStep ==
  ASSUME Sound, Finalize
  PROVE  Sound'
  <1>1. CASE FinObserve
    <2>1. Alone
      BY <1>1, PastChecks DEF FinObserve, Unchecked, Holding
    <2>2. Abandon \/ Pass("finRename") \/ Pass("finSync")
      BY <1>1 DEF FinObserve
    <2> QED BY <2>1, <2>2, CheckStep, BlockStep, LabelsInUse, ReasonsInUse
  <1>2. CASE FinRename
    <2>1. Alone
      BY <1>2, PastChecks DEF FinRename, Unchecked, Holding
    <2>2. \/ Abandon
          \/ /\ MoveFile("final", "target")
             /\ Goto("finVerify") /\ UNCHANGED <<db, refused, captures>>
      BY <1>2 DEF FinRename
    <2>3. CASE Abandon
      BY <2>3, AbandonStep
    <2>4. CASE ~Abandon
      <3>1. DiskType'
        BY <2>2, <2>4, MoveType, NamesType DEF Sound
      <3> QED BY <2>1, <2>2, <2>4, <3>1, FileGoto, LabelsInUse
    <2> QED BY <2>3, <2>4
  <1>3. CASE FinVerify
    <2>1. Alone
      BY <1>3, PastChecks DEF FinVerify, Unchecked, Holding
    <2>2. Pass("finSync") \/ Abandon
      BY <1>3 DEF FinVerify
    <2> QED BY <2>1, <2>2, CheckStep, BlockStep, LabelsInUse, ReasonsInUse
  <1>4. CASE FinSync
    <2>1. Alone
      BY <1>4, PastChecks DEF FinSync, Unchecked, Holding
    <2>2. \/ Abandon
          \/ /\ SyncWith
             /\ Goto("finRecheck") /\ UNCHANGED <<db, refused, captures>>
      BY <1>4 DEF FinSync
    <2>3. SyncWith => DiskType'
      BY SyncWithType DEF Sound
    <2> QED BY <2>1, <2>2, <2>3, AbandonStep, FileGoto, LabelsInUse
  <1>5. CASE FinRecheck
    <2>1. Alone
      BY <1>5, PastChecks DEF FinRecheck, Unchecked, Holding
    <2>2. Pass("deleteMarker") \/ Abandon
      BY <1>5 DEF FinRecheck
    <2> QED BY <2>1, <2>2, CheckStep, BlockStep, LabelsInUse, ReasonsInUse
  <1>6. CASE DeleteMarker
    <2>1. Alone
      BY <1>6, PastChecks DEF DeleteMarker, Unchecked, Holding
    <2>2. DiskType' /\ StoreType'
      BY <1>6, NeutralTypes DEF DeleteMarker, Sound, StoreType, disk, DiskType
    <2>3. MarkerUnblocked'
      BY <1>6, <2>1 DEF DeleteMarker, MarkerUnblocked, Alone, Missing
    <2>4. CASE db = cur
      BY <1>6, <2>1, <2>2, <2>3, <2>4, HandedBackStep DEF DeleteMarker, Alone
    <2>5. CASE db # cur
      <3>1. Fail /\ db' = db
        BY <1>6, <2>5 DEF DeleteMarker
      <3>2. ProcType'
        BY <3>1, FailType DEF Sound
      <3> QED BY <2>2, <2>3, <3>1, <3>2, FailSafe DEF Sound
    <2> QED BY <2>4, <2>5
  <1> QED BY <1>1, <1>2, <1>3, <1>4, <1>5, <1>6 DEF Finalize

\* Offline storage.
LEMMA StoreStep ==
  ASSUME Sound, Store
  PROVE  Sound'
  <1>1. CASE StoreLoad
    <2>1. mounted = "no"
      BY <1>1, Unmounted DEF StoreLoad, Holding
    <2>2. \/ Pass("capture")
          \/ Abandon
          \/ db.blocked = "no" /\ (\/ Loaded("finObserve") \/ Loaded("storeStaging")
                                  \/ Loaded("storeObserve") \/ Loaded("requireStored"))
      BY <1>1 DEF StoreLoad
    <2>3. "capture" \in Unchecked
      BY DEF Unchecked
    <2> QED BY <2>1, <2>2, <2>3, AbandonStep, PassStep, LabelsInUse
  <1>2. CASE StoreStaging
    <2>1. Alone
      BY <1>2, PastChecks DEF StoreStaging, Unchecked, Holding
    <2>2. \/ Abandon \/ Block("source") \/ Block("staging")
          \/ Pass("commitStoreIntent")
      BY <1>2 DEF StoreStaging
    <2> QED BY <2>1, <2>2, CheckStep, BlockStep, LabelsInUse, ReasonsInUse
  <1>3. CASE CommitStoreIntent
    <2>1. Alone
      BY <1>3, PastChecks DEF CommitStoreIntent, Unchecked, Holding
    <2> DEFINE next == [cur EXCEPT !.phase = "storeIntent"]
    <2>2. next \in Entry /\ next.phase # "captured" /\ next.blocked = cur.blocked
      BY DEF Sound, ProcType, Entry, Phases
    <2>3. Commit(next, "storeObserve")
      BY <1>3 DEF CommitStoreIntent
    <2> QED BY <2>1, <2>2, <2>3, CommitStep, LabelsInUse
  <1>4. CASE StoreObserve
    <2>1. Alone
      BY <1>4, PastChecks DEF StoreObserve, Unchecked, Holding
    <2>2. \/ Abandon \/ Pass("storeRename") \/ Pass("storeVerify")
          \/ Block("store")
      BY <1>4 DEF StoreObserve
    <2> QED BY <2>1, <2>2, CheckStep, BlockStep, LabelsInUse, ReasonsInUse
  <1>5. CASE StoreRename
    <2>1. Alone
      BY <1>5, PastChecks DEF StoreRename, Unchecked, Holding
    <2>2. \/ Abandon
          \/ /\ MoveFile("target", "stored")
             /\ Goto("storeReobserve") /\ UNCHANGED <<db, refused, captures>>
      BY <1>5 DEF StoreRename
    <2>3. CASE Abandon
      BY <2>3, AbandonStep
    <2>4. CASE ~Abandon
      <3>1. DiskType'
        BY <2>2, <2>4, MoveType, NamesType DEF Sound
      <3> QED BY <2>1, <2>2, <2>4, <3>1, FileGoto, LabelsInUse
    <2> QED BY <2>3, <2>4
  <1>6. CASE StoreReobserve
    <2>1. Alone
      BY <1>6, PastChecks DEF StoreReobserve, Unchecked, Holding
    <2>2. Abandon \/ Pass("storeVerify") \/ Block("store")
      BY <1>6 DEF StoreReobserve
    <2> QED BY <2>1, <2>2, CheckStep, BlockStep, LabelsInUse, ReasonsInUse
  <1>7. CASE StoreVerify
    <2>1. Alone
      BY <1>7, PastChecks DEF StoreVerify, Unchecked, Holding
    <2>2. \/ Block("storedSnapshot")
          \/ Still /\ Proceed("storeSync", cur, Seen("stored"), NoId)
      BY <1>7 DEF StoreVerify
    <2> QED BY <2>1, <2>2, ObservedStep, CheckStep, BlockStep, NamesType, LabelsInUse,
               ReasonsInUse
  <1>8. CASE StoreSync
    <2>1. Alone
      BY <1>8, PastChecks DEF StoreSync, Unchecked, Holding
    <2>2. \/ Abandon
          \/ /\ SyncWith
             /\ Goto("commitStored") /\ UNCHANGED <<db, refused, captures>>
      BY <1>8 DEF StoreSync
    <2>3. SyncWith => DiskType'
      BY SyncWithType DEF Sound
    <2> QED BY <2>1, <2>2, <2>3, AbandonStep, FileGoto, LabelsInUse
  <1>9. CASE CommitStored
    <2>1. Alone
      BY <1>9, PastChecks DEF CommitStored, Unchecked, Holding
    <2> DEFINE next == [cur EXCEPT !.phase = "stored", !.detached = obs.s]
    <2>2. next \in Entry /\ next.phase # "captured" /\ next.blocked = cur.blocked
      BY DEF Sound, ProcType, Entry, Phases, Obs
    <2>3. Commit(next, "requireStored")
      BY <1>9 DEF CommitStored
    <2> QED BY <2>1, <2>2, <2>3, CommitStep, LabelsInUse
  <1>10. CASE RequireStored
    <2>1. Alone
      BY <1>10, PastChecks DEF RequireStored, Unchecked, Holding
    <2>2. Block("stored") \/ (Still /\ Exit) \/ Pass("beginRestore")
      BY <1>10 DEF RequireStored
    <2> QED BY <2>1, <2>2, ExitStep, CheckStep, BlockStep, LabelsInUse, ReasonsInUse
  <1> QED BY <1>1, <1>2, <1>3, <1>4, <1>5, <1>6, <1>7, <1>8, <1>9,
             <1>10 DEF Store

-----------------------------------------------------------------------------
(* The world                                                               *)

LEMMA FreshType ==
  ASSUME WorldType
  PROVE  Fresh \in Nat
  BY DEF WorldType, Fresh

\* A step of the world that leaves the entry and the coordinator alone.
LEMMA AsideSafe ==
  ASSUME Sound, UNCHANGED <<db, proc>>
  PROVE  Safe'
  <1>1. UNCHANGED <<db, pc, op, mounted>>
    BY DEF proc
  <1> QED BY <1>1 DEF Sound, Safe, ChecksHold, MarkerUnblocked, MountIsRecorded, MountPlaces

LEMMA EditStep ==
  ASSUME IInv, NEW files \in [Names -> File], NEW lost \in Nat, NEW gained \in SUBSET Nat,
         Edit(files, lost, gained), nextIno' \in Nat
  PROVE  IInv'
  <1>1. files["target"].id.ino \in Nat
    BY NamesType DEF File, Identity
  <1>2. DiskType'
    BY <1>1 DEF Edit, IInv, Sound, DiskType
  <1>3. UNCHANGED <<db, proc>>
    BY DEF Edit
  <1>4. StoreType' /\ ProcType'
    BY <1>3 DEF Edit, IInv, Sound, StoreType, ProcType, proc
  <1>5. precious' \subseteq Nat
    BY DEF Edit, IInv, WorldType
  <1>6. moved' \in BOOLEAN
    BY DEF Edit, IInv, WorldType
  <1>7. faults' \in Nat /\ edits' \in Nat /\ moves' \in Nat /\ writes' \in Nat
    BY DEF Edit, IInv, WorldType
  <1>8. Safe'
    BY <1>3, AsideSafe DEF IInv
  <1> QED BY <1>2, <1>4, <1>5, <1>6, <1>7, <1>8 DEF IInv, Sound, WorldType

LEMMA OwnerStep ==
  ASSUME IInv, Owner
  PROVE  IInv'
  <1>1. StoreType /\ DiskType /\ ProcType /\ WorldType /\ Fresh \in Nat
    BY FreshType DEF IInv, Sound
  <1>2. CASE OwnerReplace
    <2> DEFINE file  == [id |-> [ino |-> nextIno, meta |-> Fresh, ctime |-> 0], body |-> Fresh]
               files == [fs EXCEPT !["target"] = file]
    <2>1. file \in File
      BY <1>1 DEF File, Identity, DiskType
    <2>2. files \in [Names -> File]
      BY <1>1, <2>1 DEF DiskType
    <2>3. fs["target"].body \in Nat /\ {Fresh} \in SUBSET Nat
      BY <1>1, SeenType, NamesType
    <2>4. Edit(files, fs["target"].body, {Fresh}) /\ nextIno' \in Nat
      BY <1>1, <1>2 DEF OwnerReplace, DiskType
    <2> QED BY <2>2, <2>3, <2>4, EditStep
  <1>3. CASE OwnerDelete
    <2> DEFINE files == [fs EXCEPT !["target"] = Nothing]
    <2>1. files \in [Names -> File]
      BY <1>1, NeutralTypes DEF DiskType
    <2>2. fs["target"].body \in Nat /\ {} \in SUBSET Nat
      BY <1>1, SeenType, NamesType
    <2>3. Edit(files, fs["target"].body, {}) /\ nextIno' \in Nat
      BY <1>1, <1>3 DEF OwnerDelete, DiskType
    <2> QED BY <2>1, <2>2, <2>3, EditStep
  <1>4. CASE MoveParent
    <2>1. WorldType'
      BY <1>1, <1>4 DEF MoveParent, WorldType
    <2>2. StoreType' /\ DiskType' /\ ProcType'
      BY <1>1, <1>4 DEF MoveParent, StoreType, DiskType, ProcType, disk, proc
    <2>3. Safe'
      BY <1>4, AsideSafe DEF MoveParent, IInv
    <2> QED BY <2>1, <2>2, <2>3 DEF IInv, Sound
  <1>5. ASSUME NEW name \in Names, NEW quiet \in BOOLEAN, OwnerWrite(name, quiet)
        PROVE  IInv'
    <2> DEFINE files == [fs EXCEPT ![name] = Written(@, quiet)]
    <2>1. fs[name] \in File
      BY <1>1, SeenType
    <2>2. Written(fs[name], quiet) \in File
      BY <1>1, <2>1 DEF Written, File, Identity
    <2>3. files \in [Names -> File]
      BY <1>1, <2>2 DEF DiskType
    <2>4. fs[name].body \in Nat /\ {Fresh} \in SUBSET Nat
      BY <1>1, SeenType
    <2>5. Edit(files, fs[name].body, {Fresh}) /\ nextIno' \in Nat
      BY <1>1, <1>5 DEF OwnerWrite, DiskType
    <2> QED BY <2>3, <2>4, <2>5, EditStep
  <1> QED BY <1>2, <1>3, <1>4, <1>5 DEF Owner

\* A mounted write keeps the phase, and is accepted only for an unblocked row.
LEMMA MountedWriteStep ==
  ASSUME IInv, MountedWrite
  PROVE  IInv'
  <1> DEFINE next == [db EXCEPT !.body = Fresh, !.logical = TRUE]
  <1>1. StoreType /\ DiskType /\ ProcType /\ WorldType /\ Safe /\ Fresh \in Nat
    BY FreshType DEF IInv, Sound
  <1>2. next \in Entry /\ next.phase = db.phase /\ next.blocked = db.blocked
    BY <1>1 DEF StoreType, Entry
  <1>3. /\ db' = next /\ precious' = (precious \ {db.body}) \cup {Fresh}
        /\ writes' = writes + 1
        /\ UNCHANGED <<disk, proc, refused, captures, moved, faults, edits, moves>>
    BY DEF MountedWrite
  <1>4. StoreType' /\ DiskType' /\ ProcType'
    BY <1>1, <1>2, <1>3 DEF StoreType, DiskType, ProcType, disk, proc
  <1>5. WorldType'
    BY <1>1, <1>3 DEF WorldType
  <1>6. UNCHANGED <<pc, op, mounted>> /\ db'.phase = db.phase /\ db'.blocked = db.blocked
    BY <1>2, <1>3 DEF proc
  <1>7. Safe'
    BY <1>1, <1>6 DEF Safe, ChecksHold, MarkerUnblocked, MountIsRecorded, MountPlaces
  <1> QED BY <1>4, <1>5, <1>7 DEF IInv, Sound

LEMMA DisasterStep ==
  ASSUME IInv, Disaster
  PROVE  IInv'
  <1>1. StoreType /\ DiskType /\ ProcType /\ WorldType /\ Safe /\ Sound
    BY DEF IInv, Sound
  <1>2. Faulty
    BY DEF Disaster, StepFails, ProcessCrash, PowerLoss
  <1>3. StoreType' /\ WorldType' /\ db' = db /\ MarkerUnblocked'
    BY <1>1, <1>2 DEF Faulty, StoreType, WorldType, Safe, MarkerUnblocked
  <1>4. CASE StepFails
    <2>1. ProcType' /\ DiskType'
      BY <1>1, <1>4, FailType DEF StepFails, disk, DiskType
    <2>2. Safe'
      BY <1>1, <1>3, <1>4, FailSafe DEF StepFails
    <2> QED BY <1>3, <2>1, <2>2 DEF IInv, Sound
  <1>5. CASE ProcessCrash
    <2>1. ProcType' /\ DiskType'
      BY <1>1, <1>5, ExitType DEF ProcessCrash, disk, DiskType
    <2>2. Safe'
      BY <1>1, <1>3, <1>5, ExitSafe DEF ProcessCrash
    <2> QED BY <1>3, <2>1, <2>2 DEF IInv, Sound
  <1>6. CASE PowerLoss
    <2>1. PICK files \in survivors :
            /\ fs' = files /\ survivors' = {files}
            /\ exposed' = {files["target"].id.ino} \ {0}
      BY <1>6 DEF PowerLoss
    <2>2. files \in [Names -> File]
      BY <1>1 DEF DiskType
    <2>3. files["target"].id.ino \in Nat
      BY <2>2, NamesType DEF File, Identity
    <2>4. nextIno' = nextIno /\ Enter("none", "idle", FALSE) /\ mounted' = "no"
      BY <1>6 DEF PowerLoss
    <2>5. DiskType'
      BY <1>1, <2>1, <2>2, <2>3, <2>4 DEF DiskType
    <2>6. ProcType'
      BY <1>1, <2>4, EnterType, LabelsInUse, OnwardLabels, OpsInUse
    <2>7. Safe'
      BY <1>3, <2>4 DEF Enter, Safe, ChecksHold, MountIsRecorded, MountPlaces, Unchecked
    <2> QED BY <1>3, <2>5, <2>6, <2>7 DEF IInv, Sound
  <1> QED BY <1>4, <1>5, <1>6 DEF Disaster

\* Where an error of a check becomes a conflict the entry is in hand.
LEMMA CheckingPlaces == Checking \subseteq InHand /\ Checking \cap (Unchecked \cup Holding) = {}
  BY DEF Checking, InHand, Labels, Unchecked, Holding

LEMMA CheckFailsStep ==
  ASSUME IInv, CheckFails
  PROVE  IInv'
  <1>1. Alone
    BY CheckingPlaces, PastChecks DEF CheckFails, IInv
  <1>2. Sound'
    BY <1>1, BlockStep, ReasonsInUse DEF CheckFails, IInv
  <1>3. WorldType'
    BY DEF CheckFails, world, IInv, WorldType
  <1> QED BY <1>2, <1>3 DEF IInv

-----------------------------------------------------------------------------
(* The specification                                                       *)

LEMMA InitInv == Init => IInv
  <1> SUFFICES ASSUME Init PROVE IInv
    OBVIOUS
  <1>1. PICK there \in InitiallyThere :
          /\ fs = [n \in Names |->
                     IF n = "target" /\ there
                     THEN [id |-> [ino |-> 1, meta |-> 1, ctime |-> 0], body |-> 1]
                     ELSE Nothing]
          /\ precious = IF there THEN {1} ELSE {}
          /\ exposed = IF there THEN {1} ELSE {}
    BY DEF Init
  <1>2. [id |-> [ino |-> 1, meta |-> 1, ctime |-> 0], body |-> 1] \in File
    BY DEF File, Identity
  <1>3. fs \in [Names -> File]
    BY <1>1, <1>2, NeutralTypes
  <1>4. DiskType
    BY <1>1, <1>3 DEF Init, DiskType
  <1>5. StoreType /\ WorldType
    <2>1. precious \subseteq Nat
      BY <1>1
    <2>2. moved \in BOOLEAN /\ refused \in BOOLEAN
      BY DEF Init
    <2>3. captures \in Nat /\ faults \in Nat /\ edits \in Nat /\ moves \in Nat /\ writes \in Nat
      BY DEF Init
    <2>4. db \in Entry
      BY NeutralTypes DEF Init
    <2> QED BY <2>1, <2>2, <2>3, <2>4 DEF StoreType, WorldType
  <1>6. ProcType
    BY NeutralTypes, LabelsInUse, OnwardLabels, OpsInUse DEF Init, ProcType
  <1>7. Safe
    BY DEF Init, Missing, Safe, ChecksHold, MarkerUnblocked, MountIsRecorded, MountPlaces
  <1> QED BY <1>4, <1>5, <1>6, <1>7 DEF IInv, Sound

LEMMA NextInv == IInv /\ [Next]_vars => IInv'
  <1> SUFFICES ASSUME IInv, [Next]_vars PROVE IInv'
    OBVIOUS
  <1>1. CASE (Issue \/ Coordinate) /\ UNCHANGED world /\ UNCHANGED faults
    <2>1. WorldType'
      BY <1>1 DEF IInv, WorldType, world
    <2>2. Sound'
      BY <1>1, IssueStep, InterceptorStep, InstallStep, RestoreStep, CleanStep, FinalizeStep,
         StoreStep DEF IInv, Coordinate
    <2> QED BY <2>1, <2>2 DEF IInv
  <1>2. CASE UNCHANGED vars
    <2>1. StoreType' /\ DiskType' /\ ProcType' /\ WorldType'
      BY <1>2 DEF vars, disk, proc, world, IInv, Sound, StoreType, DiskType, ProcType, WorldType
    <2>2. Safe'
      BY <1>2, AsideSafe DEF vars, IInv
    <2> QED BY <2>1, <2>2 DEF IInv, Sound
  <1> QED BY <1>1, <1>2, OwnerStep, MountedWriteStep, DisasterStep, CheckFailsStep DEF Next

LEMMA Inductive == Spec => []IInv
  BY InitInv, NextInv, PTL DEF Spec

\* Every variable keeps the type its declaration names.
THEOREM TypeCorrect == Spec => []TypeOK
  <1>1. IInv => TypeOK
    BY TypeGroups DEF IInv, Sound
  <1> QED BY <1>1, Inductive, PTL

\* A kernel mount, live or left behind by a dead daemon, always has a record
\* that says so and that nothing has blocked: start can detach it.
THEOREM MountRecorded == Spec => []MountIsRecorded
  <1>1. IInv => MountIsRecorded
    BY DEF IInv, Sound, Safe
  <1> QED BY <1>1, Inductive, PTL

-----------------------------------------------------------------------------
(* Conflicts stop the automatic work                                       *)

\* What an entry found blocked is owed by a step of the coordinator.
Untouched == db' = db /\ fs' = fs

LEMMA StillUntouched ==
  ASSUME Still
  PROVE  Untouched
  BY DEF Still, disk, Untouched

LEMMA BlockedInterceptor ==
  ASSUME pc \in Unchecked, db.blocked # "no", Interceptor
  PROVE  Untouched
  <1>1. CASE EnterStop \/ BeginUnmount
    <2>1. Still
      BY <1>1 DEF EnterStop, BeginUnmount, Pass, Loaded, Abandon
    <2> QED BY <2>1, StillUntouched
  <1>2. CASE Detach \/ Reconcile
    <2>1. Still
      BY <1>2 DEF Detach, Reconcile, Loaded, Abandon
    <2> QED BY <2>1, StillUntouched
  <1>3. CASE Prepare
    <2>1. Still
      BY <1>3 DEF Prepare, Pass, Abandon
    <2> QED BY <2>1, StillUntouched
  <1>4. CASE LeaveCheck \/ CommitLeave \/ BeginMount \/ CommitMount \/ Mount \/ CommitUnmount
    BY <1>4 DEF LeaveCheck, CommitLeave, BeginMount, CommitMount, Mount, CommitUnmount, Unchecked
  <1> QED BY <1>1, <1>2, <1>3, <1>4 DEF Interceptor

LEMMA BlockedInstall ==
  ASSUME pc \in Unchecked, db.blocked # "no", Install
  PROVE  Untouched
  <1>1. CASE Capture
    BY <1>1, StillUntouched DEF Capture, Abandon
  <1>2. CASE CommitCaptured
    <2>1. PICK label \in {"storeStaging", "beginInstall"} : CommitFrom(Missing, cur, label)
      BY <1>2 DEF CommitCaptured
    <2>2. ~Accepts(db, Missing, cur)
      BY DEF Accepts, Missing
    <2> QED BY <2>1, <2>2 DEF CommitFrom, disk, Untouched
  <1>3. CASE Install /\ ~Capture /\ ~CommitCaptured
    BY <1>3 DEF Install, BeginInstall, BuildPlaceholder, PromotePlaceholder, CommitInstallIntent,
       InstallObserve, InstallRename, InstallReobserve, InstallVerify, InstallSync,
       CommitInstalled, RequireInstalled, Unchecked
  <1> QED BY <1>1, <1>2, <1>3

LEMMA BlockedRestore ==
  ASSUME pc \in Unchecked, db.blocked # "no", Restore
  PROVE  Untouched
  <1>1. CASE RestoreLoad
    BY <1>1, StillUntouched DEF RestoreLoad, Abandon
  <1>2. CASE ~RestoreLoad
    BY <1>2 DEF Restore, BeginRestore, CommitRestoreIntent, RestoreBuild, PromoteRestore,
       CommitRestoreFile, RestoreObserve, RestoreRename, RestoreReobserve, RestoreVerify,
       RestoreSync, CommitRestored, Unchecked
  <1> QED BY <1>1, <1>2

LEMMA BlockedStore ==
  ASSUME pc \in Unchecked, db.blocked # "no", Store
  PROVE  Untouched
  <1>1. CASE StoreLoad
    BY <1>1, StillUntouched DEF StoreLoad, Abandon, Pass
  <1>2. CASE ~StoreLoad
    BY <1>2 DEF Store, StoreStaging, CommitStoreIntent, StoreObserve, StoreRename,
       StoreReobserve, StoreVerify, StoreSync, CommitStored, RequireStored, Unchecked
  <1> QED BY <1>1, <1>2

\* Cleaning and finalization have no label before the checks.
LEMMA BlockedRest ==
  ASSUME pc \in Unchecked, Clean \/ Finalize
  PROVE  FALSE
  <1>1. CASE Clean
    BY <1>1 DEF Clean, Cleanup, CommitDelete, FinalBuild, PromoteFinal, Retire, RetireRename,
       RetireCheck, RemoveDisplaced, RemoveDetached, RemoveRetired, FinalCheck,
       BeginFinalization, Unchecked
  <1>2. CASE Finalize
    BY <1>2 DEF Finalize, FinObserve, FinRename, FinVerify, FinSync, FinRecheck, DeleteMarker,
       Unchecked
  <1> QED BY <1>1, <1>2

LEMMA BlockedStep ==
  ASSUME IInv, [Next]_vars, db.blocked # "no"
  PROVE  db' = db /\ (edits' = edits /\ faults' = faults => fs' = fs)
  <1>1. pc \in Unchecked
    BY DEF IInv, Sound, Safe, ChecksHold
  <1>2. CASE Issue
    <2>1. Still
      BY <1>2 DEF Issue, StoreCommand, RestoreCommand, StopCommand, Start
    <2> QED BY <2>1, StillUntouched DEF Untouched
  <1>3. CASE Coordinate
    BY <1>1, <1>3, BlockedInterceptor, BlockedInstall, BlockedRestore, BlockedStore, BlockedRest
       DEF Coordinate, Untouched
  <1>4. CASE Owner
    <2>1. db' = db /\ (edits' = edits + 1 \/ fs' = fs)
      BY <1>4 DEF Owner, OwnerReplace, OwnerDelete, OwnerWrite, MoveParent, Edit, disk
    <2> QED BY <2>1 DEF IInv, WorldType
  <1>5. CASE MountedWrite
    <2>1. Accepts(db, db, [db EXCEPT !.body = Fresh, !.logical = TRUE])
      BY <1>5 DEF MountedWrite
    <2>2. db = Missing \/ db.blocked = "no"
      BY <2>1, AcceptedRow
    <2> QED BY <2>2 DEF Missing
  <1>6. CASE Disaster
    <2>1. db' = db /\ faults' = faults + 1
      BY <1>6 DEF Disaster, StepFails, ProcessCrash, PowerLoss, Faulty
    <2> QED BY <2>1 DEF IInv, WorldType
  <1>7. CASE UNCHANGED vars
    BY <1>7 DEF vars, disk
  <1>8. ~CheckFails
    BY <1>1, CheckingPlaces DEF CheckFails
  <1> QED BY <1>2, <1>3, <1>4, <1>5, <1>6, <1>7, <1>8 DEF Next

\* Once a conflict is recorded no command changes the entry any more, and no
\* file changes but by the owner or in a fault: "Automatic destructive work
\* then stops" (docs/storage-v2.md).
THEOREM BlockedStaysFrozen == Spec => BlockedIsFrozen
  <1>1. ASSUME IInv, [Next]_vars
        PROVE  [db.blocked # "no" =>
                  /\ db' = db
                  /\ edits' = edits /\ faults' = faults => fs' = fs]_vars
    BY <1>1, BlockedStep
  <1> QED BY <1>1, Inductive, PTL DEF Spec, BlockedIsFrozen

-----------------------------------------------------------------------------
(* The coordinator implements Custody.  What carries the proof is that the *)
(* store admits no successor of an entry but those of its own tables       *)
(* (Accepts), and one fact about the coordinator: the steps that finish a  *)
(* restoration work on the marker.                                         *)

\* finish_finalization is given a marker.
AtMarker == pc \in FinLabels => cur.phase = "finalizing"

\* What may become of the store's entry in one step.
EntryStep(e, f) ==
    \/ f = e
    \/ Accepts(e, Missing, f)
    \/ Accepts(e, e, f) /\ f.body = e.body /\ f.logical = e.logical
    \/ Accepts(e, e, f) /\ e.phase = "mountIntent" /\ f.phase = "mountIntent" /\ f.logical = TRUE
    \/ \E id \in Identity : f = MarkerOf(e, id) /\ AcceptsMarker(e, e, f)
    \/ e.phase = "finalizing" /\ f = Missing

-----------------------------------------------------------------------------
(* Each change of the entry is a step of Custody                           *)

\* What is held of an entry is somebody's credential: a row that says there is
\* no credential says so of its contents too.
LEMMA HeldCredential ==
  ASSUME NEW e \in Entry, ValidSnapshot(e)
  PROVE  /\ Credential(e) \in [there : BOOLEAN, body : Nat] \ {NotHeld}
         /\ e.logical = TRUE => Credential(e) # [there |-> FALSE, body |-> Empty]
  <1>1. e.logical \in BOOLEAN /\ e.body \in Nat
    BY DEF Entry
  <1>2. ~e.logical => e.body = 0
    BY DEF ValidSnapshot, Empty
  <1> QED BY <1>1, <1>2 DEF Credential, NotHeld, Empty

\* The capture of a credential takes it into custody.
LEMMA CaptureTakes ==
  ASSUME db \in Entry, db' \in Entry, Accepts(db, Missing, db')
  PROVE  Promise!Take
  <1>1. /\ db = Missing /\ db'.phase = "captured" /\ db'.blocked = "no"
        /\ ValidSnapshot(db')
    BY DEF Accepts
  <1>2. Credential(db') \in [there : BOOLEAN, body : Nat] \ {NotHeld}
    BY <1>1, HeldCredential
  <1> QED BY <1>1, <1>2 DEF Promise!Take, Promise!Move, Stage, Held, Missing

\* A successor with the same contents is a stage further, or is a conflict.
LEMMA SuccessorKeeps ==
  ASSUME db \in Entry, db' \in Entry, Accepts(db, db, db'), db # Missing,
         db'.body = db.body, db'.logical = db.logical
  PROVE  [Promise!Next]_(Promise!custody)
  <1>1. IsPresent(db) /\ ValidSuccessor(db, db') /\ ValidSnapshot(db')
    BY DEF Accepts
  <1>2. db.phase \notin {"missing", "finalizing"} /\ db.blocked = "no"
    BY <1>1 DEF IsPresent, ValidSuccessor
  <1>3. db'.phase \notin {"missing", "finalizing"}
    BY <1>1 DEF ValidSnapshot, ValidStructure
  <1>4. Held(db') = Held(db)
    BY <1>2, <1>3 DEF Held, Credential
  <1>5. CASE db'.blocked # "no"
    <2>1. db'.phase = db.phase
      <3>1. db' = [db EXCEPT !.blocked = db'.blocked]
        BY <1>1, <1>5 DEF ValidSuccessor
      <3> QED BY <3>1 DEF Entry
    <2>2. Stage(db') = Stage(db) /\ Stage(db) \notin {"owned", "handing"}
      BY <1>2, <2>1 DEF Stage, Entry, Phases
    <2> QED BY <1>2, <1>4, <1>5, <2>2 DEF Promise!Next, Promise!Conflict
  <1>6. CASE db'.blocked = "no"
    <2>1. ValidTransition(db, db')
      BY <1>1, <1>6 DEF ValidSuccessor
    <2> DEFINE Step(from, to) == db.phase = from /\ db'.phase = to
               Passes(from, to) == Stage(db) \in from /\ Stage(db') = to
    <2>2. \/ Step("captured", "installIntent") \/ Step("captured", "storeIntent")
          \/ Step("installIntent", "installed") \/ Step("installed", "mountIntent")
          \/ Step("mountIntent", "installed") \/ Step("mountIntent", "mountIntent")
          \/ Step("mountIntent", "unmountIntent") \/ Step("unmountIntent", "installed")
          \/ Step("installed", "restoreIntent") \/ Step("unmountIntent", "restoreIntent")
          \/ Step("storeIntent", "stored") \/ Step("stored", "restoreIntent")
          \/ Step("restoreIntent", "restoreIntent") \/ Step("restoreIntent", "restored")
          \/ Step("restored", "deleteIntent")
      BY <2>1 DEF ValidTransition
    <2>3. \/ Stage(db') = Stage(db)
          \/ Passes({"taken"}, "guarded") \/ Passes({"guarded"}, "served")
          \/ Passes({"served"}, "fenced") \/ Passes({"served", "fenced"}, "guarded")
          \/ Passes({"taken"}, "leaving") \/ Passes({"leaving"}, "offline")
          \/ Passes({"guarded", "fenced", "offline"}, "returning")
      BY <2>2 DEF Stage
    <2>4. ~(db.blocked # "no") /\ (db'.blocked # "no") = (db.blocked # "no")
      BY <1>2, <1>6
    <2> QED BY <1>4, <2>3, <2>4
            DEF Promise!Next, Promise!custody, Promise!Guard, Promise!Serve, Promise!Fence,
                Promise!Unserve, Promise!Leave, Promise!Depart, Promise!GiveBack,
                Promise!Keep, Promise!Move
  <1> QED BY <1>5, <1>6

\* An update of the contents is a write through the mount.
LEMMA UpdateWrites ==
  ASSUME db \in Entry, db' \in Entry, Accepts(db, db, db'),
         db.phase = "mountIntent", db'.phase = "mountIntent", db'.logical = TRUE
  PROVE  [Promise!Next]_(Promise!custody)
  <1>1. db # Missing
    BY DEF Missing
  <1>2. ValidSuccessor(db, db') /\ ValidSnapshot(db')
    BY <1>1 DEF Accepts
  <1>3. CASE db'.blocked # "no"
    <2>1. db' = [db EXCEPT !.blocked = db'.blocked]
      BY <1>2, <1>3 DEF ValidSuccessor
    <2>2. db'.body = db.body /\ db'.logical = db.logical
      BY <2>1 DEF Entry
    <2> QED BY <1>1, <2>2, SuccessorKeeps
  <1>4. CASE db'.blocked = "no"
    <2>1. db.blocked = "no"
      BY <1>2 DEF ValidSuccessor
    <2>2. /\ Credential(db') \in [there : BOOLEAN, body : Nat] \ {NotHeld}
          /\ Credential(db') # [there |-> FALSE, body |-> Empty]
      BY <1>2, HeldCredential
    <2>3. Stage(db) = "served" /\ Stage(db') = "served" /\ Held(db') = Credential(db')
      BY DEF Stage, Held
    <2>4. Promise!Write
      BY <1>4, <2>1, <2>2, <2>3 DEF Promise!Write, Promise!Move
    <2> QED BY <2>4 DEF Promise!Next
  <1> QED BY <1>3, <1>4

\* The marker takes the place of the row, and stands for the same contents.
LEMMA MarkerHands ==
  ASSUME db \in Entry, NEW id \in Identity, db' = MarkerOf(db, id),
         AcceptsMarker(db, db, db')
  PROVE  Promise!HandOver
  <1>1. db.phase = "deleteIntent" /\ db.blocked = "no"
    BY DEF AcceptsMarker
  <1>2. /\ db'.phase = "finalizing" /\ db'.blocked = "no"
        /\ db'.body = db.body /\ db'.logical = db.logical
    BY DEF MarkerOf, Missing
  <1> QED BY <1>1, <1>2 DEF Promise!HandOver, Promise!Keep, Promise!Move, Stage, Held, Credential

\* Every change of the entry is one Custody knows.
LEMMA EntryRefines ==
  ASSUME db \in Entry, db' \in Entry, MarkerUnblocked, EntryStep(db, db')
  PROVE  [Promise!Next]_(Promise!custody)
  <1>1. CASE db' = db
    BY <1>1 DEF Promise!custody
  <1>2. CASE Accepts(db, Missing, db')
    BY <1>2, CaptureTakes DEF Promise!Next
  <1>3. CASE Accepts(db, db, db') /\ db'.body = db.body /\ db'.logical = db.logical
    BY <1>2, <1>3, SuccessorKeeps
  <1>4. CASE /\ Accepts(db, db, db') /\ db.phase = "mountIntent"
             /\ db'.phase = "mountIntent" /\ db'.logical = TRUE
    BY <1>4, UpdateWrites
  <1>5. CASE \E id \in Identity : db' = MarkerOf(db, id) /\ AcceptsMarker(db, db, db')
    BY <1>5, MarkerHands DEF Promise!Next
  <1>6. CASE db.phase = "finalizing" /\ db' = Missing
    <2>1. db.blocked = "no" /\ db'.blocked = "no" /\ db'.phase = "missing"
      BY <1>6 DEF MarkerUnblocked, Missing
    <2>2. Promise!Finish
      BY <1>6, <2>1 DEF Promise!Finish, Promise!Move, Stage, Held
    <2> QED BY <2>2 DEF Promise!Next
  <1> QED BY <1>1, <1>2, <1>3, <1>4, <1>5, <1>6 DEF EntryStep

-----------------------------------------------------------------------------
(* Each step of the coordinator changes the entry in one of these ways     *)

\* A transition of the entry in hand with its contents is stored, or nothing is.
LEMMA CommitEntry ==
  ASSUME NEW next, next.body = cur.body, next.logical = cur.logical,
         db' = db \/ (Accepts(db, cur, next) /\ db' = next)
  PROVE  EntryStep(db, db')
  <1>1. CASE Accepts(db, cur, next) /\ db' = next
    <2>1. cur = Missing \/ db = cur
      BY <1>1, AcceptedRow
    <2> QED BY <1>1, <2>1 DEF EntryStep
  <1> QED BY <1>1 DEF EntryStep

\* A conflict is recorded in the entry in hand, or nothing is.
LEMMA BlockEntry ==
  ASSUME cur \in Entry, NEW reason, Block(reason)
  PROVE  EntryStep(db, db')
  <1> DEFINE blocked == [cur EXCEPT !.blocked = reason]
  <1>1. blocked.body = cur.body /\ blocked.logical = cur.logical
    BY DEF Entry
  <1>2. db' = db \/ (Accepts(db, cur, blocked) /\ db' = blocked)
    BY DEF Block
  <1> QED BY <1>1, <1>2, CommitEntry

\* What a check comes to: the entry is left alone, or a conflict is recorded.
LEMMA CheckEntry ==
  ASSUME cur \in Entry, db' = db \/ \E reason \in Reasons : Block(reason)
  PROVE  EntryStep(db, db')
  BY BlockEntry DEF EntryStep

\* Whatever ends an operation leaves the labels of finish_finalization, and what
\* goes on keeps the entry in hand.
LEMMA LeavesFinish ==
  /\ Fail \/ Exit \/ Reconciled \/ HandedBack => pc' \notin FinLabels
  /\ \A reason : Block(reason) => pc' \notin FinLabels
  <1>1. Fail \/ Exit \/ Reconciled \/ HandedBack => pc' \notin FinLabels
    BY DEF Fail, Exit, Reconciled, HandedBack, Enter, Proceed, FinLabels
  <1> QED BY <1>1 DEF Block

LEMMA IssueEntry ==
  ASSUME Issue
  PROVE  EntryStep(db, db') /\ AtMarker'
  <1>1. Still /\ pc' \in {"detach", "prepare", "restoreLoad", "storeLoad", "stop"}
    BY DEF Issue, StoreCommand, RestoreCommand, StopCommand, Start, Enter
  <1> QED BY <1>1 DEF Still, EntryStep, AtMarker, FinLabels

LEMMA InterceptorEntry ==
  ASSUME cur \in Entry, Interceptor
  PROVE  EntryStep(db, db') /\ AtMarker'
  <1>1. CASE EnterStop \/ BeginUnmount \/ Detach
    BY <1>1, LeavesFinish
       DEF EnterStop, BeginUnmount, Detach, Pass, Loaded, Abandon, Goto, Proceed, Still,
           EntryStep, AtMarker, FinLabels
  <1>2. CASE Reconcile \/ Prepare
    <2>1. Still
      BY <1>2 DEF Reconcile, Prepare, Replay, Pass, Loaded, Abandon
    <2>2. pc' \in FinLabels => db.phase = "finalizing" /\ cur' = db
      BY <1>2, LeavesFinish
         DEF Reconcile, Prepare, Replay, Pass, Loaded, Abandon, Goto, Proceed, FinLabels
    <2> QED BY <2>1, <2>2 DEF Still, EntryStep, AtMarker
  <1>3. CASE LeaveCheck \/ BeginMount \/ Mount
    <2>1. pc' \notin FinLabels
      BY <1>3, LeavesFinish
         DEF LeaveCheck, BeginMount, Mount, Pass, Abandon, Goto, Proceed, FinLabels
    <2>2. db' = db \/ \E reason \in Reasons : Block(reason)
      BY <1>3, ReasonsInUse DEF LeaveCheck, BeginMount, Mount, Pass, Abandon, Still
    <2> QED BY <2>1, <2>2, CheckEntry DEF AtMarker
  <1>4. CASE CommitUnmount
    <2> DEFINE next == [cur EXCEPT !.phase = "unmountIntent", !.next = UnmountOutcome]
    <2>1. pc' \notin FinLabels
      BY <1>4, LeavesFinish
         DEF CommitUnmount, Commit, CommitFrom, Pass, Goto, Proceed, FinLabels
    <2>2. next.body = cur.body /\ next.logical = cur.logical
      BY DEF Entry
    <2>3. db' = db \/ (Accepts(db, cur, next) /\ db' = next)
      BY <1>4 DEF CommitUnmount, Commit, CommitFrom, Pass, Still
    <2> QED BY <2>1, <2>2, <2>3, CommitEntry DEF AtMarker
  <1>5. CASE CommitLeave
    <2> DEFINE next == [cur EXCEPT !.phase = "installed", !.next = "none"]
    <2>1. pc' \notin FinLabels
      BY <1>5, LeavesFinish DEF CommitLeave
    <2>2. next.body = cur.body /\ next.logical = cur.logical
      BY DEF Entry
    <2>3. db' = db \/ (Accepts(db, cur, next) /\ db' = next)
      BY <1>5 DEF CommitLeave
    <2> QED BY <2>1, <2>2, <2>3, CommitEntry DEF AtMarker
  <1>6. CASE CommitMount
    <2> DEFINE next == [cur EXCEPT !.phase = "mountIntent"]
    <2>1. pc' \notin FinLabels
      BY <1>6, LeavesFinish DEF CommitMount, Commit, CommitFrom, Proceed, FinLabels
    <2>2. next.body = cur.body /\ next.logical = cur.logical
      BY DEF Entry
    <2>3. db' = db \/ (Accepts(db, cur, next) /\ db' = next)
      BY <1>6 DEF CommitMount, Commit, CommitFrom
    <2> QED BY <2>1, <2>2, <2>3, CommitEntry DEF AtMarker
  <1> QED BY <1>1, <1>2, <1>3, <1>4, <1>5, <1>6 DEF Interceptor

LEMMA InstallEntry ==
  ASSUME cur \in Entry, Install
  PROVE  EntryStep(db, db') /\ AtMarker'
  <1>1. pc' \notin FinLabels
    BY LeavesFinish
       DEF Install, Capture, CommitCaptured, BeginInstall, BuildPlaceholder,
           PromotePlaceholder, CommitInstallIntent, InstallObserve, InstallRename,
           InstallReobserve, InstallVerify, InstallSync, CommitInstalled, RequireInstalled,
           AfterInstall, Commit, CommitFrom, KeepOrBuild, Promote, Pass, Abandon, Goto,
           Proceed, FinLabels
  <1>2. CASE CommitCaptured
    BY <1>1, <1>2 DEF CommitCaptured, CommitFrom, EntryStep, AtMarker
  <1>3. CASE CommitInstallIntent
    <2> DEFINE next == [cur EXCEPT !.phase = "installIntent", !.placeholder = made]
    <2>1. next.body = cur.body /\ next.logical = cur.logical
      BY DEF Entry
    <2>2. db' = db \/ (Accepts(db, cur, next) /\ db' = next)
      BY <1>3 DEF CommitInstallIntent, Commit, CommitFrom
    <2> QED BY <1>1, <2>1, <2>2, CommitEntry DEF AtMarker
  <1>4. CASE CommitInstalled
    <2> DEFINE next == [cur EXCEPT !.phase = "installed", !.placeholder = obs.t,
                                   !.detached = obs.s]
    <2>1. next.body = cur.body /\ next.logical = cur.logical
      BY DEF Entry
    <2>2. db' = db \/ (Accepts(db, cur, next) /\ db' = next)
      BY <1>4 DEF CommitInstalled, Commit, CommitFrom
    <2> QED BY <1>1, <2>1, <2>2, CommitEntry DEF AtMarker
  <1>5. CASE ~CommitCaptured /\ ~CommitInstallIntent /\ ~CommitInstalled
    <2>1. db' = db \/ \E reason \in Reasons : Block(reason)
      BY <1>5, ReasonsInUse
         DEF Install, Capture, BeginInstall, BuildPlaceholder, PromotePlaceholder,
             InstallObserve, InstallRename, InstallReobserve, InstallVerify, InstallSync,
             RequireInstalled, KeepOrBuild, Promote, Pass, Abandon, Still
    <2> QED BY <1>1, <2>1, CheckEntry DEF AtMarker
  <1> QED BY <1>2, <1>3, <1>4, <1>5

LEMMA RestoreEntry ==
  ASSUME cur \in Entry, Restore
  PROVE  EntryStep(db, db') /\ AtMarker'
  <1>1. CASE RestoreLoad
    <2>1. Still
      BY <1>1 DEF RestoreLoad, Replay, Loaded, Abandon
    <2>2. pc' \in FinLabels => db.phase = "finalizing" /\ cur' = db
      BY <1>1, LeavesFinish DEF RestoreLoad, Replay, Loaded, Abandon, Proceed, FinLabels
    <2> QED BY <2>1, <2>2 DEF Still, EntryStep, AtMarker
  <1>2. CASE ~RestoreLoad
    <2>1. pc' \notin FinLabels
      BY <1>2, LeavesFinish
         DEF Restore, BeginRestore, CommitRestoreIntent, RestoreBuild, PromoteRestore,
             CommitRestoreFile, RestoreObserve, RestoreRename, RestoreReobserve,
             RestoreVerify, RestoreSync, CommitRestored, Commit, CommitFrom, KeepOrBuild,
             Promote, Pass, Abandon, Goto, Proceed, FinLabels
    <2>2. CASE CommitRestoreIntent \/ CommitRestoreFile \/ CommitRestored
      <3>1. PICK next : /\ \/ next = [cur EXCEPT
                                 !.phase  = "restoreIntent", !.next = "none",
                                 !.origin = IF cur.phase = "stored" THEN "stored"
                                                                    ELSE "installed"]
                           \/ next = [cur EXCEPT !.restore = made]
                           \/ next = [cur EXCEPT !.phase = "restored", !.restore = obs.t,
                                                 !.displaced = obs.s]
                        /\ db' = db \/ (Accepts(db, cur, next) /\ db' = next)
        BY <2>2 DEF CommitRestoreIntent, CommitRestoreFile, CommitRestored, Commit, CommitFrom
      <3>2. next.body = cur.body /\ next.logical = cur.logical
        BY <3>1 DEF Entry
      <3> QED BY <2>1, <3>1, <3>2, CommitEntry DEF AtMarker
    <2>3. CASE ~(CommitRestoreIntent \/ CommitRestoreFile \/ CommitRestored)
      <3>1. db' = db \/ \E reason \in Reasons : Block(reason)
        BY <1>2, <2>3, ReasonsInUse
           DEF Restore, BeginRestore, RestoreBuild, PromoteRestore, RestoreObserve,
               RestoreRename, RestoreReobserve, RestoreVerify, RestoreSync, KeepOrBuild,
               Promote, Pass, Abandon, Still
      <3> QED BY <2>1, <3>1, CheckEntry DEF AtMarker
    <2> QED BY <2>2, <2>3
  <1> QED BY <1>1, <1>2

LEMMA CleanEntry ==
  ASSUME cur \in Entry, made \in Identity, Clean
  PROVE  EntryStep(db, db') /\ AtMarker'
  <1>1. CASE CommitDelete
    <2> DEFINE next == [cur EXCEPT !.phase = "deleteIntent"]
    <2>1. pc' \notin FinLabels
      BY <1>1, LeavesFinish DEF CommitDelete, Commit, CommitFrom, Proceed, FinLabels
    <2>2. next.body = cur.body /\ next.logical = cur.logical
      BY DEF Entry
    <2>3. db' = db \/ (Accepts(db, cur, next) /\ db' = next)
      BY <1>1 DEF CommitDelete, Commit, CommitFrom
    <2> QED BY <2>1, <2>2, <2>3, CommitEntry DEF AtMarker
  <1>2. CASE BeginFinalization
    <2> DEFINE marker == MarkerOf(cur, made)
    <2>1. CASE AcceptsMarker(db, cur, marker)
      <3>1. db' = marker /\ cur' = marker /\ db = cur
        BY <1>2, <2>1 DEF BeginFinalization, Proceed, AcceptsMarker
      <3>2. marker.phase = "finalizing"
        BY DEF MarkerOf, Missing
      <3>3. db' = MarkerOf(db, made) /\ AcceptsMarker(db, db, db')
        BY <2>1, <3>1
      <3> QED BY <3>1, <3>2, <3>3 DEF EntryStep, AtMarker
    <2>2. CASE ~AcceptsMarker(db, cur, marker)
      BY <1>2, <2>2, LeavesFinish DEF BeginFinalization, EntryStep, AtMarker
    <2> QED BY <2>1, <2>2
  <1>3. CASE ~CommitDelete /\ ~BeginFinalization
    <2>1. pc' \notin FinLabels
      BY <1>3, LeavesFinish
         DEF Clean, Cleanup, FinalBuild, PromoteFinal, Retire, RetireRename, RetireCheck,
             RemoveDisplaced, RemoveDetached, RemoveRetired, FinalCheck, RemoveRecorded,
             KeepOrBuild, Promote, Pass, Abandon, Goto, Proceed, FinLabels
    <2>2. db' = db \/ \E reason \in Reasons : Block(reason)
      BY <1>3, ReasonsInUse
         DEF Clean, Cleanup, FinalBuild, PromoteFinal, Retire, RetireRename, RetireCheck,
             RemoveDisplaced, RemoveDetached, RemoveRetired, FinalCheck, RemoveRecorded,
             KeepOrBuild, Promote, Pass, Abandon, Still
    <2> QED BY <2>1, <2>2, CheckEntry DEF AtMarker
  <1> QED BY <1>1, <1>2, <1>3

LEMMA FinalizeEntry ==
  ASSUME cur \in Entry, AtMarker, Finalize
  PROVE  EntryStep(db, db') /\ AtMarker'
  <1>1. CASE DeleteMarker
    <2>1. cur.phase = "finalizing" /\ pc' \notin FinLabels
      BY <1>1, LeavesFinish DEF DeleteMarker, AtMarker, FinLabels
    <2> QED BY <1>1, <2>1 DEF DeleteMarker, EntryStep, AtMarker
  <1>2. CASE ~DeleteMarker
    <2>1. db' = db /\ pc \in FinLabels /\ (pc' \in FinLabels => cur' = cur)
      BY <1>2, LeavesFinish
         DEF Finalize, FinObserve, FinRename, FinVerify, FinSync, FinRecheck, Pass, Abandon,
             Still, Goto, Proceed, FinLabels
    <2> QED BY <2>1 DEF EntryStep, AtMarker
  <1> QED BY <1>1, <1>2

LEMMA StoreEntry ==
  ASSUME cur \in Entry, Store
  PROVE  EntryStep(db, db') /\ AtMarker'
  <1>1. CASE StoreLoad
    <2>1. Still
      BY <1>1 DEF StoreLoad, Loaded, Abandon, Pass
    <2>2. pc' \in FinLabels => db.phase = "finalizing" /\ cur' = db
      BY <1>1, LeavesFinish DEF StoreLoad, Loaded, Abandon, Pass, Goto, Proceed, FinLabels
    <2> QED BY <2>1, <2>2 DEF Still, EntryStep, AtMarker
  <1>2. CASE CommitStoreIntent \/ CommitStored
    <2>1. pc' \notin FinLabels
      BY <1>2, LeavesFinish
         DEF CommitStoreIntent, CommitStored, Commit, CommitFrom, Proceed, FinLabels
    <2>2. PICK next : /\ \/ next = [cur EXCEPT !.phase = "storeIntent"]
                         \/ next = [cur EXCEPT !.phase = "stored", !.detached = obs.s]
                      /\ db' = db \/ (Accepts(db, cur, next) /\ db' = next)
      BY <1>2 DEF CommitStoreIntent, CommitStored, Commit, CommitFrom
    <2>3. next.body = cur.body /\ next.logical = cur.logical
      BY <2>2 DEF Entry
    <2> QED BY <2>1, <2>2, <2>3, CommitEntry DEF AtMarker
  <1>3. CASE ~StoreLoad /\ ~CommitStoreIntent /\ ~CommitStored
    <2>1. pc' \notin FinLabels
      BY <1>3, LeavesFinish
         DEF Store, StoreStaging, StoreObserve, StoreRename, StoreReobserve, StoreVerify,
             StoreSync, RequireStored, Pass, Abandon, Goto, Proceed, FinLabels
    <2>2. db' = db \/ \E reason \in Reasons : Block(reason)
      BY <1>3, ReasonsInUse
         DEF Store, StoreStaging, StoreObserve, StoreRename, StoreReobserve, StoreVerify,
             StoreSync, RequireStored, Pass, Abandon, Still
    <2> QED BY <2>1, <2>2, CheckEntry DEF AtMarker
  <1> QED BY <1>1, <1>2, <1>3

LEMMA WorldEntry ==
  ASSUME db \in Entry, cur \in Entry, AtMarker,
         Owner \/ MountedWrite \/ Disaster \/ CheckFails
  PROVE  EntryStep(db, db') /\ AtMarker'
  <1>1. CASE Owner
    BY <1>1 DEF Owner, OwnerReplace, OwnerDelete, MoveParent, OwnerWrite, Edit, proc,
                EntryStep, AtMarker
  <1>2. CASE MountedWrite
    <2> DEFINE next == [db EXCEPT !.body = Fresh, !.logical = TRUE]
    <2>1. next.logical = TRUE /\ next.phase = db.phase
      BY DEF Entry
    <2> QED BY <1>2, <2>1 DEF MountedWrite, proc, EntryStep, AtMarker
  <1>3. CASE Disaster
    <2>1. db' = db /\ pc' \notin FinLabels
      BY <1>3, LeavesFinish
         DEF Disaster, StepFails, ProcessCrash, PowerLoss, Faulty, Enter, FinLabels
    <2> QED BY <2>1 DEF EntryStep, AtMarker
  <1>4. CASE CheckFails
    BY <1>4, BlockEntry, LeavesFinish DEF CheckFails, AtMarker
  <1> QED BY <1>1, <1>2, <1>3, <1>4

-----------------------------------------------------------------------------
(* The refinement                                                          *)

LEMMA InitCustody == Init => Promise!Init /\ AtMarker
  BY DEF Init, Promise!Init, Stage, Held, Missing, AtMarker, FinLabels

LEMMA NextCustody ==
  ASSUME TypeOK, TypeOK', MarkerUnblocked, AtMarker, [Next]_vars
  PROVE  [Promise!Next]_(Promise!custody) /\ AtMarker'
  <1>1. db \in Entry /\ db' \in Entry /\ cur \in Entry /\ made \in Identity
    BY DEF TypeOK
  <1>2. EntryStep(db, db') /\ AtMarker'
    <2>1. CASE UNCHANGED vars
      BY <2>1 DEF vars, proc, EntryStep, AtMarker
    <2>2. CASE Issue
      BY <2>2, IssueEntry
    <2>3. CASE Coordinate
      BY <1>1, <2>3, InterceptorEntry, InstallEntry, RestoreEntry, CleanEntry, FinalizeEntry,
         StoreEntry DEF Coordinate
    <2>4. CASE Owner \/ MountedWrite \/ Disaster \/ CheckFails
      BY <1>1, <2>4, WorldEntry
    <2> QED BY <2>1, <2>2, <2>3, <2>4 DEF Next
  <1> QED BY <1>1, <1>2, EntryRefines

\* The storage coordinator implements Custody whatever the owner does, whichever
\* commands come, and wherever it fails or crashes: a credential goes through the
\* stages of custody in order, and its contents in custody are changed by a write
\* through the mount only (transaction.rs against store/record.rs).
THEOREM CustodyImplemented == Spec => CustodyKept
  <1>1. IInv => TypeOK /\ MarkerUnblocked
    BY TypeGroups DEF IInv, Sound, Safe
  <1>2. Spec => []TypeOK /\ []MarkerUnblocked
    BY <1>1, Inductive, PTL
  <1>3. TypeOK /\ TypeOK' /\ MarkerUnblocked /\ AtMarker /\ [Next]_vars
           => [Promise!Next]_(Promise!custody) /\ AtMarker'
    BY NextCustody
  <1> QED BY <1>2, <1>3, InitCustody, PTL DEF Spec, CustodyKept, Promise!Spec

-----------------------------------------------------------------------------
(* Nothing is lost: Kept is inductive (the sections down to Peace).        *)

-----------------------------------------------------------------------------
(* The store admits every transition                                       *)

\* What a conflict adds to an entry changes nothing else about it.
LEMMA BlockedSound ==
  ASSUME NEW e \in Entry, NEW reason \in Reasons, IsPresent(e), RowSound(e), e.blocked = "no"
  PROVE  LET f == [e EXCEPT !.blocked = reason]
         IN  Accepts(e, e, f) /\ RowSound(f) /\ IsPresent(f)
  <1> DEFINE f == [e EXCEPT !.blocked = reason]
  <1>1. f.blocked = reason /\ reason # "no" /\ f = [e EXCEPT !.blocked = f.blocked]
    BY DEF Entry, Reasons
  <1>2. /\ f.phase = e.phase /\ f.original = e.original /\ f.meta = e.meta
        /\ f.body = e.body /\ f.logical = e.logical /\ f.placeholder = e.placeholder
        /\ f.detached = e.detached /\ f.next = e.next /\ f.origin = e.origin
        /\ f.restore = e.restore /\ f.displaced = e.displaced
    BY DEF Entry
  <1> HIDE DEF f
  <1>3. ValidSnapshot(e)
    BY DEF RowSound
  <1>4. ValidSnapshot(f)
    BY <1>2, <1>3 DEF ValidSnapshot, NeedsPlaceholder, ValidStructure, DetachedIsOriginal,
                      ValidRestoreDetached
  <1>5. IsPresent(f) /\ e # Missing
    BY <1>2 DEF IsPresent, Missing
  <1>6. ValidSuccessor(e, f)
    BY <1>1, <1>2 DEF ValidSuccessor
  <1>7. RowSound(f)
    BY <1>2, <1>4, <1>5 DEF RowSound, IsPresent
  <1> QED BY <1>4, <1>5, <1>6, <1>7 DEF Accepts, f

\* Nothing is in hand where an operation has ended.
LEMMA NowhereAgreed ==
  ASSUME RowSound(db'), ~refused', pc' \in Nowhere
  PROVE  Agreed'
  <1>1. /\ pc' \notin InHand /\ pc' \notin {"capture", "commitCaptured"}
        /\ Place(pc', cur', obs', made')
    BY DEF Nowhere, InHand, Place, FinLabels
  <1> QED BY <1>1 DEF Agreed, AtHand

LEMMA FailPlace == (Fail \/ Exit) => pc' \in {"idle", "stop"} /\ pc' \in Nowhere
  BY DEF Fail, Exit, Enter, Nowhere

\* A step that only moves on.
LEMMA ProceedAgreed ==
  ASSUME RowSound(db'), ~refused', NEW label, NEW entry, NEW seen, NEW file,
         Proceed(label, entry, seen, file), label \in InHand => entry = db',
         label \in {"capture", "commitCaptured"} => db' = Missing,
         Place(label, entry, seen, file)
  PROVE  Agreed'
  BY DEF Agreed, AtHand, Proceed

\* A successor that keeps the contents is admitted if it is a valid transition
\* to a valid row.
LEMMA SuccessorAdmitted ==
  ASSUME NEW e, NEW f, IsPresent(e), e.blocked = "no", f.blocked = "no", ValidSnapshot(f),
         f.original = e.original, f.meta = e.meta, f.body = e.body, f.logical = e.logical,
         \/ f.placeholder = e.placeholder
         \/ /\ e.phase = "installIntent" /\ f.phase = "installed"
            /\ SameFileAfterRename(e.placeholder, f.placeholder)
         \/ /\ e.phase = "captured" /\ f.phase = "installIntent"
            /\ ~Exists(e.placeholder) /\ Exists(f.placeholder),
         ValidTransition(e, f)
  PROVE  Accepts(e, e, f)
  <1>1. e # Missing
    BY DEF IsPresent, Missing
  <1>2. ValidSuccessor(e, f)
    BY DEF ValidSuccessor
  <1> QED BY <1>1, <1>2 DEF Accepts

\* Installation is announced once the placeholder is there.
LEMMA InstallIntentAdmitted ==
  ASSUME NEW e \in Entry, IsPresent(e), RowSound(e), e.blocked = "no",
         e.phase = "captured",
         NEW id \in Identity, Exists(id)
  PROVE  LET f == [e EXCEPT !.phase = "installIntent", !.placeholder = id]
         IN  f \in Entry /\ Accepts(e, e, f) /\ RowSound(f)
  <1> DEFINE f == [e EXCEPT !.phase = "installIntent", !.placeholder = id]
  <1>1. f \in Entry
    BY DEF Entry, Phases, Obs
  <1>2. /\ f.blocked = e.blocked /\ f.original = e.original /\ f.meta = e.meta
        /\ f.body = e.body /\ f.logical = e.logical /\ f.phase = "installIntent"
        /\ f.placeholder = id /\ f.detached = e.detached /\ f.next = e.next
        /\ f.origin = e.origin /\ f.restore = e.restore /\ f.displaced = e.displaced
    BY DEF Entry
  <1> HIDE DEF f
  <1>3. ValidSnapshot(e)
    BY DEF RowSound
  <1>4. ValidSnapshot(f)
    BY <1>2, <1>3 DEF RowSound, ValidSnapshot, NeedsPlaceholder, ValidStructure,
                      DetachedIsOriginal, ValidRestoreDetached, InstallAfter, RestoreAfter,
                      RestoreBefore, After, SameFileAfterRename, Exists, NoId
  <1>5. ValidTransition(e, f)
    BY <1>2 DEF ValidTransition, SameDetached, InstallAfter, RestoreAfter, RestoreBefore, After,
                SameFileAfterRename, Exists, NoId
  <1>6. \/ f.placeholder = e.placeholder
        \/ /\ e.phase = "installIntent" /\ f.phase = "installed"
           /\ SameFileAfterRename(e.placeholder, f.placeholder)
        \/ /\ e.phase = "captured" /\ f.phase = "installIntent"
           /\ ~Exists(e.placeholder) /\ Exists(f.placeholder)
    BY <1>2, <1>3 DEF ValidSnapshot, NeedsPlaceholder, InstallAfter, After, SameFileAfterRename
  <1>7. RowSound(f)
    BY <1>2, <1>4 DEF RowSound, IsPresent, InstallAfter, RestoreAfter, RestoreBefore, After,
                      SameFileAfterRename, Exists, NoId
  <1> QED BY <1>1, <1>2, <1>4, <1>5, <1>6, <1>7, SuccessorAdmitted DEF f


\* ... and done when both files are where they belong.
LEMMA InstalledAdmitted ==
  ASSUME NEW e \in Entry, IsPresent(e), RowSound(e), e.blocked = "no",
         e.phase = "installIntent",
         NEW o \in Obs, After(InstallAfter(e), o)
  PROVE  LET f == [e EXCEPT !.phase = "installed", !.placeholder = o.t, !.detached = o.s]
         IN  f \in Entry /\ Accepts(e, e, f) /\ RowSound(f)
  <1> DEFINE f == [e EXCEPT !.phase = "installed", !.placeholder = o.t, !.detached = o.s]
  <1>1. f \in Entry
    BY DEF Entry, Phases, Obs
  <1>2. /\ f.blocked = e.blocked /\ f.original = e.original /\ f.meta = e.meta
        /\ f.body = e.body /\ f.logical = e.logical /\ f.phase = "installed"
        /\ f.placeholder = o.t /\ f.detached = o.s /\ f.next = e.next
        /\ f.origin = e.origin /\ f.restore = e.restore /\ f.displaced = e.displaced
    BY DEF Entry
  <1> HIDE DEF f
  <1>3. ValidSnapshot(e)
    BY DEF RowSound
  <1>4. ValidSnapshot(f)
    BY <1>2, <1>3 DEF RowSound, ValidSnapshot, NeedsPlaceholder, ValidStructure,
                      DetachedIsOriginal, ValidRestoreDetached, InstallAfter, RestoreAfter,
                      RestoreBefore, After, SameFileAfterRename, Exists, NoId
  <1>5. ValidTransition(e, f)
    BY <1>2 DEF ValidTransition, SameDetached, InstallAfter, RestoreAfter, RestoreBefore, After,
                SameFileAfterRename, Exists, NoId
  <1>6. \/ f.placeholder = e.placeholder
        \/ /\ e.phase = "installIntent" /\ f.phase = "installed"
           /\ SameFileAfterRename(e.placeholder, f.placeholder)
        \/ /\ e.phase = "captured" /\ f.phase = "installIntent"
           /\ ~Exists(e.placeholder) /\ Exists(f.placeholder)
    BY <1>2, <1>3 DEF ValidSnapshot, NeedsPlaceholder, InstallAfter, After, SameFileAfterRename
  <1>7. RowSound(f)
    BY <1>2, <1>4 DEF RowSound, IsPresent, InstallAfter, RestoreAfter, RestoreBefore, After,
                      SameFileAfterRename, Exists, NoId
  <1> QED BY <1>1, <1>2, <1>4, <1>5, <1>6, <1>7, SuccessorAdmitted DEF f


\* A mount is announced ...
LEMMA MountAdmitted ==
  ASSUME NEW e \in Entry, IsPresent(e), RowSound(e), e.blocked = "no",
         e.phase = "installed"
  PROVE  LET f == [e EXCEPT !.phase = "mountIntent"]
         IN  f \in Entry /\ Accepts(e, e, f) /\ RowSound(f)
  <1> DEFINE f == [e EXCEPT !.phase = "mountIntent"]
  <1>1. f \in Entry
    BY DEF Entry, Phases, Obs
  <1>2. /\ f.blocked = e.blocked /\ f.original = e.original /\ f.meta = e.meta
        /\ f.body = e.body /\ f.logical = e.logical /\ f.phase = "mountIntent"
        /\ f.placeholder = e.placeholder /\ f.detached = e.detached /\ f.next = e.next
        /\ f.origin = e.origin /\ f.restore = e.restore /\ f.displaced = e.displaced
    BY DEF Entry
  <1> HIDE DEF f
  <1>3. ValidSnapshot(e)
    BY DEF RowSound
  <1>4. ValidSnapshot(f)
    BY <1>2, <1>3 DEF RowSound, ValidSnapshot, NeedsPlaceholder, ValidStructure,
                      DetachedIsOriginal, ValidRestoreDetached, InstallAfter, RestoreAfter,
                      RestoreBefore, After, SameFileAfterRename, Exists, NoId
  <1>5. ValidTransition(e, f)
    BY <1>2 DEF ValidTransition, SameDetached, InstallAfter, RestoreAfter, RestoreBefore, After,
                SameFileAfterRename, Exists, NoId
  <1>6. \/ f.placeholder = e.placeholder
        \/ /\ e.phase = "installIntent" /\ f.phase = "installed"
           /\ SameFileAfterRename(e.placeholder, f.placeholder)
        \/ /\ e.phase = "captured" /\ f.phase = "installIntent"
           /\ ~Exists(e.placeholder) /\ Exists(f.placeholder)
    BY <1>2, <1>3 DEF ValidSnapshot, NeedsPlaceholder, InstallAfter, After, SameFileAfterRename
  <1>7. RowSound(f)
    BY <1>2, <1>4 DEF RowSound, IsPresent, InstallAfter, RestoreAfter, RestoreBefore, After,
                      SameFileAfterRename, Exists, NoId
  <1> QED BY <1>1, <1>2, <1>4, <1>5, <1>6, <1>7, SuccessorAdmitted DEF f


\* ... fenced ...
LEMMA UnmountAdmitted ==
  ASSUME NEW e \in Entry, IsPresent(e), RowSound(e), e.blocked = "no",
         e.phase = "mountIntent",
         NEW outcome \in {"restore", "leave"}
  PROVE  LET f == [e EXCEPT !.phase = "unmountIntent", !.next = outcome]
         IN  f \in Entry /\ Accepts(e, e, f) /\ RowSound(f)
  <1> DEFINE f == [e EXCEPT !.phase = "unmountIntent", !.next = outcome]
  <1>1. f \in Entry
    BY DEF Entry, Phases, Obs
  <1>2. /\ f.blocked = e.blocked /\ f.original = e.original /\ f.meta = e.meta
        /\ f.body = e.body /\ f.logical = e.logical /\ f.phase = "unmountIntent"
        /\ f.placeholder = e.placeholder /\ f.detached = e.detached /\ f.next = outcome
        /\ f.origin = e.origin /\ f.restore = e.restore /\ f.displaced = e.displaced
    BY DEF Entry
  <1> HIDE DEF f
  <1>3. ValidSnapshot(e)
    BY DEF RowSound
  <1>4. ValidSnapshot(f)
    BY <1>2, <1>3 DEF RowSound, ValidSnapshot, NeedsPlaceholder, ValidStructure,
                      DetachedIsOriginal, ValidRestoreDetached, InstallAfter, RestoreAfter,
                      RestoreBefore, After, SameFileAfterRename, Exists, NoId
  <1>5. ValidTransition(e, f)
    BY <1>2 DEF ValidTransition, SameDetached, InstallAfter, RestoreAfter, RestoreBefore, After,
                SameFileAfterRename, Exists, NoId
  <1>6. \/ f.placeholder = e.placeholder
        \/ /\ e.phase = "installIntent" /\ f.phase = "installed"
           /\ SameFileAfterRename(e.placeholder, f.placeholder)
        \/ /\ e.phase = "captured" /\ f.phase = "installIntent"
           /\ ~Exists(e.placeholder) /\ Exists(f.placeholder)
    BY <1>2, <1>3 DEF ValidSnapshot, NeedsPlaceholder, InstallAfter, After, SameFileAfterRename
  <1>7. RowSound(f)
    BY <1>2, <1>4 DEF RowSound, IsPresent, InstallAfter, RestoreAfter, RestoreBefore, After,
                      SameFileAfterRename, Exists, NoId
  <1> QED BY <1>1, <1>2, <1>4, <1>5, <1>6, <1>7, SuccessorAdmitted DEF f


\* ... and taken back.
LEMMA LeaveAdmitted ==
  ASSUME NEW e \in Entry, IsPresent(e), RowSound(e), e.blocked = "no",
         e.phase = "mountIntent" \/ (e.phase = "unmountIntent" /\ e.next = "leave")
  PROVE  LET f == [e EXCEPT !.phase = "installed", !.next = "none"]
         IN  f \in Entry /\ Accepts(e, e, f) /\ RowSound(f)
  <1> DEFINE f == [e EXCEPT !.phase = "installed", !.next = "none"]
  <1>1. f \in Entry
    BY DEF Entry, Phases, Obs
  <1>2. /\ f.blocked = e.blocked /\ f.original = e.original /\ f.meta = e.meta
        /\ f.body = e.body /\ f.logical = e.logical /\ f.phase = "installed"
        /\ f.placeholder = e.placeholder /\ f.detached = e.detached /\ f.next = "none"
        /\ f.origin = e.origin /\ f.restore = e.restore /\ f.displaced = e.displaced
    BY DEF Entry
  <1> HIDE DEF f
  <1>3. ValidSnapshot(e)
    BY DEF RowSound
  <1>4. ValidSnapshot(f)
    BY <1>2, <1>3 DEF RowSound, ValidSnapshot, NeedsPlaceholder, ValidStructure,
                      DetachedIsOriginal, ValidRestoreDetached, InstallAfter, RestoreAfter,
                      RestoreBefore, After, SameFileAfterRename, Exists, NoId
  <1>5. ValidTransition(e, f)
    BY <1>2 DEF ValidTransition, SameDetached, InstallAfter, RestoreAfter, RestoreBefore, After,
                SameFileAfterRename, Exists, NoId
  <1>6. \/ f.placeholder = e.placeholder
        \/ /\ e.phase = "installIntent" /\ f.phase = "installed"
           /\ SameFileAfterRename(e.placeholder, f.placeholder)
        \/ /\ e.phase = "captured" /\ f.phase = "installIntent"
           /\ ~Exists(e.placeholder) /\ Exists(f.placeholder)
    BY <1>2, <1>3 DEF ValidSnapshot, NeedsPlaceholder, InstallAfter, After, SameFileAfterRename
  <1>7. RowSound(f)
    BY <1>2, <1>4 DEF RowSound, IsPresent, InstallAfter, RestoreAfter, RestoreBefore, After,
                      SameFileAfterRename, Exists, NoId
  <1> QED BY <1>1, <1>2, <1>4, <1>5, <1>6, <1>7, SuccessorAdmitted DEF f


\* A restoration begins from an installed or a stored credential ...
LEMMA RestoreIntentAdmitted ==
  ASSUME NEW e \in Entry, IsPresent(e), RowSound(e), e.blocked = "no",
         \/ e.phase \in {"installed", "stored"}
         \/ e.phase = "unmountIntent" /\ e.next = "restore"
  PROVE  LET f == [e EXCEPT !.phase  = "restoreIntent", !.next = "none",
                         !.origin = IF e.phase = "stored" THEN "stored" ELSE "installed"]
         IN  f \in Entry /\ Accepts(e, e, f) /\ RowSound(f)
  <1> DEFINE f == [e EXCEPT !.phase  = "restoreIntent", !.next = "none",
                         !.origin = IF e.phase = "stored" THEN "stored" ELSE "installed"]
  <1>1. f \in Entry
    BY DEF Entry, Phases, Obs
  <1>2. /\ f.blocked = e.blocked /\ f.original = e.original /\ f.meta = e.meta
        /\ f.body = e.body /\ f.logical = e.logical /\ f.phase = "restoreIntent"
        /\ f.placeholder = e.placeholder /\ f.detached = e.detached /\ f.next = "none"
        /\ f.origin = (IF e.phase = "stored" THEN "stored" ELSE "installed") /\ f.restore = e.restore /\ f.displaced = e.displaced
    BY DEF Entry
  <1> HIDE DEF f
  <1>3. ValidSnapshot(e)
    BY DEF RowSound
  <1>4. ValidSnapshot(f)
    BY <1>2, <1>3 DEF RowSound, ValidSnapshot, NeedsPlaceholder, ValidStructure,
                      DetachedIsOriginal, ValidRestoreDetached, InstallAfter, RestoreAfter,
                      RestoreBefore, After, SameFileAfterRename, Exists, NoId
  <1>5. ValidTransition(e, f)
    BY <1>2 DEF ValidTransition, SameDetached, InstallAfter, RestoreAfter, RestoreBefore, After,
                SameFileAfterRename, Exists, NoId
  <1>6. \/ f.placeholder = e.placeholder
        \/ /\ e.phase = "installIntent" /\ f.phase = "installed"
           /\ SameFileAfterRename(e.placeholder, f.placeholder)
        \/ /\ e.phase = "captured" /\ f.phase = "installIntent"
           /\ ~Exists(e.placeholder) /\ Exists(f.placeholder)
    BY <1>2, <1>3 DEF ValidSnapshot, NeedsPlaceholder, InstallAfter, After, SameFileAfterRename
  <1>7. RowSound(f)
    BY <1>2, <1>4 DEF RowSound, IsPresent, InstallAfter, RestoreAfter, RestoreBefore, After,
                      SameFileAfterRename, Exists, NoId
  <1> QED BY <1>1, <1>2, <1>4, <1>5, <1>6, <1>7, SuccessorAdmitted DEF f


\* ... names the file it prepared ...
LEMMA RestoreFileAdmitted ==
  ASSUME NEW e \in Entry, IsPresent(e), RowSound(e), e.blocked = "no",
         e.phase = "restoreIntent", e.logical, ~Exists(e.restore),
         NEW id \in Identity, Exists(id)
  PROVE  LET f == [e EXCEPT !.restore = id]
         IN  f \in Entry /\ Accepts(e, e, f) /\ RowSound(f)
  <1> DEFINE f == [e EXCEPT !.restore = id]
  <1>1. f \in Entry
    BY DEF Entry, Phases, Obs
  <1>2. /\ f.blocked = e.blocked /\ f.original = e.original /\ f.meta = e.meta
        /\ f.body = e.body /\ f.logical = e.logical /\ f.phase = e.phase
        /\ f.placeholder = e.placeholder /\ f.detached = e.detached /\ f.next = e.next
        /\ f.origin = e.origin /\ f.restore = id /\ f.displaced = e.displaced
    BY DEF Entry
  <1> HIDE DEF f
  <1>3. ValidSnapshot(e)
    BY DEF RowSound
  <1>4. ValidSnapshot(f)
    BY <1>2, <1>3 DEF RowSound, ValidSnapshot, NeedsPlaceholder, ValidStructure,
                      DetachedIsOriginal, ValidRestoreDetached, InstallAfter, RestoreAfter,
                      RestoreBefore, After, SameFileAfterRename, Exists, NoId
  <1>5. ValidTransition(e, f)
    BY <1>2 DEF ValidTransition, SameDetached, InstallAfter, RestoreAfter, RestoreBefore, After,
                SameFileAfterRename, Exists, NoId
  <1>6. \/ f.placeholder = e.placeholder
        \/ /\ e.phase = "installIntent" /\ f.phase = "installed"
           /\ SameFileAfterRename(e.placeholder, f.placeholder)
        \/ /\ e.phase = "captured" /\ f.phase = "installIntent"
           /\ ~Exists(e.placeholder) /\ Exists(f.placeholder)
    BY <1>2, <1>3 DEF ValidSnapshot, NeedsPlaceholder, InstallAfter, After, SameFileAfterRename
  <1>7. RowSound(f)
    BY <1>2, <1>4 DEF RowSound, IsPresent, InstallAfter, RestoreAfter, RestoreBefore, After,
                      SameFileAfterRename, Exists, NoId
  <1> QED BY <1>1, <1>2, <1>4, <1>5, <1>6, <1>7, SuccessorAdmitted DEF f


\* ... and is done when that is at the path.
LEMMA RestoredAdmitted ==
  ASSUME NEW e \in Entry, IsPresent(e), RowSound(e), e.blocked = "no",
         e.phase = "restoreIntent", e.logical => Exists(e.restore),
         NEW o \in Obs, After(RestoreAfter(e), o)
  PROVE  LET f == [e EXCEPT !.phase = "restored", !.restore = o.t, !.displaced = o.s]
         IN  f \in Entry /\ Accepts(e, e, f) /\ RowSound(f)
  <1> DEFINE f == [e EXCEPT !.phase = "restored", !.restore = o.t, !.displaced = o.s]
  <1>1. f \in Entry
    BY DEF Entry, Phases, Obs
  <1>2. /\ f.blocked = e.blocked /\ f.original = e.original /\ f.meta = e.meta
        /\ f.body = e.body /\ f.logical = e.logical /\ f.phase = "restored"
        /\ f.placeholder = e.placeholder /\ f.detached = e.detached /\ f.next = e.next
        /\ f.origin = e.origin /\ f.restore = o.t /\ f.displaced = o.s
    BY DEF Entry
  <1> HIDE DEF f
  <1>3. ValidSnapshot(e)
    BY DEF RowSound
  <1>a. /\ e.logical = Exists(o.t)
        /\ (e.origin = "installed") = Exists(o.s)
    <2>0. e.logical \in BOOLEAN /\ Exists(e.restore) \in BOOLEAN
      BY DEF Entry, Exists
    <2>a. e.origin \in {"installed", "stored"}
      BY DEF RowSound
    <2>b. Exists(e.restore) => e.logical
      BY <1>3 DEF ValidSnapshot, ValidStructure
    <2>1. e.logical = Exists(e.restore) /\ e.origin \in {"installed", "stored"}
      BY <2>0, <2>a, <2>b
    <2>2. Exists(o.t) = Exists(e.restore)
      BY DEF After, RestoreAfter, RestoreBefore, SameFileAfterRename, Exists
    <2>3. e.origin = "installed" => Exists(e.placeholder)
      BY <1>3 DEF ValidSnapshot, NeedsPlaceholder
    <2>4. Exists(o.s) = (e.origin = "installed")
      BY <2>1, <2>3 DEF After, RestoreAfter, RestoreBefore, SameFileAfterRename, Exists, NoId
    <2> QED BY <2>1, <2>2, <2>4
  <1>4. ValidSnapshot(f)
    <2>1. ValidRestoreDetached(f)
      BY <1>2, <1>3 DEF ValidSnapshot, ValidStructure, ValidRestoreDetached, DetachedIsOriginal
    <2>2. ValidStructure(f)
      BY <1>2, <1>a, <2>1 DEF ValidStructure
    <2>3. NeedsPlaceholder(f) = Exists(f.placeholder)
      BY <1>2, <1>3 DEF ValidSnapshot, NeedsPlaceholder
    <2>4. (Exists(f.original) => f.logical) /\ (~f.logical => f.body = Empty)
      BY <1>2, <1>3 DEF ValidSnapshot
    <2> QED BY <2>2, <2>3, <2>4 DEF ValidSnapshot
  <1>5. ValidTransition(e, f)
    BY <1>2 DEF ValidTransition, SameDetached, InstallAfter, RestoreAfter, RestoreBefore, After,
                SameFileAfterRename, Exists, NoId
  <1>6. \/ f.placeholder = e.placeholder
        \/ /\ e.phase = "installIntent" /\ f.phase = "installed"
           /\ SameFileAfterRename(e.placeholder, f.placeholder)
        \/ /\ e.phase = "captured" /\ f.phase = "installIntent"
           /\ ~Exists(e.placeholder) /\ Exists(f.placeholder)
    BY <1>2, <1>3 DEF ValidSnapshot, NeedsPlaceholder, InstallAfter, After, SameFileAfterRename
  <1>7. RowSound(f)
    BY <1>2, <1>4 DEF RowSound, IsPresent, InstallAfter, RestoreAfter, RestoreBefore, After,
                      SameFileAfterRename, Exists, NoId
  <1> QED BY <1>1, <1>2, <1>4, <1>5, <1>6, <1>7, SuccessorAdmitted DEF f


\* What it leaves is then removed.
LEMMA DeleteAdmitted ==
  ASSUME NEW e \in Entry, IsPresent(e), RowSound(e), e.blocked = "no",
         e.phase = "restored"
  PROVE  LET f == [e EXCEPT !.phase = "deleteIntent"]
         IN  f \in Entry /\ Accepts(e, e, f) /\ RowSound(f)
  <1> DEFINE f == [e EXCEPT !.phase = "deleteIntent"]
  <1>1. f \in Entry
    BY DEF Entry, Phases, Obs
  <1>2. /\ f.blocked = e.blocked /\ f.original = e.original /\ f.meta = e.meta
        /\ f.body = e.body /\ f.logical = e.logical /\ f.phase = "deleteIntent"
        /\ f.placeholder = e.placeholder /\ f.detached = e.detached /\ f.next = e.next
        /\ f.origin = e.origin /\ f.restore = e.restore /\ f.displaced = e.displaced
    BY DEF Entry
  <1> HIDE DEF f
  <1>3. ValidSnapshot(e)
    BY DEF RowSound
  <1>4. ValidSnapshot(f)
    BY <1>2, <1>3 DEF RowSound, ValidSnapshot, NeedsPlaceholder, ValidStructure,
                      DetachedIsOriginal, ValidRestoreDetached, InstallAfter, RestoreAfter,
                      RestoreBefore, After, SameFileAfterRename, Exists, NoId
  <1>5. ValidTransition(e, f)
    BY <1>2 DEF ValidTransition, SameDetached, InstallAfter, RestoreAfter, RestoreBefore, After,
                SameFileAfterRename, Exists, NoId
  <1>6. \/ f.placeholder = e.placeholder
        \/ /\ e.phase = "installIntent" /\ f.phase = "installed"
           /\ SameFileAfterRename(e.placeholder, f.placeholder)
        \/ /\ e.phase = "captured" /\ f.phase = "installIntent"
           /\ ~Exists(e.placeholder) /\ Exists(f.placeholder)
    BY <1>2, <1>3 DEF ValidSnapshot, NeedsPlaceholder, InstallAfter, After, SameFileAfterRename
  <1>7. RowSound(f)
    BY <1>2, <1>4 DEF RowSound, IsPresent, InstallAfter, RestoreAfter, RestoreBefore, After,
                      SameFileAfterRename, Exists, NoId
  <1> QED BY <1>1, <1>2, <1>4, <1>5, <1>6, <1>7, SuccessorAdmitted DEF f


\* An offline removal is announced ...
LEMMA StoreIntentAdmitted ==
  ASSUME NEW e \in Entry, IsPresent(e), RowSound(e), e.blocked = "no",
         e.phase = "captured", Exists(e.original)
  PROVE  LET f == [e EXCEPT !.phase = "storeIntent"]
         IN  f \in Entry /\ Accepts(e, e, f) /\ RowSound(f)
  <1> DEFINE f == [e EXCEPT !.phase = "storeIntent"]
  <1>1. f \in Entry
    BY DEF Entry, Phases, Obs
  <1>2. /\ f.blocked = e.blocked /\ f.original = e.original /\ f.meta = e.meta
        /\ f.body = e.body /\ f.logical = e.logical /\ f.phase = "storeIntent"
        /\ f.placeholder = e.placeholder /\ f.detached = e.detached /\ f.next = e.next
        /\ f.origin = e.origin /\ f.restore = e.restore /\ f.displaced = e.displaced
    BY DEF Entry
  <1> HIDE DEF f
  <1>3. ValidSnapshot(e)
    BY DEF RowSound
  <1>4. ValidSnapshot(f)
    BY <1>2, <1>3 DEF RowSound, ValidSnapshot, NeedsPlaceholder, ValidStructure,
                      DetachedIsOriginal, ValidRestoreDetached, InstallAfter, RestoreAfter,
                      RestoreBefore, After, SameFileAfterRename, Exists, NoId
  <1>5. ValidTransition(e, f)
    BY <1>2 DEF ValidTransition, SameDetached, InstallAfter, RestoreAfter, RestoreBefore, After,
                SameFileAfterRename, Exists, NoId
  <1>6. \/ f.placeholder = e.placeholder
        \/ /\ e.phase = "installIntent" /\ f.phase = "installed"
           /\ SameFileAfterRename(e.placeholder, f.placeholder)
        \/ /\ e.phase = "captured" /\ f.phase = "installIntent"
           /\ ~Exists(e.placeholder) /\ Exists(f.placeholder)
    BY <1>2, <1>3 DEF ValidSnapshot, NeedsPlaceholder, InstallAfter, After, SameFileAfterRename
  <1>7. RowSound(f)
    BY <1>2, <1>4 DEF RowSound, IsPresent, InstallAfter, RestoreAfter, RestoreBefore, After,
                      SameFileAfterRename, Exists, NoId
  <1> QED BY <1>1, <1>2, <1>4, <1>5, <1>6, <1>7, SuccessorAdmitted DEF f


\* ... and done when the original is in staging.
LEMMA StoredAdmitted ==
  ASSUME NEW e \in Entry, IsPresent(e), RowSound(e), e.blocked = "no",
         e.phase = "storeIntent",
         NEW o \in Obs, SameFileAfterRename(e.original, o.s)
  PROVE  LET f == [e EXCEPT !.phase = "stored", !.detached = o.s]
         IN  f \in Entry /\ Accepts(e, e, f) /\ RowSound(f)
  <1> DEFINE f == [e EXCEPT !.phase = "stored", !.detached = o.s]
  <1>1. f \in Entry
    BY DEF Entry, Phases, Obs
  <1>2. /\ f.blocked = e.blocked /\ f.original = e.original /\ f.meta = e.meta
        /\ f.body = e.body /\ f.logical = e.logical /\ f.phase = "stored"
        /\ f.placeholder = e.placeholder /\ f.detached = o.s /\ f.next = e.next
        /\ f.origin = e.origin /\ f.restore = e.restore /\ f.displaced = e.displaced
    BY DEF Entry
  <1> HIDE DEF f
  <1>3. ValidSnapshot(e)
    BY DEF RowSound
  <1>4. ValidSnapshot(f)
    BY <1>2, <1>3 DEF RowSound, ValidSnapshot, NeedsPlaceholder, ValidStructure,
                      DetachedIsOriginal, ValidRestoreDetached, InstallAfter, RestoreAfter,
                      RestoreBefore, After, SameFileAfterRename, Exists, NoId
  <1>5. ValidTransition(e, f)
    BY <1>2 DEF ValidTransition, SameDetached, InstallAfter, RestoreAfter, RestoreBefore, After,
                SameFileAfterRename, Exists, NoId
  <1>6. \/ f.placeholder = e.placeholder
        \/ /\ e.phase = "installIntent" /\ f.phase = "installed"
           /\ SameFileAfterRename(e.placeholder, f.placeholder)
        \/ /\ e.phase = "captured" /\ f.phase = "installIntent"
           /\ ~Exists(e.placeholder) /\ Exists(f.placeholder)
    BY <1>2, <1>3 DEF ValidSnapshot, NeedsPlaceholder, InstallAfter, After, SameFileAfterRename
  <1>7. RowSound(f)
    BY <1>2, <1>4 DEF RowSound, IsPresent, InstallAfter, RestoreAfter, RestoreBefore, After,
                      SameFileAfterRename, Exists, NoId
  <1> QED BY <1>1, <1>2, <1>4, <1>5, <1>6, <1>7, SuccessorAdmitted DEF f

-----------------------------------------------------------------------------
(* Steps that leave the files alone                                        *)

\* Labels at which something is known of the files.
GroundLabels ==
    {"commitCaptured", "promotePlaceholder", "promoteRestore", "commitInstallIntent",
     "installVerify", "installSync", "commitInstalled", "commitStoreIntent", "storeRename",
     "storeSync", "commitStored", "commitRestoreFile", "restoreRename", "retireRename",
     "beginFinalization", "finSync", "finRecheck", "deleteMarker"}

\* Elsewhere nothing is claimed of them.
LEMMA GroundElsewhere == pc' \notin GroundLabels => Ground'
  BY DEF Ground, GroundLabels

\* What is kept depends on the entry, the files and the contents relied on.
LEMMA QuietStored ==
  ASSUME Stored, RecoverableCopy, UNCHANGED <<db, disk, world>>
  PROVE  Stored' /\ RecoverableCopy'
  <1>1. UNCHANGED <<db, fs, survivors, exposed, nextIno, edits, writes, precious>>
    BY DEF disk, world
  <1>2. FilesSound' /\ BodiesSound'
    BY <1>1 DEF Stored, FilesSound, BodiesSound, Fresh
  <1>3. Tidy' /\ Disposable' /\ OneNamespace'
    BY <1>1 DEF Stored, Tidy, Disposable, OneNamespace, Occupied, DetachedName, Replaceable
  <1>4. PlaceholdersEmpty' /\ DetachedSpent' /\ RecoverableCopy'
    BY <1>1 DEF Stored, PlaceholdersEmpty, DetachedSpent, RecoverableCopy
  <1> QED BY <1>2, <1>3, <1>4 DEF Stored

LEMMA QuietHandover ==
  ASSUME Handover, UNCHANGED <<db, disk, world>>, pc' \notin {"commitCaptured", "deleteMarker"}
  PROVE  Handover'
  <1>1. UNCHANGED <<db, fs, edits, precious>>
    BY DEF disk, world
  <1>2. There("target")' = There("target")
    BY <1>1 DEF There, Id
  <1> QED BY <1>1, <1>2 DEF Handover, Following

\* A check, a failure, or the end of a command.
LEMMA QuietKept ==
  ASSUME Kept, UNCHANGED <<db, disk, world>>, Agreed', pc' \notin GroundLabels
  PROVE  Kept'
  <1>1. Stored' /\ RecoverableCopy'
    BY QuietStored DEF Kept
  <1>2. Handover'
    BY QuietHandover DEF Kept, GroundLabels
  <1> QED BY <1>1, <1>2, GroundElsewhere DEF Kept

\* ... and one at whose outcome more is known.
LEMMA QuietOnward ==
  ASSUME Kept, UNCHANGED <<db, disk, world>>, Agreed', Ground',
         pc' \notin {"commitCaptured", "deleteMarker"}
  PROVE  Kept'
  BY QuietStored, QuietHandover DEF Kept

LEMMA NowhereKept ==
  ASSUME Kept, UNCHANGED <<db, disk, world, refused>>, pc' \in Nowhere
  PROVE  Kept'
  <1>1. pc' \notin GroundLabels
    BY DEF GroundLabels, Nowhere
  <1>2. RowSound(db') /\ ~refused'
    BY DEF Kept, Agreed
  <1> QED BY <1>1, <1>2, NowhereAgreed, QuietKept

LEMMA AbandonKept ==
  ASSUME Kept, Abandon, UNCHANGED world
  PROVE  Kept'
  BY FailPlace, NowhereKept DEF Abandon, Still

LEMMA ExitKept ==
  ASSUME Kept, Still, Exit, UNCHANGED world
  PROVE  Kept'
  BY FailPlace, NowhereKept DEF Still

LEMMA ProceedKept ==
  ASSUME Kept, Still, UNCHANGED world, NEW label, NEW entry, NEW seen, NEW file,
         Proceed(label, entry, seen, file), label \in InHand => entry = db,
         label \in {"capture", "commitCaptured"} => db = Missing,
         Place(label, entry, seen, file), label \notin GroundLabels
  PROVE  Kept'
  <1>1. RowSound(db') /\ ~refused' /\ db' = db /\ pc' = label
    BY DEF Kept, Agreed, Still, Proceed
  <1>2. Agreed'
    BY <1>1, ProceedAgreed
  <1> QED BY <1>1, <1>2, QuietKept DEF Still

\* On with the same entry in hand ...
LEMMA PassKept ==
  ASSUME Kept, UNCHANGED world, NEW label, Pass(label), pc \in InHand,
         Place(label, cur, obs, made), label \notin GroundLabels,
         label \notin {"capture", "commitCaptured"}
  PROVE  Kept'
  <1>1. cur = db /\ Still /\ Proceed(label, cur, obs, made)
    BY DEF Kept, Agreed, AtHand, Pass, Goto
  <1> QED BY <1>1, ProceedKept

\* ... or with the one just loaded.
LEMMA LoadedKept ==
  ASSUME Kept, UNCHANGED world, NEW label, Loaded(label),
         Place(label, db, NoObs, NoId), label \notin GroundLabels,
         label \notin {"capture", "commitCaptured"}
  PROVE  Kept'
  BY ProceedKept DEF Loaded

-----------------------------------------------------------------------------
(* Steps that commit                                                       *)

\* What is recorded of the placeholder and the detached original stays true.
LEMMA RecordedKept ==
  ASSUME Stored, UNCHANGED <<disk, world>>, db'.body = db.body,
         db'.placeholder = db.placeholder, db'.detached = db.detached
  PROVE  PlaceholdersEmpty' /\ DetachedSpent'
  <1>1. UNCHANGED <<survivors, nextIno, precious>>
    BY DEF disk, world
  <1> QED BY <1>1 DEF Stored, PlaceholdersEmpty, DetachedSpent

\* A successor with the same contents.
LEMMA RowKept ==
  ASSUME Kept, UNCHANGED <<disk, world>>, IsPresent(db), IsPresent(db'),
         db'.body = db.body, db'.logical = db.logical,
         Agreed', Ground', pc' \notin {"commitCaptured", "deleteMarker"},
         Tidy', Disposable', OneNamespace', PlaceholdersEmpty', DetachedSpent'
  PROVE  Kept'
  <1>1. UNCHANGED <<fs, survivors, exposed, nextIno, edits, writes, precious>>
    BY DEF disk, world
  <1>2. FilesSound' /\ BodiesSound'
    BY <1>1 DEF Kept, Stored, FilesSound, BodiesSound, Fresh
  <1>3. RecoverableCopy'
    BY <1>1 DEF Kept, RecoverableCopy
  <1>4. db.phase # "missing" /\ db'.phase # "missing"
    BY DEF IsPresent
  <1>5. Handover'
    BY <1>1, <1>4 DEF Kept, Handover, Following
  <1> QED BY <1>2, <1>3, <1>5 DEF Kept, Stored

\* ... that occupies no name less, and may discard nothing that is there.
LEMMA RowOnward ==
  ASSUME Kept, UNCHANGED <<disk, world>>, IsPresent(db), IsPresent(db'),
         db'.body = db.body, db'.logical = db.logical,
         db'.placeholder = db.placeholder, db'.detached = db.detached,
         Agreed', pc' \notin GroundLabels, db'.phase # "captured",
         Occupied(db) \subseteq Occupied(db'),
         Replaceable(db') \subseteq StagingNames \ Occupied(db)
  PROVE  Kept'
  <1>1. UNCHANGED <<fs, survivors, exposed, nextIno, precious>>
    BY DEF disk, world
  <1>2. Tidy /\ Tidy'
    BY <1>1 DEF Kept, Stored, Tidy
  <1>3. Disposable'
    <2>1. \A f \in survivors', n \in Replaceable(db') : ~Exists(f[n].id)
      BY <1>1, <1>2 DEF Tidy
    <2> QED BY <2>1 DEF Disposable
  <1>4. OneNamespace'
    BY DEF OneNamespace, IsPresent
  <1>5. PlaceholdersEmpty' /\ DetachedSpent'
    BY RecordedKept DEF Kept
  <1>6. Ground' /\ pc' \notin {"commitCaptured", "deleteMarker"}
    BY GroundElsewhere DEF GroundLabels
  <1> QED BY <1>2, <1>3, <1>4, <1>5, <1>6, RowKept

\* The entry in hand is the one committed, and there is one to hand.
LEMMA CommitMade ==
  ASSUME Kept, cur = db, NEW next, Accepts(cur, cur, next), RowSound(next),
         NEW label, Commit(next, label), Place(label, next, NoObs, NoId),
         label \notin {"capture", "commitCaptured"}
  PROVE  Agreed' /\ db' = next /\ cur = db /\ pc' = label /\ UNCHANGED disk
  <1>1. ~refused
    BY DEF Kept, Agreed
  <1>2. db' = next /\ Proceed(label, next, NoObs, NoId) /\ refused' = refused /\ UNCHANGED disk
    BY <1>1 DEF Commit, CommitFrom
  <1>3. Agreed'
    BY <1>1, <1>2, ProceedAgreed
  <1> QED BY <1>1, <1>2, <1>3 DEF Proceed

\* A conflict: admitted, and the operation ends.
LEMMA BlockKept ==
  ASSUME Sound, Kept, UNCHANGED world, pc \in InHand, IsPresent(cur), Alone,
         NEW reason \in Reasons, Block(reason)
  PROVE  Kept'
  <1> DEFINE next == [cur EXCEPT !.blocked = reason]
  <1>1. cur = db /\ ~refused /\ RowSound(cur) /\ cur.blocked = "no" /\ cur \in Entry
    BY DEF Kept, Agreed, AtHand, Alone, Sound, StoreType
  <1>2. Accepts(cur, cur, next) /\ RowSound(next) /\ IsPresent(next)
    BY <1>1, BlockedSound
  <1>3. db' = next /\ refused' = refused /\ Fail /\ UNCHANGED disk
    BY <1>1, <1>2 DEF Block
  <1>4. pc' \in {"idle", "stop"} /\ pc' \in Nowhere
    BY <1>3, FailPlace
  <1>5. Agreed'
    BY <1>1, <1>2, <1>3, <1>4, NowhereAgreed
  <1>6. /\ next.phase = cur.phase /\ next.body = cur.body /\ next.logical = cur.logical
        /\ next.placeholder = cur.placeholder /\ next.detached = cur.detached
        /\ next.origin = cur.origin /\ next.restore = cur.restore
    BY <1>1 DEF Entry
  <1> HIDE DEF next
  <1>7. UNCHANGED <<fs, survivors, exposed, nextIno, precious>>
    BY <1>3 DEF disk, world
  <1>8. Occupied(db') = Occupied(db) /\ Replaceable(db') = Replaceable(db)
    BY <1>1, <1>3, <1>6 DEF Occupied, DetachedName, Replaceable
  <1>9. Tidy' /\ Disposable' /\ OneNamespace'
    BY <1>1, <1>3, <1>6, <1>7, <1>8 DEF Kept, Stored, Tidy, Disposable, OneNamespace
  <1>10. PlaceholdersEmpty' /\ DetachedSpent'
    BY <1>1, <1>3, <1>6, RecordedKept DEF Kept
  <1>11. Ground' /\ pc' \notin {"commitCaptured", "deleteMarker"}
    BY <1>4, GroundElsewhere DEF GroundLabels
  <1> QED BY <1>1, <1>2, <1>3, <1>5, <1>6, <1>9, <1>10, <1>11, RowKept

-----------------------------------------------------------------------------
(* Steps that change the files                                             *)

\* A file that was there, renamed at most; and a file built anew.
Brought(file) ==
    \E m \in Names :
      /\ Exists(fs[m].id)
      /\ file.id.ino = fs[m].id.ino /\ file.id.meta = fs[m].id.meta
      /\ file.body = fs[m].body /\ file.id.ctime >= fs[m].id.ctime
Built(file) == file.id.ino = nextIno /\ nextIno' = nextIno + 1 /\ file.body < Fresh

\* What an operation of the coordinator makes of the files: each has one name,
\* and nothing is lost that somebody relies on.
Handled(g) ==
    /\ g \in [Names -> File]
    /\ \A n \in Names : \/ g[n] = Nothing
                        \/ Exists(g[n].id) /\ (Brought(g[n]) \/ Built(g[n]))
    /\ \A m, n \in Names : Exists(g[m].id) /\ g[m].id.ino = g[n].id.ino => m = n
    /\ \A n \in Names :
         Exists(fs[n].id) => \/ fs[n].body \notin precious
                             \/ IsPresent(db) /\ db.logical /\ db.body = fs[n].body
                             \/ \E m \in Names : Exists(g[m].id) /\ g[m].body = fs[n].body

\* ... under the names of the phase.
Placed(g) ==
    /\ \A n \in StagingNames : Exists(g[n].id) => n \in Occupied(db)
    /\ \A n \in Replaceable(db) :
         Exists(g[n].id) =>
           /\ g[n].id.ino \notin exposed
           /\ IF db.phase = "captured" THEN g[n].body = Empty /\ g[n].id.meta = 0
                                       ELSE g[n].body = db.body

\* The number and the stamp are the file's; only its change time advances.
LEMMA RenamedFile ==
  ASSUME NEW file \in File
  PROVE  /\ Renamed(file) \in File
         /\ Renamed(file).body = file.body
         /\ Renamed(file).id.ino = file.id.ino /\ Renamed(file).id.meta = file.id.meta
         /\ Exists(file.id) => Renamed(file).id.ctime = file.id.ctime + 1
         /\ ~Exists(file.id) => Renamed(file) = file
         /\ Exists(Renamed(file).id) = Exists(file.id)
  BY DEF Renamed, File, Identity, Exists

\* Fewer namespaces may be left than before.
LEMMA SettledStored ==
  ASSUME Stored, RecoverableCopy, UNCHANGED <<db, nextIno, edits, writes, precious>>,
         fs' \in survivors, survivors' = {fs'}, exposed' \subseteq exposed,
         Exists(fs'["target"].id) => fs'["target"].id.ino \in exposed'
  PROVE  Stored' /\ RecoverableCopy'
  <1>1. FilesSound' /\ BodiesSound'
    BY DEF Stored, FilesSound, BodiesSound, Fresh
  <1>2. Tidy'
    BY DEF Stored, Tidy
  <1>3. Disposable'
    BY DEF Stored, Disposable
  <1>4. OneNamespace'
    BY DEF OneNamespace
  <1>5. PlaceholdersEmpty' /\ DetachedSpent'
    BY DEF Stored, PlaceholdersEmpty, DetachedSpent
  <1>6. RecoverableCopy'
    BY DEF RecoverableCopy
  <1> QED BY <1>1, <1>2, <1>3, <1>4, <1>5, <1>6 DEF Stored

\* The files handled, in the namespaces that were possible or in one alone.
LEMMA HandledStored ==
  ASSUME IInv, Stored, RecoverableCopy, UNCHANGED <<db, world>>, db.phase # "missing",
         NEW g, Handled(g), Placed(g), fs' = g, nextIno' \in Nat, nextIno' >= nextIno,
         survivors' = {g} \/ (survivors' = survivors \cup {g} /\ db.phase # "captured"),
         exposed \subseteq exposed', exposed' \subseteq exposed \cup {g["target"].id.ino},
         Exists(g["target"].id) => g["target"].id.ino \in exposed',
         exposed' = exposed \/ Replaceable(db) = {}
  PROVE  Stored' /\ RecoverableCopy'
  <1>1. UNCHANGED <<edits, writes, precious>> /\ Fresh' = Fresh
    BY DEF world, Fresh
  <1>2. /\ db \in Entry /\ fs \in [Names -> File] /\ survivors \subseteq [Names -> File]
        /\ nextIno \in Nat /\ exposed \subseteq Nat
    BY DEF IInv, Sound, StoreType, DiskType
  <1>3. g \in [Names -> File] /\ "target" \in Names /\ fs \in survivors
    BY NamesType DEF Handled, Stored, FilesSound
  <1>4. \A f \in survivors' : f \in survivors \/ f = g
    OBVIOUS
  <1>5. \A n \in Names :
          /\ g[n].id.ino \in Nat /\ g[n].id.ctime \in Nat /\ fs[n].id.ino \in Nat
          /\ fs[n].id.ctime \in Nat /\ g[n].body \in Nat
    BY <1>2, <1>3 DEF File, Identity
  <1>6. \A n \in Names : ~Exists(g[n].id) => g[n] = Nothing
    BY DEF Handled
  <1>7. \A n \in Names : Exists(g[n].id) => Brought(g[n]) \/ Built(g[n])
    BY DEF Handled, Nothing, NoId, Exists
  <1>8. \A n \in Names : g[n].id.ino < nextIno'
    <2> SUFFICES ASSUME NEW n \in Names PROVE g[n].id.ino < nextIno'
      OBVIOUS
    <2>1. CASE ~Exists(g[n].id)
      <3>1. nextIno > 0
        BY DEF Stored, FilesSound
      <3> QED BY <1>2, <1>5, <2>1, <3>1 DEF Exists
    <2>2. CASE Built(g[n])
      BY <1>2, <2>2 DEF Built
    <2>3. CASE Brought(g[n])
      <3>1. PICK m \in Names : g[n].id.ino = fs[m].id.ino
        BY <2>3 DEF Brought
      <3>2. fs[m].id.ino < nextIno
        BY <1>3 DEF Stored, FilesSound
      <3> QED BY <1>2, <1>5, <3>1, <3>2
    <2> QED BY <1>7, <2>1, <2>2, <2>3
  <1>9. \A n \in Names : g[n].body < Fresh
    <2> SUFFICES ASSUME NEW n \in Names PROVE g[n].body < Fresh
      OBVIOUS
    <2>1. \A m \in Names : fs[m].body < Fresh
      BY <1>3 DEF Stored, FilesSound
    <2>2. CASE ~Exists(g[n].id)
      <3>1. g[n].body = 0
        BY <1>6, <2>2 DEF Nothing, Empty
      <3>2. Fresh > 0
        BY DEF Fresh, IInv, WorldType
      <3> QED BY <3>1, <3>2
    <2>3. CASE Built(g[n])
      BY <2>3 DEF Built
    <2>4. CASE Brought(g[n])
      BY <2>1, <2>4 DEF Brought
    <2> QED BY <1>7, <2>2, <2>3, <2>4
  <1>10. FilesSound'
    <2>1. fs' \in survivors' /\ nextIno' > 0
      BY <1>2 DEF Stored, FilesSound
    <2>2. \A f \in survivors', n \in Names :
            (~Exists(f[n].id) => f[n] = Nothing) /\ f[n].body < Fresh'
      BY <1>1, <1>4, <1>6, <1>9 DEF Stored, FilesSound
    <2>3. \A f \in survivors', n \in Names : f[n].id.ino < nextIno'
      <3> SUFFICES ASSUME NEW f \in survivors, NEW n \in Names PROVE f[n].id.ino < nextIno'
        BY <1>4, <1>8
      <3>1. f[n].id.ino \in Nat /\ f[n].id.ino < nextIno
        BY <1>2 DEF Stored, FilesSound, File, Identity
      <3> QED BY <1>2, <3>1
    <2>4. \A f \in survivors', m, n \in Names :
            Exists(f[m].id) /\ f[m].id.ino = f[n].id.ino => m = n
      BY <1>4 DEF Handled, Stored, FilesSound
    <2>5. \A f \in survivors' : Exists(f["target"].id) => f["target"].id.ino \in exposed'
      BY <1>4 DEF Stored, FilesSound
    <2>6. \A i \in exposed' : i < nextIno'
      <3>1. \A i \in exposed : i < nextIno /\ i \in Nat
        BY <1>2 DEF Stored, FilesSound
      <3> QED BY <1>2, <1>3, <1>8, <3>1
    <2> QED BY <2>1, <2>2, <2>3, <2>4, <2>5, <2>6 DEF FilesSound
  <1>11. BodiesSound'
    BY <1>1 DEF Stored, BodiesSound
  <1>12. Tidy'
    BY <1>4 DEF Stored, Tidy, Placed
  <1>13. Disposable'
    <2> SUFFICES ASSUME NEW f \in survivors', NEW n \in Replaceable(db), Exists(f[n].id)
                 PROVE  /\ f[n].id.ino \notin exposed'
                        /\ IF db.phase = "captured" THEN f[n].body = Empty /\ f[n].id.meta = 0
                                                    ELSE f[n].body = db.body
      BY DEF Disposable
    <2>1. exposed' = exposed
      OBVIOUS
    <2> QED BY <1>4, <2>1 DEF Stored, Disposable, Placed
  <1>14. OneNamespace'
    BY DEF OneNamespace
  <1>15. PlaceholdersEmpty'
    <2> SUFFICES ASSUME Exists(db.placeholder)
                 PROVE  /\ db.placeholder.meta = 0 /\ db.placeholder.ino < nextIno'
                        /\ \A f \in survivors', n \in Names :
                             f[n].id.ino = db.placeholder.ino /\ f[n].id.meta = 0
                               => f[n].body = Empty
      BY DEF PlaceholdersEmpty
    <2>1. /\ db.placeholder.meta = 0 /\ db.placeholder.ino < nextIno
          /\ \A f \in survivors, n \in Names :
               f[n].id.ino = db.placeholder.ino /\ f[n].id.meta = 0 => f[n].body = Empty
      BY DEF Stored, PlaceholdersEmpty
    <2>2. db.placeholder.ino \in Nat
      BY <1>2 DEF Entry, Identity
    <2>3. ASSUME NEW n \in Names, g[n].id.ino = db.placeholder.ino, g[n].id.meta = 0
          PROVE  g[n].body = Empty
      <3>1. Exists(g[n].id) /\ ~Built(g[n])
        BY <1>2, <2>1, <2>2, <2>3 DEF Exists, Built
      <3>2. PICK m \in Names : /\ g[n].id.ino = fs[m].id.ino /\ g[n].id.meta = fs[m].id.meta
                               /\ g[n].body = fs[m].body
        BY <1>7, <3>1 DEF Brought
      <3> QED BY <1>3, <2>1, <2>3, <3>2
    <2> QED BY <1>2, <1>4, <2>1, <2>2, <2>3
  <1>16. DetachedSpent'
    <2> SUFFICES ASSUME Exists(db.detached)
                 PROVE  /\ db.detached.ino < nextIno'
                        /\ \A f \in survivors', n \in Names :
                             f[n].id.ino = db.detached.ino =>
                               /\ f[n].id.ctime >= db.detached.ctime
                               /\ f[n].id.ctime = db.detached.ctime
                                    => f[n].body \notin precious \ {db.body}
      BY <1>1 DEF DetachedSpent
    <2>1. /\ db.detached.ino < nextIno
          /\ \A f \in survivors, n \in Names :
               f[n].id.ino = db.detached.ino =>
                 /\ f[n].id.ctime >= db.detached.ctime
                 /\ f[n].id.ctime = db.detached.ctime => f[n].body \notin precious \ {db.body}
      BY DEF Stored, DetachedSpent
    <2>2. db.detached.ino \in Nat /\ db.detached.ctime \in Nat
      BY <1>2 DEF Entry, Identity
    <2>3. ASSUME NEW n \in Names, g[n].id.ino = db.detached.ino
          PROVE  /\ g[n].id.ctime >= db.detached.ctime
                 /\ g[n].id.ctime = db.detached.ctime => g[n].body \notin precious \ {db.body}
      <3>1. Exists(g[n].id) /\ ~Built(g[n])
        BY <1>2, <2>1, <2>2, <2>3 DEF Exists, Built
      <3>2. PICK m \in Names : /\ g[n].id.ino = fs[m].id.ino
                               /\ g[n].body = fs[m].body /\ g[n].id.ctime >= fs[m].id.ctime
        BY <1>7, <3>1 DEF Brought
      <3>3. /\ fs[m].id.ctime >= db.detached.ctime
            /\ fs[m].id.ctime = db.detached.ctime => fs[m].body \notin precious \ {db.body}
        BY <1>3, <2>1, <2>3, <3>2
      <3>4. fs[m].id.ctime \in Nat /\ g[n].id.ctime \in Nat
        BY <1>5
      <3>5. g[n].id.ctime >= db.detached.ctime
        BY <2>2, <3>2, <3>3, <3>4
      <3>6. g[n].id.ctime = db.detached.ctime => fs[m].id.ctime = db.detached.ctime
        BY <2>2, <3>2, <3>3, <3>4
      <3> QED BY <3>2, <3>3, <3>5, <3>6
    <2> QED BY <1>2, <1>4, <2>1, <2>2, <2>3
  <1>17. RecoverableCopy'
    <2> SUFFICES ASSUME NEW body \in precious, NEW f \in survivors'
                 PROVE  \/ IsPresent(db) /\ db.logical /\ db.body = body
                        \/ \E n \in Names : Exists(f[n].id) /\ f[n].body = body
      BY <1>1 DEF RecoverableCopy
    <2>1. \A h \in survivors : \/ IsPresent(db) /\ db.logical /\ db.body = body
                               \/ \E n \in Names : Exists(h[n].id) /\ h[n].body = body
      BY DEF RecoverableCopy
    <2>2. CASE f \in survivors
      BY <2>1, <2>2
    <2>3. CASE f = g
      <3>1. \/ IsPresent(db) /\ db.logical /\ db.body = body
            \/ \E n \in Names : Exists(fs[n].id) /\ fs[n].body = body
        BY <1>3, <2>1
      <3> QED BY <2>3, <3>1 DEF Handled
    <2> QED BY <1>4, <2>2, <2>3
  <1> QED BY <1>10, <1>11, <1>12, <1>13, <1>14, <1>15, <1>16, <1>17 DEF Stored

\* A rename between the two directories ...
LEMMA RenameStored ==
  ASSUME IInv, Stored, RecoverableCopy, UNCHANGED <<db, world>>,
         db.phase \notin {"missing", "captured"}, NEW g, Handled(g), Placed(g), Rename(g),
         Replaceable(db) = {} \/ g["target"] = Nothing
  PROVE  Stored' /\ RecoverableCopy'
  <1>1. /\ fs' = g /\ survivors' = survivors \cup {g} /\ nextIno' = nextIno
        /\ exposed' = exposed \cup ({g["target"].id.ino} \ {0})
    BY DEF Rename
  <1>2. nextIno' \in Nat /\ nextIno' >= nextIno
    BY <1>1 DEF IInv, Sound, DiskType
  <1>3. Exists(g["target"].id) => g["target"].id.ino \in exposed'
    BY <1>1 DEF Exists
  <1>4. exposed' = exposed \/ Replaceable(db) = {}
    BY <1>1 DEF Nothing, NoId
  <1> QED BY <1>1, <1>2, <1>3, <1>4, HandledStored

\* ... that exchanges the two files ...
LEMMA ExchangeStored ==
  ASSUME IInv, Stored, RecoverableCopy, UNCHANGED <<db, world>>,
         db.phase \notin {"missing", "captured"}, Replaceable(db) = {},
         NEW name \in StagingNames, name \in Occupied(db), Exchange(name)
  PROVE  Stored' /\ RecoverableCopy'
  <1> DEFINE g == [fs EXCEPT !["target"] = Renamed(fs[name]), ![name] = Renamed(fs["target"])]
  <1>1. fs \in [Names -> File] /\ fs \in survivors /\ Tidy
    BY DEF IInv, Sound, DiskType, Stored, FilesSound
  <1>2. name \in Names /\ "target" \in Names /\ name # "target" /\ StagingNames \subseteq Names
        /\ "target" \notin StagingNames
    BY DEF Names, StagingNames, Final, Building
  <1>3. fs[name] \in File /\ fs["target"] \in File
    BY <1>1, <1>2
  <1>4. g["target"] = Renamed(fs[name]) /\ g[name] = Renamed(fs["target"])
        /\ \A n \in Names : n # name /\ n # "target" => g[n] = fs[n]
    BY <1>1, <1>2
  <1>5. g \in [Names -> File]
    BY <1>1, <1>2, <1>3, RenamedFile
  <1> HIDE DEF g
  <1>6. \A n \in Names : ~Exists(fs[n].id) => fs[n] = Nothing
    BY <1>1 DEF Stored, FilesSound
  <1>7. \A n \in Names : Exists(fs[n].id) => fs[n].id.ctime \in Nat
    BY <1>1 DEF File, Identity
  <1>8. \A n \in Names : Exists(fs[n].id) => Brought(fs[n])
    BY <1>7 DEF Brought
  <1>9. \A n \in {name, "target"} : Exists(fs[n].id) => Brought(Renamed(fs[n]))
    BY <1>2, <1>3, <1>7, RenamedFile DEF Brought
  <1>10. ASSUME NEW n \in Names
         PROVE  g[n] = Nothing \/ (Exists(g[n].id) /\ Brought(g[n]))
    <2>1. CASE n # name /\ n # "target"
      <3>1. g[n] = fs[n]
        BY <1>4, <2>1
      <3> QED BY <1>6, <1>8, <3>1
    <2>2. CASE n = "target"
      <3>1. g[n] = Renamed(fs[name]) /\ (~Exists(fs[name].id) => g[n] = fs[name])
        BY <1>3, <1>4, <2>2, RenamedFile
      <3>2. Exists(g[n].id) = Exists(fs[name].id)
        BY <1>3, <3>1, RenamedFile
      <3> QED BY <1>2, <1>6, <1>9, <3>1, <3>2
    <2>3. CASE n = name
      <3>1. g[n] = Renamed(fs["target"]) /\ (~Exists(fs["target"].id) => g[n] = fs["target"])
        BY <1>3, <1>4, <2>3, RenamedFile
      <3>2. Exists(g[n].id) = Exists(fs["target"].id)
        BY <1>3, <3>1, RenamedFile
      <3> QED BY <1>2, <1>6, <1>9, <3>1, <3>2
    <2> QED BY <2>1, <2>2, <2>3
  <1>11. \A m, n \in Names : Exists(g[m].id) /\ g[m].id.ino = g[n].id.ino => m = n
    <2>1. \A m, n \in Names : Exists(fs[m].id) /\ fs[m].id.ino = fs[n].id.ino => m = n
      BY <1>1 DEF Stored, FilesSound
    <2>2. g["target"].id.ino = fs[name].id.ino /\ g[name].id.ino = fs["target"].id.ino
      BY <1>3, <1>4, RenamedFile
    <2> QED BY <1>2, <1>4, <2>1, <2>2 DEF Exists
  <1>12. \A n \in Names : Exists(fs[n].id)
                            => \E m \in Names : Exists(g[m].id) /\ g[m].body = fs[n].body
    <2> SUFFICES ASSUME NEW n \in Names, Exists(fs[n].id)
                 PROVE  \E m \in Names : Exists(g[m].id) /\ g[m].body = fs[n].body
      OBVIOUS
    <2>1. CASE n = name
      BY <1>2, <1>3, <1>4, <2>1, RenamedFile
    <2>2. CASE n = "target"
      BY <1>2, <1>3, <1>4, <2>2, RenamedFile
    <2>3. CASE n # name /\ n # "target"
      BY <1>4, <2>3
    <2> QED BY <2>1, <2>2, <2>3
  <1>13. Handled(g)
    BY <1>5, <1>10, <1>11, <1>12 DEF Handled
  <1>14. Placed(g)
    <2>1. ASSUME NEW n \in StagingNames, Exists(g[n].id)
          PROVE  n \in Occupied(db)
      <3>1. CASE n = name
        BY <3>1
      <3>2. CASE n # name
        <4>1. g[n] = fs[n]
          BY <1>2, <1>4, <3>2
        <4> QED BY <1>1, <2>1, <4>1 DEF Tidy
      <3> QED BY <3>1, <3>2
    <2> QED BY <2>1 DEF Placed
  <1>15. Rename(g)
    BY DEF Exchange, g
  <1> QED BY <1>13, <1>14, <1>15, RenameStored

\* ... or moves one to a vacant name.
LEMMA MoveStored ==
  ASSUME IInv, Stored, RecoverableCopy, UNCHANGED <<db, world>>,
         db.phase \notin {"missing", "captured"},
         NEW from \in Names, NEW to \in Names, from # to, ~There(to), MoveFile(from, to),
         to \in StagingNames => to \in Occupied(db) \ Replaceable(db),
         from = "target" \/ Replaceable(db) = {}
  PROVE  Stored' /\ RecoverableCopy'
  <1> DEFINE g == [fs EXCEPT ![to] = Renamed(fs[from]), ![from] = Nothing]
  <1>1. fs \in [Names -> File] /\ fs \in survivors /\ Tidy /\ Disposable
    BY DEF IInv, Sound, DiskType, Stored, FilesSound
  <1>2. fs[from] \in File /\ "target" \in Names /\ StagingNames \subseteq Names
    BY <1>1 DEF Names
  <1>3. g[to] = Renamed(fs[from]) /\ g[from] = Nothing
        /\ \A n \in Names : n # from /\ n # to => g[n] = fs[n]
    BY <1>1
  <1>4. g \in [Names -> File]
    BY <1>1, <1>2, RenamedFile, NeutralTypes
  <1> HIDE DEF g
  <1>5. \A n \in Names : ~Exists(fs[n].id) => fs[n] = Nothing
    BY <1>1 DEF Stored, FilesSound
  <1>6. \A n \in Names : Exists(fs[n].id) => fs[n].id.ctime \in Nat
    BY <1>1 DEF File, Identity
  <1>7. \A n \in Names : Exists(fs[n].id) => Brought(fs[n])
    BY <1>6 DEF Brought
  <1>8. Exists(fs[from].id) => Brought(Renamed(fs[from]))
    BY <1>2, <1>6, RenamedFile DEF Brought
  <1>9. ASSUME NEW n \in Names
        PROVE  g[n] = Nothing \/ (Exists(g[n].id) /\ Brought(g[n]))
    <2>1. CASE n # from /\ n # to
      <3>1. g[n] = fs[n]
        BY <1>3, <2>1
      <3> QED BY <1>5, <1>7, <3>1
    <2>2. CASE n = to
      <3>1. g[n] = Renamed(fs[from]) /\ (~Exists(fs[from].id) => g[n] = fs[from])
        BY <1>2, <1>3, <2>2, RenamedFile
      <3>2. Exists(g[n].id) = Exists(fs[from].id)
        BY <1>2, <3>1, RenamedFile
      <3> QED BY <1>5, <1>8, <3>1, <3>2
    <2> QED BY <1>3, <2>1, <2>2
  <1>10. \A m, n \in Names : Exists(g[m].id) /\ g[m].id.ino = g[n].id.ino => m = n
    <2>1. \A m, n \in Names : Exists(fs[m].id) /\ fs[m].id.ino = fs[n].id.ino => m = n
      BY <1>1 DEF Stored, FilesSound
    <2>2. g[to].id.ino = fs[from].id.ino /\ g[from].id.ino = 0
      BY <1>2, <1>3, RenamedFile DEF Nothing, NoId
    <2> QED BY <1>3, <2>1, <2>2 DEF Exists
  <1>11. \A n \in Names : Exists(fs[n].id)
                            => \E m \in Names : Exists(g[m].id) /\ g[m].body = fs[n].body
    <2> SUFFICES ASSUME NEW n \in Names, Exists(fs[n].id)
                 PROVE  \E m \in Names : Exists(g[m].id) /\ g[m].body = fs[n].body
      OBVIOUS
    <2>1. CASE n = from
      BY <1>2, <1>3, <2>1, RenamedFile
    <2>2. CASE n # from
      BY <1>3, <2>2 DEF There, Id
    <2> QED BY <2>1, <2>2
  <1>12. Handled(g)
    BY <1>4, <1>9, <1>10, <1>11 DEF Handled
  <1>13. Placed(g)
    <2>1. \A n \in StagingNames : Exists(g[n].id) => n \in Occupied(db)
      BY <1>1, <1>2, <1>3 DEF Tidy, Nothing, NoId, Exists
    <2>2. Replaceable(db) \subseteq StagingNames
      BY DEF Replaceable, StagingNames, Final
    <2>3. \A n \in Replaceable(db) : n # to /\ (n = from \/ g[n] = fs[n])
      BY <1>2, <1>3, <2>2
    <2> QED BY <1>1, <1>3, <2>1, <2>3 DEF Placed, Disposable, Nothing, NoId, Exists
  <1>14. Rename(g)
    BY DEF MoveFile, g
  <1>15. Replaceable(db) = {} \/ g["target"] = Nothing
    BY <1>3
  <1> QED BY <1>12, <1>13, <1>14, <1>15, RenameStored

\* What is done inside staging, and synced.
LEMMA SyncedStored ==
  ASSUME IInv, Stored, RecoverableCopy, UNCHANGED <<db, world>>, db.phase # "missing",
         NEW g, Handled(g), Placed(g), Synced(g), g["target"] = fs["target"],
         nextIno' = nextIno \/ nextIno' = nextIno + 1
  PROVE  Stored' /\ RecoverableCopy'
  <1>1. fs' = g /\ survivors' = {g} /\ exposed' = exposed
    BY DEF Synced
  <1>2. nextIno' \in Nat /\ nextIno' >= nextIno
    BY DEF IInv, Sound, DiskType
  <1>3. Exists(g["target"].id) => g["target"].id.ino \in exposed'
    BY <1>1 DEF Stored, FilesSound
  <1> QED BY <1>1, <1>2, <1>3, HandledStored

\* What nobody relies on, or the store holds as well.
Spare(body) == body \notin precious \/ (IsPresent(db) /\ db.logical /\ db.body = body)

\* Names of staging are cleared, others kept.
LEMMA ClearedStored ==
  ASSUME IInv, Stored, RecoverableCopy, UNCHANGED <<db, world>>, db.phase # "missing",
         NEW names \in SUBSET StagingNames,
         \A n \in names : There(n) => Spare(fs[n].body),
         Synced([n \in Names |-> IF n \in names THEN Nothing ELSE fs[n]]), nextIno' = nextIno
  PROVE  Stored' /\ RecoverableCopy'
  <1> DEFINE g == [n \in Names |-> IF n \in names THEN Nothing ELSE fs[n]]
  <1>1. fs \in [Names -> File] /\ fs \in survivors /\ Tidy /\ Disposable
    BY DEF IInv, Sound, DiskType, Stored, FilesSound
  <1>2. "target" \in Names \ StagingNames
    BY DEF Names, StagingNames, Final, Building
  <1>3. \A n \in Names : (n \in names => g[n] = Nothing) /\ (n \notin names => g[n] = fs[n])
    OBVIOUS
  <1>4. g \in [Names -> File] /\ Synced(g)
    BY <1>1, NeutralTypes
  <1> HIDE DEF g
  <1>5. \A n \in Names : ~Exists(fs[n].id) => fs[n] = Nothing
    BY <1>1 DEF Stored, FilesSound
  <1>6. \A n \in Names : Exists(fs[n].id) => fs[n].id.ctime \in Nat
    BY <1>1 DEF File, Identity
  <1>7. \A n \in Names : Exists(fs[n].id) => Brought(fs[n])
    BY <1>6 DEF Brought
  <1>8. ASSUME NEW n \in Names
        PROVE  g[n] = Nothing \/ (Exists(g[n].id) /\ Brought(g[n]))
    <2>1. g[n] = Nothing \/ g[n] = fs[n]
      BY <1>3
    <2> QED BY <1>5, <1>7, <2>1
  <1>9. \A m, n \in Names : Exists(g[m].id) /\ g[m].id.ino = g[n].id.ino => m = n
    <2>1. \A m, n \in Names : Exists(fs[m].id) /\ fs[m].id.ino = fs[n].id.ino => m = n
      BY <1>1 DEF Stored, FilesSound
    <2> QED BY <1>3, <2>1 DEF Exists, Nothing, NoId
  <1>10. \A n \in Names :
          Exists(fs[n].id) => \/ fs[n].body \notin precious
                              \/ IsPresent(db) /\ db.logical /\ db.body = fs[n].body
                              \/ \E m \in Names : Exists(g[m].id) /\ g[m].body = fs[n].body
    BY <1>3 DEF Spare, There, Id
  <1>11. Handled(g)
    BY <1>4, <1>8, <1>9, <1>10 DEF Handled
  <1>12. Placed(g)
    <2>1. Replaceable(db) \subseteq StagingNames /\ StagingNames \subseteq Names
      BY DEF Replaceable, StagingNames, Final, Names
    <2>2. \A n \in StagingNames : Exists(g[n].id) => g[n] = fs[n]
      BY <1>3, <2>1 DEF Nothing, NoId, Exists
    <2> QED BY <1>1, <2>1, <2>2 DEF Placed, Disposable, Tidy
  <1>13. g["target"] = fs["target"]
    BY <1>2, <1>3
  <1> QED BY <1>4, <1>11, <1>12, <1>13, SyncedStored

\* What a phase may discard is one of its names, and nobody relies on it.
LEMMA ReplaceableNames ==
  /\ Replaceable(db) \subseteq Occupied(db) /\ Replaceable(db) \subseteq StagingNames
  /\ "target" \notin StagingNames /\ "target" \in Names /\ StagingNames \subseteq Names
  /\ \A n \in Final : Building(n) # n /\ n \in StagingNames /\ Building(n) \in StagingNames
  <1>1. Replaceable(db) \subseteq Occupied(db)
    <2>1. CASE db.phase = "captured"
      BY <2>1 DEF Replaceable, Occupied
    <2>2. CASE db.phase = "restoreIntent"
      BY <2>2 DEF Replaceable, Occupied
    <2>3. CASE db.phase = "deleteIntent"
      BY <2>3 DEF Replaceable, Occupied
    <2>4. CASE db.phase \notin {"captured", "restoreIntent", "deleteIntent"}
      BY <2>4 DEF Replaceable
    <2> QED BY <2>1, <2>2, <2>3, <2>4
  <1>2. Replaceable(db) \subseteq StagingNames
    BY DEF Replaceable, StagingNames, Final
  <1>3. "target" \notin StagingNames /\ "target" \in Names /\ StagingNames \subseteq Names
    BY DEF Names, StagingNames, Final, Building
  <1>4. \A n \in Final : Building(n) # n /\ n \in StagingNames /\ Building(n) \in StagingNames
    BY DEF StagingNames, Final, Building
  <1> QED BY <1>1, <1>2, <1>3, <1>4

LEMMA ReplaceableSpare ==
  ASSUME IInv, Stored, db.phase = "captured" \/ db.logical, NEW n \in Replaceable(db), There(n)
  PROVE  Spare(fs[n].body)
  <1>1. fs \in survivors /\ Disposable /\ \A b \in precious : 0 < b
    BY DEF Stored, FilesSound, BodiesSound
  <1>2. IF db.phase = "captured" THEN fs[n].body = Empty ELSE fs[n].body = db.body
    BY <1>1 DEF Disposable, There, Id
  <1>3. CASE db.phase = "captured"
    <2>1. 0 \notin precious
      BY <1>1
    <2> QED BY <1>2, <1>3, <2>1 DEF Spare, Empty
  <1>4. CASE db.phase # "captured"
    <2>1. IsPresent(db)
      BY <1>4 DEF Replaceable, IsPresent
    <2> QED BY <1>2, <1>4, <2>1 DEF Spare
  <1> QED BY <1>3, <1>4

\* A file that verifies is kept; otherwise one is built in its place.
LEMMA KeepOrBuildStored ==
  ASSUME IInv, Stored, RecoverableCopy, UNCHANGED <<db, world>>, db.phase # "missing",
         NEW name \in Final, name \in Replaceable(db), Building(name) \in Replaceable(db),
         db.phase = "captured" \/ db.logical,
         NEW good, NEW body \in Nat, NEW meta \in Nat, NEW kept, NEW built,
         IF db.phase = "captured" THEN body = Empty /\ meta = 0 ELSE body = db.body,
         KeepOrBuild(name, good, body, meta, kept, built)
  PROVE  Stored' /\ RecoverableCopy'
  <1> DEFINE b     == Building(name)
             clean == [fs EXCEPT ![b] = Nothing]
             new   == [id |-> [ino |-> nextIno, meta |-> meta, ctime |-> 0], body |-> body]
             g     == [clean EXCEPT ![name] = Nothing, ![b] = new]
  <1>1. fs \in [Names -> File] /\ fs \in survivors /\ Tidy /\ Disposable
        /\ nextIno \in Nat /\ nextIno > 0 /\ exposed \subseteq Nat
    BY DEF IInv, Sound, DiskType, Stored, FilesSound
  <1>2. name \in StagingNames /\ b \in StagingNames /\ b # name /\ "target" \notin StagingNames
        /\ "target" \in Names /\ StagingNames \subseteq Names
    BY ReplaceableNames
  <1>3. \A n \in {name, b} : There(n) => Spare(fs[n].body)
    BY ReplaceableSpare
  <1>4. CASE There(name) /\ good
    <2>1. Synced(clean) /\ nextIno' = nextIno
      BY <1>4 DEF KeepOrBuild
    <2>2. clean = [n \in Names |-> IF n \in {b} THEN Nothing ELSE fs[n]]
      BY <1>1
    <2>3. {b} \in SUBSET StagingNames /\ \A n \in {b} : There(n) => Spare(fs[n].body)
      BY <1>2, <1>3
    <2> QED BY <2>1, <2>2, <2>3, ClearedStored
  <1>5. CASE ~(There(name) /\ good)
    <2>1. Synced(g) /\ nextIno' = nextIno + 1
      BY <1>5 DEF KeepOrBuild
    <2>2. new \in File
      BY <1>1 DEF File, Identity
    <2>3. g \in [Names -> File]
      BY <1>1, <2>2, NeutralTypes
    <2>4. g[name] = Nothing /\ g[b] = new
          /\ \A n \in Names : n # name /\ n # b => g[n] = fs[n]
      BY <1>1, <1>2
    <2>5. new.id.ino = nextIno /\ new.id.meta = meta /\ new.body = body
      OBVIOUS
    <2>6. body < Fresh
      <3>1. 0 < Fresh
        BY DEF Fresh, IInv, WorldType
      <3> QED BY <3>1 DEF Stored, BodiesSound, Empty
    <2> HIDE DEF g, new
    <2>7. \A n \in Names : ~Exists(fs[n].id) => fs[n] = Nothing
      BY <1>1 DEF Stored, FilesSound
    <2>8. \A n \in Names : fs[n].id.ctime \in Nat /\ fs[n].id.ino \in Nat /\ fs[n].id.ino < nextIno
      BY <1>1 DEF Stored, FilesSound, File, Identity
    <2>9. \A n \in Names : Exists(fs[n].id) => Brought(fs[n])
      BY <2>8 DEF Brought
    <2>10. Built(g[b]) /\ Exists(g[b].id)
      BY <1>1, <2>1, <2>4, <2>5, <2>6 DEF Built, Exists
    <2>11. ASSUME NEW n \in Names
           PROVE  g[n] = Nothing \/ (Exists(g[n].id) /\ (Brought(g[n]) \/ Built(g[n])))
      <3>1. CASE n = b
        BY <2>10, <3>1
      <3>2. CASE n # b
        <4>1. g[n] = Nothing \/ g[n] = fs[n]
          BY <2>4, <3>2
        <4> QED BY <2>7, <2>9, <4>1
      <3> QED BY <3>1, <3>2
    <2>12. \A m, n \in Names : Exists(g[m].id) /\ g[m].id.ino = g[n].id.ino => m = n
      <3>1. \A m, n \in Names : Exists(fs[m].id) /\ fs[m].id.ino = fs[n].id.ino => m = n
        BY <1>1 DEF Stored, FilesSound
      <3>2. g[name].id.ino = 0 /\ g[b].id.ino = nextIno
        BY <2>4, <2>5 DEF Nothing, NoId
      <3>3. \A n \in Names : n # name /\ n # b => g[n] = fs[n] /\ fs[n].id.ino # nextIno
        BY <1>1, <2>4, <2>8
      <3> QED BY <1>1, <3>1, <3>2, <3>3 DEF Exists
    <2>13. \A n \in Names :
            Exists(fs[n].id) => \/ fs[n].body \notin precious
                                \/ IsPresent(db) /\ db.logical /\ db.body = fs[n].body
                                \/ \E m \in Names : Exists(g[m].id) /\ g[m].body = fs[n].body
      BY <1>3, <2>4 DEF Spare, There, Id
    <2>14. Handled(g)
      BY <2>3, <2>11, <2>12, <2>13 DEF Handled
    <2>15. \A n \in StagingNames : Exists(g[n].id) => n = b \/ g[n] = fs[n]
      BY <1>2, <2>4 DEF Nothing, NoId, Exists
    <2>16. nextIno \notin exposed
      <3>1. \A i \in exposed : i < nextIno
        BY DEF Stored, FilesSound
      <3> QED BY <1>1, <3>1
    <2>17. ASSUME NEW n \in Replaceable(db), Exists(g[n].id)
           PROVE  /\ g[n].id.ino \notin exposed
                  /\ IF db.phase = "captured" THEN g[n].body = Empty /\ g[n].id.meta = 0
                                              ELSE g[n].body = db.body
      <3>1. CASE n = b
        BY <2>4, <2>5, <2>16, <3>1
      <3>2. CASE n # b
        <4>1. g[n] = fs[n]
          BY <2>15, <2>17, <3>2, ReplaceableNames
        <4> QED BY <1>1, <2>17, <4>1 DEF Disposable
      <3> QED BY <3>1, <3>2
    <2>18. ASSUME NEW n \in StagingNames, Exists(g[n].id)
           PROVE  n \in Occupied(db)
      <3>1. CASE n = b
        BY <3>1, ReplaceableNames
      <3>2. CASE n # b
        <4>1. g[n] = fs[n]
          BY <2>15, <2>18, <3>2
        <4> QED BY <1>1, <2>18, <4>1 DEF Tidy
      <3> QED BY <3>1, <3>2
    <2>19. Placed(g)
      BY <2>17, <2>18 DEF Placed
    <2>20. g["target"] = fs["target"]
      BY <1>2, <2>4
    <2> QED BY <2>1, <2>14, <2>19, <2>20, SyncedStored
  <1> QED BY <1>4, <1>5

\* The file built gets its name.
LEMMA PromoteStored ==
  ASSUME IInv, Stored, RecoverableCopy, UNCHANGED <<db, world>>, db.phase # "missing",
         NEW name \in Final, name \in Replaceable(db), Building(name) \in Replaceable(db),
         db.phase = "captured" \/ db.logical, NEW label, Promote(name, label)
  PROVE  Stored' /\ RecoverableCopy'
  <1> DEFINE b    == Building(name)
             file == Renamed(fs[b])
             g    == [fs EXCEPT ![name] = file, ![b] = Nothing]
  <1>1. fs \in [Names -> File] /\ fs \in survivors /\ Tidy /\ Disposable
    BY DEF IInv, Sound, DiskType, Stored, FilesSound
  <1>2. name \in StagingNames /\ b \in StagingNames /\ b # name /\ "target" \notin StagingNames
        /\ "target" \in Names /\ StagingNames \subseteq Names
    BY ReplaceableNames
  <1>3. There(name) => Spare(fs[name].body)
    BY ReplaceableSpare
  <1>4. Synced(g) /\ nextIno' = nextIno
    BY DEF Promote
  <1>5. fs[b] \in File
    BY <1>1, <1>2
  <1>6. g[name] = file /\ g[b] = Nothing
        /\ \A n \in Names : n # name /\ n # b => g[n] = fs[n]
    BY <1>1, <1>2
  <1>7. g \in [Names -> File]
    BY <1>1, <1>5, NeutralTypes, RenamedFile
  <1> HIDE DEF g
  <1>8. \A n \in Names : ~Exists(fs[n].id) => fs[n] = Nothing
    BY <1>1 DEF Stored, FilesSound
  <1>9. \A n \in Names : fs[n].id.ctime \in Nat
    BY <1>1 DEF File, Identity
  <1>10. \A n \in Names : Exists(fs[n].id) => Brought(fs[n])
    BY <1>9 DEF Brought
  <1>11. Exists(fs[b].id) => Brought(file)
    BY <1>2, <1>5, <1>9, RenamedFile DEF Brought
  <1>12. file.id.ino = fs[b].id.ino /\ file.id.meta = fs[b].id.meta /\ file.body = fs[b].body
         /\ Exists(file.id) = Exists(fs[b].id) /\ (~Exists(fs[b].id) => file = fs[b])
    BY <1>5, RenamedFile
  <1> HIDE DEF file
  <1>13. ASSUME NEW n \in Names
         PROVE  g[n] = Nothing \/ (Exists(g[n].id) /\ (Brought(g[n]) \/ Built(g[n])))
    <2>1. CASE n = name
      BY <1>2, <1>6, <1>8, <1>11, <1>12, <2>1
    <2>2. CASE n # name
      <3>1. g[n] = Nothing \/ g[n] = fs[n]
        BY <1>6, <2>2
      <3> QED BY <1>8, <1>10, <3>1
    <2> QED BY <2>1, <2>2
  <1>14. \A m, n \in Names : Exists(g[m].id) /\ g[m].id.ino = g[n].id.ino => m = n
    <2>1. \A m, n \in Names : Exists(fs[m].id) /\ fs[m].id.ino = fs[n].id.ino => m = n
      BY <1>1 DEF Stored, FilesSound
    <2>2. g[name].id.ino = fs[b].id.ino /\ g[b].id.ino = 0
      BY <1>6, <1>12 DEF Nothing, NoId
    <2> QED BY <1>2, <1>6, <2>1, <2>2 DEF Exists
  <1>15. ASSUME NEW n \in Names, Exists(fs[n].id)
         PROVE  \/ fs[n].body \notin precious
                \/ IsPresent(db) /\ db.logical /\ db.body = fs[n].body
                \/ \E m \in Names : Exists(g[m].id) /\ g[m].body = fs[n].body
    <2>1. CASE n = name
      BY <1>3, <1>15, <2>1 DEF Spare, There, Id
    <2>2. CASE n = b
      BY <1>2, <1>6, <1>12, <1>15, <2>2
    <2>3. CASE n # name /\ n # b
      BY <1>6, <1>15, <2>3
    <2> QED BY <2>1, <2>2, <2>3
  <1>16. Handled(g)
    BY <1>7, <1>13, <1>14, <1>15 DEF Handled
  <1>17. ASSUME NEW n \in Replaceable(db), Exists(g[n].id)
         PROVE  /\ g[n].id.ino \notin exposed
                /\ IF db.phase = "captured" THEN g[n].body = Empty /\ g[n].id.meta = 0
                                            ELSE g[n].body = db.body
    <2>1. CASE n = name
      <3>1. /\ Exists(fs[b].id) /\ g[n].id.ino = fs[b].id.ino /\ g[n].id.meta = fs[b].id.meta
            /\ g[n].body = fs[b].body
        BY <1>6, <1>12, <1>17, <2>1
      <3> QED BY <1>1, <3>1 DEF Disposable
    <2>2. CASE n # name
      <3>1. g[n] = fs[n]
        BY <1>2, <1>6, <1>17, <2>2, ReplaceableNames DEF Nothing, NoId, Exists
      <3> QED BY <1>1, <1>17, <3>1 DEF Disposable
    <2> QED BY <2>1, <2>2
  <1>18. ASSUME NEW n \in StagingNames, Exists(g[n].id)
         PROVE  n \in Occupied(db)
    <2>1. CASE n = name
      BY <2>1, ReplaceableNames
    <2>2. CASE n # name
      <3>1. g[n] = fs[n]
        BY <1>2, <1>6, <1>18, <2>2 DEF Nothing, NoId, Exists
      <3> QED BY <1>1, <1>18, <3>1 DEF Tidy
    <2> QED BY <2>1, <2>2
  <1>19. Placed(g)
    BY <1>17, <1>18 DEF Placed
  <1>20. g["target"] = fs["target"]
    BY <1>2, <1>6
  <1> QED BY <1>4, <1>16, <1>19, <1>20, SyncedStored

\* Durability: the namespace that is there is the only one left.
LEMMA SyncStored ==
  ASSUME Stored, RecoverableCopy, UNCHANGED <<db, world>>, SyncWith
  PROVE  Stored' /\ RecoverableCopy'
  <1>1. fs' = fs /\ survivors' = {fs} /\ exposed' = exposed /\ nextIno' = nextIno
    BY DEF SyncWith
  <1>2. fs \in survivors /\ UNCHANGED <<edits, writes, precious>>
    BY DEF world, Stored, FilesSound
  <1>3. Exists(fs["target"].id) => fs["target"].id.ino \in exposed
    BY <1>2 DEF Stored, FilesSound
  <1> QED BY <1>1, <1>2, <1>3, SettledStored

\* One name is cleared.
LEMMA RemoveStored ==
  ASSUME IInv, Stored, RecoverableCopy, UNCHANGED <<db, world>>, db.phase # "missing",
         NEW name \in StagingNames, There(name) => Spare(fs[name].body),
         Synced([fs EXCEPT ![name] = Nothing]), nextIno' = nextIno
  PROVE  Stored' /\ RecoverableCopy'
  <1>1. [fs EXCEPT ![name] = Nothing] = [n \in Names |-> IF n \in {name} THEN Nothing ELSE fs[n]]
    BY DEF IInv, Sound, DiskType
  <1>2. {name} \in SUBSET StagingNames /\ \A n \in {name} : There(n) => Spare(fs[n].body)
    OBVIOUS
  <1> QED BY <1>1, <1>2, ClearedStored

\* A file operation, and on.
LEMMA FileKept ==
  ASSUME Kept, UNCHANGED <<db, world, refused>>, db.phase # "missing",
         Stored', RecoverableCopy', NEW label \in InHand, NEW seen, NEW file,
         Proceed(label, cur, seen, file), pc \in InHand,
         Place(label, cur, seen, file), Ground', label # "deleteMarker"
  PROVE  Kept'
  <1>1. cur = db /\ ~refused /\ RowSound(db)
    BY DEF Kept, Agreed, AtHand
  <1>2. label \notin {"capture", "commitCaptured"} /\ pc' = label
    BY DEF InHand, Proceed
  <1>3. Agreed'
    BY <1>1, <1>2, ProceedAgreed
  <1>4. UNCHANGED <<edits, precious>>
    BY DEF world
  <1>5. Handover'
    BY <1>2, <1>4 DEF Kept, Handover, Following
  <1> QED BY <1>3, <1>5 DEF Kept

-----------------------------------------------------------------------------
(* Commands, the interceptor, and what the procedures return to            *)

\* What an operation past its loads may take for granted.
LEMMA InHandFacts ==
  ASSUME IInv, Kept, pc \in InHand
  PROVE  /\ Sound /\ cur = db /\ cur \in Entry /\ RowSound(cur) /\ cur.blocked = "no" /\ Alone
         /\ Place(pc, cur, obs, made) /\ obs \in Obs /\ made \in Identity
  <1>1. pc \notin Unchecked /\ pc \notin Holding
    BY DEF InHand, Unchecked, Holding
  <1>2. Alone
    BY <1>1, PastChecks DEF IInv
  <1> QED BY <1>2 DEF IInv, Sound, StoreType, ProcType, Kept, Agreed, AtHand, Alone

\* A check past them: on with the entry in hand, or not.
LEMMA CheckKept ==
  ASSUME IInv, Kept, UNCHANGED world, pc \in InHand, NEW label \in InHand \ GroundLabels,
         Place(label, cur, obs, made), Pass(label) \/ Abandon
  PROVE  Kept'
  BY PassKept, AbandonKept DEF InHand

\* ... or a conflict.
LEMMA ConflictKept ==
  ASSUME IInv, Kept, UNCHANGED world, pc \in InHand, IsPresent(cur), NEW reason \in Reasons,
         Block(reason)
  PROVE  Kept'
  BY InHandFacts, BlockKept

LEMMA ReconciledKept ==
  ASSUME Kept, Still, Reconciled, UNCHANGED world
  PROVE  Kept'
  <1>1. pc' \in Nowhere
    BY DEF Reconciled, Enter, Proceed, Exit, Nowhere
  <1> QED BY <1>1, NowhereKept DEF Still

LEMMA ReplayKept ==
  ASSUME Kept, Replay, UNCHANGED world
  PROVE  Kept'
  <1>1. CASE Abandon
    BY <1>1, AbandonKept
  <1>2. \/ db.phase = "finalizing" /\ Loaded("finObserve")
        \/ db.phase = "captured" /\ Loaded("beginInstall")
        \/ db.phase = "installIntent" /\ Loaded("installObserve")
        \/ db.phase = "restoreIntent" /\ Loaded("restoreBuild")
        \/ db.phase \in {"restored", "deleteIntent"} /\ Loaded("cleanup")
        \/ Abandon
    BY DEF Replay
  <1>3. ASSUME NEW l \in {"finObserve", "beginInstall", "installObserve", "restoreBuild",
                          "cleanup"}, Loaded(l), Place(l, db, NoObs, NoId)
        PROVE  Kept'
    BY <1>3, LoadedKept DEF GroundLabels
  <1>4. /\ db.phase = "finalizing" => Place("finObserve", db, NoObs, NoId)
        /\ db.phase = "captured" => Place("beginInstall", db, NoObs, NoId)
        /\ db.phase = "installIntent" => Place("installObserve", db, NoObs, NoId)
        /\ db.phase = "restoreIntent" => Place("restoreBuild", db, NoObs, NoId)
        /\ db.phase \in {"restored", "deleteIntent"} => Place("cleanup", db, NoObs, NoId)
    BY DEF Place, FinLabels
  <1> QED BY <1>1, <1>2, <1>3, <1>4

LEMMA IssueKept ==
  ASSUME Kept, Issue, UNCHANGED world
  PROVE  Kept'
  <1>1. Still /\ pc' \in Nowhere
    BY DEF Issue, StoreCommand, RestoreCommand, StopCommand, Start, Enter, Nowhere
  <1> QED BY <1>1, NowhereKept DEF Still

LEMMA InterceptorKept ==
  ASSUME IInv, Kept, Interceptor, UNCHANGED world
  PROVE  Kept'
  <1>1. CASE EnterStop \/ Detach
    <2>1. Still /\ pc' \in Nowhere
      BY <1>1 DEF EnterStop, Detach, Pass, Goto, Proceed, Nowhere
    <2> QED BY <2>1, NowhereKept DEF Still
  <1>2. CASE BeginUnmount
    <2>1. \/ db.phase = "mountIntent" /\ Loaded("commitUnmount")
          \/ Still /\ pc' = "detach"
          \/ Abandon
      BY <1>2 DEF BeginUnmount, Pass, Goto, Proceed
    <2>2. db.phase = "mountIntent" => Place("commitUnmount", db, NoObs, NoId)
      BY DEF Place, FinLabels
    <2>3. "commitUnmount" \notin GroundLabels /\ "detach" \in Nowhere
      BY DEF GroundLabels, Nowhere
    <2> QED BY <2>1, <2>2, <2>3, LoadedKept, AbandonKept, NowhereKept DEF Still
  <1>3. CASE CommitUnmount
    <2> DEFINE next == [cur EXCEPT !.phase = "unmountIntent", !.next = UnmountOutcome]
    <2>1. cur.phase = "mountIntent" /\ cur # Missing /\ cur \in Entry /\ db.blocked = "no"
      BY <1>3 DEF CommitUnmount, Kept, Agreed, AtHand, Place, Missing, IInv, Sound, ProcType,
                  Safe, ChecksHold, Unchecked
    <2>2. CASE db # cur
      <3>1. ~Accepts(db, cur, next)
        BY <2>1, <2>2 DEF Accepts
      <3>2. Still /\ pc' = "beginUnmount"
        BY <1>3, <2>2, <3>1 DEF CommitUnmount, Pass, Goto, Proceed
      <3>3. "beginUnmount" \in Nowhere
        BY DEF Nowhere
      <3> QED BY <3>2, <3>3, NowhereKept DEF Still
    <2>3. CASE db = cur
      <3>1. Commit(next, "detach") /\ UnmountOutcome \in {"restore", "leave"}
        BY <1>3, <2>3 DEF CommitUnmount, UnmountOutcome
      <3>2. IsPresent(cur) /\ RowSound(cur)
        BY <2>1, <2>3 DEF IsPresent, Kept, Agreed
      <3>3. next \in Entry /\ Accepts(cur, cur, next) /\ RowSound(next)
        BY <2>1, <2>3, <3>1, <3>2, UnmountAdmitted
      <3>4. /\ next.phase = "unmountIntent" /\ next.body = cur.body
            /\ next.logical = cur.logical /\ next.placeholder = cur.placeholder
            /\ next.detached = cur.detached
        BY <2>1 DEF Entry
      <3> HIDE DEF next
      <3>5. Place("detach", next, NoObs, NoId) /\ "detach" \notin {"capture", "commitCaptured"}
            /\ "detach" \notin GroundLabels
        BY DEF Place, FinLabels, GroundLabels
      <3>6. Agreed' /\ db' = next /\ pc' = "detach" /\ UNCHANGED disk
        BY <2>3, <3>1, <3>3, <3>5, CommitMade
      <3>7. Occupied(db) = Occupied(db') /\ Replaceable(db') = {}
        BY <2>1, <2>3, <3>4, <3>6 DEF Occupied, Replaceable
      <3>8. IsPresent(db') /\ db'.phase # "captured"
        BY <3>4, <3>6 DEF IsPresent
      <3> QED BY <2>3, <3>2, <3>4, <3>5, <3>6, <3>7, <3>8, RowOnward
    <2> QED BY <2>2, <2>3
  <1>4. CASE Reconcile
    <2>1. \/ db.phase = "finalizing" /\ Loaded("finObserve")
          \/ db.phase = "unmountIntent" /\ db.next = "restore" /\ Loaded("beginRestore")
          \/ /\ db.phase = "mountIntent" \/ (db.phase = "unmountIntent" /\ db.next # "restore")
             /\ Loaded("leaveCheck")
          \/ Still /\ Reconciled
          \/ Abandon
      BY <1>4 DEF Reconcile
    <2>2. db.phase = "unmountIntent" => db.next \in {"restore", "leave"}
      BY DEF Kept, Agreed, RowSound
    <2>3. /\ db.phase = "finalizing" => Place("finObserve", db, NoObs, NoId)
          /\ db.phase = "unmountIntent" /\ db.next = "restore"
               => Place("beginRestore", db, NoObs, NoId)
          /\ db.phase = "mountIntent" \/ (db.phase = "unmountIntent" /\ db.next # "restore")
               => Place("leaveCheck", db, NoObs, NoId)
      BY <2>2 DEF Place, FinLabels
    <2>4. ASSUME NEW l \in {"finObserve", "beginRestore", "leaveCheck"}, Loaded(l),
                 Place(l, db, NoObs, NoId)
          PROVE  Kept'
      BY <2>4, LoadedKept DEF GroundLabels
    <2> QED BY <2>1, <2>3, <2>4, AbandonKept, ReconciledKept
  <1>5. CASE LeaveCheck
    <2>1. pc \in InHand /\ IsPresent(cur) /\ Place("commitLeave", cur, obs, made)
      <3>1. pc = "leaveCheck" /\ pc \in InHand
        BY <1>5 DEF LeaveCheck, InHand, Labels
      <3>2. cur.phase = "mountIntent" \/ (cur.phase = "unmountIntent" /\ cur.next = "leave")
        BY <3>1, InHandFacts DEF Place
      <3> QED BY <3>1, <3>2 DEF Place, FinLabels, IsPresent
    <2>2. Pass("commitLeave") \/ Block("installed")
      BY <1>5 DEF LeaveCheck
    <2>3. "commitLeave" \in InHand \ GroundLabels
      BY DEF InHand, Labels, GroundLabels
    <2> QED BY <2>1, <2>2, <2>3, CheckKept, ConflictKept, ReasonsInUse
  <1>6. CASE CommitLeave
    <2> DEFINE next == [cur EXCEPT !.phase = "installed", !.next = "none"]
    <2>1. pc = "commitLeave" /\ pc \in InHand
      BY <1>6 DEF CommitLeave, InHand, Labels
    <2>2. /\ cur = db /\ cur \in Entry /\ RowSound(cur) /\ cur.blocked = "no"
          /\ cur.phase = "mountIntent" \/ (cur.phase = "unmountIntent" /\ cur.next = "leave")
      BY <2>1, InHandFacts DEF Place
    <2>3. IsPresent(cur)
      BY <2>2 DEF IsPresent
    <2>4. next \in Entry /\ Accepts(cur, cur, next) /\ RowSound(next)
      BY <2>2, <2>3, LeaveAdmitted
    <2>5. db' = next /\ Reconciled /\ UNCHANGED <<disk, refused>>
      BY <1>6, <2>2, <2>4 DEF CommitLeave
    <2>6. /\ next.phase = "installed" /\ next.body = cur.body
          /\ next.logical = cur.logical /\ next.placeholder = cur.placeholder
          /\ next.detached = cur.detached
      BY <2>2 DEF Entry
    <2> HIDE DEF next
    <2>7. pc' \in Nowhere /\ pc' \notin GroundLabels
      BY <2>5 DEF Reconciled, Enter, Proceed, Exit, Nowhere, GroundLabels
    <2>8. Agreed'
      BY <2>4, <2>5, <2>7, NowhereAgreed DEF Kept, Agreed
    <2>9. Occupied(db) = Occupied(db') /\ Replaceable(db') = {}
      BY <2>2, <2>5, <2>6 DEF Occupied, Replaceable
    <2>10. IsPresent(db') /\ db'.phase # "captured"
      BY <2>5, <2>6 DEF IsPresent
    <2> QED BY <2>2, <2>3, <2>5, <2>6, <2>7, <2>8, <2>9, <2>10, RowOnward
  <1>7. CASE Prepare
    <2>1. \/ db.phase = "missing" /\ Pass("capture")
          \/ db.phase = "installed" /\ Loaded("requireInstalled")
          \/ Abandon
          \/ Replay
      BY <1>7 DEF Prepare
    <2>2. db.phase = "missing" => db = Missing
      BY DEF Kept, Agreed, RowSound
    <2>3. db.phase = "installed" => Place("requireInstalled", db, NoObs, NoId)
      BY DEF Place, FinLabels
    <2>4. "requireInstalled" \notin GroundLabels /\ "capture" \notin GroundLabels
          /\ "capture" \notin InHand /\ Place("capture", cur, obs, made)
      BY DEF GroundLabels, InHand, Place, FinLabels
    <2>5. CASE db.phase = "missing" /\ Pass("capture")
      BY <2>2, <2>4, <2>5, ProceedKept DEF Pass, Goto
    <2> QED BY <2>1, <2>3, <2>4, <2>5, LoadedKept, AbandonKept, ReplayKept
  <1>8. CASE BeginMount
    <2>1. pc = "beginMount" /\ pc \in InHand
      BY <1>8 DEF BeginMount, InHand, Labels
    <2>2. IsPresent(cur) /\ Place("commitMount", cur, obs, made)
      BY <2>1, InHandFacts DEF Place, FinLabels, IsPresent
    <2>3. Pass("commitMount") \/ Block("installed")
      BY <1>8 DEF BeginMount
    <2>4. "commitMount" \in InHand \ GroundLabels
      BY DEF InHand, Labels, GroundLabels
    <2> QED BY <2>1, <2>2, <2>3, <2>4, CheckKept, ConflictKept, ReasonsInUse
  <1>9. CASE CommitMount
    <2> DEFINE next == [cur EXCEPT !.phase = "mountIntent"]
    <2>1. pc = "commitMount" /\ pc \in InHand
      BY <1>9 DEF CommitMount, InHand, Labels
    <2>2. /\ cur = db /\ cur \in Entry /\ RowSound(cur) /\ cur.blocked = "no"
          /\ cur.phase = "installed"
      BY <2>1, InHandFacts DEF Place
    <2>3. IsPresent(cur)
      BY <2>2 DEF IsPresent
    <2>4. next \in Entry /\ Accepts(cur, cur, next) /\ RowSound(next)
      BY <2>2, <2>3, MountAdmitted
    <2>5. Commit(next, "mount")
      BY <1>9 DEF CommitMount
    <2>6. /\ next.phase = "mountIntent" /\ next.body = cur.body
          /\ next.logical = cur.logical /\ next.placeholder = cur.placeholder
          /\ next.detached = cur.detached
      BY <2>2 DEF Entry
    <2> HIDE DEF next
    <2>7. Place("mount", next, NoObs, NoId) /\ "mount" \notin GroundLabels
      BY <2>6 DEF Place, FinLabels, GroundLabels
    <2>8. Agreed' /\ db' = next /\ pc' = "mount" /\ UNCHANGED disk
      BY <2>2, <2>4, <2>5, <2>7, CommitMade
    <2>9. Occupied(db) = Occupied(db') /\ Replaceable(db') = {}
      BY <2>2, <2>6, <2>8 DEF Occupied, Replaceable
    <2>10. IsPresent(db') /\ db'.phase # "captured"
      BY <2>6, <2>8 DEF IsPresent
    <2> QED BY <2>2, <2>3, <2>6, <2>7, <2>8, <2>9, <2>10, RowOnward
  <1>10. CASE Mount
    <2>1. (Still /\ pc' = "serving") \/ Abandon
      BY <1>10 DEF Mount
    <2>2. "serving" \in Nowhere
      BY DEF Nowhere
    <2> QED BY <2>1, <2>2, NowhereKept, AbandonKept DEF Still
  <1> QED BY <1>1, <1>2, <1>3, <1>4, <1>5, <1>6, <1>7, <1>8, <1>9, <1>10 DEF Interceptor

-----------------------------------------------------------------------------
(* Capture and installation                                                *)

LEMMA CaptureKept ==
  ASSUME IInv, Kept, Capture, UNCHANGED world
  PROVE  Kept'
  <1> DEFINE entry == [Missing EXCEPT !.phase = "captured", !.original = Id("target"),
                                      !.meta = Id("target").meta, !.body = fs["target"].body,
                                      !.logical = There("target")]
  <1>1. /\ pc = "capture"
        /\ \/ Abandon
           \/ /\ Still /\ Proceed("commitCaptured", entry, NoObs, NoId)
              /\ op = "store" => There("target")
    BY DEF Capture
  <1>2. CASE Abandon
    BY <1>2, AbandonKept
  <1>3. CASE /\ Still /\ Proceed("commitCaptured", entry, NoObs, NoId)
             /\ op = "store" => There("target")
    <2>1. db = Missing /\ db' = db /\ UNCHANGED disk /\ refused' = refused
      BY <1>1, <1>3 DEF Kept, Agreed, AtHand, Still
    <2>2. /\ entry.phase = "captured" /\ entry.blocked = "no"
          /\ entry.original = fs["target"].id /\ entry.body = fs["target"].body
          /\ entry.logical = There("target") /\ entry.placeholder = NoId
          /\ entry.detached = NoId /\ entry.restore = NoId
      BY DEF Missing, Id
    <2> HIDE DEF entry
    <2>3. "target" \in Names /\ fs \in survivors
      BY NamesType DEF Kept, Stored, FilesSound
    <2>4. ~There("target") => fs["target"].body = Empty
      BY <2>3 DEF Kept, Stored, FilesSound, There, Id, Nothing
    <2>5. Fledgling(entry)
      <3>1. There("target") = Exists(entry.original)
        BY <2>2 DEF There, Id
      <3>2. entry.logical = Exists(entry.original)
        BY <2>2, <3>1
      <3>3. ~entry.logical => entry.body = Empty
        BY <2>2, <2>4
      <3>4. ~Exists(entry.placeholder) /\ ~Exists(entry.detached) /\ ~Exists(entry.restore)
        BY <2>2 DEF Exists, NoId
      <3> QED BY <2>2, <3>2, <3>3, <3>4 DEF Fledgling
    <2>6. Place("commitCaptured", entry, NoObs, NoId) /\ "commitCaptured" \notin InHand
      BY <2>5 DEF Place, FinLabels, InHand
    <2>7. Agreed'
      BY <1>3, <2>1, <2>6, ProceedAgreed DEF Kept, Agreed
    <2>8. Stored' /\ RecoverableCopy'
      BY <2>1, QuietStored DEF Kept
    <2>9. pc' = "commitCaptured" /\ cur' = entry /\ op' = op
      BY <1>3 DEF Proceed
    <2>10. UNCHANGED <<fs, edits, writes, precious>> /\ Fresh' = Fresh
      BY <2>1 DEF disk, world, Fresh
    <2>11. Ground'
      <3>1. cur'.body < Fresh'
        BY <2>2, <2>3, <2>9, <2>10 DEF Kept, Stored, FilesSound
      <3>2. op' = "store" => Exists(cur'.original)
        BY <1>3, <2>2, <2>9 DEF There, Id
      <3> QED BY <2>9, <3>1, <3>2 DEF Ground
    <2>12. Handover'
      <3>1. There("target")' = There("target")
        BY <2>10 DEF There, Id
      <3> QED BY <2>1, <2>2, <2>9, <2>10, <3>1 DEF Kept, Handover, Following
    <2> QED BY <2>7, <2>8, <2>11, <2>12 DEF Kept
  <1> QED BY <1>1, <1>2, <1>3

\* The capture committed: an entry where there was none, and no file touched.
LEMMA CapturedKept ==
  ASSUME IInv, Kept, CommitCaptured, UNCHANGED world
  PROVE  Kept'
  <1>1. PICK label \in {"storeStaging", "beginInstall"} :
          CommitFrom(Missing, cur, label) /\ (label = "storeStaging" => op = "store")
    BY DEF CommitCaptured
  <1>2. pc = "commitCaptured" /\ db = Missing /\ Fledgling(cur) /\ cur \in Entry /\ ~refused
        /\ cur.body < Fresh /\ (op = "store" => Exists(cur.original))
    <2>1. pc = "commitCaptured"
      BY DEF CommitCaptured
    <2>2. db = Missing /\ Fledgling(cur) /\ ~refused
      BY <2>1 DEF Kept, Agreed, AtHand, Place
    <2>3. cur.body < Fresh /\ (op = "store" => Exists(cur.original))
      BY <2>1 DEF Kept, Ground
    <2> QED BY <2>1, <2>2, <2>3 DEF IInv, Sound, ProcType
  <1>3. ValidSnapshot(cur)
    <2>1. cur.phase = "captured" /\ ~Exists(cur.placeholder)
      BY <1>2 DEF Fledgling
    <2>2. cur.logical = Exists(cur.original) /\ (~cur.logical => cur.body = Empty)
      BY <1>2 DEF Fledgling
    <2>3. ValidStructure(cur) /\ ~NeedsPlaceholder(cur)
      BY <2>1 DEF ValidStructure, NeedsPlaceholder
    <2>4. NeedsPlaceholder(cur) \in BOOLEAN /\ Exists(cur.placeholder) \in BOOLEAN
      BY DEF NeedsPlaceholder, Exists
    <2>5. NeedsPlaceholder(cur) = Exists(cur.placeholder)
      BY <2>1, <2>3, <2>4
    <2> QED BY <2>2, <2>3, <2>5 DEF ValidSnapshot
  <1>4. Accepts(db, Missing, cur)
    BY <1>2, <1>3 DEF Accepts, Fledgling
  <1>5. /\ db' = cur /\ refused' = refused /\ UNCHANGED disk
        /\ Proceed(label, cur, NoObs, NoId)
    BY <1>1, <1>4 DEF CommitFrom
  <1>6. RowSound(cur) /\ IsPresent(cur) /\ cur.phase = "captured"
    BY <1>2, <1>3 DEF RowSound, Fledgling, IsPresent
  <1>7. Place(label, cur, NoObs, NoId) /\ label \notin {"capture", "commitCaptured"}
        /\ label \notin GroundLabels
    BY <1>1, <1>2, <1>6 DEF Place, FinLabels, GroundLabels
  <1>8. Agreed' /\ pc' = label
    BY <1>2, <1>5, <1>6, <1>7, ProceedAgreed DEF Proceed
  <1>9. UNCHANGED <<fs, survivors, exposed, nextIno, edits, writes, precious>>
    BY <1>5 DEF disk, world
  <1>10. \A f \in survivors, n \in StagingNames : ~Exists(f[n].id)
    BY <1>2 DEF Kept, Stored, Tidy, Occupied, Missing
  <1>11. FilesSound' /\ BodiesSound'
    BY <1>2, <1>5, <1>9 DEF Kept, Stored, FilesSound, BodiesSound, Fresh
  <1>12. Tidy'
    BY <1>9, <1>10 DEF Tidy
  <1>13. Disposable'
    <2>1. Replaceable(db') \subseteq StagingNames
      BY DEF Replaceable, StagingNames, Final
    <2> QED BY <1>9, <1>10, <2>1 DEF Disposable
  <1>14. OneNamespace'
    BY <1>2, <1>9 DEF Kept, Stored, OneNamespace, Missing
  <1>15. PlaceholdersEmpty' /\ DetachedSpent'
    BY <1>2, <1>5 DEF Fledgling, PlaceholdersEmpty, DetachedSpent
  <1>16. RecoverableCopy'
    <2>1. ~IsPresent(db)
      BY <1>2 DEF IsPresent, Missing
    <2> QED BY <1>9, <2>1 DEF Kept, RecoverableCopy
  <1>17. Handover'
    <2>1. Missing.phase = "missing" /\ cur.phase # "missing"
      BY <1>6 DEF Missing
    <2>2. edits = 0 => precious = IF cur.logical THEN {cur.body} ELSE {}
      BY <1>2, <2>1 DEF Kept, Handover, Following
    <2> QED BY <1>1, <1>5, <1>8, <1>9, <2>1, <2>2 DEF Handover, Following
  <1>18. Ground'
    BY <1>7, <1>8, GroundElsewhere
  <1> QED BY <1>8, <1>11, <1>12, <1>13, <1>14, <1>15, <1>16, <1>17, <1>18 DEF Kept, Stored

\* The names in use.
LEMMA FinalNames ==
  /\ Final = {"swap", "restore", "final"}
  /\ Building("swap") = ".building-swap" /\ Building("restore") = ".building-restore"
  /\ Building("final") = ".building-final"
  /\ StagingNames = {"swap", "restore", "final", ".building-swap", ".building-restore",
                     ".building-final", "stored", "retired"}
  /\ Names = {"target"} \cup StagingNames
  <1>1. Final = {"swap", "restore", "final"}
    BY DEF Final
  <1>2. /\ Building("swap") = ".building-swap" /\ Building("restore") = ".building-restore"
        /\ Building("final") = ".building-final"
    BY DEF Building
  <1>3. {Building(n) : n \in Final} = {".building-swap", ".building-restore", ".building-final"}
    BY <1>1, <1>2
  <1> QED BY <1>1, <1>2, <1>3 DEF StagingNames, Names

\* What a file operation inside staging leaves under the two names.
LEMMA BuiltNames ==
  ASSUME Sound, NEW name \in Final, NEW good, NEW body, NEW meta, NEW kept, NEW built,
         fs \in survivors, FilesSound,
         KeepOrBuild(name, good, body, meta, kept, built)
  PROVE  /\ survivors' = {fs'} /\ UNCHANGED <<db, refused>>
         /\ \/ /\ There(name) /\ good
               /\ Proceed(kept, cur, NoObs, Id(name))
               /\ Id(name)' = Id(name) /\ ~There(Building(name))'
            \/ Proceed(built, cur, obs, made) /\ There(Building(name))'
  <1> DEFINE b     == Building(name)
             clean == [fs EXCEPT ![b] = Nothing]
             new   == [id |-> [ino |-> nextIno, meta |-> meta, ctime |-> 0], body |-> body]
             g     == [clean EXCEPT ![name] = Nothing, ![b] = new]
  <1>1. fs \in [Names -> File] /\ nextIno > 0
    BY DEF Sound, DiskType, FilesSound
  <1>2. name \in Names /\ b \in Names /\ b # name
    BY ReplaceableNames
  <1>3. survivors' = {fs'} /\ UNCHANGED <<db, refused>>
    BY DEF KeepOrBuild, Synced
  <1>4. CASE There(name) /\ good
    <2>1. fs' = clean /\ Proceed(kept, cur, NoObs, Id(name))
      BY <1>4 DEF KeepOrBuild, Synced
    <2>2. fs'[name] = fs[name] /\ fs'[b] = Nothing
      BY <1>1, <1>2, <2>1
    <2>3. Id(name)' = Id(name) /\ ~There(Building(name))'
      BY <2>2 DEF Id, There, Nothing, NoId, Exists
    <2> QED BY <1>3, <1>4, <2>1, <2>3
  <1>5. CASE ~(There(name) /\ good)
    <2>1. fs' = g /\ Goto(built)
      BY <1>5 DEF KeepOrBuild, Synced
    <2>2. fs'[b] = new
      BY <1>1, <1>2, <2>1
    <2>3. There(Building(name))'
      BY <1>1, <2>2 DEF There, Id, Exists
    <2> QED BY <1>3, <2>1, <2>3 DEF Goto
  <1> QED BY <1>4, <1>5

LEMMA PromotedNames ==
  ASSUME Sound, NEW name \in Final, NEW label, There(Building(name)), Promote(name, label)
  PROVE  /\ survivors' = {fs'} /\ UNCHANGED <<db, refused>>
         /\ \E id : /\ Proceed(label, cur, NoObs, id) /\ Exists(id)
                    /\ Id(name)' = id /\ ~There(Building(name))'
  <1> DEFINE b    == Building(name)
             file == Renamed(fs[b])
  <1>1. fs \in [Names -> File] /\ name \in Names /\ b \in Names /\ b # name
    BY ReplaceableNames DEF Sound, DiskType
  <1>2. /\ fs' = [fs EXCEPT ![name] = file, ![b] = Nothing]
        /\ survivors' = {fs'} /\ UNCHANGED <<db, refused>> /\ Proceed(label, cur, NoObs, file.id)
    BY DEF Promote, Synced
  <1>3. Exists(file.id)
    BY <1>1, RenamedFile DEF There, Id
  <1>4. fs'[name] = file /\ fs'[b] = Nothing
    BY <1>1, <1>2
  <1>5. Id(name)' = file.id /\ ~There(Building(name))'
    BY <1>4 DEF Id, There, Nothing, NoId, Exists
  <1> QED BY <1>2, <1>3, <1>5

\* The placeholder: prepared, and announced.
LEMMA PlaceholderKept ==
  ASSUME IInv, Kept, UNCHANGED world,
         BeginInstall \/ BuildPlaceholder \/ PromotePlaceholder \/ CommitInstallIntent
  PROVE  Kept'
  <1>1. pc \in InHand /\ pc \in {"beginInstall", "buildPlaceholder", "promotePlaceholder",
                                 "commitInstallIntent"}
    BY DEF BeginInstall, BuildPlaceholder, PromotePlaceholder, CommitInstallIntent, InHand, Labels
  <1>2. /\ Sound /\ cur = db /\ cur \in Entry /\ RowSound(cur) /\ cur.blocked = "no"
        /\ Place(pc, cur, obs, made) /\ made \in Identity /\ cur.phase = "captured"
    BY <1>1, InHandFacts DEF Place
  <1>3. IsPresent(cur) /\ cur.phase # "missing"
    BY <1>2 DEF IsPresent
  <1>4. /\ "swap" \in Final /\ "swap" \in Replaceable(db) /\ Building("swap") \in Replaceable(db)
        /\ Replaceable(db) = {"swap", Building("swap")}
    BY <1>2 DEF Replaceable, Final
  <1>5. Stored /\ RecoverableCopy /\ FilesSound /\ fs \in survivors
    BY DEF Kept, Stored, FilesSound
  <1>6. CASE BeginInstall
    <2>1. Pass("buildPlaceholder") \/ Abandon \/ Block("source")
      BY <1>6 DEF BeginInstall
    <2>2. Place("buildPlaceholder", cur, obs, made) /\ "buildPlaceholder" \in InHand \ GroundLabels
      BY <1>2 DEF Place, FinLabels, InHand, Labels, GroundLabels
    <2> QED BY <1>1, <1>3, <2>1, <2>2, CheckKept, ConflictKept, ReasonsInUse
  <1>7. CASE BuildPlaceholder
    <2>1. KeepOrBuild("swap", fs["swap"].body = Empty, Empty, 0, "commitInstallIntent",
                      "promotePlaceholder")
      BY <1>7 DEF BuildPlaceholder
    <2>2. Empty \in Nat /\ 0 \in Nat
      BY DEF Empty
    <2>3. Stored' /\ RecoverableCopy'
      BY <1>2, <1>3, <1>4, <1>5, <2>1, <2>2, KeepOrBuildStored DEF KeepOrBuild
    <2>4. /\ survivors' = {fs'} /\ UNCHANGED <<db, refused>>
          /\ \/ /\ There("swap") /\ Proceed("commitInstallIntent", cur, NoObs, Id("swap"))
                /\ Id("swap")' = Id("swap") /\ ~There(Building("swap"))'
             \/ Proceed("promotePlaceholder", cur, obs, made) /\ There(Building("swap"))'
      BY <1>2, <1>4, <1>5, <2>1, BuiltNames
    <2>5. CASE /\ There("swap") /\ Proceed("commitInstallIntent", cur, NoObs, Id("swap"))
               /\ Id("swap")' = Id("swap") /\ ~There(Building("swap"))'
      <3>1. Place("commitInstallIntent", cur, NoObs, Id("swap")) /\ "commitInstallIntent" \in InHand
        BY <1>2, <2>5 DEF Place, FinLabels, InHand, Labels, There
      <3>2. Ground'
        BY <2>5 DEF Ground, Proceed
      <3> QED BY <1>1, <1>2, <1>3, <2>3, <2>4, <2>5, <3>1, <3>2, FileKept
    <2>6. CASE Proceed("promotePlaceholder", cur, obs, made) /\ There(Building("swap"))'
      <3>1. Place("promotePlaceholder", cur, obs, made) /\ "promotePlaceholder" \in InHand
        BY <1>2 DEF Place, FinLabels, InHand, Labels
      <3>2. Ground'
        BY <2>6 DEF Ground, Proceed
      <3> QED BY <1>1, <1>2, <1>3, <2>3, <2>4, <2>6, <3>1, <3>2, FileKept
    <2> QED BY <2>4, <2>5, <2>6
  <1>8. CASE PromotePlaceholder
    <2>1. Promote("swap", "commitInstallIntent") /\ There(Building("swap"))
      BY <1>8 DEF PromotePlaceholder, Kept, Ground
    <2>2. Stored' /\ RecoverableCopy'
      BY <1>2, <1>3, <1>4, <1>5, <2>1, PromoteStored DEF Promote
    <2>3. survivors' = {fs'} /\ UNCHANGED <<db, refused>>
      BY <1>2, <1>4, <2>1, PromotedNames
    <2>4. PICK id : /\ Proceed("commitInstallIntent", cur, NoObs, id) /\ Exists(id)
                    /\ Id("swap")' = id /\ ~There(Building("swap"))'
      BY <1>2, <1>4, <2>1, PromotedNames
    <2>5. Place("commitInstallIntent", cur, NoObs, id) /\ "commitInstallIntent" \in InHand
      BY <1>2, <2>4 DEF Place, FinLabels, InHand, Labels
    <2>6. Ground'
      BY <2>4 DEF Ground, Proceed
    <2> QED BY <1>1, <1>2, <1>3, <2>2, <2>3, <2>4, <2>5, <2>6, FileKept
  <1>9. CASE CommitInstallIntent
    <2> DEFINE next == [cur EXCEPT !.phase = "installIntent", !.placeholder = made]
    <2>1. pc = "commitInstallIntent" /\ Commit(next, "installObserve")
      BY <1>9 DEF CommitInstallIntent
    <2>2. Exists(made) /\ Id("swap") = made /\ ~There(Building("swap")) /\ survivors = {fs}
      BY <1>2, <2>1 DEF Place, Kept, Ground, Stored, OneNamespace
    <2>3. next \in Entry /\ Accepts(cur, cur, next) /\ RowSound(next)
      BY <1>2, <1>3, <2>2, InstallIntentAdmitted
    <2>4. /\ next.phase = "installIntent" /\ next.body = cur.body
          /\ next.logical = cur.logical /\ next.placeholder = made
          /\ next.detached = cur.detached
      BY <1>2 DEF Entry
    <2> HIDE DEF next
    <2>5. Place("installObserve", next, NoObs, NoId) /\ "installObserve" \notin GroundLabels
      BY <2>4 DEF Place, FinLabels, GroundLabels
    <2>6. Agreed' /\ db' = next /\ pc' = "installObserve" /\ UNCHANGED disk
      BY <1>2, <2>1, <2>3, <2>5, CommitMade
    <2>7. UNCHANGED <<fs, survivors, exposed, nextIno, precious>>
      BY <2>6 DEF disk, world
    <2>8. Occupied(db) = {"swap", Building("swap")} /\ Occupied(db') = {"swap"}
          /\ Replaceable(db') = {}
      BY <1>2, <2>4, <2>6 DEF Occupied, Replaceable
    <2>9. Tidy'
      BY <2>2, <2>7, <2>8 DEF Kept, Stored, Tidy, There, Id
    <2>10. Disposable'
      BY <2>8 DEF Disposable
    <2>11. OneNamespace'
      BY <2>4, <2>6 DEF OneNamespace
    <2>12. PlaceholdersEmpty'
      <3>1. /\ fs["swap"].id = made /\ made.meta = 0 /\ fs["swap"].body = Empty
            /\ made.ino < nextIno
        <4>1. fs["swap"].id = made
          BY <2>2 DEF Id
        <4>2. made.meta = 0 /\ fs["swap"].body = Empty
          BY <1>2, <1>4, <1>5, <2>2, <4>1 DEF Stored, Disposable
        <4>3. made.ino < nextIno
          BY <1>5, <4>1, FinalNames DEF FilesSound
        <4> QED BY <4>1, <4>2, <4>3
      <3>2. \A n \in Names : fs[n].id.ino = made.ino => n = "swap"
        BY <1>5, <2>2, <3>1, FinalNames DEF FilesSound, Exists
      <3> QED BY <2>2, <2>4, <2>6, <2>7, <3>1, <3>2 DEF PlaceholdersEmpty
    <2>13. DetachedSpent'
      BY <1>2, <2>4, <2>6 DEF RowSound, DetachedSpent
    <2>14. IsPresent(db')
      BY <2>4, <2>6 DEF IsPresent
    <2>15. Ground' /\ pc' \notin {"commitCaptured", "deleteMarker"}
      BY <2>5, <2>6, GroundElsewhere
    <2> QED BY <1>2, <1>3, <2>4, <2>6, <2>9, <2>10, <2>11, <2>12, <2>13, <2>14, <2>15, RowKept
  <1> QED BY <1>6, <1>7, <1>8, <1>9

\* Installation: the exchange, its verification, and its commit.
LEMMA InstallingKept ==
  ASSUME IInv, Kept, UNCHANGED world,
         \/ InstallObserve \/ InstallRename \/ InstallReobserve \/ InstallVerify \/ InstallSync
         \/ CommitInstalled
  PROVE  Kept'
  <1>1. pc \in InHand /\ pc \in {"installObserve", "installRename", "installReobserve",
                                 "installVerify", "installSync", "commitInstalled"}
    BY DEF InstallObserve, InstallRename, InstallReobserve, InstallVerify, InstallSync,
           CommitInstalled, InHand, Labels
  <1>2. /\ Sound /\ cur = db /\ cur \in Entry /\ RowSound(cur) /\ cur.blocked = "no"
        /\ Place(pc, cur, obs, made) /\ obs \in Obs /\ cur.phase = "installIntent"
    BY <1>1, InHandFacts DEF Place
  <1>3. IsPresent(cur) /\ cur.phase \notin {"missing", "captured"}
    BY <1>2 DEF IsPresent
  <1>4. Occupied(db) = {"swap"} /\ Replaceable(db) = {} /\ "swap" \in StagingNames
    BY <1>2, FinalNames DEF Replaceable, Occupied
  <1>5. Stored /\ RecoverableCopy /\ FilesSound /\ fs \in survivors
    BY DEF Kept, Stored, FilesSound
  <1>6. CASE InstallObserve \/ InstallReobserve
    <2>1. \/ Pass("installRename")
          \/ Abandon
          \/ Block("install")
          \/ After(InstallAfter(cur), Seen("swap"))
             /\ Still /\ Proceed("installVerify", cur, Seen("swap"), NoId)
      BY <1>6 DEF InstallObserve, InstallReobserve
    <2>2. Place("installRename", cur, obs, made) /\ "installRename" \in InHand \ GroundLabels
      BY <1>2 DEF Place, FinLabels, InHand, Labels, GroundLabels
    <2>3. CASE /\ After(InstallAfter(cur), Seen("swap"))
               /\ Still /\ Proceed("installVerify", cur, Seen("swap"), NoId)
      <3>1. Place("installVerify", cur, Seen("swap"), NoId)
        BY <1>2, <2>3 DEF Place, FinLabels
      <3>2. /\ db' = db /\ ~refused' /\ RowSound(db') /\ UNCHANGED disk
            /\ pc' = "installVerify" /\ obs' = Seen("swap")
        BY <2>3 DEF Still, Proceed, Kept, Agreed
      <3>3. Agreed'
        BY <1>2, <2>3, <3>1, <3>2, ProceedAgreed
      <3>4. fs["swap"].id.ctime \in Nat /\ fs' = fs
        BY <1>2, <3>2, FinalNames DEF Sound, DiskType, File, Identity, disk
      <3>5. Ground'
        BY <3>2, <3>4 DEF Ground, Tracked, Seen, Id
      <3> QED BY <3>2, <3>3, <3>5, QuietOnward
    <2> QED BY <1>1, <1>3, <2>1, <2>2, <2>3, CheckKept, ConflictKept, ReasonsInUse
  <1>7. CASE InstallRename
    <2>1. CASE Abandon
      BY <2>1, AbandonKept
    <2>2. CASE ~Abandon
      <3>1. /\ IF Exists(cur.original) THEN Exchange("swap") ELSE MoveFile("swap", "target")
            /\ There("target") = Exists(cur.original)
            /\ Proceed("installReobserve", cur, obs, made) /\ UNCHANGED <<db, refused>>
        BY <1>7, <2>2 DEF InstallRename, Goto
      <3>2. Stored' /\ RecoverableCopy'
        <4>1. CASE Exists(cur.original)
          BY <1>2, <1>3, <1>4, <1>5, <3>1, <4>1, ExchangeStored
        <4>2. CASE ~Exists(cur.original)
          <5>1. "target" \in Names /\ "swap" \in Names /\ "target" \notin StagingNames
                /\ "swap" # "target" /\ ~There("target") /\ MoveFile("swap", "target")
            BY <3>1, <4>2, FinalNames
          <5> QED BY <1>2, <1>3, <1>4, <1>5, <3>1, <5>1, MoveStored
        <4> QED BY <4>1, <4>2
      <3>3. Place("installReobserve", cur, obs, made)
            /\ "installReobserve" \in InHand \ GroundLabels
        BY <1>2 DEF Place, FinLabels, InHand, Labels, GroundLabels
      <3>4. Ground'
        BY <3>1, <3>3, GroundElsewhere DEF Proceed
      <3> QED BY <1>1, <1>2, <1>3, <3>1, <3>2, <3>3, <3>4, FileKept
    <2> QED BY <2>1, <2>2
  <1>8. CASE InstallVerify
    <2>1. CASE Block("snapshot")
      BY <1>1, <1>3, <2>1, ConflictKept, ReasonsInUse
    <2>2. CASE ~Block("snapshot")
      <3>1. /\ Exists(cur.original) => Matches("swap", cur.body, cur.meta)
            /\ Still /\ Proceed("installSync", cur, obs, made) /\ pc = "installVerify"
        BY <1>8, <2>2 DEF InstallVerify, Pass, Goto
      <3>2. Place("installSync", cur, obs, made)
        BY <1>2, <3>1 DEF Place, FinLabels
      <3>3. /\ db' = db /\ ~refused' /\ RowSound(db') /\ UNCHANGED disk
            /\ pc' = "installSync" /\ obs' = obs /\ cur' = cur
        BY <3>1 DEF Still, Proceed, Kept, Agreed
      <3>4. Agreed'
        BY <1>2, <3>1, <3>2, <3>3, ProceedAgreed
      <3>5. Ground'
        <4>1. fs' = fs /\ Tracked("swap")
          BY <3>1, <3>3 DEF Kept, Ground, disk
        <4> QED BY <3>1, <3>3, <4>1 DEF Ground, Verified, Tracked, Matches
      <3> QED BY <3>3, <3>4, <3>5, QuietOnward
    <2> QED BY <2>1, <2>2
  <1>9. CASE InstallSync
    <2>1. CASE Abandon
      BY <2>1, AbandonKept
    <2>2. CASE ~Abandon
      <3>1. /\ SyncWith /\ Proceed("commitInstalled", cur, obs, made)
            /\ UNCHANGED <<db, refused>> /\ pc = "installSync"
        BY <1>9, <2>2 DEF InstallSync, Goto
      <3>2. Stored' /\ RecoverableCopy'
        BY <1>5, <3>1, SyncStored
      <3>3. Place("commitInstalled", cur, obs, made) /\ "commitInstalled" \in InHand
        BY <1>2, <3>1 DEF Place, FinLabels, InHand, Labels
      <3>4. Ground'
        <4>1. fs' = fs /\ survivors' = {fs'} /\ (Exists(cur.original) => Verified("swap"))
          BY <3>1 DEF Kept, Ground, SyncWith
        <4>2. pc' = "commitInstalled" /\ obs' = obs /\ cur' = cur
          BY <3>1 DEF Proceed
        <4> QED BY <4>1, <4>2 DEF Ground, Verified, Tracked
      <3> QED BY <1>1, <1>2, <1>3, <3>1, <3>2, <3>3, <3>4, FileKept
    <2> QED BY <2>1, <2>2
  <1>10. CASE CommitInstalled
    <2> DEFINE next == [cur EXCEPT !.phase = "installed", !.placeholder = obs.t,
                                   !.detached = obs.s]
    <2>1. pc = "commitInstalled" /\ Commit(next, "requireInstalled")
      BY <1>10 DEF CommitInstalled
    <2>2. After(InstallAfter(cur), obs)
      BY <1>2, <2>1 DEF Place
    <2>3. next \in Entry /\ Accepts(cur, cur, next) /\ RowSound(next)
      BY <1>2, <1>3, <2>2, InstalledAdmitted
    <2>4. /\ next.phase = "installed" /\ next.body = cur.body
          /\ next.logical = cur.logical /\ next.placeholder = obs.t
          /\ next.detached = obs.s
      BY <1>2 DEF Entry
    <2> HIDE DEF next
    <2>5. Place("requireInstalled", next, NoObs, NoId) /\ "requireInstalled" \notin GroundLabels
      BY <2>4 DEF Place, FinLabels, GroundLabels
    <2>6. Agreed' /\ db' = next /\ pc' = "requireInstalled" /\ UNCHANGED disk
      BY <1>2, <2>1, <2>3, <2>5, CommitMade
    <2>7. UNCHANGED <<fs, survivors, exposed, nextIno, precious>>
      BY <2>6 DEF disk, world
    <2>8. Occupied(db') = {"swap"} /\ Replaceable(db') = {}
      BY <2>4, <2>6 DEF Occupied, Replaceable
    <2>9. Tidy' /\ Disposable' /\ OneNamespace'
      BY <1>4, <2>4, <2>6, <2>7, <2>8 DEF Kept, Stored, Tidy, Disposable, OneNamespace
    <2>10. PlaceholdersEmpty'
      <3>1. obs.t.ino = cur.placeholder.ino /\ obs.t.meta = cur.placeholder.meta
        BY <2>2 DEF After, InstallAfter, SameFileAfterRename
      <3> QED BY <1>2, <2>4, <2>6, <2>7, <3>1
              DEF Kept, Stored, PlaceholdersEmpty, Exists
    <2>11. DetachedSpent'
      <3> SUFFICES ASSUME Exists(obs.s)
                   PROVE  /\ obs.s.ino < nextIno
                          /\ \A f \in survivors, n \in Names :
                               f[n].id.ino = obs.s.ino =>
                                 /\ f[n].id.ctime >= obs.s.ctime
                                 /\ f[n].id.ctime = obs.s.ctime
                                      => f[n].body \notin precious \ {cur.body}
        BY <2>4, <2>6, <2>7 DEF DetachedSpent
      <3>1. Exists(cur.original)
        BY <2>2 DEF After, InstallAfter, SameFileAfterRename, Exists
      <3>2. survivors = {fs} /\ Verified("swap")
        BY <2>1, <3>1 DEF Kept, Ground
      <3>3. obs.s.ino < nextIno
        BY <1>5, <3>2, FinalNames DEF FilesSound, Verified, Tracked
      <3>4. \A n \in Names : fs[n].id.ino = obs.s.ino => n = "swap"
        BY <1>5, <3>2, FinalNames DEF FilesSound, Verified, Tracked, Exists
      <3> QED BY <3>2, <3>3, <3>4 DEF Verified, Tracked
    <2>12. IsPresent(db')
      BY <2>4, <2>6 DEF IsPresent
    <2>13. Ground' /\ pc' \notin {"commitCaptured", "deleteMarker"}
      BY <2>5, <2>6, GroundElsewhere
    <2> QED BY <1>2, <1>3, <2>4, <2>6, <2>9, <2>10, <2>11, <2>12, <2>13, RowKept
  <1> QED BY <1>6, <1>7, <1>8, <1>9, <1>10

LEMMA InstallKept ==
  ASSUME IInv, Kept, Install, UNCHANGED world
  PROVE  Kept'
  <1>1. CASE RequireInstalled
    <2>1. pc = "requireInstalled" /\ pc \in InHand
      BY <1>1 DEF RequireInstalled, InHand, Labels
    <2>2. cur.phase = "installed"
      BY <2>1, InHandFacts DEF Place
    <2>3. PICK l \in {"beginMount", "beginRestore"} : Pass(l) \/ Block("installed")
      BY <1>1 DEF RequireInstalled, AfterInstall
    <2>4. IsPresent(cur) /\ Place(l, cur, obs, made) /\ l \in InHand \ GroundLabels
      BY <2>2 DEF IsPresent, Place, FinLabels, InHand, Labels, GroundLabels
    <2> QED BY <2>1, <2>3, <2>4, CheckKept, ConflictKept, ReasonsInUse
  <1> QED BY <1>1, CaptureKept, CapturedKept, PlaceholderKept, InstallingKept DEF Install

-----------------------------------------------------------------------------
(* Restoration                                                             *)

LEMMA RestoreLoadKept ==
  ASSUME IInv, Kept, RestoreLoad, UNCHANGED world
  PROVE  Kept'
  <1>1. \/ Still /\ Exit
        \/ Abandon
        \/ db.phase \in {"installed", "stored"} /\ Loaded("beginRestore")
        \/ db.phase = "storeIntent" /\ Loaded("storeObserve")
        \/ Replay
    BY DEF RestoreLoad
  <1>2. /\ db.phase \in {"installed", "stored"} => Place("beginRestore", db, NoObs, NoId)
        /\ db.phase = "storeIntent" => Place("storeObserve", db, NoObs, NoId)
    BY DEF Place, FinLabels
  <1>3. "beginRestore" \notin GroundLabels /\ "storeObserve" \notin GroundLabels
    BY DEF GroundLabels
  <1> QED BY <1>1, <1>2, <1>3, ExitKept, AbandonKept, LoadedKept, ReplayKept

\* The restoration is announced before any file of it is made.
LEMMA RestoreIntentKept ==
  ASSUME IInv, Kept, UNCHANGED world, BeginRestore \/ CommitRestoreIntent
  PROVE  Kept'
  <1>1. pc \in InHand /\ pc \in {"beginRestore", "commitRestoreIntent"}
    BY DEF BeginRestore, CommitRestoreIntent, InHand, Labels
  <1>2. /\ Sound /\ cur = db /\ cur \in Entry /\ RowSound(cur) /\ cur.blocked = "no"
        /\ \/ cur.phase \in {"installed", "stored"}
           \/ cur.phase = "unmountIntent" /\ cur.next = "restore"
    BY <1>1, InHandFacts DEF Place
  <1>3. IsPresent(cur)
    BY <1>2 DEF IsPresent
  <1>4. CASE BeginRestore
    <2>1. Pass("commitRestoreIntent") \/ Block("stored") \/ Block("installed")
      BY <1>4 DEF BeginRestore
    <2>2. Place("commitRestoreIntent", cur, obs, made)
          /\ "commitRestoreIntent" \in InHand \ GroundLabels
      BY <1>2 DEF Place, FinLabels, InHand, Labels, GroundLabels
    <2> QED BY <1>1, <1>3, <2>1, <2>2, CheckKept, ConflictKept, ReasonsInUse
  <1>5. CASE CommitRestoreIntent
    <2> DEFINE next == [cur EXCEPT !.phase  = "restoreIntent",
                                   !.next   = "none",
                                   !.origin = IF cur.phase = "stored" THEN "stored"
                                                                      ELSE "installed"]
    <2>1. Commit(next, "restoreBuild")
      BY <1>5 DEF CommitRestoreIntent
    <2>2. next \in Entry /\ Accepts(cur, cur, next) /\ RowSound(next)
      BY <1>2, <1>3, RestoreIntentAdmitted
    <2>3. /\ next.phase = "restoreIntent" /\ next.body = cur.body
          /\ next.logical = cur.logical /\ next.placeholder = cur.placeholder
          /\ next.detached = cur.detached
          /\ next.origin = IF cur.phase = "stored" THEN "stored" ELSE "installed"
      BY <1>2 DEF Entry
    <2> HIDE DEF next
    <2>4. Place("restoreBuild", next, NoObs, NoId) /\ "restoreBuild" \notin GroundLabels
      BY <2>3 DEF Place, FinLabels, GroundLabels
    <2>5. Agreed' /\ db' = next /\ pc' = "restoreBuild" /\ UNCHANGED disk
      BY <1>2, <2>1, <2>2, <2>4, CommitMade
    <2>6. Occupied(db) = {DetachedName(next)} /\ DetachedName(next) \in {"swap", "stored"}
      BY <1>2, <2>3 DEF Occupied, DetachedName
    <2>7. DetachedName(next) \in Occupied(db')
      BY <2>3, <2>5 DEF Occupied
    <2>8. Replaceable(db') \subseteq {"restore", ".building-restore"}
      BY <2>3, <2>5, FinalNames DEF Replaceable
    <2>9. Replaceable(db') \subseteq StagingNames \ Occupied(db)
      BY <2>6, <2>8, FinalNames
    <2>10. IsPresent(db') /\ db'.phase # "captured"
      BY <2>3, <2>5 DEF IsPresent
    <2> QED BY <1>2, <1>3, <2>3, <2>4, <2>5, <2>6, <2>7, <2>9, <2>10, RowOnward
  <1> QED BY <1>4, <1>5

\* The file to restore: built, verified, and recorded.
LEMMA RestoreFileKept ==
  ASSUME IInv, Kept, UNCHANGED world, RestoreBuild \/ PromoteRestore \/ CommitRestoreFile
  PROVE  Kept'
  <1>1. pc \in InHand /\ pc \in {"restoreBuild", "promoteRestore", "commitRestoreFile"}
    BY DEF RestoreBuild, PromoteRestore, CommitRestoreFile, InHand, Labels
  <1>2. /\ Sound /\ cur = db /\ cur \in Entry /\ RowSound(cur) /\ cur.blocked = "no"
        /\ Place(pc, cur, obs, made) /\ made \in Identity /\ cur.phase = "restoreIntent"
    BY <1>1, InHandFacts DEF Place
  <1>3. IsPresent(cur) /\ cur.phase # "missing" /\ cur.phase # "captured"
    BY <1>2 DEF IsPresent
  <1>4. cur.logical /\ ~Exists(cur.restore) =>
          /\ "restore" \in Final /\ "restore" \in Replaceable(db)
          /\ Building("restore") \in Replaceable(db)
    BY <1>2 DEF Replaceable, Final
  <1>5. Stored /\ RecoverableCopy /\ FilesSound /\ fs \in survivors
    BY DEF Kept, Stored, FilesSound
  <1>6. CASE RestoreBuild /\ cur.logical /\ ~Exists(cur.restore)
    <2>1. KeepOrBuild("restore", Matches("restore", cur.body, cur.meta), cur.body, cur.meta,
                      "commitRestoreFile", "promoteRestore")
      BY <1>6 DEF RestoreBuild
    <2>2. cur.body \in Nat /\ cur.meta \in Nat
      BY <1>2 DEF Entry
    <2>3. Stored' /\ RecoverableCopy'
      BY <1>2, <1>3, <1>4, <1>5, <1>6, <2>1, <2>2, KeepOrBuildStored DEF KeepOrBuild
    <2>4. /\ survivors' = {fs'} /\ UNCHANGED <<db, refused>>
          /\ \/ /\ There("restore") /\ Proceed("commitRestoreFile", cur, NoObs, Id("restore"))
                /\ ~There(Building("restore"))'
             \/ Proceed("promoteRestore", cur, obs, made) /\ There(Building("restore"))'
      BY <1>2, <1>4, <1>5, <1>6, <2>1, BuiltNames
    <2>5. CASE /\ There("restore") /\ Proceed("commitRestoreFile", cur, NoObs, Id("restore"))
               /\ ~There(Building("restore"))'
      <3>1. Place("commitRestoreFile", cur, NoObs, Id("restore"))
            /\ "commitRestoreFile" \in InHand
        BY <1>2, <1>6, <2>5 DEF Place, FinLabels, InHand, Labels, There
      <3>2. Ground'
        BY <2>4, <2>5 DEF Ground, Proceed
      <3> QED BY <1>1, <1>2, <1>3, <2>3, <2>4, <2>5, <3>1, <3>2, FileKept
    <2>6. CASE Proceed("promoteRestore", cur, obs, made) /\ There(Building("restore"))'
      <3>1. Place("promoteRestore", cur, obs, made) /\ "promoteRestore" \in InHand
        BY <1>2, <1>6 DEF Place, FinLabels, InHand, Labels
      <3>2. Ground'
        BY <2>6 DEF Ground, Proceed
      <3> QED BY <1>1, <1>2, <1>3, <2>3, <2>4, <2>6, <3>1, <3>2, FileKept
    <2> QED BY <2>4, <2>5, <2>6
  <1>7. CASE RestoreBuild /\ ~(cur.logical /\ ~Exists(cur.restore))
    <2>1. /\ Synced([fs EXCEPT ![Building("restore")] = Nothing]) /\ nextIno' = nextIno
          /\ UNCHANGED <<db, refused>> /\ Proceed("restoreObserve", cur, obs, made)
      BY <1>7 DEF RestoreBuild, Goto
    <2>2. Building("restore") \notin Occupied(db) /\ Building("restore") \in StagingNames
      BY <1>2, <1>7, FinalNames DEF Occupied, DetachedName
    <2>3. ~There(Building("restore"))
      BY <1>5, <2>2 DEF Stored, Tidy, There, Id
    <2>4. Stored' /\ RecoverableCopy'
      BY <1>2, <1>3, <1>5, <2>1, <2>2, <2>3, RemoveStored
    <2>5. Place("restoreObserve", cur, obs, made) /\ "restoreObserve" \in InHand \ GroundLabels
      BY <1>2, <1>7 DEF Place, FinLabels, InHand, Labels, GroundLabels
    <2>6. Ground'
      BY <2>1, <2>5, GroundElsewhere DEF Proceed
    <2> QED BY <1>1, <1>2, <1>3, <2>1, <2>4, <2>5, <2>6, FileKept
  <1>8. CASE PromoteRestore
    <2>1. Promote("restore", "commitRestoreFile") /\ There(Building("restore"))
          /\ cur.logical /\ ~Exists(cur.restore)
      BY <1>2, <1>8 DEF PromoteRestore, Kept, Ground, Place
    <2>2. Stored' /\ RecoverableCopy'
      BY <1>2, <1>3, <1>4, <1>5, <2>1, PromoteStored DEF Promote
    <2>3. survivors' = {fs'} /\ UNCHANGED <<db, refused>>
      BY <1>2, <1>4, <2>1, PromotedNames
    <2>4. PICK id : /\ Proceed("commitRestoreFile", cur, NoObs, id) /\ Exists(id)
                    /\ ~There(Building("restore"))'
      BY <1>2, <1>4, <2>1, PromotedNames
    <2>5. Place("commitRestoreFile", cur, NoObs, id) /\ "commitRestoreFile" \in InHand
      BY <1>2, <2>1, <2>4 DEF Place, FinLabels, InHand, Labels
    <2>6. Ground'
      BY <2>3, <2>4 DEF Ground, Proceed
    <2> QED BY <1>1, <1>2, <1>3, <2>2, <2>3, <2>4, <2>5, <2>6, FileKept
  <1>9. CASE CommitRestoreFile
    <2> DEFINE next == [cur EXCEPT !.restore = made]
    <2>1. pc = "commitRestoreFile" /\ Commit(next, "restoreObserve")
      BY <1>9 DEF CommitRestoreFile
    <2>2. Exists(made) /\ cur.logical /\ ~Exists(cur.restore)
          /\ ~There(Building("restore")) /\ survivors = {fs}
      BY <1>2, <2>1 DEF Place, Kept, Ground
    <2>3. next \in Entry /\ Accepts(cur, cur, next) /\ RowSound(next)
      BY <1>2, <1>3, <2>2, RestoreFileAdmitted
    <2>4. /\ next.phase = "restoreIntent" /\ next.body = cur.body
          /\ next.logical = cur.logical /\ next.placeholder = cur.placeholder
          /\ next.detached = cur.detached /\ next.origin = cur.origin /\ next.restore = made
      BY <1>2 DEF Entry
    <2> HIDE DEF next
    <2>5. Place("restoreObserve", next, NoObs, NoId) /\ "restoreObserve" \notin GroundLabels
      BY <2>2, <2>4 DEF Place, FinLabels, GroundLabels
    <2>6. Agreed' /\ db' = next /\ pc' = "restoreObserve" /\ UNCHANGED disk
      BY <1>2, <2>1, <2>3, <2>5, CommitMade
    <2>7. UNCHANGED <<fs, survivors, exposed, nextIno, precious>>
      BY <2>6 DEF disk, world
    <2>8. Occupied(db) = {DetachedName(cur), "restore", Building("restore")}
      BY <1>2, <2>2 DEF Occupied
    <2>9. Occupied(db') = {DetachedName(cur), "restore"}
      BY <2>2, <2>4, <2>6 DEF Occupied, DetachedName
    <2>10. Replaceable(db') = {}
      BY <2>2, <2>4, <2>6 DEF Replaceable
    <2>11. Tidy'
      BY <2>2, <2>7, <2>8, <2>9 DEF Kept, Stored, Tidy, There, Id
    <2>12. Disposable' /\ OneNamespace'
      BY <2>4, <2>6, <2>10 DEF Disposable, OneNamespace
    <2>13. PlaceholdersEmpty' /\ DetachedSpent'
      BY <1>2, <1>5, <2>4, <2>6, RecordedKept
    <2>14. IsPresent(db')
      BY <2>4, <2>6 DEF IsPresent
    <2>15. Ground' /\ pc' \notin {"commitCaptured", "deleteMarker"}
      BY <2>5, <2>6, GroundElsewhere
    <2> QED BY <1>2, <1>3, <2>4, <2>6, <2>11, <2>12, <2>13, <2>14, <2>15, RowKept
  <1> QED BY <1>6, <1>7, <1>8, <1>9

\* The file put in its place, verified, and the place recorded.
LEMMA RestoringKept ==
  ASSUME IInv, Kept, UNCHANGED world,
         \/ RestoreObserve \/ RestoreRename \/ RestoreReobserve \/ RestoreVerify \/ RestoreSync
         \/ CommitRestored
  PROVE  Kept'
  <1>1. pc \in InHand /\ pc \in {"restoreObserve", "restoreRename", "restoreReobserve",
                                 "restoreVerify", "restoreSync", "commitRestored"}
    BY DEF RestoreObserve, RestoreRename, RestoreReobserve, RestoreVerify, RestoreSync,
           CommitRestored, InHand, Labels
  <1>2. /\ Sound /\ cur = db /\ cur \in Entry /\ RowSound(cur) /\ cur.blocked = "no"
        /\ Place(pc, cur, obs, made) /\ obs \in Obs /\ cur.phase = "restoreIntent"
        /\ cur.logical => Exists(cur.restore)
        /\ cur.origin \in {"installed", "stored"}
    BY <1>1, InHandFacts DEF Place, RowSound
  <1>3. IsPresent(cur) /\ cur.phase \notin {"missing", "captured"}
    BY <1>2 DEF IsPresent
  <1>4. /\ Occupied(db) = {DetachedName(cur), "restore"} /\ Replaceable(db) = {}
        /\ "restore" \in StagingNames
    BY <1>2, FinalNames DEF Replaceable, Occupied
  <1>5. Stored /\ RecoverableCopy /\ FilesSound /\ fs \in survivors
    BY DEF Kept, Stored, FilesSound
  <1>6. CASE RestoreObserve \/ RestoreReobserve
    <2>1. \/ Pass("restoreRename") /\ Seen("restore") = RestoreBefore(cur)
          \/ Abandon
          \/ Block("restore")
          \/ After(RestoreAfter(cur), Seen("restore"))
             /\ Still /\ Proceed("restoreVerify", cur, Seen("restore"), NoId)
      BY <1>6 DEF RestoreObserve, RestoreReobserve
    <2>2. CASE Pass("restoreRename") /\ Seen("restore") = RestoreBefore(cur)
      <3>1. Still /\ Proceed("restoreRename", cur, obs, made)
        BY <2>2 DEF Pass, Goto
      <3>2. Place("restoreRename", cur, obs, made)
        BY <1>2 DEF Place, FinLabels
      <3>3. /\ db' = db /\ ~refused' /\ RowSound(db') /\ UNCHANGED disk
            /\ pc' = "restoreRename" /\ cur' = cur
        BY <3>1 DEF Still, Proceed, Kept, Agreed
      <3>4. Agreed'
        BY <1>2, <3>1, <3>2, <3>3, ProceedAgreed
      <3>5. Ground'
        <4>1. Id("restore") = cur.restore /\ fs' = fs
          BY <2>2, <3>3 DEF Seen, RestoreBefore, disk
        <4> QED BY <3>3, <4>1 DEF Ground, There, Id
      <3> QED BY <3>3, <3>4, <3>5, QuietOnward
    <2>3. CASE /\ After(RestoreAfter(cur), Seen("restore"))
               /\ Still /\ Proceed("restoreVerify", cur, Seen("restore"), NoId)
      <3>1. Place("restoreVerify", cur, Seen("restore"), NoId) /\ "restoreVerify" \notin GroundLabels
        BY <1>2, <2>3 DEF Place, FinLabels, GroundLabels
      <3> QED BY <1>2, <2>3, <3>1, ProceedKept
    <2> QED BY <1>1, <1>3, <2>1, <2>2, <2>3, AbandonKept, ConflictKept, ReasonsInUse
  <1>7. CASE RestoreRename
    <2>1. CASE Abandon
      BY <2>1, AbandonKept
    <2>2. CASE ~Abandon
      <3>1. /\ IF cur.origin = "stored" THEN MoveFile("restore", "target")
               ELSE IF Exists(cur.restore) THEN Exchange("restore")
               ELSE MoveFile("target", "restore")
            /\ There("target") = (cur.origin = "installed")
            /\ Proceed("restoreReobserve", cur, obs, made) /\ UNCHANGED <<db, refused>>
        BY <1>7, <2>2 DEF RestoreRename, Goto
      <3>2. "target" \in Names /\ "restore" \in Names /\ "target" \notin StagingNames
            /\ "restore" # "target"
        BY FinalNames
      <3>3. Stored' /\ RecoverableCopy'
        <4>1. CASE cur.origin = "stored"
          <5>1. ~There("target") /\ MoveFile("restore", "target")
            BY <3>1, <4>1
          <5> QED BY <1>2, <1>3, <1>4, <1>5, <3>1, <3>2, <5>1, MoveStored
        <4>2. CASE cur.origin # "stored" /\ Exists(cur.restore)
          BY <1>2, <1>3, <1>4, <1>5, <3>1, <4>2, ExchangeStored
        <4>3. CASE cur.origin # "stored" /\ ~Exists(cur.restore)
          <5>1. ~There("restore") /\ MoveFile("target", "restore")
            BY <1>2, <1>7, <3>1, <4>3 DEF Kept, Ground, RestoreRename
          <5> QED BY <1>2, <1>3, <1>4, <1>5, <3>1, <3>2, <5>1, MoveStored
        <4> QED BY <4>1, <4>2, <4>3
      <3>4. Place("restoreReobserve", cur, obs, made)
            /\ "restoreReobserve" \in InHand \ GroundLabels
        BY <1>2 DEF Place, FinLabels, InHand, Labels, GroundLabels
      <3>5. Ground'
        BY <3>1, <3>4, GroundElsewhere DEF Proceed
      <3> QED BY <1>1, <1>2, <1>3, <3>1, <3>3, <3>4, <3>5, FileKept
    <2> QED BY <2>1, <2>2
  <1>8. CASE RestoreVerify
    <2>1. \/ Abandon
          \/ Block("verify") \/ Block("reappeared")
          \/ Still /\ Proceed("restoreSync", cur, obs, made)
          \/ /\ SameFileAfterRename(cur.restore, Id("target"))
             /\ Still /\ Proceed("restoreSync", cur, [obs EXCEPT !.t = Id("target")], NoId)
      BY <1>8 DEF RestoreVerify, Pass, Goto
    <2>2. After(RestoreAfter(cur), obs) /\ "restoreSync" \notin GroundLabels
          /\ "restoreSync" \notin {"capture", "commitCaptured"}
      BY <1>2, <1>8 DEF RestoreVerify, Place, GroundLabels
    <2>3. Place("restoreSync", cur, obs, made)
      BY <1>2, <2>2 DEF Place, FinLabels
    <2>4. SameFileAfterRename(cur.restore, Id("target"))
            => Place("restoreSync", cur, [obs EXCEPT !.t = Id("target")], NoId)
      <3>1. [obs EXCEPT !.t = Id("target")].t = Id("target")
            /\ [obs EXCEPT !.t = Id("target")].s = obs.s
        BY <1>2 DEF Obs
      <3>2. SameFileAfterRename(cur.restore, Id("target"))
              => After(RestoreAfter(cur), [obs EXCEPT !.t = Id("target")])
        BY <2>2, <3>1 DEF After, RestoreAfter, RestoreBefore
      <3> QED BY <1>2, <3>2 DEF Place, FinLabels
    <2> QED BY <1>1, <1>2, <1>3, <2>1, <2>2, <2>3, <2>4, AbandonKept, ConflictKept,
               ProceedKept, ReasonsInUse
  <1>9. CASE RestoreSync
    <2>1. CASE Abandon
      BY <2>1, AbandonKept
    <2>2. CASE ~Abandon
      <3>1. /\ SyncWith /\ Proceed("commitRestored", cur, obs, made)
            /\ UNCHANGED <<db, refused>> /\ pc = "restoreSync"
        BY <1>9, <2>2 DEF RestoreSync, Goto
      <3>2. Stored' /\ RecoverableCopy'
        BY <1>5, <3>1, SyncStored
      <3>3. Place("commitRestored", cur, obs, made)
            /\ "commitRestored" \in InHand \ GroundLabels
        BY <1>2, <3>1 DEF Place, FinLabels, InHand, Labels, GroundLabels
      <3>4. Ground'
        BY <3>1, <3>3, GroundElsewhere DEF Proceed
      <3> QED BY <1>1, <1>2, <1>3, <3>1, <3>2, <3>3, <3>4, FileKept
    <2> QED BY <2>1, <2>2
  <1>10. CASE CommitRestored
    <2> DEFINE next == [cur EXCEPT !.phase = "restored", !.restore = obs.t,
                                   !.displaced = obs.s]
    <2>1. pc = "commitRestored" /\ Commit(next, "cleanup")
      BY <1>10 DEF CommitRestored
    <2>2. After(RestoreAfter(cur), obs)
      BY <1>2, <2>1 DEF Place
    <2>3. next \in Entry /\ Accepts(cur, cur, next) /\ RowSound(next)
      BY <1>2, <1>3, <2>2, RestoredAdmitted
    <2>4. /\ next.phase = "restored" /\ next.body = cur.body
          /\ next.logical = cur.logical /\ next.placeholder = cur.placeholder
          /\ next.detached = cur.detached /\ next.origin = cur.origin
      BY <1>2 DEF Entry
    <2> HIDE DEF next
    <2>5. Place("cleanup", next, NoObs, NoId) /\ "cleanup" \notin GroundLabels
      BY <2>4 DEF Place, FinLabels, GroundLabels
    <2>6. Agreed' /\ db' = next /\ pc' = "cleanup" /\ UNCHANGED disk
      BY <1>2, <2>1, <2>3, <2>5, CommitMade
    <2>7. Occupied(db') = {DetachedName(cur), "restore"} /\ Replaceable(db') = {}
      BY <2>4, <2>6 DEF Occupied, Replaceable, DetachedName
    <2>8. IsPresent(db') /\ db'.phase # "captured"
      BY <2>4, <2>6 DEF IsPresent
    <2> QED BY <1>2, <1>3, <1>4, <2>4, <2>5, <2>6, <2>7, <2>8, RowOnward
  <1> QED BY <1>6, <1>7, <1>8, <1>9, <1>10

LEMMA RestoreKept ==
  ASSUME IInv, Kept, Restore, UNCHANGED world
  PROVE  Kept'
  BY RestoreLoadKept, RestoreIntentKept, RestoreFileKept, RestoringKept DEF Restore

-----------------------------------------------------------------------------
(* Cleanup                                                                 *)

\* The removal is announced: what it may leave is named from then on.
LEMMA DeleteIntentKept ==
  ASSUME IInv, Kept, UNCHANGED world, Cleanup \/ CommitDelete
  PROVE  Kept'
  <1>1. pc \in InHand /\ pc \in {"cleanup", "commitDelete"}
    BY DEF Cleanup, CommitDelete, InHand, Labels
  <1>2. /\ Sound /\ cur = db /\ cur \in Entry /\ RowSound(cur) /\ cur.blocked = "no"
        /\ Place(pc, cur, obs, made) /\ cur.phase \in {"restored", "deleteIntent"}
    BY <1>1, InHandFacts DEF Place
  <1>3. IsPresent(cur)
    BY <1>2 DEF IsPresent
  <1>4. CASE Cleanup
    <2>1. \/ Block("parent") \/ Block("target")
          \/ cur.phase = "deleteIntent" /\ Pass("finalBuild")
          \/ cur.phase = "restored" /\ Pass("commitDelete")
      BY <1>4 DEF Cleanup
    <2>2. /\ cur.phase = "deleteIntent" => Place("finalBuild", cur, obs, made)
          /\ cur.phase = "restored" => Place("commitDelete", cur, obs, made)
      BY <1>2, <1>4 DEF Place, FinLabels, Cleanup
    <2>3. {"finalBuild", "commitDelete"} \subseteq InHand \ GroundLabels
      BY DEF InHand, Labels, GroundLabels
    <2> QED BY <1>1, <1>3, <2>1, <2>2, <2>3, CheckKept, ConflictKept, ReasonsInUse
  <1>5. CASE CommitDelete
    <2> DEFINE next == [cur EXCEPT !.phase = "deleteIntent"]
    <2>1. pc = "commitDelete" /\ Commit(next, "finalBuild")
      BY <1>5 DEF CommitDelete
    <2>2. cur.phase = "restored"
      BY <1>2, <2>1 DEF Place
    <2>3. next \in Entry /\ Accepts(cur, cur, next) /\ RowSound(next)
      BY <1>2, <1>3, <2>2, DeleteAdmitted
    <2>4. /\ next.phase = "deleteIntent" /\ next.body = cur.body
          /\ next.logical = cur.logical /\ next.placeholder = cur.placeholder
          /\ next.detached = cur.detached /\ next.origin = cur.origin
      BY <1>2 DEF Entry
    <2> HIDE DEF next
    <2>5. Place("finalBuild", next, NoObs, NoId) /\ "finalBuild" \notin GroundLabels
      BY <2>4 DEF Place, FinLabels, GroundLabels
    <2>6. Agreed' /\ db' = next /\ pc' = "finalBuild" /\ UNCHANGED disk
      BY <1>2, <2>1, <2>3, <2>5, CommitMade
    <2>7. Occupied(db) = {DetachedName(cur), "restore"}
          /\ DetachedName(cur) \in {"swap", "stored"}
      BY <1>2, <2>2 DEF Occupied, DetachedName
    <2>8. {DetachedName(cur), "restore"} \subseteq Occupied(db')
      BY <2>4, <2>6 DEF Occupied, DetachedName
    <2>9. Replaceable(db') = {"final", ".building-final"}
      BY <2>4, <2>6, FinalNames DEF Replaceable
    <2>10. Replaceable(db') \subseteq StagingNames \ Occupied(db)
      BY <2>7, <2>9, FinalNames
    <2>11. IsPresent(db') /\ db'.phase # "captured"
      BY <2>4, <2>6 DEF IsPresent
    <2> QED BY <1>2, <1>3, <2>4, <2>5, <2>6, <2>7, <2>8, <2>10, <2>11, RowOnward
  <1> QED BY <1>4, <1>5

\* The last copy to be made: built and verified before anything is removed.
LEMMA FinalFileKept ==
  ASSUME IInv, Kept, UNCHANGED world, FinalBuild \/ PromoteFinal
  PROVE  Kept'
  <1>1. pc \in InHand /\ pc \in {"finalBuild", "promoteFinal"}
    BY DEF FinalBuild, PromoteFinal, InHand, Labels
  <1>2. /\ Sound /\ cur = db /\ cur \in Entry /\ RowSound(cur) /\ cur.blocked = "no"
        /\ Place(pc, cur, obs, made) /\ made \in Identity /\ cur.phase = "deleteIntent"
    BY <1>1, InHandFacts DEF Place
  <1>3. IsPresent(cur) /\ cur.phase # "missing" /\ cur.phase # "captured"
    BY <1>2 DEF IsPresent
  <1>4. "final" \in Final /\ "final" \in Replaceable(db) /\ Building("final") \in Replaceable(db)
    BY <1>2 DEF Replaceable, Final
  <1>5. Stored /\ RecoverableCopy /\ FilesSound /\ fs \in survivors
    BY DEF Kept, Stored, FilesSound
  <1>6. "retire" \in InHand \ GroundLabels /\ "promoteFinal" \in InHand \ GroundLabels
    BY DEF InHand, Labels, GroundLabels
  <1>7. CASE FinalBuild /\ cur.logical
    <2>1. KeepOrBuild("final", Matches("final", cur.body, cur.meta), cur.body, cur.meta,
                      "retire", "promoteFinal")
      BY <1>7 DEF FinalBuild
    <2>2. cur.body \in Nat /\ cur.meta \in Nat
      BY <1>2 DEF Entry
    <2>3. Stored' /\ RecoverableCopy'
      BY <1>2, <1>3, <1>4, <1>5, <1>7, <2>1, <2>2, KeepOrBuildStored DEF KeepOrBuild
    <2>4. /\ UNCHANGED <<db, refused>>
          /\ \/ Proceed("retire", cur, NoObs, Id("final"))
             \/ Proceed("promoteFinal", cur, obs, made)
      BY <1>2, <1>4, <1>5, <2>1, BuiltNames
    <2>5. Place("retire", cur, NoObs, Id("final")) /\ Place("promoteFinal", cur, obs, made)
      BY <1>2, <1>7 DEF Place, FinLabels
    <2>6. pc' \notin GroundLabels
      BY <1>6, <2>4 DEF Proceed
    <2> QED BY <1>1, <1>2, <1>3, <1>6, <2>3, <2>4, <2>5, <2>6, GroundElsewhere, FileKept
  <1>8. CASE FinalBuild /\ ~cur.logical
    <2>1. Block("unexpectedFinal") \/ Pass("retire")
      BY <1>8 DEF FinalBuild
    <2>2. Place("retire", cur, obs, made)
      BY <1>2, <1>8 DEF Place, FinLabels, FinalBuild
    <2> QED BY <1>1, <1>3, <1>6, <2>1, <2>2, CheckKept, ConflictKept, ReasonsInUse
  <1>9. CASE PromoteFinal
    <2>1. Promote("final", "retire") /\ cur.logical
      BY <1>2, <1>9 DEF PromoteFinal, Place
    <2>2. Stored' /\ RecoverableCopy'
      BY <1>2, <1>3, <1>4, <1>5, <2>1, PromoteStored DEF Promote
    <2>3. UNCHANGED <<db, refused>> /\ \E id : Proceed("retire", cur, NoObs, id)
      BY <2>1 DEF Promote
    <2>4. PICK id : Proceed("retire", cur, NoObs, id)
      BY <2>3
    <2>5. Place("retire", cur, NoObs, id)
      BY <1>2, <2>1 DEF Place, FinLabels
    <2>6. pc' \notin GroundLabels
      BY <1>6, <2>4 DEF Proceed
    <2> QED BY <1>1, <1>2, <1>3, <1>6, <2>2, <2>3, <2>4, <2>5, <2>6, GroundElsewhere, FileKept
  <1> QED BY <1>7, <1>8, <1>9

\* The restored file is set aside while its copy takes its place.
LEMMA RetireKept ==
  ASSUME IInv, Kept, UNCHANGED world, Retire \/ RetireRename \/ RetireCheck
  PROVE  Kept'
  <1>1. pc \in InHand /\ pc \in {"retire", "retireRename", "retireCheck"}
    BY DEF Retire, RetireRename, RetireCheck, InHand, Labels
  <1>2. /\ Sound /\ cur = db /\ cur \in Entry /\ RowSound(cur) /\ cur.blocked = "no"
        /\ Place(pc, cur, obs, made) /\ cur.phase = "deleteIntent"
        /\ cur.logical \/ made = NoId
    BY <1>1, InHandFacts DEF Place
  <1>3. IsPresent(cur) /\ cur.phase \notin {"missing", "captured"}
    BY <1>2 DEF IsPresent
  <1>4. Stored /\ RecoverableCopy
    BY DEF Kept
  <1>5. \A l \in {"retireRename", "retireCheck", "removeDisplaced"} :
          Place(l, cur, obs, made) /\ l \in InHand
    BY <1>2 DEF Place, FinLabels, InHand, Labels
  <1>6. {"retireCheck", "removeDisplaced"} \cap GroundLabels = {}
    BY DEF GroundLabels
  <1>7. CASE Retire \/ RetireCheck
    <2>1. \/ Abandon
          \/ Pass("removeDisplaced")
          \/ Seen("retired") = [t |-> cur.restore, s |-> NoId] /\ Pass("retireRename")
      BY <1>7 DEF Retire, RetireCheck
    <2>2. CASE Seen("retired") = [t |-> cur.restore, s |-> NoId] /\ Pass("retireRename")
      <3>1. Still /\ Proceed("retireRename", cur, obs, made)
        BY <2>2 DEF Pass, Goto
      <3>2. /\ db' = db /\ ~refused' /\ RowSound(db') /\ UNCHANGED disk
            /\ pc' = "retireRename" /\ cur' = cur
        BY <3>1 DEF Still, Proceed, Kept, Agreed
      <3>3. Agreed'
        BY <1>2, <1>5, <3>1, <3>2, ProceedAgreed
      <3>4. Id("retired") = NoId /\ fs' = fs
        BY <2>2, <3>2 DEF Seen, disk
      <3>5. Ground'
        BY <3>2, <3>4 DEF Ground, There, Id, Exists, NoId
      <3> QED BY <3>2, <3>3, <3>5, QuietOnward
    <2> QED BY <1>1, <1>5, <1>6, <2>1, <2>2, CheckKept, AbandonKept
  <1>8. CASE RetireRename
    <2>1. CASE Abandon
      BY <2>1, AbandonKept
    <2>2. CASE ~Abandon
      <3>1. /\ MoveFile("target", "retired") /\ Proceed("retireCheck", cur, obs, made)
            /\ UNCHANGED <<db, refused>> /\ ~There("retired")
        BY <1>8, <2>2 DEF RetireRename, Goto, Kept, Ground
      <3>2. "retired" \in Occupied(db) \ Replaceable(db)
        BY <1>2, FinalNames DEF Occupied, Replaceable
      <3>3. "target" \in Names /\ "retired" \in Names /\ "target" # "retired"
        BY FinalNames
      <3>4. Stored' /\ RecoverableCopy'
        BY <1>2, <1>3, <1>4, <3>1, <3>2, <3>3, MoveStored
      <3>5. Ground'
        BY <1>6, <3>1, GroundElsewhere DEF Proceed
      <3> QED BY <1>1, <1>2, <1>3, <1>5, <3>1, <3>4, <3>5, FileKept
    <2> QED BY <2>1, <2>2
  <1> QED BY <1>7, <1>8

\* What is as recorded is empty or in custody as well.
LEMMA RecordedSpare ==
  ASSUME IInv, Kept, cur = db, cur \in Entry, RowSound(cur), cur.phase = "deleteIntent"
  PROVE  /\ Exists(cur.displaced) /\ Id("restore") = cur.displaced => Spare(fs["restore"].body)
         /\ Exists(cur.detached) /\ Id(DetachedName(cur)) = cur.detached
              => Spare(fs[DetachedName(cur)].body)
         /\ SameFileAfterRename(cur.restore, Id("retired")) /\ There("retired")
              /\ Matches("retired", cur.body, cur.meta) => Spare(fs["retired"].body)
  <1>1. IsPresent(db) /\ ValidSnapshot(cur) /\ ValidStructure(cur)
    BY DEF RowSound, IsPresent, ValidSnapshot
  <1>2. Stored /\ fs \in survivors /\ PlaceholdersEmpty /\ DetachedSpent
        /\ \A b \in precious : 0 < b
    BY DEF Kept, Stored, FilesSound, BodiesSound
  <1>3. "restore" \in Names /\ DetachedName(cur) \in Names
    BY FinalNames DEF DetachedName
  <1>4. ASSUME Exists(cur.displaced), Id("restore") = cur.displaced
        PROVE  Spare(fs["restore"].body)
    <2>1. cur.origin = "installed"
      BY <1>1, <1>4 DEF ValidStructure
    <2>2. SameFileAfterRename(cur.placeholder, cur.displaced) /\ Exists(cur.placeholder)
      BY <1>1, <2>1 DEF RowSound, ValidSnapshot, NeedsPlaceholder
    <2>3. fs["restore"].id.ino = db.placeholder.ino /\ fs["restore"].id.meta = 0
      BY <1>2, <1>4, <2>2 DEF Id, SameFileAfterRename, PlaceholdersEmpty
    <2>4. fs["restore"].body = Empty
      BY <1>2, <1>3, <2>2, <2>3 DEF PlaceholdersEmpty
    <2> QED BY <1>2, <2>4 DEF Spare, Empty
  <1>5. ASSUME Exists(cur.detached), Id(DetachedName(cur)) = cur.detached
        PROVE  Spare(fs[DetachedName(cur)].body)
    <2>1. Exists(cur.original)
      BY <1>1, <1>5 DEF ValidStructure, ValidRestoreDetached, DetachedIsOriginal
    <2>2. db.logical
      BY <1>1, <2>1 DEF ValidSnapshot
    <2>3. fs[DetachedName(cur)].body \notin precious \ {db.body}
      BY <1>2, <1>3, <1>5 DEF DetachedSpent, Id
    <2> QED BY <1>1, <2>2, <2>3 DEF Spare
  <1>6. ASSUME SameFileAfterRename(cur.restore, Id("retired")), There("retired"),
               Matches("retired", cur.body, cur.meta)
        PROVE  Spare(fs["retired"].body)
    <2>1. Exists(cur.restore)
      BY <1>6 DEF There, SameFileAfterRename, Exists
    <2>2. cur.logical = Exists(cur.restore)
      BY <1>1 DEF ValidStructure
    <2>3. db.logical
      BY <2>1, <2>2
    <2> QED BY <1>1, <1>6, <2>3 DEF Spare, Matches
  <1> QED BY <1>4, <1>5, <1>6

\* A name of staging is cleared, and the cleanup goes on.
LEMMA RemoveKept ==
  ASSUME IInv, Kept, UNCHANGED world, pc \in InHand, cur.phase = "deleteIntent",
         NEW name \in StagingNames, There(name) => Spare(fs[name].body),
         NEW label \in InHand \ GroundLabels, Place(label, cur, obs, made),
         Remove(name), Goto(label), UNCHANGED <<db, refused, captures>>
  PROVE  Kept'
  <1>1. cur = db /\ db.phase # "missing" /\ Stored /\ RecoverableCopy
    BY InHandFacts DEF Kept
  <1>2. Stored' /\ RecoverableCopy'
    BY <1>1, RemoveStored DEF Remove
  <1>3. Ground' /\ Proceed(label, cur, obs, made)
    BY GroundElsewhere DEF Goto, Proceed
  <1> QED BY <1>1, <1>2, <1>3, FileKept DEF GroundLabels

\* Nothing is unlinked but what the store recorded.
LEMMA UnlinkKept ==
  ASSUME IInv, Kept, UNCHANGED world, RemoveDisplaced \/ RemoveDetached \/ RemoveRetired
  PROVE  Kept'
  <1>1. pc \in InHand /\ pc \in {"removeDisplaced", "removeDetached", "removeRetired"}
    BY DEF RemoveDisplaced, RemoveDetached, RemoveRetired, InHand, Labels
  <1>2. /\ Sound /\ cur = db /\ cur \in Entry /\ RowSound(cur) /\ cur.blocked = "no"
        /\ Place(pc, cur, obs, made) /\ cur.phase = "deleteIntent"
        /\ cur.logical \/ made = NoId
    BY <1>1, InHandFacts DEF Place
  <1>3. IsPresent(cur)
    BY <1>2 DEF IsPresent
  <1>4. \A l \in {"removeDetached", "removeRetired", "finalCheck"} :
          Place(l, cur, obs, made) /\ l \in InHand \ GroundLabels
    BY <1>2 DEF Place, FinLabels, InHand, Labels, GroundLabels
  <1>5. "restore" \in StagingNames /\ DetachedName(cur) \in StagingNames
        /\ "retired" \in StagingNames
    BY FinalNames DEF DetachedName
  <1>6. CASE RemoveDisplaced
    <2>1. \/ Pass("removeDetached") \/ Block("displaced")
          \/ /\ Exists(cur.displaced) /\ Id("restore") = cur.displaced
             /\ Remove("restore") /\ Goto("removeDetached") /\ UNCHANGED <<db, refused, captures>>
      BY <1>6 DEF RemoveDisplaced, RemoveRecorded
    <2> QED BY <1>1, <1>2, <1>3, <1>4, <1>5, <2>1, RecordedSpare, RemoveKept, CheckKept,
               ConflictKept, ReasonsInUse
  <1>7. CASE RemoveDetached
    <2>1. \/ Pass("removeRetired") \/ Block("detached")
          \/ /\ Exists(cur.detached) /\ Id(DetachedName(cur)) = cur.detached
             /\ Remove(DetachedName(cur)) /\ Goto("removeRetired")
             /\ UNCHANGED <<db, refused, captures>>
      BY <1>7 DEF RemoveDetached, RemoveRecorded
    <2> QED BY <1>1, <1>2, <1>3, <1>4, <1>5, <2>1, RecordedSpare, RemoveKept, CheckKept,
               ConflictKept, ReasonsInUse
  <1>8. CASE RemoveRetired
    <2>1. \/ Pass("finalCheck") \/ Block("retired") \/ Abandon
          \/ /\ There("retired") /\ SameFileAfterRename(cur.restore, Id("retired"))
             /\ Matches("retired", cur.body, cur.meta)
             /\ Remove("retired") /\ Goto("finalCheck") /\ UNCHANGED <<db, refused, captures>>
      BY <1>8 DEF RemoveRetired
    <2> QED BY <1>1, <1>2, <1>3, <1>4, <1>5, <2>1, RecordedSpare, RemoveKept, CheckKept,
               ConflictKept, ReasonsInUse
  <1> QED BY <1>6, <1>7, <1>8

\* Staging holds the copy alone when the row makes room for the marker.
LEMMA FinalCheckKept ==
  ASSUME IInv, Kept, UNCHANGED world, FinalCheck
  PROVE  Kept'
  <1>1. pc \in InHand /\ pc = "finalCheck"
    BY DEF FinalCheck, InHand, Labels
  <1>2. /\ Sound /\ cur = db /\ cur.phase = "deleteIntent"
        /\ Place(pc, cur, obs, made) /\ (cur.logical \/ made = NoId)
    BY <1>1, InHandFacts DEF Place
  <1>3. IsPresent(cur) /\ cur.phase # "missing"
    BY <1>2 DEF IsPresent
  <1>4. \/ Block("unrecognized") \/ Block("final") \/ Abandon
        \/ /\ \A n \in StagingNames \ {"final"} : ~There(n)
           /\ cur.logical => Matches("final", cur.body, cur.meta)
           /\ Id("final") = made
           /\ SyncWith /\ Proceed("beginFinalization", cur, obs, made)
           /\ UNCHANGED <<db, refused>>
    BY DEF FinalCheck, Goto
  <1>5. CASE /\ \A n \in StagingNames \ {"final"} : ~There(n)
             /\ cur.logical => Matches("final", cur.body, cur.meta)
             /\ Id("final") = made
             /\ SyncWith /\ Proceed("beginFinalization", cur, obs, made)
             /\ UNCHANGED <<db, refused>>
    <2>1. Stored' /\ RecoverableCopy'
      BY <1>5, SyncStored DEF Kept
    <2>2. /\ cur.logical => Exists(made) /\ made.meta = cur.meta
          /\ ~cur.logical => ~Exists(made)
      BY <1>2, <1>5 DEF Matches, There, Exists, NoId
    <2>3. cur.logical \in BOOLEAN
      BY <1>2 DEF Sound, ProcType, StoreType, Entry
    <2>4. Place("beginFinalization", cur, obs, made) /\ "beginFinalization" \in InHand
      BY <1>2, <2>2, <2>3 DEF Place, FinLabels, InHand, Labels, Exists
    <2>5. Ground'
      <3>1. fs' = fs /\ survivors' = {fs'} /\ pc' = "beginFinalization" /\ cur' = cur
        BY <1>5 DEF SyncWith, Proceed
      <3>2. Absent(fs, StagingNames \ {"final"})
        BY <1>5 DEF Absent, There, Id
      <3>3. cur.logical => There("final") /\ fs["final"].body = cur.body
        BY <1>5 DEF Matches
      <3> QED BY <3>1, <3>2, <3>3 DEF Ground, There, Id, Absent
    <2> QED BY <1>1, <1>2, <1>3, <1>5, <2>1, <2>4, <2>5, FileKept
  <1> QED BY <1>1, <1>3, <1>4, <1>5, AbandonKept, ConflictKept, ReasonsInUse

\* The marker keeps no copy of the contents: the one in staging is it now.
LEMMA BeginFinalizationKept ==
  ASSUME IInv, Kept, UNCHANGED world, BeginFinalization
  PROVE  Kept'
  <1> DEFINE marker == MarkerOf(cur, made)
  <1>1. pc \in InHand /\ pc = "beginFinalization"
    BY DEF BeginFinalization, InHand, Labels
  <1>2. /\ cur = db /\ cur \in Entry /\ RowSound(cur) /\ cur.phase = "deleteIntent"
        /\ cur.blocked = "no" /\ cur.logical = Exists(made)
        /\ cur.logical => made.meta = cur.meta
    BY <1>1, InHandFacts DEF Place
  <1>3. IsPresent(cur) /\ (~cur.logical => cur.body = Empty) /\ cur.logical \in BOOLEAN
    BY <1>2 DEF IsPresent, RowSound, ValidSnapshot, Entry
  <1>4. /\ marker.phase = "finalizing" /\ marker.meta = cur.meta /\ marker.body = cur.body
        /\ marker.logical = cur.logical /\ marker.restore = made
        /\ marker.placeholder = NoId /\ marker.detached = NoId
    BY DEF MarkerOf, Missing
  <1> HIDE DEF marker
  <1>5. ValidMarker(marker)
    <2>1. marker.logical = Exists(marker.restore)
      BY <1>2, <1>4
    <2>2. (marker.logical => marker.restore.meta = marker.meta)
          /\ (~marker.logical => marker.body = Empty)
      BY <1>2, <1>3, <1>4
    <2> QED BY <2>1, <2>2 DEF ValidMarker
  <1>6. AcceptsMarker(db, cur, marker)
    BY <1>2, <1>3, <1>5 DEF AcceptsMarker
  <1>7. /\ db' = marker /\ Proceed("finObserve", marker, NoObs, NoId) /\ refused' = refused
        /\ UNCHANGED disk
    BY <1>6 DEF BeginFinalization, marker
  <1>8. UNCHANGED <<fs, survivors, exposed, nextIno, edits, writes, precious>>
    BY <1>7 DEF disk, world
  <1>9. RowSound(marker)
    BY <1>4, <1>5 DEF RowSound, IsPresent, Exists, NoId
  <1>10. Place("finObserve", marker, NoObs, NoId) /\ "finObserve" \notin GroundLabels
    BY <1>4 DEF Place, FinLabels, GroundLabels
  <1>11. Agreed' /\ Ground' /\ pc' = "finObserve"
    BY <1>7, <1>9, <1>10, ProceedAgreed, GroundElsewhere DEF Kept, Agreed, Proceed
  <1>12. /\ survivors = {fs} /\ Absent(fs, StagingNames \ {"final"})
         /\ cur.logical => There("final") /\ fs["final"].body = cur.body
    BY <1>1 DEF Kept, Ground
  <1>13. Fresh' = Fresh
    BY <1>8 DEF Fresh
  <1>14. FilesSound' /\ BodiesSound'
    BY <1>2, <1>4, <1>7, <1>8, <1>13 DEF Kept, Stored, FilesSound, BodiesSound
  <1>15. Occupied(db') = {"final"} /\ Replaceable(db') = {}
    BY <1>4, <1>7 DEF Occupied, Replaceable
  <1>16. Tidy'
    BY <1>8, <1>12, <1>15 DEF Tidy, Absent
  <1>17. Disposable' /\ OneNamespace' /\ PlaceholdersEmpty' /\ DetachedSpent'
    BY <1>4, <1>7, <1>15 DEF Disposable, OneNamespace, PlaceholdersEmpty, DetachedSpent,
                             Exists, NoId
  <1>18. RecoverableCopy'
    <2> SUFFICES ASSUME NEW b \in precious
                 PROVE  \E n \in Names : Exists(fs[n].id) /\ fs[n].body = b
      BY <1>8, <1>12 DEF RecoverableCopy
    <2>1. CASE db.logical /\ db.body = b
      BY <1>2, <1>12, <2>1, FinalNames DEF There, Id
    <2>2. CASE ~(db.logical /\ db.body = b)
      BY <1>12, <2>2 DEF Kept, RecoverableCopy
    <2> QED BY <2>1, <2>2
  <1>19. Handover'
    <2>1. db.phase # "missing" /\ db'.phase # "missing"
      BY <1>2, <1>4, <1>7
    <2> QED BY <1>2, <1>4, <1>7, <1>8, <1>11, <2>1 DEF Kept, Handover, Following
  <1> QED BY <1>11, <1>14, <1>16, <1>17, <1>18, <1>19 DEF Kept, Stored

LEMMA CleanKept ==
  ASSUME IInv, Kept, Clean, UNCHANGED world
  PROVE  Kept'
  BY DeleteIntentKept, FinalFileKept, RetireKept, UnlinkKept, FinalCheckKept,
     BeginFinalizationKept DEF Clean

-----------------------------------------------------------------------------
(* Finalization                                                            *)

\* The copy is moved to its place, and found there before it is made durable.
LEMMA FinalizingKept ==
  ASSUME IInv, Kept, UNCHANGED world,
         FinObserve \/ FinRename \/ FinVerify \/ FinSync \/ FinRecheck
  PROVE  Kept'
  <1>1. pc \in InHand /\ pc \in FinLabels \ {"deleteMarker"}
    BY DEF FinObserve, FinRename, FinVerify, FinSync, FinRecheck, FinLabels, InHand, Labels
  <1>2. /\ Sound /\ cur = db /\ cur \in Entry /\ RowSound(cur) /\ cur.phase = "finalizing"
        /\ Place(pc, cur, obs, made)
    BY <1>1, InHandFacts DEF Place
  <1>3. Stored /\ RecoverableCopy /\ ~refused
    BY DEF Kept, Agreed
  <1>4. \A l \in FinLabels : (l = "finRename" => cur.logical) => Place(l, cur, obs, made)
    BY <1>2 DEF Place, FinLabels
  <1>5. FinLabels \subseteq InHand /\ {"finRename", "finVerify"} \subseteq FinLabels \ GroundLabels
        /\ {"finSync", "finRecheck", "deleteMarker"} \subseteq FinLabels
    BY DEF FinLabels, InHand, Labels, GroundLabels
  <1>6. ASSUME ~There("final"), Pass("finSync")
        PROVE  Kept'
    <2>1. Still /\ Proceed("finSync", cur, obs, made)
      BY <1>6 DEF Pass, Goto
    <2>2. /\ db' = db /\ ~refused' /\ RowSound(db') /\ UNCHANGED disk /\ pc' = "finSync"
      BY <1>2, <1>3, <2>1 DEF Still, Proceed
    <2>3. Agreed'
      BY <1>2, <1>4, <1>5, <2>1, <2>2, ProceedAgreed
    <2>4. Ground'
      BY <1>6, <2>2 DEF Ground, There, Id, disk
    <2> QED BY <2>2, <2>3, <2>4, QuietOnward
  <1>7. CASE FinObserve
    <2>1. \/ Abandon
          \/ cur.logical /\ Pass("finRename")
          \/ ~There("final") /\ Pass("finSync")
      BY <1>7 DEF FinObserve
    <2> QED BY <1>1, <1>4, <1>5, <1>6, <2>1, CheckKept
  <1>8. CASE FinRename
    <2>1. CASE Abandon
      BY <2>1, AbandonKept
    <2>2. CASE ~Abandon
      <3>1. /\ MoveFile("final", "target") /\ Proceed("finVerify", cur, obs, made)
            /\ UNCHANGED <<db, refused>> /\ ~There("target")
        BY <1>8, <2>2 DEF FinRename, Goto
      <3>2. Replaceable(db) = {} /\ "target" \notin StagingNames
            /\ "target" \in Names /\ "final" \in Names /\ "target" # "final"
        BY <1>2, FinalNames DEF Replaceable
      <3>3. Stored' /\ RecoverableCopy'
        BY <1>2, <1>3, <3>1, <3>2, MoveStored
      <3>4. Ground'
        BY <1>5, <3>1, GroundElsewhere DEF Proceed
      <3> QED BY <1>1, <1>2, <1>4, <1>5, <3>1, <3>3, <3>4, FileKept
    <2> QED BY <2>1, <2>2
  <1>9. CASE FinVerify
    <2>1. Abandon \/ (~There("final") /\ Pass("finSync"))
      BY <1>9 DEF FinVerify
    <2> QED BY <1>6, <2>1, AbandonKept
  <1>10. CASE FinSync
    <2>1. CASE Abandon
      BY <2>1, AbandonKept
    <2>2. CASE ~Abandon
      <3>1. /\ SyncWith /\ Proceed("finRecheck", cur, obs, made) /\ UNCHANGED <<db, refused>>
            /\ ~There("final")
        BY <1>10, <2>2 DEF FinSync, Goto, Kept, Ground
      <3>2. Stored' /\ RecoverableCopy'
        BY <1>3, <3>1, SyncStored
      <3>3. Ground'
        <4>1. fs' = fs /\ survivors' = {fs'} /\ pc' = "finRecheck"
          BY <3>1 DEF SyncWith, Proceed
        <4> QED BY <3>1, <4>1 DEF Ground, There, Id
      <3> QED BY <1>1, <1>2, <1>4, <1>5, <3>1, <3>2, <3>3, FileKept
    <2> QED BY <2>1, <2>2
  <1>11. CASE FinRecheck
    <2>1. CASE Abandon
      BY <2>1, AbandonKept
    <2>2. CASE ~Abandon
      <3>1. /\ Still /\ Proceed("deleteMarker", cur, obs, made) /\ Handed(cur)
            /\ ~There("final") /\ survivors = {fs}
        BY <1>11, <2>2 DEF FinRecheck, Pass, Goto, Kept, Ground
      <3>2. /\ db' = db /\ ~refused' /\ RowSound(db') /\ UNCHANGED disk
            /\ pc' = "deleteMarker" /\ cur' = cur
        BY <1>2, <1>3, <3>1 DEF Still, Proceed
      <3>3. Agreed'
        BY <1>2, <1>4, <1>5, <3>1, <3>2, ProceedAgreed
      <3>4. Ground' /\ Stored' /\ RecoverableCopy'
        BY <1>3, <3>1, <3>2, QuietStored DEF Ground, There, Id, disk
      <3>5. IF cur.logical THEN There("target") /\ fs["target"].body = cur.body
                           ELSE ~There("target")
        BY <3>1 DEF Handed, Matches
      <3>6. UNCHANGED <<fs, edits, precious>> /\ There("target")' = There("target")
        BY <3>2 DEF disk, world, There, Id
      <3>7. Handover'
        BY <3>2, <3>5, <3>6 DEF Kept, Handover, Following
      <3> QED BY <3>3, <3>4, <3>7 DEF Kept
    <2> QED BY <2>1, <2>2
  <1> QED BY <1>7, <1>8, <1>9, <1>10, <1>11

\* The marker goes when the credential is where it belongs.
LEMMA DeleteMarkerKept ==
  ASSUME IInv, Kept, UNCHANGED world, DeleteMarker
  PROVE  Kept'
  <1>1. pc = "deleteMarker" /\ pc \in InHand
    BY DEF DeleteMarker, InHand, Labels
  <1>2. cur = db /\ cur.phase = "finalizing"
    BY <1>1, InHandFacts DEF Place, FinLabels
  <1>3. db' = Missing /\ HandedBack /\ UNCHANGED <<disk, refused>>
    BY <1>2 DEF DeleteMarker
  <1>4. UNCHANGED <<fs, survivors, exposed, nextIno, edits, writes, precious>>
    BY <1>3 DEF disk, world
  <1>5. pc' \in Nowhere \/ pc' = "capture"
    BY <1>3 DEF HandedBack, Reconciled, Proceed, Exit, Enter, Nowhere
  <1>6. RowSound(db') /\ ~refused'
    BY <1>3 DEF RowSound, Missing, IsPresent, Kept, Agreed
  <1>7. Agreed'
    <2>1. CASE pc' \in Nowhere
      BY <1>6, <2>1, NowhereAgreed
    <2>2. CASE pc' = "capture"
      BY <1>3, <1>6, <2>2 DEF Agreed, AtHand, Place, InHand, FinLabels
    <2> QED BY <1>5, <2>1, <2>2
  <1>8. pc' \notin GroundLabels /\ pc' \notin {"commitCaptured", "deleteMarker"}
    BY <1>5 DEF Nowhere, GroundLabels
  <1>9. /\ db'.phase = "missing" /\ db'.body = 0 /\ ~IsPresent(db)
        /\ db'.placeholder = NoId /\ db'.detached = NoId
    BY <1>2, <1>3 DEF Missing, IsPresent, Empty
  <1>10. survivors = {fs} /\ ~There("final")
    BY <1>1 DEF Kept, Ground
  <1>11. Fresh' = Fresh /\ 0 < Fresh
    BY <1>4 DEF Fresh, IInv, WorldType
  <1>12. FilesSound' /\ BodiesSound'
    BY <1>4, <1>9, <1>11 DEF Kept, Stored, FilesSound, BodiesSound
  <1>13. Occupied(db) = {"final"} /\ Occupied(db') = {} /\ Replaceable(db') = {}
    BY <1>2, <1>9 DEF Occupied, Replaceable
  <1>14. Tidy'
    BY <1>4, <1>10, <1>13 DEF Kept, Stored, Tidy, There, Id
  <1>15. Disposable' /\ OneNamespace' /\ PlaceholdersEmpty' /\ DetachedSpent'
    BY <1>4, <1>9, <1>10, <1>13 DEF Disposable, OneNamespace, PlaceholdersEmpty,
                                   DetachedSpent, Exists, NoId
  <1>16. RecoverableCopy'
    BY <1>4, <1>9 DEF Kept, RecoverableCopy
  <1>17. Handover'
    <2>1. There("target")' = There("target")
      BY <1>4 DEF There, Id
    <2> QED BY <1>1, <1>2, <1>4, <1>8, <1>9, <2>1 DEF Kept, Handover, Following
  <1> QED BY <1>7, <1>8, <1>12, <1>14, <1>15, <1>16, <1>17, GroundElsewhere DEF Kept, Stored

LEMMA FinalizeKept ==
  ASSUME IInv, Kept, Finalize, UNCHANGED world
  PROVE  Kept'
  BY FinalizingKept, DeleteMarkerKept DEF Finalize

-----------------------------------------------------------------------------
(* Offline storage                                                         *)

LEMMA StoreLoadKept ==
  ASSUME IInv, Kept, StoreLoad, UNCHANGED world
  PROVE  Kept'
  <1>1. \/ db.phase = "missing" /\ Pass("capture")
        \/ Abandon
        \/ db.phase = "finalizing" /\ Loaded("finObserve")
        \/ db.phase = "captured" /\ Exists(db.original) /\ Loaded("storeStaging")
        \/ db.phase = "storeIntent" /\ Loaded("storeObserve")
        \/ db.phase = "stored" /\ Loaded("requireStored")
    BY DEF StoreLoad
  <1>2. CASE db.phase = "missing" /\ Pass("capture")
    <2>1. db = Missing /\ Still /\ Proceed("capture", cur, obs, made)
      BY <1>2 DEF Pass, Goto, Kept, Agreed, RowSound
    <2>2. Place("capture", cur, obs, made) /\ "capture" \notin InHand \cup GroundLabels
      BY DEF Place, FinLabels, InHand, GroundLabels
    <2> QED BY <2>1, <2>2, ProceedKept
  <1>3. /\ db.phase = "finalizing" => Place("finObserve", db, NoObs, NoId)
        /\ db.phase = "captured" /\ Exists(db.original) => Place("storeStaging", db, NoObs, NoId)
        /\ db.phase = "storeIntent" => Place("storeObserve", db, NoObs, NoId)
        /\ db.phase = "stored" => Place("requireStored", db, NoObs, NoId)
    BY DEF Place, FinLabels
  <1>4. {"finObserve", "storeStaging", "storeObserve", "requireStored"} \cap GroundLabels = {}
    BY DEF GroundLabels
  <1> QED BY <1>1, <1>2, <1>3, <1>4, AbandonKept, LoadedKept

\* Staging must be empty before the credential goes there.
LEMMA StoreIntentKept ==
  ASSUME IInv, Kept, UNCHANGED world, StoreStaging \/ CommitStoreIntent
  PROVE  Kept'
  <1>1. pc \in InHand /\ pc \in {"storeStaging", "commitStoreIntent"}
    BY DEF StoreStaging, CommitStoreIntent, InHand, Labels
  <1>2. /\ Sound /\ cur = db /\ cur \in Entry /\ RowSound(cur) /\ cur.blocked = "no"
        /\ cur.phase = "captured" /\ Exists(cur.original)
    BY <1>1, InHandFacts DEF Place
  <1>3. IsPresent(cur)
    BY <1>2 DEF IsPresent
  <1>4. CASE StoreStaging
    <2>1. \/ Abandon \/ Block("source") \/ Block("staging")
          \/ /\ \A n \in StagingNames : ~There(n)
             /\ Still /\ Proceed("commitStoreIntent", cur, obs, made)
      BY <1>4 DEF StoreStaging, Pass, Goto
    <2>2. CASE /\ \A n \in StagingNames : ~There(n)
               /\ Still /\ Proceed("commitStoreIntent", cur, obs, made)
      <3>1. Place("commitStoreIntent", cur, obs, made)
        BY <1>2 DEF Place, FinLabels
      <3>2. /\ db' = db /\ ~refused' /\ RowSound(db') /\ UNCHANGED disk
            /\ pc' = "commitStoreIntent"
        BY <2>2 DEF Still, Proceed, Kept, Agreed
      <3>3. Agreed'
        BY <1>2, <2>2, <3>1, <3>2, ProceedAgreed
      <3>4. Ground'
        BY <2>2, <3>2 DEF Ground, Absent, There, Id, disk
      <3> QED BY <3>2, <3>3, <3>4, QuietOnward
    <2> QED BY <1>1, <1>3, <2>1, <2>2, AbandonKept, ConflictKept, ReasonsInUse
  <1>5. CASE CommitStoreIntent
    <2> DEFINE next == [cur EXCEPT !.phase = "storeIntent"]
    <2>1. pc = "commitStoreIntent" /\ Commit(next, "storeObserve")
      BY <1>5 DEF CommitStoreIntent
    <2>2. next \in Entry /\ Accepts(cur, cur, next) /\ RowSound(next)
      BY <1>2, <1>3, StoreIntentAdmitted
    <2>3. /\ next.phase = "storeIntent" /\ next.body = cur.body
          /\ next.logical = cur.logical /\ next.placeholder = cur.placeholder
          /\ next.detached = cur.detached
      BY <1>2 DEF Entry
    <2> HIDE DEF next
    <2>4. Place("storeObserve", next, NoObs, NoId) /\ "storeObserve" \notin GroundLabels
      BY <2>3 DEF Place, FinLabels, GroundLabels
    <2>5. Agreed' /\ db' = next /\ pc' = "storeObserve" /\ UNCHANGED disk
      BY <1>2, <2>1, <2>2, <2>4, CommitMade
    <2>6. UNCHANGED <<fs, survivors, exposed, nextIno, precious>>
      BY <2>5 DEF disk, world
    <2>7. survivors = {fs} /\ Absent(fs, StagingNames)
      BY <1>2, <2>1 DEF Kept, Stored, Ground, OneNamespace
    <2>8. Tidy'
      BY <2>6, <2>7 DEF Tidy, Absent
    <2>9. Replaceable(db') = {}
      BY <2>3, <2>5 DEF Replaceable
    <2>10. Disposable' /\ OneNamespace'
      BY <2>3, <2>5, <2>9 DEF Disposable, OneNamespace
    <2>11. PlaceholdersEmpty' /\ DetachedSpent'
      BY <1>2, <2>3, <2>5, RecordedKept DEF Kept
    <2>12. IsPresent(db')
      BY <2>3, <2>5 DEF IsPresent
    <2>13. Ground' /\ pc' \notin {"commitCaptured", "deleteMarker"}
      BY <2>4, <2>5, GroundElsewhere
    <2> QED BY <1>2, <1>3, <2>3, <2>5, <2>8, <2>10, <2>11, <2>12, <2>13, RowKept
  <1> QED BY <1>4, <1>5

\* The credential is moved to staging, verified there, and recorded.
LEMMA StoringKept ==
  ASSUME IInv, Kept, UNCHANGED world,
         \/ StoreObserve \/ StoreRename \/ StoreReobserve \/ StoreVerify \/ StoreSync
         \/ CommitStored
  PROVE  Kept'
  <1>1. pc \in InHand /\ pc \in {"storeObserve", "storeRename", "storeReobserve",
                                 "storeVerify", "storeSync", "commitStored"}
    BY DEF StoreObserve, StoreRename, StoreReobserve, StoreVerify, StoreSync,
           CommitStored, InHand, Labels
  <1>2. /\ Sound /\ cur = db /\ cur \in Entry /\ RowSound(cur) /\ cur.blocked = "no"
        /\ Place(pc, cur, obs, made) /\ obs \in Obs /\ cur.phase = "storeIntent"
    BY <1>1, InHandFacts DEF Place
  <1>3. IsPresent(cur) /\ cur.phase \notin {"missing", "captured"}
    BY <1>2 DEF IsPresent
  <1>4. Occupied(db) = {"stored"} /\ Replaceable(db) = {} /\ "stored" \in StagingNames
    BY <1>2, FinalNames DEF Replaceable, Occupied
  <1>5. Stored /\ RecoverableCopy /\ FilesSound /\ fs \in survivors
    BY DEF Kept, Stored, FilesSound
  <1>6. CASE StoreObserve \/ StoreReobserve
    <2>1. \/ Abandon \/ Block("store") \/ Pass("storeVerify")
          \/ /\ Seen("stored") = [t |-> cur.original, s |-> NoId]
             /\ Still /\ Proceed("storeRename", cur, obs, made)
      BY <1>6 DEF StoreObserve, StoreReobserve, Pass, Goto
    <2>2. Place("storeVerify", cur, obs, made) /\ "storeVerify" \in InHand \ GroundLabels
      BY <1>2 DEF Place, FinLabels, InHand, Labels, GroundLabels
    <2>3. CASE /\ Seen("stored") = [t |-> cur.original, s |-> NoId]
               /\ Still /\ Proceed("storeRename", cur, obs, made)
      <3>1. Place("storeRename", cur, obs, made)
        BY <1>2 DEF Place, FinLabels
      <3>2. /\ db' = db /\ ~refused' /\ RowSound(db') /\ UNCHANGED disk
            /\ pc' = "storeRename"
        BY <2>3 DEF Still, Proceed, Kept, Agreed
      <3>3. Agreed'
        BY <1>2, <2>3, <3>1, <3>2, ProceedAgreed
      <3>4. Id("stored") = NoId /\ fs' = fs
        BY <2>3, <3>2 DEF Seen, disk
      <3>5. Ground'
        BY <3>2, <3>4 DEF Ground, There, Id, Exists, NoId
      <3> QED BY <3>2, <3>3, <3>5, QuietOnward
    <2> QED BY <1>1, <1>3, <2>1, <2>2, <2>3, AbandonKept, CheckKept, ConflictKept, ReasonsInUse
  <1>7. CASE StoreRename
    <2>1. CASE Abandon
      BY <2>1, AbandonKept
    <2>2. CASE ~Abandon
      <3>1. /\ MoveFile("target", "stored") /\ Proceed("storeReobserve", cur, obs, made)
            /\ UNCHANGED <<db, refused>> /\ ~There("stored")
        BY <1>7, <2>2 DEF StoreRename, Goto, Kept, Ground
      <3>2. "target" \in Names /\ "stored" \in Names /\ "target" # "stored"
        BY FinalNames
      <3>3. Stored' /\ RecoverableCopy'
        BY <1>2, <1>3, <1>4, <1>5, <3>1, <3>2, MoveStored
      <3>4. Place("storeReobserve", cur, obs, made)
            /\ "storeReobserve" \in InHand \ GroundLabels
        BY <1>2 DEF Place, FinLabels, InHand, Labels, GroundLabels
      <3>5. Ground'
        BY <3>1, <3>4, GroundElsewhere DEF Proceed
      <3> QED BY <1>1, <1>2, <1>3, <3>1, <3>3, <3>4, <3>5, FileKept
    <2> QED BY <2>1, <2>2
  <1>8. CASE StoreVerify
    <2>1. CASE Block("storedSnapshot")
      BY <1>1, <1>3, <2>1, ConflictKept, ReasonsInUse
    <2>2. CASE ~Block("storedSnapshot")
      <3>1. /\ Matches("stored", cur.body, cur.meta)
            /\ SameFileAfterRename(cur.original, Id("stored"))
            /\ Still /\ Proceed("storeSync", cur, Seen("stored"), NoId)
        BY <1>8, <2>2 DEF StoreVerify
      <3>2. Place("storeSync", cur, Seen("stored"), NoId)
        BY <1>2, <3>1 DEF Place, FinLabels, Seen
      <3>3. /\ db' = db /\ ~refused' /\ RowSound(db') /\ UNCHANGED disk
            /\ pc' = "storeSync" /\ obs' = Seen("stored") /\ cur' = cur
        BY <3>1 DEF Still, Proceed, Kept, Agreed
      <3>4. Agreed'
        BY <1>2, <3>1, <3>2, <3>3, ProceedAgreed
      <3>5. fs["stored"].id.ctime \in Nat /\ fs' = fs
        BY <1>2, <3>3, FinalNames DEF Sound, DiskType, File, Identity, disk
      <3>6. Ground'
        BY <3>1, <3>3, <3>5 DEF Ground, Verified, Tracked, Matches, Seen, Id
      <3> QED BY <3>3, <3>4, <3>6, QuietOnward
    <2> QED BY <2>1, <2>2
  <1>9. CASE StoreSync
    <2>1. CASE Abandon
      BY <2>1, AbandonKept
    <2>2. CASE ~Abandon
      <3>1. /\ SyncWith /\ Proceed("commitStored", cur, obs, made)
            /\ UNCHANGED <<db, refused>> /\ pc = "storeSync"
        BY <1>9, <2>2 DEF StoreSync, Goto
      <3>2. Stored' /\ RecoverableCopy'
        BY <1>5, <3>1, SyncStored
      <3>3. Place("commitStored", cur, obs, made) /\ "commitStored" \in InHand
        BY <1>2, <3>1 DEF Place, FinLabels, InHand, Labels
      <3>4. Ground'
        <4>1. fs' = fs /\ survivors' = {fs'} /\ Verified("stored")
          BY <3>1 DEF Kept, Ground, SyncWith
        <4>2. pc' = "commitStored" /\ obs' = obs /\ cur' = cur
          BY <3>1 DEF Proceed
        <4> QED BY <4>1, <4>2 DEF Ground, Verified, Tracked
      <3> QED BY <1>1, <1>2, <1>3, <3>1, <3>2, <3>3, <3>4, FileKept
    <2> QED BY <2>1, <2>2
  <1>10. CASE CommitStored
    <2> DEFINE next == [cur EXCEPT !.phase = "stored", !.detached = obs.s]
    <2>1. pc = "commitStored" /\ Commit(next, "requireStored")
      BY <1>10 DEF CommitStored
    <2>2. SameFileAfterRename(cur.original, obs.s)
      BY <1>2, <2>1 DEF Place
    <2>3. next \in Entry /\ Accepts(cur, cur, next) /\ RowSound(next)
      BY <1>2, <1>3, <2>2, StoredAdmitted
    <2>4. /\ next.phase = "stored" /\ next.body = cur.body
          /\ next.logical = cur.logical /\ next.placeholder = cur.placeholder
          /\ next.detached = obs.s
      BY <1>2 DEF Entry
    <2> HIDE DEF next
    <2>5. Place("requireStored", next, NoObs, NoId) /\ "requireStored" \notin GroundLabels
      BY <2>4 DEF Place, FinLabels, GroundLabels
    <2>6. Agreed' /\ db' = next /\ pc' = "requireStored" /\ UNCHANGED disk
      BY <1>2, <2>1, <2>3, <2>5, CommitMade
    <2>7. UNCHANGED <<fs, survivors, exposed, nextIno, precious>>
      BY <2>6 DEF disk, world
    <2>8. Occupied(db') = {"stored"} /\ Replaceable(db') = {}
      BY <2>4, <2>6 DEF Occupied, Replaceable
    <2>9. Tidy' /\ Disposable' /\ OneNamespace'
      BY <1>4, <2>4, <2>6, <2>7, <2>8 DEF Kept, Stored, Tidy, Disposable, OneNamespace
    <2>10. PlaceholdersEmpty'
      BY <1>2, <2>4, <2>6, <2>7 DEF Kept, Stored, PlaceholdersEmpty
    <2>11. DetachedSpent'
      <3> SUFFICES ASSUME Exists(obs.s)
                   PROVE  /\ obs.s.ino < nextIno
                          /\ \A f \in survivors, n \in Names :
                               f[n].id.ino = obs.s.ino =>
                                 /\ f[n].id.ctime >= obs.s.ctime
                                 /\ f[n].id.ctime = obs.s.ctime
                                      => f[n].body \notin precious \ {cur.body}
        BY <2>4, <2>6, <2>7 DEF DetachedSpent
      <3>1. survivors = {fs} /\ Verified("stored")
        BY <2>1 DEF Kept, Ground
      <3>2. obs.s.ino < nextIno
        BY <1>5, <3>1, FinalNames DEF FilesSound, Verified, Tracked
      <3>3. \A n \in Names : fs[n].id.ino = obs.s.ino => n = "stored"
        BY <1>5, <3>1, FinalNames DEF FilesSound, Verified, Tracked, Exists
      <3> QED BY <3>1, <3>2, <3>3 DEF Verified, Tracked
    <2>12. IsPresent(db')
      BY <2>4, <2>6 DEF IsPresent
    <2>13. Ground' /\ pc' \notin {"commitCaptured", "deleteMarker"}
      BY <2>5, <2>6, GroundElsewhere
    <2> QED BY <1>2, <1>3, <2>4, <2>6, <2>9, <2>10, <2>11, <2>12, <2>13, RowKept
  <1> QED BY <1>6, <1>7, <1>8, <1>9, <1>10

LEMMA StoreKept ==
  ASSUME IInv, Kept, Store, UNCHANGED world
  PROVE  Kept'
  <1>1. CASE RequireStored
    <2>1. pc = "requireStored" /\ pc \in InHand
      BY <1>1 DEF RequireStored, InHand, Labels
    <2>2. cur.phase = "stored"
      BY <2>1, InHandFacts DEF Place
    <2>3. (Still /\ Exit) \/ Pass("beginRestore") \/ Block("stored")
      BY <1>1 DEF RequireStored
    <2>4. /\ IsPresent(cur) /\ Place("beginRestore", cur, obs, made)
          /\ "beginRestore" \in InHand \ GroundLabels
      BY <2>2 DEF IsPresent, Place, FinLabels, InHand, Labels, GroundLabels
    <2> QED BY <2>1, <2>3, <2>4, CheckKept, ConflictKept, ExitKept, ReasonsInUse
  <1> QED BY <1>1, StoreLoadKept, StoreIntentKept, StoringKept DEF Store

-----------------------------------------------------------------------------
(* The world                                                               *)

\* What the owner may make of the file under a name: replace or delete it at
\* the path, or write to it, seen in its modification stamp or only in its
\* change time.
Changed(name, file) ==
    \/ name = "target" /\ file = Nothing /\ nextIno' = nextIno
    \/ /\ name = "target" /\ nextIno' = nextIno + 1
       /\ file.id.ino = nextIno /\ file.id.meta = Fresh /\ file.body = Fresh
    \/ /\ There(name) /\ Id(name).ino \in exposed /\ nextIno' = nextIno
       /\ file.id.ino = Id(name).ino /\ file.id.ctime = Id(name).ctime + 1
       /\ file.id.meta = Fresh \/ (file.id.meta = Id(name).meta /\ fs[name].body # Empty)
       /\ file.body = Fresh

\* What an edit of the owner leaves as it was.
LEMMA ChangedFiles ==
  ASSUME IInv, Kept, NEW name \in Names, NEW file \in File, Changed(name, file),
         fs' = [fs EXCEPT ![name] = file], edits' = edits + 1, writes' = writes
  PROVE  /\ fs'[name] = file /\ \A n \in Names \ {name} : fs'[n] = fs[n]
         /\ \A n \in StagingNames : There(n)' = There(n)
         /\ \A n \in Replaceable(db) : There(n) => fs'[n] = fs[n]
         /\ Fresh' = Fresh + 1 /\ Fresh >= 2 /\ Fresh \in Nat /\ nextIno \in Nat /\ nextIno > 0
  <1>1. fs \in [Names -> File] /\ nextIno \in Nat
    BY DEF IInv, Sound, DiskType
  <1>2. fs'[name] = file /\ \A n \in Names \ {name} : fs'[n] = fs[n]
    BY <1>1
  <1>3. Fresh' = Fresh + 1 /\ Fresh >= 2 /\ Fresh \in Nat
    BY DEF Fresh, IInv, WorldType
  <1>4. ASSUME NEW n \in StagingNames
        PROVE  There(n)' = There(n)
    <2>1. n # "target" /\ n \in Names
      BY FinalNames
    <2>2. CASE n # name
      BY <1>2, <2>1, <2>2 DEF There, Id
    <2>3. CASE n = name
      <3>1. There(n) /\ fs'[n].id.ino = fs[n].id.ino
        BY <1>2, <2>1, <2>3 DEF Changed, Id
      <3> QED BY <3>1 DEF There, Id, Exists
    <2> QED BY <2>2, <2>3
  <1>5. ASSUME NEW n \in Replaceable(db), There(n)
        PROVE  fs'[n] = fs[n]
    <2>1. n # "target" /\ n \in Names
      BY ReplaceableNames
    <2>2. fs[n].id.ino \notin exposed
      BY <1>5 DEF Kept, Stored, FilesSound, Disposable, There, Id
    <2>3. n # name
      BY <2>1, <2>2 DEF Changed, Id
    <2> QED BY <1>2, <2>1, <2>3
  <1>6. nextIno > 0
    BY DEF Kept, Stored, FilesSound
  <1> QED BY <1>1, <1>2, <1>3, <1>4, <1>5, <1>6

\* The owner cannot take from the coordinator what it relies on unseen.
LEMMA EditStored ==
  ASSUME IInv, Kept, NEW name \in Names, NEW file \in File, Changed(name, file),
         Edit([fs EXCEPT ![name] = file], fs[name].body,
              IF file = Nothing THEN {} ELSE {Fresh})
  PROVE  Stored' /\ RecoverableCopy'
  <1> DEFINE g == [fs EXCEPT ![name] = file]
  <1>1. /\ fs' = g /\ survivors' = {g} /\ edits' = edits + 1 /\ writes' = writes
        /\ exposed' = exposed \cup ({g["target"].id.ino} \ {0})
        /\ db' = db
        /\ precious' = (precious \ Overwritten(fs[name].body))
                         \cup (IF file = Nothing THEN {} ELSE {Fresh})
    BY DEF Edit
  <1>2. /\ g[name] = file /\ \A n \in Names \ {name} : g[n] = fs[n]
        /\ \A n \in StagingNames : Exists(g[n].id) = There(n)
        /\ \A n \in Replaceable(db) : There(n) => g[n] = fs[n]
        /\ Fresh' = Fresh + 1 /\ Fresh >= 2 /\ Fresh \in Nat /\ nextIno \in Nat /\ nextIno > 0
    BY <1>1, ChangedFiles DEF There, Id
  <1>3. /\ fs \in [Names -> File] /\ exposed \subseteq Nat /\ db \in Entry
        /\ fs \in survivors /\ "target" \in Names /\ "target" \notin StagingNames
        /\ FilesSound /\ BodiesSound /\ precious \subseteq Nat
    BY NamesType, FinalNames DEF IInv, Sound, StoreType, DiskType, WorldType, Kept, Stored,
                                 FilesSound
  <1>4. /\ \A n \in Names : (~Exists(fs[n].id) => fs[n] = Nothing) /\ fs[n].id.ino < nextIno
                            /\ fs[n].body < Fresh
        /\ \A m, n \in Names : Exists(fs[m].id) /\ fs[m].id.ino = fs[n].id.ino => m = n
        /\ Exists(fs["target"].id) => fs["target"].id.ino \in exposed
        /\ \A i \in exposed : i < nextIno
    BY <1>3 DEF FilesSound
  <1>5. \A n \in Names : /\ fs[n].id.ino \in Nat /\ fs[n].id.ctime \in Nat /\ fs[n].body \in Nat
                         /\ fs[n].id.meta \in Nat
    BY <1>3 DEF File, Identity
  <1>6. file = Nothing => name = "target" /\ file.id.ino = 0 /\ file.body = 0 /\ ~Exists(file.id)
    BY <1>4 DEF Changed, Nothing, NoId, Exists, There, Id, Empty
  <1>7. file # Nothing => file.body = Fresh /\ file.id.ino # 0
    BY <1>2 DEF Changed, There, Id, Exists
  <1>8. nextIno' \in {nextIno, nextIno + 1}
    BY DEF Changed
  <1> HIDE DEF g
  <1>9. \A n \in Names : g[n].id.ino < nextIno'
    <2> SUFFICES ASSUME NEW n \in Names PROVE g[n].id.ino < nextIno'
      OBVIOUS
    <2>1. CASE n # name
      BY <1>2, <1>4, <1>5, <1>8, <2>1
    <2>2. CASE n = name
      <3>1. CASE file = Nothing
        BY <1>2, <1>6, <1>8, <2>2, <3>1
      <3>2. CASE file # Nothing
        BY <1>2, <1>4, <1>5, <1>8, <2>2, <3>2 DEF Changed, Id
      <3> QED BY <3>1, <3>2
    <2> QED BY <2>1, <2>2
  <1>10. \A m, n \in Names : Exists(g[m].id) /\ g[m].id.ino = g[n].id.ino => m = n
    <2>1. ASSUME NEW n \in Names, n # name
          PROVE  Exists(g[name].id) => g[name].id.ino # g[n].id.ino
      <3>1. g[n] = fs[n] /\ fs[n].id.ino < nextIno
        BY <1>2, <1>4, <2>1
      <3>2. CASE file = Nothing
        BY <1>2, <1>6, <3>2
      <3>3. CASE file # Nothing
        BY <1>2, <1>4, <1>5, <2>1, <3>1, <3>3 DEF Changed, Id, There
      <3> QED BY <3>2, <3>3
    <2>2. ASSUME NEW m \in Names, NEW n \in Names, m # name, n # name, Exists(g[m].id),
                 g[m].id.ino = g[n].id.ino
          PROVE  m = n
      BY <1>2, <1>4, <2>2
    <2> QED BY <2>1, <2>2 DEF Exists
  <1>11. \A n \in Names : (~Exists(g[n].id) => g[n] = Nothing) /\ g[n].body < Fresh'
    <2> SUFFICES ASSUME NEW n \in Names
                 PROVE  (~Exists(g[n].id) => g[n] = Nothing) /\ g[n].body < Fresh'
      OBVIOUS
    <2>1. CASE n # name
      BY <1>2, <1>4, <1>5, <2>1
    <2>2. CASE n = name
      BY <1>2, <1>6, <1>7, <2>2 DEF Exists
    <2> QED BY <2>1, <2>2
  <1>12. FilesSound'
    <2>1. g["target"].id.ino < nextIno' /\ (Exists(g["target"].id) => g["target"].id.ino \in exposed')
      BY <1>1, <1>3, <1>9 DEF Exists
    <2>2. \A i \in exposed' : i < nextIno'
      <3> SUFFICES ASSUME NEW i \in exposed PROVE i < nextIno'
        BY <1>1, <2>1
      <3>1. i \in Nat /\ i < nextIno
        BY <1>3, <1>4
      <3> QED BY <1>2, <1>8, <3>1
    <2>3. nextIno' > 0
      BY <1>2, <1>8
    <2> QED BY <1>1, <1>9, <1>10, <1>11, <2>1, <2>2, <2>3 DEF FilesSound
  <1>13. BodiesSound'
    <2>1. \A b \in precious' : 0 < b
      <3> SUFFICES ASSUME NEW b \in precious' PROVE 0 < b
        OBVIOUS
      <3>1. CASE b \in precious
        BY <1>3, <3>1 DEF BodiesSound
      <3>2. CASE b = Fresh
        <4>1. Fresh \in Nat /\ Fresh >= 2
          BY <1>2
        <4> QED BY <3>2, <4>1
      <3> QED BY <1>1, <3>1, <3>2
    <2>2. db.body \in Nat /\ db.body < Fresh
      BY <1>3 DEF BodiesSound, Entry
    <2> QED BY <1>1, <1>2, <2>1, <2>2 DEF BodiesSound
  <1>14. Tidy'
    BY <1>1, <1>2, <1>3 DEF Kept, Stored, Tidy, There, Id
  <1>15. Disposable'
    <2> SUFFICES ASSUME NEW n \in Replaceable(db), Exists(g[n].id)
                 PROVE  /\ g[n].id.ino \notin exposed'
                        /\ IF db.phase = "captured" THEN g[n].body = Empty /\ g[n].id.meta = 0
                                                    ELSE g[n].body = db.body
      BY <1>1 DEF Disposable
    <2>1. n \in StagingNames /\ n \in Names /\ n # "target"
      BY ReplaceableNames
    <2>2. There(n) /\ g[n] = fs[n]
      BY <1>2, <2>1
    <2>3. /\ fs[n].id.ino \notin exposed
          /\ IF db.phase = "captured" THEN fs[n].body = Empty /\ fs[n].id.meta = 0
                                      ELSE fs[n].body = db.body
      BY <1>3, <2>2 DEF Kept, Stored, Disposable, There, Id
    <2>4. g[n].id.ino # g["target"].id.ino
      BY <1>3, <1>10, <2>1
    <2> QED BY <1>1, <2>2, <2>3, <2>4
  <1>16. OneNamespace'
    BY <1>1 DEF OneNamespace
  <1>17. PlaceholdersEmpty'
    <2> SUFFICES ASSUME Exists(db.placeholder)
                 PROVE  /\ db.placeholder.meta = 0 /\ db.placeholder.ino < nextIno'
                        /\ \A n \in Names : g[n].id.ino = db.placeholder.ino /\ g[n].id.meta = 0
                                              => g[n].body = Empty
      BY <1>1 DEF PlaceholdersEmpty
    <2>1. /\ db.placeholder.meta = 0 /\ db.placeholder.ino < nextIno
          /\ db.placeholder.ino \in Nat /\ db.placeholder.ino # 0
          /\ \A n \in Names : fs[n].id.ino = db.placeholder.ino /\ fs[n].id.meta = 0
                                => fs[n].body = Empty
      BY <1>3 DEF Kept, Stored, PlaceholdersEmpty, Entry, Identity, Exists
    <2>2. db.placeholder.ino < nextIno'
      BY <1>2, <1>8, <2>1
    <2>3. ASSUME NEW n \in Names, g[n].id.ino = db.placeholder.ino, g[n].id.meta = 0
          PROVE  g[n].body = Empty
      <3>1. CASE n # name
        BY <1>2, <2>1, <2>3, <3>1
      <3>2. CASE n = name
        <4>1. file.id.ino = db.placeholder.ino /\ file.id.meta = 0 /\ file # Nothing
          BY <1>2, <1>6, <2>1, <2>3, <3>2
        <4>2. /\ file.id.ino = Id(name).ino /\ file.id.meta = Id(name).meta
              /\ fs[name].body # Empty
          BY <1>2, <2>1, <4>1 DEF Changed
        <4> QED BY <2>1, <4>1, <4>2 DEF Id
      <3> QED BY <3>1, <3>2
    <2> QED BY <2>1, <2>2, <2>3
  <1>18. DetachedSpent'
    <2> SUFFICES ASSUME Exists(db.detached)
                 PROVE  /\ db.detached.ino < nextIno'
                        /\ \A n \in Names :
                             g[n].id.ino = db.detached.ino =>
                               /\ g[n].id.ctime >= db.detached.ctime
                               /\ g[n].id.ctime = db.detached.ctime
                                    => g[n].body \notin precious' \ {db.body}
      BY <1>1 DEF DetachedSpent
    <2>1. /\ db.detached.ino < nextIno /\ db.detached.ino \in Nat /\ db.detached.ino # 0
          /\ db.detached.ctime \in Nat
          /\ \A n \in Names :
               fs[n].id.ino = db.detached.ino =>
                 /\ fs[n].id.ctime >= db.detached.ctime
                 /\ fs[n].id.ctime = db.detached.ctime
                      => fs[n].body \notin precious \ {db.body}
      BY <1>3 DEF Kept, Stored, DetachedSpent, Entry, Identity, Exists
    <2>2. db.detached.ino < nextIno'
      BY <1>2, <1>8, <2>1
    <2>3. ASSUME NEW n \in Names, g[n].id.ino = db.detached.ino
          PROVE  /\ g[n].id.ctime >= db.detached.ctime
                 /\ g[n].id.ctime = db.detached.ctime => g[n].body \notin precious' \ {db.body}
      <3>1. CASE n # name
        <4>1. g[n] = fs[n] /\ fs[n].body # Fresh
          BY <1>2, <1>4, <1>5, <3>1
        <4>2. \A b \in precious' : b \in precious \/ b = Fresh
          BY <1>1
        <4> QED BY <2>1, <2>3, <4>1, <4>2
      <3>2. CASE n = name
        <4>1. file.id.ino = db.detached.ino /\ file # Nothing
          BY <1>2, <1>6, <2>1, <2>3, <3>2
        <4>2. file.id.ino = fs[name].id.ino /\ file.id.ctime = fs[name].id.ctime + 1
          BY <1>2, <2>1, <4>1 DEF Changed, Id
        <4>3. file.id.ctime > db.detached.ctime
          BY <1>5, <2>1, <4>1, <4>2
        <4> QED BY <1>2, <2>1, <3>2, <4>2, <4>3, <1>5
      <3> QED BY <3>1, <3>2
    <2> QED BY <2>2, <2>3
  <1>19. RecoverableCopy'
    <2> SUFFICES ASSUME NEW b \in precious'
                 PROVE  \/ IsPresent(db) /\ db.logical /\ db.body = b
                        \/ \E n \in Names : Exists(g[n].id) /\ g[n].body = b
      BY <1>1 DEF RecoverableCopy
    <2>1. CASE file # Nothing /\ b = Fresh
      BY <1>2, <1>7, <2>1 DEF Exists
    <2>2. CASE b \in precious \ Overwritten(fs[name].body)
      <3>1. CASE IsPresent(db) /\ db.logical /\ db.body = b
        BY <3>1
      <3>2. CASE ~(IsPresent(db) /\ db.logical /\ db.body = b)
        <4>1. PICK n \in Names : Exists(fs[n].id) /\ fs[n].body = b
          BY <1>3, <2>2, <3>2 DEF Kept, RecoverableCopy
        <4>2. n # name
          <5>1. SUFFICES ASSUME n = name PROVE FALSE
            OBVIOUS
          <5>2. IsPresent(db) /\ db.body = b
            BY <2>2, <4>1, <5>1 DEF Overwritten
          <5>3. 0 < b
            BY <1>3, <2>2 DEF BodiesSound
          <5>4. db.logical
            BY <5>2, <5>3 DEF Kept, Agreed, RowSound, ValidSnapshot, Empty
          <5> QED BY <3>2, <5>2, <5>4
        <4>3. g[n] = fs[n]
          BY <1>2, <4>2
        <4> QED BY <4>1, <4>3
      <3> QED BY <3>1, <3>2
    <2> QED BY <1>1, <2>1, <2>2
  <1> QED BY <1>12, <1>13, <1>14, <1>15, <1>16, <1>17, <1>18, <1>19 DEF Stored

\* ... nor change what it found at a label.
LEMMA EditGround ==
  ASSUME IInv, Kept, NEW name \in Names, NEW file \in File, Changed(name, file),
         Edit([fs EXCEPT ![name] = file], fs[name].body,
              IF file = Nothing THEN {} ELSE {Fresh})
  PROVE  Ground'
  <1>1. /\ survivors' = {fs'} /\ edits' = edits + 1 /\ writes' = writes
        /\ fs' = [fs EXCEPT ![name] = file]
        /\ UNCHANGED <<db, op, pc, cur, obs, made>>
    BY DEF Edit, proc
  <1>2. /\ fs'[name] = file /\ \A n \in Names \ {name} : fs'[n] = fs[n]
        /\ \A n \in StagingNames : There(n)' = There(n)
        /\ \A n \in Replaceable(db) : There(n) => fs'[n] = fs[n]
        /\ Fresh' = Fresh + 1 /\ Fresh \in Nat
    BY <1>1, ChangedFiles
  <1>3. Ground /\ fs \in [Names -> File] /\ obs \in Obs /\ cur \in Entry
    BY DEF Kept, IInv, Sound, DiskType, ProcType
  <1>4. ASSUME NEW n \in {"swap", "stored"}
        PROVE  (Tracked(n) => Tracked(n)') /\ (Verified(n) => Verified(n)')
    <2>1. n \in Names /\ n # "target" /\ fs[n].id.ctime \in Nat /\ obs.s.ctime \in Nat
      BY <1>3, FinalNames DEF File, Identity, Obs
    <2>2. CASE fs'[n] = fs[n]
      BY <1>1, <2>2 DEF Tracked, Verified
    <2>3. CASE fs'[n] # fs[n]
      <3>1. n = name
        BY <1>2, <2>1, <2>3
      <3>2. fs'[n].id.ino = fs[n].id.ino /\ fs'[n].id.ctime = fs[n].id.ctime + 1
        BY <1>2, <2>1, <3>1 DEF Changed, Id
      <3> QED BY <1>1, <2>1, <3>2 DEF Tracked, Verified
    <2> QED BY <2>2, <2>3
  <1>5. pc = "commitCaptured" => cur'.body < Fresh' /\ (op' = "store" => Exists(cur'.original))
    <2>1. cur.body \in Nat
      BY <1>3 DEF Entry
    <2> QED BY <1>1, <1>2, <1>3, <2>1 DEF Ground
  <1>6. /\ There("retired")' = There("retired") /\ There("final")' = There("final")
        /\ There("restore")' = There("restore") /\ There("stored")' = There("stored")
        /\ There(Building("swap"))' = There(Building("swap"))
        /\ There(Building("restore"))' = There(Building("restore"))
    BY <1>2, FinalNames
  <1>7. \A names \in SUBSET StagingNames : Absent(fs, names) => Absent(fs, names)'
    BY <1>2 DEF Absent, There, Id
  <1>8. pc = "commitInstallIntent" => Id("swap")' = Id("swap")
    <2> SUFFICES ASSUME pc = "commitInstallIntent" PROVE Id("swap")' = Id("swap")
      OBVIOUS
    <2>1. pc \in InHand /\ cur.phase = "captured" /\ Exists(made)
      BY InHandFacts DEF InHand, Labels, Place
    <2>2. cur = db /\ There("swap")
      BY <1>3, <2>1, InHandFacts DEF Ground, There
    <2>3. "swap" \in Replaceable(db)
      BY <2>1, <2>2 DEF Replaceable
    <2> QED BY <1>2, <2>2, <2>3 DEF Id
  <1>9. pc = "beginFinalization" /\ cur.logical
          => There("final")' /\ fs'["final"].body = cur.body
    <2> SUFFICES ASSUME pc = "beginFinalization", cur.logical
                 PROVE  There("final")' /\ fs'["final"].body = cur.body
      OBVIOUS
    <2>1. pc \in InHand /\ cur.phase = "deleteIntent" /\ cur = db
      BY InHandFacts DEF InHand, Labels, Place
    <2>2. There("final") /\ fs["final"].body = cur.body
      BY <1>3 DEF Ground
    <2>3. "final" \in Replaceable(db)
      BY <2>1 DEF Replaceable
    <2> QED BY <1>2, <1>6, <2>2, <2>3
  <1>10. StagingNames \in SUBSET StagingNames /\ StagingNames \ {"final"} \in SUBSET StagingNames
    OBVIOUS
  <1>11. /\ pc' = "commitStoreIntent" => Absent(fs, StagingNames)'
         /\ pc' = "beginFinalization" => Absent(fs, StagingNames \ {"final"})'
    BY <1>1, <1>3, <1>7, <1>10 DEF Ground
  <1>12. /\ pc' = "installVerify" => Tracked("swap")'
         /\ pc' \in {"installSync", "commitInstalled"} /\ Exists(cur'.original) => Verified("swap")'
         /\ pc' \in {"storeSync", "commitStored"} => Verified("stored")'
    BY <1>1, <1>3, <1>4 DEF Ground
  <1> QED BY <1>1, <1>3, <1>5, <1>6, <1>8, <1>9, <1>11, <1>12 DEF Ground, Absent

LEMMA EditKept ==
  ASSUME IInv, Kept, NEW name \in Names, NEW file \in File, Changed(name, file),
         Edit([fs EXCEPT ![name] = file], fs[name].body,
              IF file = Nothing THEN {} ELSE {Fresh})
  PROVE  Kept'
  <1>1. UNCHANGED <<db, op, pc, cur, obs, made, refused>> /\ edits' = edits + 1
    BY DEF Edit, proc
  <1>2. Agreed'
    BY <1>1 DEF Kept, Agreed, AtHand
  <1>3. Handover'
    BY <1>1 DEF Handover, IInv, WorldType
  <1> QED BY <1>2, <1>3, EditStored, EditGround DEF Kept

LEMMA OwnerKept ==
  ASSUME IInv, Kept, Owner
  PROVE  Kept'
  <1>1. /\ "target" \in Names /\ Nothing \in File /\ Fresh \in Nat /\ nextIno \in Nat
        /\ fs \in [Names -> File]
    BY NamesType, NeutralTypes, FreshType DEF IInv, Sound, DiskType
  <1>2. nextIno > 0
    BY DEF Kept, Stored, FilesSound
  <1>3. CASE OwnerReplace
    <2> DEFINE file == [id |-> [ino |-> nextIno, meta |-> Fresh, ctime |-> 0], body |-> Fresh]
    <2>1. file \in File /\ file # Nothing
      BY <1>1, <1>2 DEF File, Identity, Nothing, NoId
    <2>2. Changed("target", file)
      BY <1>3 DEF Changed, OwnerReplace
    <2>3. Edit([fs EXCEPT !["target"] = file], fs["target"].body,
               IF file = Nothing THEN {} ELSE {Fresh})
      BY <1>3, <2>1 DEF OwnerReplace
    <2> QED BY <1>1, <2>1, <2>2, <2>3, EditKept
  <1>4. CASE OwnerDelete
    <2>1. Changed("target", Nothing)
      BY <1>4 DEF Changed, OwnerDelete
    <2>2. Edit([fs EXCEPT !["target"] = Nothing], fs["target"].body,
               IF Nothing = Nothing THEN {} ELSE {Fresh})
      BY <1>4 DEF OwnerDelete
    <2> QED BY <1>1, <2>1, <2>2, EditKept
  <1>5. ASSUME NEW n \in Names, NEW quiet \in BOOLEAN, OwnerWrite(n, quiet)
        PROVE  Kept'
    <2> DEFINE file == Written(fs[n], quiet)
    <2>1. fs[n] \in File
      BY <1>1
    <2>2. /\ file \in File /\ file.id.ino = fs[n].id.ino /\ file.id.ctime = fs[n].id.ctime + 1
          /\ file.id.meta = (IF quiet THEN fs[n].id.meta ELSE Fresh) /\ file.body = Fresh
      BY <1>1, <2>1 DEF Written, File, Identity
    <2>3. /\ There(n) /\ Id(n).ino \in exposed /\ (quiet => fs[n].body # Empty)
          /\ nextIno' = nextIno /\ Edit([fs EXCEPT ![n] = file], fs[n].body, {Fresh})
      BY <1>5 DEF OwnerWrite
    <2>4. file # Nothing
      BY <2>2, <2>3 DEF There, Id, Exists, Nothing, NoId
    <2> HIDE DEF file
    <2>5. Changed(n, file)
      BY <2>2, <2>3 DEF Changed, Id
    <2> QED BY <2>2, <2>3, <2>4, <2>5, EditKept
  <1>6. CASE MoveParent
    <2>1. UNCHANGED <<db, fs, survivors, exposed, nextIno, op, pc, cur, obs, made, refused,
                      edits, writes, precious>>
      BY <1>6 DEF MoveParent, disk, proc
    <2>2. Agreed'
      BY <2>1 DEF Kept, Agreed, AtHand
    <2>3. FilesSound' /\ BodiesSound'
      BY <2>1 DEF Kept, Stored, FilesSound, BodiesSound, Fresh
    <2>4. Tidy' /\ Disposable' /\ OneNamespace' /\ PlaceholdersEmpty' /\ DetachedSpent'
      BY <2>1 DEF Kept, Stored, Tidy, Disposable, OneNamespace, PlaceholdersEmpty, DetachedSpent
    <2>5. Ground' /\ Handover' /\ RecoverableCopy'
      BY <2>1 DEF Kept, Ground, Handover, Following, RecoverableCopy, There, Id, Tracked, Verified,
                  Fresh, Absent
    <2> QED BY <2>2, <2>3, <2>4, <2>5 DEF Kept, Stored
  <1> QED BY <1>3, <1>4, <1>5, <1>6 DEF Owner

\* A write through the mount is in the row before it is acknowledged.
LEMMA MountedWriteKept ==
  ASSUME IInv, Kept, MountedWrite
  PROVE  Kept'
  <1> DEFINE next == [db EXCEPT !.body = Fresh, !.logical = TRUE]
  <1>1. /\ mounted = "live" /\ db.phase = "mountIntent" /\ Accepts(db, db, next) /\ db' = next
        /\ precious' = (precious \ {db.body}) \cup {Fresh} /\ writes' = writes + 1
        /\ UNCHANGED <<fs, survivors, exposed, nextIno, op, pc, cur, obs, made, refused, edits>>
    BY DEF MountedWrite, disk, proc
  <1>2. db \in Entry /\ pc \in Holding /\ edits \in Nat /\ writes \in Nat
    BY <1>1 DEF IInv, Sound, StoreType, Safe, MountPlaces, WorldType
  <1>3. pc \notin InHand /\ pc \notin {"capture", "commitCaptured"} /\ pc \notin GroundLabels
    BY <1>2 DEF Holding, InHand, GroundLabels
  <1>4. /\ next.phase = "mountIntent" /\ next.body = Fresh /\ next.logical = TRUE
        /\ next.placeholder = db.placeholder /\ next.detached = db.detached
        /\ next.restore = db.restore /\ next.origin = db.origin
    BY <1>1, <1>2 DEF Entry
  <1> HIDE DEF next
  <1>5. IsPresent(db) /\ IsPresent(next) /\ ValidSnapshot(next)
    BY <1>1, <1>4 DEF IsPresent, Accepts
  <1>6. RowSound(next)
    BY <1>1, <1>4, <1>5 DEF Kept, Agreed, RowSound, IsPresent
  <1>7. Agreed'
    BY <1>1, <1>3, <1>6 DEF Kept, Agreed, AtHand
  <1>8. Fresh' = Fresh + 1 /\ Fresh \in Nat /\ Fresh >= 2
    BY <1>1, <1>2 DEF Fresh
  <1>9. FilesSound'
    <2>1. ASSUME NEW f \in survivors, NEW n \in Names
          PROVE  f[n].body < Fresh'
      <3>1. f[n].body \in Nat /\ f[n].body < Fresh
        BY DEF IInv, Sound, DiskType, File, Kept, Stored, FilesSound
      <3> QED BY <1>8, <3>1
    <2> QED BY <1>1, <2>1 DEF Kept, Stored, FilesSound
  <1>10. BodiesSound'
    <2>1. ASSUME NEW b \in precious'
          PROVE  0 < b
      <3>1. b \in precious \/ b = Fresh
        BY <1>1, <2>1
      <3>2. CASE b \in precious
        BY <3>2 DEF Kept, Stored, BodiesSound
      <3>3. CASE b = Fresh
        BY <1>8, <3>3
      <3> QED BY <3>1, <3>2, <3>3
    <2>2. db'.body < Fresh'
      BY <1>1, <1>4, <1>8
    <2> QED BY <2>1, <2>2 DEF BodiesSound
  <1>11. Occupied(db) = {"swap"} /\ Occupied(db') = {"swap"} /\ Replaceable(db') = {}
    BY <1>1, <1>4 DEF Occupied, Replaceable
  <1>12. Tidy' /\ Disposable' /\ OneNamespace' /\ PlaceholdersEmpty'
    BY <1>1, <1>4, <1>11 DEF Kept, Stored, Tidy, Disposable, OneNamespace, PlaceholdersEmpty
  <1>13. DetachedSpent'
    <2>1. precious' \ {Fresh} \subseteq precious \ {db.body}
      BY <1>1
    <2> QED BY <1>1, <1>4, <2>1 DEF Kept, Stored, DetachedSpent
  <1>14. RecoverableCopy'
    <2> SUFFICES ASSUME NEW b \in precious', NEW f \in survivors
                 PROVE  \/ b = Fresh
                        \/ \E n \in Names : Exists(f[n].id) /\ f[n].body = b
      BY <1>1, <1>4, <1>5 DEF RecoverableCopy
    <2> QED BY <1>1 DEF Kept, RecoverableCopy
  <1>15. Handover'
    <2>1. edits = 0 => precious \subseteq {db.body}
      BY <1>1 DEF Kept, Handover, Following
    <2>2. edits = 0 => precious' = {Fresh}
      BY <1>1, <2>1
    <2>3. pc' \notin {"commitCaptured", "deleteMarker"}
      BY <1>1, <1>3 DEF GroundLabels
    <2> QED BY <1>1, <1>4, <2>2, <2>3 DEF Handover, Following
  <1>16. Ground'
    BY <1>1, <1>3, GroundElsewhere
  <1> QED BY <1>7, <1>9, <1>10, <1>12, <1>13, <1>14, <1>15, <1>16 DEF Kept, Stored

\* Whatever ends an operation, it leaves the coordinator with nothing in hand.
LEMMA DisasterKept ==
  ASSUME IInv, Kept, Disaster
  PROVE  Kept'
  <1>1. /\ UNCHANGED <<db, refused, edits, writes, precious, nextIno>>
        /\ pc' \in Nowhere
    BY FailPlace DEF Disaster, StepFails, ProcessCrash, PowerLoss, Faulty, disk, Enter, Nowhere
  <1>2. Agreed'
    BY <1>1, NowhereAgreed DEF Kept, Agreed
  <1>3. pc' \notin GroundLabels /\ pc' \notin {"commitCaptured", "deleteMarker"}
    BY <1>1 DEF Nowhere, GroundLabels
  <1>4. Ground'
    BY <1>3, GroundElsewhere
  <1>5. CASE UNCHANGED disk
    <2>1. UNCHANGED <<fs, survivors, exposed>>
      BY <1>5 DEF disk
    <2>2. FilesSound' /\ BodiesSound'
      BY <1>1, <2>1 DEF Kept, Stored, FilesSound, BodiesSound, Fresh
    <2>3. Tidy' /\ Disposable' /\ OneNamespace' /\ PlaceholdersEmpty' /\ DetachedSpent'
      BY <1>1, <2>1 DEF Kept, Stored, Tidy, Disposable, OneNamespace, PlaceholdersEmpty,
                        DetachedSpent
    <2>4. RecoverableCopy' /\ Handover'
      BY <1>1, <1>3, <2>1 DEF Kept, RecoverableCopy, Handover, Following, There, Id
    <2> QED BY <1>2, <1>4, <2>2, <2>3, <2>4 DEF Kept, Stored
  <1>6. CASE PowerLoss
    <2>1. /\ fs' \in survivors /\ survivors' = {fs'}
          /\ exposed' = {fs'["target"].id.ino} \ {0}
      BY <1>6 DEF PowerLoss
    <2>2. Stored /\ RecoverableCopy /\ FilesSound
      BY DEF Kept, Stored
    <2>3. exposed' \subseteq exposed
      BY <2>1, <2>2 DEF FilesSound, Exists
    <2>4. Exists(fs'["target"].id) => fs'["target"].id.ino \in exposed'
      BY <2>1 DEF Exists
    <2>5. Stored' /\ RecoverableCopy'
      BY <1>1, <2>1, <2>2, <2>3, <2>4, SettledStored
    <2>6. db.phase = "missing" => fs' = fs
      BY <2>1, <2>2 DEF Stored, OneNamespace
    <2>7. Handover'
      BY <1>1, <1>3, <2>6 DEF Kept, Handover, Following, There, Id
    <2> QED BY <1>2, <1>4, <2>5, <2>7 DEF Kept
  <1> QED BY <1>5, <1>6 DEF Disaster, StepFails, ProcessCrash

-----------------------------------------------------------------------------
(* The specification                                                       *)

LEMMA InitKept == Init => Kept
  <1> SUFFICES ASSUME Init PROVE Kept
    OBVIOUS
  <1>1. PICK there \in InitiallyThere :
          /\ fs = [n \in Names |->
                     IF n = "target" /\ there
                     THEN [id |-> [ino |-> 1, meta |-> 1, ctime |-> 0], body |-> 1]
                     ELSE Nothing]
          /\ precious = IF there THEN {1} ELSE {}
          /\ exposed = IF there THEN {1} ELSE {}
    BY DEF Init
  <1>2. /\ survivors = {fs} /\ nextIno = 2 /\ db = Missing /\ pc = "idle" /\ ~refused
        /\ edits = 0 /\ writes = 0 /\ Fresh = 2
    BY DEF Init, Fresh
  <1>3. /\ there => fs["target"] = [id |-> [ino |-> 1, meta |-> 1, ctime |-> 0], body |-> 1]
        /\ ~there => fs["target"] = Nothing
        /\ \A n \in Names \ {"target"} : fs[n] = Nothing
        /\ "target" \in Names /\ StagingNames = Names \ {"target"}
    BY <1>1, FinalNames
  <1>4. /\ db.phase = "missing" /\ db.body = 0 /\ db.placeholder = NoId /\ db.detached = NoId
        /\ RowSound(db) /\ Occupied(db) = {} /\ Replaceable(db) = {}
    BY <1>2 DEF Missing, Empty, RowSound, IsPresent, Occupied, Replaceable
  <1>5. Agreed
    BY <1>2, <1>4 DEF Agreed, AtHand, Place, InHand, FinLabels
  <1>6. /\ Nothing.id.ino = 0 /\ Nothing.body = 0 /\ ~Exists(Nothing.id)
    BY DEF Nothing, NoId, Empty, Exists
  <1>7. /\ there => There("target") /\ fs["target"].id.ino = 1 /\ fs["target"].body = 1
        /\ ~there => ~There("target")
        /\ \A n \in Names \ {"target"} : ~Exists(fs[n].id)
    BY <1>3, <1>6 DEF There, Id, Exists
  <1>8. FilesSound
    <2>1. ASSUME NEW n \in Names
          PROVE  /\ ~Exists(fs[n].id) => fs[n] = Nothing
                 /\ fs[n].id.ino < 2 /\ fs[n].body < 2
      <3>1. CASE n = "target" /\ there
        BY <1>7, <3>1 DEF There, Id
      <3>2. CASE n = "target" /\ ~there
        BY <1>3, <1>6, <3>2
      <3>3. CASE n # "target"
        BY <1>3, <1>6, <3>3
      <3> QED BY <3>1, <3>2, <3>3
    <2>2. \A m, n \in Names : Exists(fs[m].id) /\ fs[m].id.ino = fs[n].id.ino => m = n
      <3>1. ASSUME NEW m \in Names, NEW n \in Names, Exists(fs[m].id), Exists(fs[n].id)
            PROVE  m = n
        BY <1>7, <3>1
      <3>2. \A m, n \in Names : Exists(fs[m].id) /\ fs[m].id.ino = fs[n].id.ino
                                  => Exists(fs[n].id)
        BY DEF Exists
      <3> QED BY <3>1, <3>2
    <2>3. Exists(fs["target"].id) => fs["target"].id.ino \in exposed
      BY <1>1, <1>7 DEF There, Id
    <2> QED BY <1>1, <1>2, <2>1, <2>2, <2>3 DEF FilesSound
  <1>9. BodiesSound /\ Tidy /\ Disposable /\ OneNamespace /\ PlaceholdersEmpty /\ DetachedSpent
    BY <1>1, <1>2, <1>3, <1>4, <1>7 DEF BodiesSound, Tidy, Disposable, OneNamespace,
                                        PlaceholdersEmpty, DetachedSpent, Exists, NoId
  <1>10. RecoverableCopy
    BY <1>1, <1>2, <1>3, <1>7 DEF RecoverableCopy, There, Id
  <1>11. Ground /\ Handover
    BY <1>1, <1>2, <1>4, <1>7 DEF Ground, Handover, Following
  <1> QED BY <1>5, <1>8, <1>9, <1>10, <1>11 DEF Kept, Stored

LEMMA CheckFailsKept ==
  ASSUME IInv, Kept, CheckFails
  PROVE  Kept'
  <1>1. pc \in Checking /\ pc \in InHand /\ UNCHANGED world /\ Block("io")
    BY CheckingPlaces DEF CheckFails
  <1>2. Place(pc, cur, obs, made)
    BY <1>1, InHandFacts
  <1>3. IsPresent(cur)
    BY <1>1, <1>2 DEF Checking, Place, IsPresent
  <1> QED BY <1>1, <1>3, ReasonsInUse, ConflictKept

LEMMA NextKept == IInv /\ Kept /\ [Next]_vars => Kept'
  <1> SUFFICES ASSUME IInv, Kept, [Next]_vars PROVE Kept'
    OBVIOUS
  <1>1. CASE (Issue \/ Coordinate) /\ UNCHANGED world /\ UNCHANGED faults
    BY <1>1, IssueKept, InterceptorKept, InstallKept, RestoreKept, CleanKept, FinalizeKept,
       StoreKept DEF Coordinate
  <1>2. CASE UNCHANGED vars
    <2>1. UNCHANGED <<db, fs, survivors, exposed, nextIno, op, pc, cur, obs, made, refused,
                      edits, writes, precious>>
      BY <1>2 DEF vars, disk, proc, world
    <2>2. Agreed'
      BY <2>1 DEF Kept, Agreed, AtHand
    <2>3. FilesSound' /\ BodiesSound'
      BY <2>1 DEF Kept, Stored, FilesSound, BodiesSound, Fresh
    <2>4. Tidy' /\ Disposable' /\ OneNamespace' /\ PlaceholdersEmpty' /\ DetachedSpent'
      BY <2>1 DEF Kept, Stored, Tidy, Disposable, OneNamespace, PlaceholdersEmpty, DetachedSpent
    <2>5. Ground' /\ Handover' /\ RecoverableCopy'
      BY <2>1 DEF Kept, Ground, Handover, Following, RecoverableCopy, There, Id, Tracked, Verified,
                  Fresh, Absent
    <2> QED BY <2>2, <2>3, <2>4, <2>5 DEF Kept, Stored
  <1> QED BY <1>1, <1>2, OwnerKept, MountedWriteKept, DisasterKept, CheckFailsKept DEF Next

LEMMA AlwaysKept == Spec => []Kept
  <1>1. Init => IInv /\ Kept
    BY InitInv, InitKept
  <1>2. IInv /\ Kept /\ [Next]_vars => (IInv /\ Kept)'
    BY NextInv, NextKept
  <1> QED BY <1>1, <1>2, PTL DEF Spec

\* At every point at which the coordinator can be interrupted, and in every
\* namespace a power loss may then leave, the last contents of the credential
\* are in the store's row or in a file: nothing that start, stop, store,
\* restore or a replay does, and no edit of the owner meanwhile, loses them.
THEOREM CopyRecoverable == Spec => []RecoverableCopy
  <1>1. Kept => RecoverableCopy
    BY DEF Kept
  <1> QED BY <1>1, AlwaysKept, PTL

\* Every commit of transaction.rs is a successor that the store's own checks of
\* rows and transitions admit (sqlite.rs): no operation, and no replay of one,
\* is stopped by a refusal it could not foresee.
THEOREM CommitsAdmitted == Spec => []NeverRefused
  <1>1. Kept => NeverRefused
    BY DEF Kept, Agreed, NeverRefused
  <1> QED BY <1>1, AlwaysKept, PTL

\* When the marker has gone, staging is empty on every namespace a power loss
\* may leave, and the path holds what was last acknowledged.
THEOREM HandoverClean == Spec => []CleanHandover
  <1>1. Kept => CleanHandover
    <2> SUFFICES ASSUME Kept, db.phase = "missing", NEW f \in survivors
                 PROVE  /\ \A n \in StagingNames : ~Exists(f[n].id)
                        /\ edits = 0 => IF precious = {} THEN ~Exists(f["target"].id)
                                        ELSE f["target"].body \in precious
      BY DEF CleanHandover
    <2>1. f = fs
      BY DEF Kept, Stored, OneNamespace
    <2>2. \A n \in StagingNames : ~Exists(f[n].id)
      BY DEF Kept, Stored, Tidy, Occupied
    <2>3. edits = 0 => precious = IF There("target") THEN {fs["target"].body} ELSE {}
      BY DEF Kept, Handover, Following
    <2> QED BY <2>1, <2>2, <2>3 DEF There, Id
  <1> QED BY <1>1, AlwaysKept, PTL


\* While the owner leaves the files alone, what somebody relies on is the
\* credential, wherever it is kept, and it says whether there is one.
CredentialRelied ==
    edits = 0 =>
      /\ TheCredential \in [there : BOOLEAN, body : Nat]
      /\ TheCredential.there => precious = {TheCredential.body}
      /\ ~TheCredential.there => precious = {} /\ TheCredential.body = Empty

LEMMA KeptRelied == IInv /\ Kept => CredentialRelied
  <1> SUFFICES ASSUME IInv, Kept, edits = 0
               PROVE  /\ TheCredential \in [there : BOOLEAN, body : Nat]
                      /\ TheCredential.there => precious = {TheCredential.body}
                      /\ ~TheCredential.there => precious = {} /\ TheCredential.body = Empty
    BY DEF CredentialRelied
  <1>1. db \in Entry /\ fs \in [Names -> File] /\ "target" \in Names
    <2>1. StoreType /\ DiskType
      BY DEF IInv, Sound
    <2> QED BY <2>1 DEF StoreType, DiskType, Names
  <1>2. Following
    BY DEF Kept, Handover
  <1>3. CASE db.phase = "missing"
    <2>1. TheCredential = [there |-> There("target"), body |-> fs["target"].body]
      BY <1>3 DEF TheCredential
    <2>2. There("target") \in BOOLEAN /\ fs["target"].body \in Nat
      BY <1>1 DEF File, There, Exists
    <2>3. ~There("target") => fs["target"].body = Empty
      BY <1>1 DEF Kept, Stored, FilesSound, There, Id, Nothing
    <2> QED BY <1>2, <1>3, <2>1, <2>2, <2>3 DEF Following
  <1>4. CASE db.phase # "missing"
    <2>1. TheCredential = [there |-> db.logical, body |-> db.body]
      BY <1>4 DEF TheCredential, Credential
    <2>2. db.logical \in BOOLEAN /\ db.body \in Nat
      BY <1>1 DEF Entry
    <2>3. ~db.logical => db.body = Empty
      BY <1>4 DEF Kept, Agreed, RowSound, IsPresent, ValidSnapshot, ValidMarker
    <2> QED BY <1>2, <1>4, <2>1, <2>2, <2>3 DEF Following
  <1> QED BY <1>3, <1>4

\* Without an edit of the owner or an acknowledged write, nothing else is
\* relied on after a step than before.
LEMMA ReliedUnchanged ==
  ASSUME IInv, [Next]_vars, edits' = 0, writes' = writes
  PROVE  edits = 0 /\ precious' = precious
  <1>1. edits \in Nat /\ writes \in Nat
    BY DEF IInv, WorldType
  <1>2. CASE (Issue \/ Coordinate) /\ UNCHANGED world /\ UNCHANGED faults
    BY <1>2 DEF world
  <1>3. CASE Owner
    BY <1>1, <1>3 DEF Owner, OwnerReplace, OwnerDelete, OwnerWrite, Edit, MoveParent
  <1>4. CASE MountedWrite
    BY <1>1, <1>4 DEF MountedWrite
  <1>5. CASE Disaster
    BY <1>5 DEF Disaster, StepFails, ProcessCrash, PowerLoss, Faulty
  <1>6. CASE UNCHANGED vars \/ CheckFails
    BY <1>6 DEF vars, world, CheckFails
  <1> QED BY <1>2, <1>3, <1>4, <1>5, <1>6 DEF Next

\* As long as the owner leaves the files alone, the credential -- in custody or
\* at the path -- is the same before and after every step but an acknowledged
\* write: capture takes what is there, finalization leaves what was held, and
\* no error, crash or power loss between them changes either.
THEOREM CredentialFollowed == Spec => CredentialKept
  <1>1. ASSUME IInv, CredentialRelied, CredentialRelied', [Next]_vars
        PROVE  [edits' = 0 /\ moves' = 0 /\ writes' = writes
                  => TheCredential' = TheCredential]_vars
    <2> SUFFICES ASSUME edits' = 0, writes' = writes
                 PROVE  TheCredential' = TheCredential
      OBVIOUS
    <2>1. edits = 0 /\ precious' = precious
      BY <1>1, ReliedUnchanged
    <2>2. PICK old : old = TheCredential
      OBVIOUS
    <2>3. PICK new : new = TheCredential'
      OBVIOUS
    <2>4. /\ old \in [there : BOOLEAN, body : Nat]
          /\ old.there => precious = {old.body}
          /\ ~old.there => precious = {} /\ old.body = Empty
      BY <1>1, <2>1, <2>2 DEF CredentialRelied
    <2>5. /\ new \in [there : BOOLEAN, body : Nat]
          /\ new.there => precious = {new.body}
          /\ ~new.there => precious = {} /\ new.body = Empty
      BY <1>1, <2>1, <2>3 DEF CredentialRelied
    <2>6. old.there = new.there /\ old.body = new.body
      BY <2>4, <2>5
    <2>7. old = new
      BY <2>4, <2>5, <2>6
    <2> QED BY <2>2, <2>3, <2>7
  <1>2. Spec => []IInv /\ []CredentialRelied
    BY Inductive, AlwaysKept, KeptRelied, PTL
  <1> QED BY <1>1, <1>2, PTL DEF Spec, CredentialKept


-----------------------------------------------------------------------------
(* Peace is inductive, given IInv and Kept.                                *)

-----------------------------------------------------------------------------
(* Steps in peace that leave the files alone                               *)

\* A step of the coordinator in peace, what was proved before it and after.
InPeace == IInv /\ Kept /\ Kept' /\ Undisturbed /\ UNCHANGED world

LEMMA PeaceFacts ==
  ASSUME InPeace
  PROVE  /\ Sound /\ fs \in [Names -> File] /\ fs \in survivors /\ FilesSound /\ FilesSound'
         /\ RowSound(db) /\ ~refused' /\ ~moved /\ ~moved' /\ nextIno > 0
         /\ db.blocked \in {"no", "staging", "io"} /\ StampsAgree(db) /\ Layout(db, fs) /\ Footing
         /\ \A f \in survivors : Layout(db, f)
  <1>1. Sound /\ fs \in [Names -> File]
    BY DEF InPeace, IInv, Sound, DiskType
  <1>2. fs \in survivors /\ FilesSound /\ FilesSound' /\ RowSound(db) /\ ~refused' /\ nextIno > 0
    BY DEF InPeace, Kept, Stored, FilesSound, Agreed
  <1>3. ~moved /\ ~moved'
    BY DEF InPeace, Undisturbed, world
  <1> QED BY <1>1, <1>2, <1>3 DEF InPeace, Undisturbed

\* A file that does not exist is nothing, and its identity is none.
LEMMA NoFileNoId ==
  ASSUME FilesSound, NEW f \in survivors, NEW n \in Names
  PROVE  ~Exists(f[n].id) <=> f[n].id = NoId
  BY DEF FilesSound, Nothing, Exists, NoId

\* Labels at which something was found or made that only peace keeps.
FootingLabels == {"commitCaptured", "installRename", "installReobserve", "installVerify",
                  "installSync", "commitInstalled", "storeReobserve", "storeVerify", "storeSync",
                  "commitStored", "promoteRestore", "commitRestoreFile", "restoreRename",
                  "restoreReobserve", "restoreVerify", "restoreSync", "commitRestored",
                  "beginFinalization"} \cup Retiring

LEMMA FootingElsewhere == pc' \notin FootingLabels => Footing'
  BY DEF Footing, FootingLabels, Retiring

LEMMA StandsStill ==
  ASSUME InPeace, db' = db, survivors' \subseteq survivors, Footing'
  PROVE  Undisturbed'
  <1>1. moved' = moved
    BY DEF InPeace, world
  <1> QED BY <1>1 DEF InPeace, Undisturbed

\* A check, a failure, or the end of a command.
LEMMA CalmRead ==
  ASSUME InPeace, Still, pc' \notin FootingLabels
  PROVE  Undisturbed'
  BY FootingElsewhere, StandsStill DEF Still, disk

LEMMA CalmOut ==
  ASSUME InPeace, Still, Fail \/ Exit
  PROVE  Undisturbed'
  <1>1. pc' \notin FootingLabels
    BY FailPlace DEF FootingLabels, Retiring
  <1> QED BY <1>1, CalmRead

\* On to a label that claims nothing, or out.
LEMMA CalmCheck ==
  ASSUME InPeace, NEW label, label \notin FootingLabels,
         \/ Pass(label) \/ Loaded(label) \/ Abandon
         \/ \E entry, seen, file : Still /\ Proceed(label, entry, seen, file)
  PROVE  Undisturbed'
  <1>1. CASE Abandon
    BY <1>1, CalmOut DEF Abandon
  <1>2. CASE ~Abandon
    BY <1>2, CalmRead DEF Pass, Loaded, Goto, Proceed
  <1> QED BY <1>1, <1>2

\* What a conflict adds says nothing about files.
LEMMA BlockedLayout ==
  ASSUME NEW e \in Entry, NEW reason
  PROVE  LET b == [e EXCEPT !.blocked = reason]
         IN  /\ StampsAgree(e) <=> StampsAgree(b)
             /\ \A f : Layout(e, f) <=> Layout(b, f)
  <1> DEFINE b == [e EXCEPT !.blocked = reason]
  <1>1. /\ b.phase = e.phase /\ b.original = e.original /\ b.meta = e.meta
        /\ b.body = e.body /\ b.logical = e.logical /\ b.placeholder = e.placeholder
        /\ b.detached = e.detached /\ b.origin = e.origin /\ b.restore = e.restore
        /\ b.displaced = e.displaced
    BY DEF Entry
  <1> HIDE DEF b
  <1>2. StampsAgree(e) <=> StampsAgree(b)
    BY <1>1 DEF StampsAgree, IsPresent
  <1>3. ASSUME NEW f PROVE Layout(e, f) <=> Layout(b, f)
    BY <1>1 DEF Layout, InstallBefore, InstallAfter, StoreAfter, RestoreBefore, RestoreAfter,
                DetachedName
  <1> QED BY <1>2, <1>3 DEF b

\* The conflicts that may be.
LEMMA CalmBlock ==
  ASSUME InPeace, NEW reason \in {"staging", "io"}, Block(reason)
  PROVE  Undisturbed'
  <1>1. Sound /\ cur \in Entry /\ ~refused' /\ Fail /\ UNCHANGED disk
    BY PeaceFacts DEF Sound, ProcType, Block
  <1>2. db' = [cur EXCEPT !.blocked = reason] /\ Accepts(db, cur, db')
    BY <1>1 DEF Block
  <1>3. cur = db
    BY <1>1, <1>2, AcceptedRow DEF Entry
  <1>4. db'.blocked = reason /\ StampsAgree(db') /\ \A f : Layout(db, f) => Layout(db', f)
    BY <1>1, <1>2, <1>3, BlockedLayout, PeaceFacts DEF Entry
  <1>5. Footing'
    BY <1>1, FailPlace, FootingElsewhere DEF FootingLabels, Retiring
  <1>6. survivors' = survivors
    BY <1>1 DEF disk
  <1> QED BY <1>4, <1>5, <1>6, PeaceFacts DEF Undisturbed

\* A successor the files fit as they fitted the entry before.
LEMMA CalmRow ==
  ASSUME InPeace, db'.blocked \in {"no", "staging", "io"}, UNCHANGED disk, StampsAgree(db'),
         \A f \in survivors : Layout(db', f), Footing'
  PROVE  Undisturbed'
  BY PeaceFacts DEF Undisturbed, disk

LEMMA CalmCommit ==
  ASSUME InPeace, NEW next, NEW label, Commit(next, label), label \notin FootingLabels,
         next.blocked = "no", StampsAgree(next), \A f \in survivors : Layout(next, f)
  PROVE  Undisturbed'
  <1>1. db' = next /\ UNCHANGED disk /\ pc' = label
    BY PeaceFacts DEF Commit, CommitFrom, Proceed
  <1> QED BY <1>1, CalmRow, FootingElsewhere

-----------------------------------------------------------------------------
(* Commands and the interceptor in peace                                   *)

LEMMA IssueCalm ==
  ASSUME InPeace, Issue
  PROVE  Undisturbed'
  <1>1. Still /\ pc' \in {"storeLoad", "restoreLoad", "stop", "detach", "prepare"}
    BY DEF Issue, StoreCommand, RestoreCommand, StopCommand, Start, Enter
  <1> QED BY <1>1, CalmRead DEF FootingLabels, Retiring

\* From installation to the fence the files are where `installed' has them.
LEMMA InstalledCalm ==
  ASSUME NEW e, NEW f, {e.phase, f.phase} \subseteq {"installed", "mountIntent", "unmountIntent"},
         f.placeholder = e.placeholder, f.detached = e.detached, f.restore = NoId
  PROVE  StampsAgree(f) /\ \A g : Layout(e, g) => Layout(f, g)
  BY DEF StampsAgree, Layout, Exists, NoId

\* What is in hand, with the files it describes.
LEMMA InPeaceHand ==
  ASSUME InPeace, pc \in InHand
  PROVE  /\ cur = db /\ cur \in Entry /\ RowSound(cur) /\ cur.blocked = "no"
         /\ Layout(cur, fs) /\ StampsAgree(cur) /\ obs \in Obs /\ made \in Identity
         /\ Place(pc, cur, obs, made)
  BY InHandFacts, PeaceFacts DEF InPeace

LEMMA InstalledFits ==
  ASSUME InPeace, pc \in InHand, cur.phase \in {"installed", "mountIntent", "unmountIntent"}
  PROVE  InstalledLayout(cur)
  <1>1. cur = db
    BY InHandFacts DEF InPeace
  <1> QED BY <1>1, PeaceFacts DEF InstalledLayout, Layout, Pair, Id

LEMMA StoredFits ==
  ASSUME InPeace, pc \in InHand, cur.phase = "stored"
  PROVE  StoredLayout(cur)
  <1>1. cur = db
    BY InHandFacts DEF InPeace
  <1>2. Layout(cur, fs) /\ ~moved
    BY <1>1, PeaceFacts
  <1>3. fs["target"].id = NoId /\ fs["stored"].id = cur.detached
    BY <1>2 DEF Layout, Pair
  <1> QED BY <1>2, <1>3 DEF StoredLayout, There, Id, Exists, NoId

\* A step within these phases.
LEMMA CommitInstalledCalm ==
  ASSUME InPeace, NEW next \in Entry, NEW label, Commit(next, label),
         label \notin FootingLabels, cur # Missing,
         {cur.phase, next.phase} \subseteq {"installed", "mountIntent", "unmountIntent"},
         next.placeholder = cur.placeholder, next.detached = cur.detached,
         next.restore = cur.restore, next.blocked = cur.blocked
  PROVE  Undisturbed'
  <1>1. Accepts(db, cur, next)
    BY PeaceFacts DEF Commit, CommitFrom
  <1>2. db = cur /\ cur.blocked = "no"
    BY <1>1, AcceptedRow
  <1>3. next.restore = NoId
    BY <1>2, PeaceFacts DEF RowSound, StampsAgree, IsPresent
  <1>4. StampsAgree(next) /\ \A f \in survivors : Layout(next, f)
    BY <1>2, <1>3, InstalledCalm, PeaceFacts
  <1> QED BY <1>2, <1>4, CalmCommit

LEMMA ReconciledCalm ==
  ASSUME Reconciled
  PROVE  pc' \in {"prepare", "restoreLoad", "idle"}
  BY DEF Reconciled, Enter, Proceed, Exit

LEMMA InterceptorCalm ==
  ASSUME InPeace, Interceptor
  PROVE  Undisturbed'
  <1>1. CASE EnterStop
    <2>1. Pass("beginUnmount") \/ Pass("detach")
      BY <1>1 DEF EnterStop
    <2> QED BY <2>1, CalmCheck DEF FootingLabels, Retiring
  <1>11. CASE BeginUnmount
    <2>1. \/ Abandon \/ Loaded("commitUnmount") \/ Pass("detach")
      BY <1>11 DEF BeginUnmount
    <2> QED BY <2>1, CalmCheck DEF FootingLabels, Retiring
  <1>2. CASE CommitUnmount
    <2> DEFINE next == [cur EXCEPT !.phase = "unmountIntent", !.next = UnmountOutcome]
    <2>1. Pass("beginUnmount") \/ Commit(next, "detach")
      BY <1>2 DEF CommitUnmount
    <2>2. CASE Pass("beginUnmount")
      BY <2>2, CalmCheck DEF FootingLabels, Retiring
    <2>3. CASE Commit(next, "detach")
      <3>1. cur \in Entry /\ cur.phase = "mountIntent"
        BY <1>2, PeaceFacts DEF CommitUnmount, InPeace, Kept, Agreed, AtHand, Place, Sound, ProcType
      <3>2. /\ next \in Entry /\ next.phase = "unmountIntent"
            /\ next.placeholder = cur.placeholder /\ next.detached = cur.detached
            /\ next.restore = cur.restore /\ next.blocked = cur.blocked
        BY <3>1 DEF Entry, UnmountOutcome, Phases
      <3>3. cur # Missing
        BY <3>1 DEF Missing
      <3> HIDE DEF next
      <3> QED BY <2>3, <3>1, <3>2, <3>3, CommitInstalledCalm DEF FootingLabels, Retiring
    <2> QED BY <2>1, <2>2, <2>3
  <1>3. CASE Detach
    BY <1>3, CalmRead DEF Detach, FootingLabels, Retiring
  <1>4. CASE Reconcile
    <2>1. \/ Loaded("finObserve") \/ Abandon \/ Loaded("beginRestore") \/ Loaded("leaveCheck")
          \/ Still /\ Reconciled
      BY <1>4 DEF Reconcile
    <2>2. CASE Still /\ Reconciled
      BY <2>2, ReconciledCalm, CalmRead DEF FootingLabels, Retiring
    <2> QED BY <2>1, <2>2, CalmCheck DEF FootingLabels, Retiring
  <1>5. CASE LeaveCheck
    <2>1. pc \in InHand /\ cur.phase \in {"installed", "mountIntent", "unmountIntent"}
      BY <1>5 DEF LeaveCheck, InHand, Labels, InPeace, Kept, Agreed, AtHand, Place
    <2>2. Pass("commitLeave")
      BY <1>5, <2>1, InstalledFits DEF LeaveCheck
    <2> QED BY <2>2, CalmCheck DEF FootingLabels, Retiring
  <1>6. CASE CommitLeave
    <2> DEFINE next == [cur EXCEPT !.phase = "installed", !.next = "none"]
    <2>1. pc \in InHand /\ cur.phase \in {"mountIntent", "unmountIntent"}
      BY <1>6 DEF CommitLeave, InHand, Labels, InPeace, Kept, Agreed, AtHand, Place
    <2>2. cur = db /\ cur \in Entry /\ cur.blocked = "no"
      BY <2>1, InHandFacts DEF InPeace
    <2>3. db' = next /\ Reconciled /\ UNCHANGED disk
      BY <1>6, PeaceFacts DEF CommitLeave
    <2>4. /\ next.phase = "installed" /\ next.placeholder = cur.placeholder
          /\ next.detached = cur.detached /\ next.restore = cur.restore /\ next.blocked = "no"
      BY <2>2 DEF Entry
    <2> HIDE DEF next
    <2>5. next.restore = NoId
      BY <2>1, <2>2, <2>4, PeaceFacts DEF RowSound, StampsAgree, IsPresent
    <2>6. StampsAgree(next) /\ \A f \in survivors : Layout(next, f)
      BY <2>1, <2>2, <2>4, <2>5, InstalledCalm, PeaceFacts
    <2>7. Footing'
      BY <2>3, ReconciledCalm, FootingElsewhere DEF FootingLabels, Retiring
    <2> QED BY <2>3, <2>4, <2>6, <2>7, CalmRow
  <1>7. CASE Prepare
    <2>1. \/ Pass("capture") \/ Abandon \/ Loaded("requireInstalled") \/ Replay
      BY <1>7 DEF Prepare
    <2> QED BY <2>1, CalmCheck DEF Replay, FootingLabels, Retiring
  <1>8. CASE BeginMount
    <2>1. pc \in InHand /\ cur.phase = "installed"
      BY <1>8 DEF BeginMount, InHand, Labels, InPeace, Kept, Agreed, AtHand, Place
    <2>2. Pass("commitMount")
      BY <1>8, <2>1, InstalledFits DEF BeginMount
    <2> QED BY <2>2, CalmCheck DEF FootingLabels, Retiring
  <1>9. CASE CommitMount
    <2> DEFINE next == [cur EXCEPT !.phase = "mountIntent"]
    <2>1. pc \in InHand /\ cur.phase = "installed"
      BY <1>9 DEF CommitMount, InHand, Labels, InPeace, Kept, Agreed, AtHand, Place
    <2>2. cur \in Entry /\ cur # Missing
      BY <2>1, InHandFacts DEF InPeace, Missing
    <2>3. /\ next \in Entry /\ next.phase = "mountIntent"
          /\ next.placeholder = cur.placeholder /\ next.detached = cur.detached
          /\ next.restore = cur.restore /\ next.blocked = cur.blocked
      BY <2>2 DEF Entry, Phases
    <2>4. Commit(next, "mount")
      BY <1>9 DEF CommitMount
    <2> HIDE DEF next
    <2> QED BY <2>1, <2>2, <2>3, <2>4, CommitInstalledCalm DEF FootingLabels, Retiring
  <1>10. CASE Mount
    <2>1. Abandon \/ (Still /\ pc' = "serving")
      BY <1>10 DEF Mount
    <2> QED BY <2>1, CalmOut, CalmRead DEF Abandon, FootingLabels, Retiring
  <1> QED BY <1>1, <1>2, <1>3, <1>4, <1>5, <1>6, <1>7, <1>8, <1>9, <1>10, <1>11 DEF Interceptor

-----------------------------------------------------------------------------
(* Installation in peace                                                   *)

\* On to a label that claims something of the files as they are.
LEMMA CalmOnward ==
  ASSUME InPeace, Still, Footing'
  PROVE  Undisturbed'
  BY StandsStill DEF Still, disk

\* A step that changes files and leaves at most one namespace more.
LEMMA CalmFiles ==
  ASSUME InPeace, UNCHANGED db, survivors' \subseteq survivors \cup {fs'}, Layout(db, fs'), Footing'
  PROVE  Undisturbed'
  BY PeaceFacts DEF Undisturbed

\* A construction leaves every other name alone.
LEMMA OthersBuilt ==
  ASSUME Sound, NEW name \in Final, NEW good, NEW body, NEW meta, NEW kept, NEW built,
         KeepOrBuild(name, good, body, meta, kept, built)
  PROVE  \A n \in Names \ {name, Building(name)} : fs'[n] = fs[n]
  BY DEF KeepOrBuild, Synced, Sound, DiskType

LEMMA OthersPromoted ==
  ASSUME Sound, NEW name \in Final, NEW label, Promote(name, label)
  PROVE  \A n \in Names \ {name, Building(name)} : fs'[n] = fs[n]
  BY DEF Promote, Synced, Sound, DiskType

\* No two names share an inode.
LEMMA NoTwoNames ==
  ASSUME FilesSound, NEW m \in Names, NEW n \in Names, m # n, There(m)
  PROVE  Id(m).ino # Id(n).ino
  BY DEF FilesSound, There, Id

LEMMA SeenMeaning ==
  ASSUME NEW name, NEW t, NEW s
  PROVE  /\ Seen(name) = [t |-> t, s |-> s] <=> Id("target") = t /\ Id(name) = s
         /\ Seen(name).t = Id("target") /\ Seen(name).s = Id(name)
         /\ Seen(name) = Pair(fs, name)
  BY DEF Seen, Pair, Id

LEMMA SeenStays ==
  ASSUME UNCHANGED fs, NEW name
  PROVE  Seen(name)' = Seen(name) /\ Id(name)' = Id(name) /\ There(name)' = There(name)
  BY DEF Seen, Id, There

LEMMA CaptureCalm ==
  ASSUME InPeace, Capture
  PROVE  Undisturbed'
  <1> DEFINE entry == [Missing EXCEPT !.phase = "captured", !.original = Id("target"),
                                      !.meta = Id("target").meta, !.body = fs["target"].body,
                                      !.logical = There("target")]
  <1>1. Abandon \/ (Still /\ Proceed("commitCaptured", entry, NoObs, NoId))
    BY DEF Capture
  <1>2. CASE Abandon
    BY <1>2, CalmOut DEF Abandon
  <1>3. CASE Still /\ Proceed("commitCaptured", entry, NoObs, NoId)
    <2>1. pc' = "commitCaptured" /\ cur' = entry /\ fs' = fs
      BY <1>3 DEF Still, disk, Proceed
    <2>2. /\ entry.original = Id("target") /\ entry.meta = Id("target").meta
          /\ entry.body = fs["target"].body /\ entry.restore = NoId
      BY DEF Missing
    <2> HIDE DEF entry
    <2>3. Id("target")' = Id("target")
      BY <2>1 DEF Id
    <2>4. Footing'
      BY <2>1, <2>2, <2>3 DEF Footing, Retiring
    <2> QED BY <1>3, <2>4, CalmOnward
  <1> QED BY <1>1, <1>2, <1>3

LEMMA CapturedCalm ==
  ASSUME InPeace, CommitCaptured
  PROVE  Undisturbed'
  <1>1. PICK label \in {"storeStaging", "beginInstall"} : CommitFrom(Missing, cur, label)
    BY DEF CommitCaptured
  <1>2. pc = "commitCaptured" /\ db = Missing /\ Fledgling(cur)
    BY DEF CommitCaptured, InPeace, Kept, Agreed, AtHand, Place
  <1>3. survivors = {fs}
    BY <1>2 DEF InPeace, Kept, Stored, OneNamespace, Missing
  <1>4. /\ Id("target") = cur.original
        /\ Exists(cur.original) => fs["target"].body = cur.body /\ cur.meta = cur.original.meta
        /\ cur.restore = NoId
    BY <1>2, PeaceFacts DEF Footing
  <1>5. db' = cur /\ UNCHANGED disk /\ pc' = label
    BY <1>1, PeaceFacts DEF CommitFrom, Proceed
  <1>6. cur.phase = "captured" /\ cur.blocked = "no" /\ ~Exists(cur.restore)
    BY <1>2 DEF Fledgling
  <1>7. StampsAgree(cur) /\ Layout(cur, fs)
    BY <1>4, <1>6 DEF StampsAgree, Layout, Id, Exists, NoId
  <1>8. Footing'
    BY <1>5, FootingElsewhere DEF FootingLabels, Retiring
  <1> QED BY <1>3, <1>5, <1>6, <1>7, <1>8, CalmRow

LEMMA SourceFits ==
  ASSUME InPeace, pc \in InHand, cur.phase = "captured"
  PROVE  SourceUnchanged(cur)
  <1>1. Layout(cur, fs) /\ ~moved
    BY InPeaceHand, PeaceFacts
  <1> QED BY <1>1 DEF Layout, SourceUnchanged, There, Id

LEMMA PlaceholderCalm ==
  ASSUME InPeace, BuildPlaceholder \/ PromotePlaceholder \/ CommitInstallIntent
  PROVE  Undisturbed'
  <1>1. pc \in InHand /\ cur.phase = "captured"
    BY DEF BuildPlaceholder, PromotePlaceholder, CommitInstallIntent, InHand, Labels, InPeace,
           Kept, Agreed, AtHand, Place
  <1>2. cur = db /\ cur \in Entry /\ Layout(cur, fs) /\ StampsAgree(cur) /\ RowSound(cur)
        /\ cur.blocked = "no"
    BY <1>1, InPeaceHand
  <1>3. survivors = {fs} /\ "swap" \in Final /\ "target" \in Names \ {"swap", Building("swap")}
    <2>1. "target" \in Names /\ "swap" \in Final /\ Building("swap") # "target"
      BY NamesType, FinalNames
    <2> QED BY <1>1, <1>2, <2>1 DEF InPeace, Kept, Stored, OneNamespace
  <1>4. ASSUME UNCHANGED db, survivors' = {fs'}, fs'["target"] = fs["target"],
               pc' \in {"commitInstallIntent", "promotePlaceholder"}
        PROVE  Undisturbed'
    <2>1. Layout(db, fs')
      BY <1>1, <1>2, <1>4 DEF Layout
    <2>2. Footing'
      BY <1>4, FootingElsewhere DEF FootingLabels, Retiring
    <2> QED BY <1>4, <2>1, <2>2, CalmFiles
  <1>5. CASE BuildPlaceholder
    <2>1. KeepOrBuild("swap", fs["swap"].body = Empty, Empty, 0,
                      "commitInstallIntent", "promotePlaceholder")
      BY <1>5 DEF BuildPlaceholder
    <2>2. /\ survivors' = {fs'} /\ UNCHANGED db
          /\ pc' \in {"commitInstallIntent", "promotePlaceholder"}
      BY <1>3, <2>1, PeaceFacts, BuiltNames DEF Proceed
    <2>3. fs'["target"] = fs["target"]
      BY <1>3, <2>1, PeaceFacts, OthersBuilt
    <2> QED BY <1>4, <2>2, <2>3
  <1>6. CASE PromotePlaceholder
    <2>1. Promote("swap", "commitInstallIntent") /\ There(Building("swap"))
      BY <1>6 DEF PromotePlaceholder, InPeace, Kept, Ground
    <2>2. survivors' = {fs'} /\ UNCHANGED db /\ pc' = "commitInstallIntent"
      BY <1>3, <2>1, PeaceFacts, PromotedNames DEF Proceed
    <2>3. fs'["target"] = fs["target"]
      BY <1>3, <2>1, PeaceFacts, OthersPromoted
    <2> QED BY <1>4, <2>2, <2>3
  <1>7. CASE CommitInstallIntent
    <2> DEFINE next == [cur EXCEPT !.phase = "installIntent", !.placeholder = made]
    <2>1. Commit(next, "installObserve") /\ Id("swap") = made
      BY <1>7 DEF CommitInstallIntent, InPeace, Kept, Ground
    <2>2. /\ next.phase = "installIntent" /\ next.placeholder = made
          /\ next.original = cur.original /\ next.body = cur.body /\ next.meta = cur.meta
          /\ next.restore = cur.restore /\ next.blocked = "no"
      BY <1>2 DEF Entry
    <2> HIDE DEF next
    <2>3. StampsAgree(next)
      BY <1>1, <1>2, <2>2 DEF StampsAgree, RowSound, IsPresent
    <2>4. fs["target"].id = cur.original /\ (Exists(cur.original) => fs["target"].body = cur.body)
      BY <1>1, <1>2 DEF Layout
    <2>5. Layout(next, fs)
      BY <2>1, <2>2, <2>4 DEF Layout, InstallBefore, Pair, Id
    <2> QED BY <1>3, <2>1, <2>2, <2>3, <2>5, CalmCommit DEF FootingLabels, Retiring
  <1> QED BY <1>5, <1>6, <1>7

\* With the exchange still to come nothing looks as if it had been made.
LEMMA InstallTells ==
  ASSUME FilesSound, NEW e, Exists(e.placeholder), Seen("swap") = InstallBefore(e)
  PROVE  ~After(InstallAfter(e), Seen("swap"))
  <1>1. Id("target") = e.original /\ Id("swap") = e.placeholder
    BY SeenMeaning DEF InstallBefore
  <1>2. After(InstallAfter(e), Seen("swap")) => Id("target").ino = e.placeholder.ino
    BY SeenMeaning DEF InstallAfter, After, SameFileAfterRename
  <1>3. Id("swap").ino # Id("target").ino
    BY <1>1, NoTwoNames, NamesType DEF There
  <1> QED BY <1>1, <1>2, <1>3

\* What each label of the installation has in hand and before it.
LEMMA InstallingPlace ==
  ASSUME InPeace,
         pc \in {"installObserve", "installRename", "installReobserve", "installVerify",
                 "installSync", "commitInstalled"}
  PROVE  /\ cur = db /\ cur \in Entry /\ cur.phase = "installIntent" /\ cur.blocked = "no"
         /\ Exists(cur.placeholder) /\ ~Exists(cur.restore) /\ StampsAgree(cur)
         /\ pc \in {"installVerify", "installSync", "commitInstalled"}
              => After(InstallAfter(cur), obs)
         /\ \/ /\ Seen("swap") = InstallBefore(cur)
               /\ Exists(cur.original) => fs["target"].body = cur.body
            \/ /\ After(InstallAfter(cur), Seen("swap"))
               /\ Exists(cur.original) => fs["swap"].body = cur.body
  <1>1. pc \in InHand
    BY DEF InHand, Labels
  <1>2. /\ cur = db /\ cur \in Entry /\ cur.blocked = "no" /\ StampsAgree(cur)
        /\ Layout(cur, fs) /\ Place(pc, cur, obs, made) /\ RowSound(cur)
    BY <1>1, InPeaceHand
  <1>3. cur.phase = "installIntent"
    BY <1>2 DEF Place
  <1>4. Exists(cur.placeholder) /\ ~Exists(cur.restore)
    BY <1>2, <1>3 DEF RowSound, IsPresent, ValidSnapshot, NeedsPlaceholder
  <1>5. pc \in {"installVerify", "installSync", "commitInstalled"} => After(InstallAfter(cur), obs)
    BY <1>2 DEF Place
  <1>6. \/ /\ Seen("swap") = InstallBefore(cur)
           /\ Exists(cur.original) => fs["target"].body = cur.body
        \/ /\ After(InstallAfter(cur), Seen("swap"))
           /\ Exists(cur.original) => fs["swap"].body = cur.body
    BY <1>2, <1>3 DEF Layout, Pair, Seen, Id
  <1> QED BY <1>2, <1>3, <1>4, <1>5, <1>6

LEMMA InstallObserveCalm ==
  ASSUME InPeace, InstallObserve \/ InstallReobserve
  PROVE  Undisturbed'
  <1>1. pc \in {"installObserve", "installReobserve"}
    BY DEF InstallObserve, InstallReobserve
  <1>2. /\ pc = "installReobserve" => After(InstallAfter(cur), Seen("swap"))
        /\ \/ Seen("swap") = InstallBefore(cur)
           \/ After(InstallAfter(cur), Seen("swap"))
    BY <1>1, InstallingPlace, PeaceFacts DEF Footing
  <1>3. \/ Pass("installRename") /\ Seen("swap") = InstallBefore(cur)
        \/ /\ Still /\ Proceed("installVerify", cur, Seen("swap"), NoId)
           /\ After(InstallAfter(cur), Seen("swap"))
    BY <1>1, <1>2, PeaceFacts DEF InstallObserve, InstallReobserve
  <1>4. Still /\ fs' = fs
    BY <1>3 DEF Pass, Still, disk
  <1>5. Seen("swap")' = Seen("swap")
    BY <1>4, SeenStays
  <1>6. CASE Pass("installRename") /\ Seen("swap") = InstallBefore(cur)
    <2>1. pc' = "installRename" /\ cur' = cur
      BY <1>6 DEF Pass, Goto, Proceed
    <2>2. Footing'
      BY <1>5, <1>6, <2>1 DEF Footing, Retiring
    <2> QED BY <1>4, <2>2, CalmOnward
  <1>7. CASE Proceed("installVerify", cur, Seen("swap"), NoId)
    <2>1. pc' = "installVerify" /\ obs' = Seen("swap")
      BY <1>7 DEF Proceed
    <2>2. Footing'
      BY <1>5, <2>1 DEF Footing, Retiring
    <2> QED BY <1>4, <2>2, CalmOnward
  <1> QED BY <1>3, <1>6, <1>7

LEMMA InstallRenameCalm ==
  ASSUME InPeace, InstallRename
  PROVE  Undisturbed'
  <1>1. pc = "installRename"
    BY DEF InstallRename
  <1>2. /\ cur = db /\ cur \in Entry /\ cur.phase = "installIntent"
        /\ Exists(cur.placeholder) /\ Seen("swap") = InstallBefore(cur)
        /\ Exists(cur.original) => fs["target"].body = cur.body
    BY <1>1, InstallingPlace, InstallTells, PeaceFacts DEF Footing
  <1>3. Id("target") = cur.original /\ Id("swap") = cur.placeholder
    BY <1>2, SeenMeaning DEF InstallBefore
  <1>4. /\ IF Exists(cur.original) THEN Exchange("swap") ELSE MoveFile("swap", "target")
        /\ Goto("installReobserve") /\ UNCHANGED db
    BY <1>3, PeaceFacts DEF InstallRename, There
  <1>5. /\ fs \in [Names -> File] /\ "target" \in Names /\ "swap" \in Names
        /\ fs["target"] \in File /\ fs["swap"] \in File /\ FilesSound
        /\ Exists(NoId) = FALSE
    BY PeaceFacts, NamesType DEF Exists, NoId
  <1>6. /\ survivors' = survivors \cup {fs'}
        /\ After(InstallAfter(cur), Pair(fs', "swap"))
        /\ Exists(cur.original) => fs'["swap"].body = cur.body
    <2>1. CASE Exists(cur.original)
      <3>1. /\ survivors' = survivors \cup {fs'}
            /\ fs' = [fs EXCEPT !["target"] = Renamed(fs["swap"]),
                                !["swap"]   = Renamed(fs["target"])]
        BY <1>4, <2>1 DEF Exchange, Rename
      <3>2. fs'["target"] = Renamed(fs["swap"]) /\ fs'["swap"] = Renamed(fs["target"])
        BY <1>5, <3>1
      <3>3. /\ SameFileAfterRename(cur.placeholder, fs'["target"].id)
            /\ SameFileAfterRename(cur.original, fs'["swap"].id)
            /\ fs'["swap"].body = fs["target"].body
        BY <1>3, <1>5, <3>2, RenamedFile DEF SameFileAfterRename, Id
      <3> QED BY <1>2, <3>1, <3>3 DEF After, InstallAfter, Pair
    <2>2. CASE ~Exists(cur.original)
      <3>1. /\ survivors' = survivors \cup {fs'}
            /\ fs' = [fs EXCEPT !["target"] = Renamed(fs["swap"]), !["swap"] = Nothing]
        BY <1>4, <2>2 DEF MoveFile, Rename
      <3>2. fs'["target"] = Renamed(fs["swap"]) /\ fs'["swap"] = Nothing
        BY <1>5, <3>1
      <3>3. cur.original = NoId
        BY <1>3, <1>5, <2>2, NoFileNoId, PeaceFacts DEF Id
      <3>4. /\ SameFileAfterRename(cur.placeholder, fs'["target"].id)
            /\ SameFileAfterRename(cur.original, fs'["swap"].id)
        BY <1>3, <1>5, <3>2, <3>3, RenamedFile DEF SameFileAfterRename, Nothing, Id
      <3> QED BY <2>2, <3>1, <3>4 DEF After, InstallAfter, Pair
    <2> QED BY <2>1, <2>2
  <1>7. Layout(db, fs')
    BY <1>2, <1>6 DEF Layout
  <1>8. pc' = "installReobserve" /\ cur' = cur /\ Seen("swap")' = Pair(fs', "swap")
    BY <1>4 DEF Goto, Proceed, Seen, Pair, Id
  <1>9. After(InstallAfter(cur), Seen("swap"))'
    BY <1>6, <1>8 DEF After, InstallAfter
  <1>10. Footing'
    BY <1>8, <1>9 DEF Footing, Retiring
  <1> QED BY <1>4, <1>6, <1>7, <1>10, CalmFiles

LEMMA InstallVerifyCalm ==
  ASSUME InPeace, InstallVerify \/ InstallSync
  PROVE  Undisturbed'
  <1>1. pc \in {"installVerify", "installSync"}
    BY DEF InstallVerify, InstallSync
  <1>2. /\ cur = db /\ cur.phase = "installIntent" /\ StampsAgree(cur)
        /\ Exists(cur.placeholder) /\ After(InstallAfter(cur), obs) /\ Seen("swap") = obs
        /\ (Exists(cur.original) => fs["swap"].body = cur.body)
    <2>1. Seen("swap") = obs
      BY <1>1, PeaceFacts DEF Footing
    <2> QED BY <1>1, <2>1, InstallingPlace, InstallTells, PeaceFacts
  <1>3. ASSUME db' = db, fs' = fs, survivors' \subseteq survivors \cup {fs}, obs' = obs,
               pc' \in {"installSync", "commitInstalled"}
        PROVE  Undisturbed'
    <2>1. Seen("swap")' = obs'
      BY <1>2, <1>3, SeenStays
    <2>2. Footing'
      BY <1>3, <2>1 DEF Footing, Retiring
    <2> QED BY <1>3, <2>2, CalmFiles, PeaceFacts
  <1>4. CASE InstallVerify
    <2>1. Exists(cur.original) => Matches("swap", cur.body, cur.meta)
      <3> SUFFICES ASSUME Exists(cur.original) PROVE Matches("swap", cur.body, cur.meta)
        OBVIOUS
      <3>1. SameFileAfterRename(cur.original, Id("swap"))
        BY <1>2, SeenMeaning DEF After, InstallAfter
      <3>2. There("swap") /\ Id("swap").meta = cur.original.meta
        BY <3>1 DEF SameFileAfterRename, There, Exists
      <3>3. cur.meta = cur.original.meta
        BY <1>2 DEF StampsAgree
      <3> QED BY <1>2, <3>2, <3>3 DEF Matches
    <2>2. Pass("installSync")
      BY <1>4, <2>1 DEF InstallVerify
    <2>3. db' = db /\ fs' = fs /\ survivors' = survivors /\ obs' = obs /\ pc' = "installSync"
      BY <2>2 DEF Pass, Still, disk, Goto, Proceed
    <2> QED BY <1>3, <2>3
  <1>5. CASE InstallSync
    <2>1. SyncWith /\ Goto("commitInstalled") /\ UNCHANGED db
      BY <1>5, PeaceFacts DEF InstallSync
    <2>2. db' = db /\ fs' = fs /\ survivors' = {fs} /\ obs' = obs /\ pc' = "commitInstalled"
      BY <2>1 DEF SyncWith, Goto, Proceed
    <2> QED BY <1>3, <2>2
  <1> QED BY <1>4, <1>5

LEMMA CommitNowInstalledCalm ==
  ASSUME InPeace, CommitInstalled
  PROVE  Undisturbed'
  <1> DEFINE next == [cur EXCEPT !.phase = "installed", !.placeholder = obs.t,
                                 !.detached = obs.s]
  <1>1. pc = "commitInstalled" /\ Commit(next, "requireInstalled")
    BY DEF CommitInstalled
  <1>2. /\ cur = db /\ cur \in Entry /\ cur.blocked = "no"
        /\ ~Exists(cur.restore) /\ cur.restore = NoId
    BY <1>1, InstallingPlace DEF StampsAgree, IsPresent
  <1>3. Seen("swap") = obs /\ survivors = {fs}
    BY <1>1, PeaceFacts DEF Footing, InPeace, Kept, Ground
  <1>4. /\ next.phase = "installed" /\ next.placeholder = obs.t /\ next.detached = obs.s
        /\ next.restore = cur.restore /\ next.blocked = "no"
    BY <1>2 DEF Entry
  <1> HIDE DEF next
  <1>5. Pair(fs, "swap") = [t |-> obs.t, s |-> obs.s]
    BY <1>3, SeenMeaning DEF Pair
  <1>6. StampsAgree(next) /\ Layout(next, fs)
    BY <1>2, <1>4, <1>5 DEF StampsAgree, Layout
  <1> QED BY <1>1, <1>3, <1>4, <1>6, CalmCommit DEF FootingLabels, Retiring

LEMMA InstallCalm ==
  ASSUME InPeace, Install
  PROVE  Undisturbed'
  <1>1. CASE BeginInstall
    <2>1. pc \in InHand /\ cur.phase = "captured"
      BY <1>1 DEF BeginInstall, InHand, Labels, InPeace, Kept, Agreed, AtHand, Place
    <2>2. Pass("buildPlaceholder")
      BY <1>1, <2>1, SourceFits, PeaceFacts DEF BeginInstall
    <2> QED BY <2>2, CalmCheck DEF FootingLabels, Retiring
  <1>2. CASE RequireInstalled
    <2>1. pc \in InHand /\ cur.phase = "installed"
      BY <1>2 DEF RequireInstalled, InHand, Labels, InPeace, Kept, Agreed, AtHand, Place
    <2>2. Pass(AfterInstall)
      BY <1>2, <2>1, InstalledFits DEF RequireInstalled
    <2>3. AfterInstall \in {"beginMount", "beginRestore"}
      BY DEF AfterInstall
    <2>4. pc' \notin FootingLabels /\ Still
      BY <2>2, <2>3 DEF Pass, Goto, Proceed, FootingLabels, Retiring
    <2> QED BY <2>4, CalmRead
  <1> QED BY <1>1, <1>2, CaptureCalm, CapturedCalm, PlaceholderCalm, InstallObserveCalm,
             InstallRenameCalm, InstallVerifyCalm, CommitNowInstalledCalm DEF Install

-----------------------------------------------------------------------------
(* Offline removal in peace                                                *)

LEMMA StoreIntentCalm ==
  ASSUME InPeace, StoreStaging \/ CommitStoreIntent
  PROVE  Undisturbed'
  <1>1. pc \in InHand /\ cur.phase = "captured" /\ Exists(cur.original)
    BY DEF StoreStaging, CommitStoreIntent, InHand, Labels, InPeace, Kept, Agreed, AtHand, Place
  <1>2. CASE StoreStaging
    <2>1. SourceUnchanged(cur) /\ ~moved
      BY <1>1, SourceFits, PeaceFacts
    <2>2. Block("staging") \/ Pass("commitStoreIntent")
      BY <1>2, <2>1 DEF StoreStaging
    <2> QED BY <2>2, CalmBlock, CalmCheck DEF FootingLabels, Retiring
  <1>3. CASE CommitStoreIntent
    <2> DEFINE next == [cur EXCEPT !.phase = "storeIntent"]
    <2>1. Commit(next, "storeObserve") /\ Absent(fs, StagingNames)
      BY <1>3 DEF CommitStoreIntent, InPeace, Kept, Ground
    <2>2. cur = db /\ cur \in Entry /\ cur.blocked = "no" /\ Layout(cur, fs) /\ StampsAgree(cur)
          /\ cur.restore = NoId /\ ~Exists(NoId)
      BY <1>1, InPeaceHand DEF RowSound, StampsAgree, IsPresent, Exists, NoId
    <2>3. /\ next.phase = "storeIntent" /\ next.original = cur.original /\ next.body = cur.body
          /\ next.meta = cur.meta /\ next.restore = cur.restore /\ next.blocked = "no"
      BY <2>2 DEF Entry
    <2> HIDE DEF next
    <2>4. survivors = {fs}
      BY <1>1, <2>2 DEF InPeace, Kept, Stored, OneNamespace
    <2>5. fs["stored"].id = NoId
      BY <2>1, NoFileNoId, PeaceFacts, NamesType DEF Absent, StagingNames
    <2>6. fs["target"].id = cur.original /\ fs["target"].body = cur.body
      BY <1>1, <2>2 DEF Layout
    <2>7. Layout(next, fs) /\ StampsAgree(next)
      BY <1>1, <2>2, <2>3, <2>5, <2>6 DEF Layout, Pair, StampsAgree
    <2> QED BY <2>1, <2>3, <2>4, <2>7, CalmCommit DEF FootingLabels, Retiring
  <1> QED BY <1>2, <1>3

\* With the removal made the original is under the stored name.
LEMMA StoringPlace ==
  ASSUME InPeace,
         pc \in {"storeObserve", "storeRename", "storeReobserve", "storeVerify", "storeSync",
                 "commitStored"}
  PROVE  /\ cur = db /\ cur \in Entry /\ cur.phase = "storeIntent" /\ cur.blocked = "no"
         /\ Exists(cur.original) /\ cur.restore = NoId /\ cur.meta = cur.original.meta
         /\ \/ /\ Seen("stored") = [t |-> cur.original, s |-> NoId] /\ ~There("stored")
               /\ fs["target"].body = cur.body
            \/ /\ After(StoreAfter(cur), Seen("stored")) /\ There("stored") /\ ~There("target")
               /\ SameFileAfterRename(cur.original, Id("stored"))
               /\ fs["stored"].body = cur.body
  <1>1. pc \in InHand
    BY DEF InHand, Labels
  <1>2. /\ cur = db /\ cur \in Entry /\ cur.blocked = "no" /\ StampsAgree(cur)
        /\ Layout(cur, fs) /\ Place(pc, cur, obs, made) /\ RowSound(cur)
    BY <1>1, InPeaceHand
  <1>3. cur.phase = "storeIntent"
    BY <1>2 DEF Place
  <1>4. Exists(cur.original) /\ cur.restore = NoId
    BY <1>2, <1>3 DEF RowSound, IsPresent, ValidSnapshot, ValidStructure, StampsAgree
  <1>5. cur.meta = cur.original.meta
    BY <1>2, <1>3, <1>4 DEF StampsAgree
  <1>6. \/ Seen("stored") = [t |-> cur.original, s |-> NoId] /\ fs["target"].body = cur.body
        \/ After(StoreAfter(cur), Seen("stored")) /\ fs["stored"].body = cur.body
    BY <1>2, <1>3 DEF Layout, Pair, Seen, Id
  <1>7. CASE Seen("stored") = [t |-> cur.original, s |-> NoId] /\ fs["target"].body = cur.body
    <2>1. ~There("stored")
      BY <1>7, SeenMeaning DEF There, Exists, NoId
    <2> QED BY <1>2, <1>3, <1>4, <1>5, <1>7, <2>1
  <1>8. CASE After(StoreAfter(cur), Seen("stored")) /\ fs["stored"].body = cur.body
    <2>1. /\ SameFileAfterRename(NoId, Id("target"))
          /\ SameFileAfterRename(cur.original, Id("stored"))
      BY <1>8, SeenMeaning DEF After, StoreAfter
    <2>2. There("stored") /\ ~There("target")
      BY <1>4, <2>1 DEF SameFileAfterRename, There, Exists, NoId
    <2> QED BY <1>2, <1>3, <1>4, <1>5, <1>8, <2>1, <2>2
  <1> QED BY <1>6, <1>7, <1>8

LEMMA StoreObserveCalm ==
  ASSUME InPeace, StoreObserve \/ StoreReobserve
  PROVE  Undisturbed'
  <1>1. pc \in {"storeObserve", "storeReobserve"}
    BY DEF StoreObserve, StoreReobserve
  <1>2. /\ pc = "storeReobserve" => After(StoreAfter(cur), Seen("stored"))
        /\ \/ Seen("stored") = [t |-> cur.original, s |-> NoId]
           \/ After(StoreAfter(cur), Seen("stored"))
    BY <1>1, StoringPlace, PeaceFacts DEF Footing
  <1>3. \/ Pass("storeRename")
        \/ Pass("storeVerify") /\ After(StoreAfter(cur), Seen("stored"))
    BY <1>1, <1>2, PeaceFacts DEF StoreObserve, StoreReobserve
  <1>4. CASE Pass("storeRename")
    BY <1>4, CalmCheck DEF FootingLabels, Retiring
  <1>5. CASE Pass("storeVerify") /\ After(StoreAfter(cur), Seen("stored"))
    <2>1. Still /\ fs' = fs /\ pc' = "storeVerify" /\ cur' = cur
      BY <1>5 DEF Pass, Still, disk, Goto, Proceed
    <2>2. After(StoreAfter(cur), Seen("stored"))'
      BY <1>5, <2>1, SeenStays DEF After, StoreAfter
    <2>3. Footing'
      BY <2>1, <2>2 DEF Footing, Retiring
    <2> QED BY <2>1, <2>3, CalmOnward
  <1> QED BY <1>3, <1>4, <1>5

LEMMA StoreRenameCalm ==
  ASSUME InPeace, StoreRename
  PROVE  Undisturbed'
  <1>1. pc = "storeRename" /\ ~There("stored")
    BY DEF StoreRename, InPeace, Kept, Ground
  <1>2. /\ cur = db /\ cur.phase = "storeIntent" /\ Exists(cur.original)
        /\ Seen("stored") = [t |-> cur.original, s |-> NoId] /\ fs["target"].body = cur.body
    BY <1>1, StoringPlace
  <1>3. Id("target") = cur.original
    BY <1>2, SeenMeaning
  <1>4. MoveFile("target", "stored") /\ Goto("storeReobserve") /\ UNCHANGED db
    BY <1>2, <1>3, PeaceFacts DEF StoreRename, There
  <1>5. fs \in [Names -> File] /\ "target" \in Names /\ "stored" \in Names /\ fs["target"] \in File
    BY PeaceFacts, NamesType
  <1>6. /\ survivors' = survivors \cup {fs'}
        /\ fs'["stored"] = Renamed(fs["target"]) /\ fs'["target"] = Nothing
    BY <1>4, <1>5 DEF MoveFile, Rename
  <1>7. /\ After(StoreAfter(cur), Pair(fs', "stored")) /\ fs'["stored"].body = cur.body
    <2>1. SameFileAfterRename(cur.original, fs'["stored"].id) /\ fs'["stored"].body = cur.body
      BY <1>2, <1>3, <1>5, <1>6, RenamedFile DEF SameFileAfterRename, Id
    <2>2. SameFileAfterRename(NoId, fs'["target"].id)
      BY <1>6 DEF SameFileAfterRename, Nothing
    <2> QED BY <2>1, <2>2 DEF After, StoreAfter, Pair
  <1>8. Layout(db, fs')
    BY <1>2, <1>7 DEF Layout
  <1>9. pc' = "storeReobserve" /\ cur' = cur /\ Seen("stored")' = Pair(fs', "stored")
    BY <1>4 DEF Goto, Proceed, Seen, Pair, Id
  <1>10. After(StoreAfter(cur), Seen("stored"))'
    BY <1>7, <1>9 DEF After, StoreAfter
  <1>11. Footing'
    BY <1>9, <1>10 DEF Footing, Retiring
  <1> QED BY <1>4, <1>6, <1>8, <1>11, CalmFiles

LEMMA StoreVerifyCalm ==
  ASSUME InPeace, StoreVerify \/ StoreSync
  PROVE  Undisturbed'
  <1>1. pc \in {"storeVerify", "storeSync"}
    BY DEF StoreVerify, StoreSync
  <1>2. ASSUME db' = db, fs' = fs, survivors' \subseteq survivors \cup {fs},
               Id("stored") = obs'.s, ~There("target"), pc' \in {"storeSync", "commitStored"}
        PROVE  Undisturbed'
    <2>1. Id("stored")' = obs'.s /\ ~There("target")'
      BY <1>2, SeenStays
    <2>2. Footing'
      BY <1>2, <2>1 DEF Footing, Retiring
    <2> QED BY <1>2, <2>2, CalmFiles, PeaceFacts
  <1>3. CASE StoreVerify
    <2>1. pc = "storeVerify" /\ After(StoreAfter(cur), Seen("stored"))
      BY <1>3, PeaceFacts DEF StoreVerify, Footing
    <2>2. SameFileAfterRename(cur.original, Id("stored"))
      BY <2>1, SeenMeaning DEF After, StoreAfter
    <2>3. There("stored")
      BY <1>1, <2>2, StoringPlace DEF SameFileAfterRename, There, Exists
    <2>4. ~There("target") /\ fs["stored"].body = cur.body /\ cur.meta = cur.original.meta
      BY <1>1, <2>3, StoringPlace
    <2>5. Matches("stored", cur.body, cur.meta)
      BY <2>2, <2>3, <2>4 DEF Matches, SameFileAfterRename
    <2>6. Still /\ Proceed("storeSync", cur, Seen("stored"), NoId)
      BY <1>3, <2>2, <2>5 DEF StoreVerify
    <2>7. /\ db' = db /\ fs' = fs /\ survivors' = survivors /\ pc' = "storeSync"
          /\ obs' = Seen("stored")
      BY <2>6 DEF Still, disk, Proceed
    <2> QED BY <1>2, <2>4, <2>7, SeenMeaning
  <1>4. CASE StoreSync
    <2>1. pc = "storeSync" /\ SyncWith /\ Goto("commitStored") /\ UNCHANGED db
      BY <1>4, PeaceFacts DEF StoreSync
    <2>2. db' = db /\ fs' = fs /\ survivors' = {fs} /\ obs' = obs /\ pc' = "commitStored"
      BY <2>1 DEF SyncWith, Goto, Proceed
    <2>3. Id("stored") = obs.s /\ ~There("target")
      BY <2>1, PeaceFacts DEF Footing
    <2> QED BY <1>2, <2>2, <2>3
  <1> QED BY <1>3, <1>4

LEMMA CommitNowStoredCalm ==
  ASSUME InPeace, CommitStored
  PROVE  Undisturbed'
  <1> DEFINE next == [cur EXCEPT !.phase = "stored", !.detached = obs.s]
  <1>1. pc = "commitStored" /\ Commit(next, "requireStored")
    BY DEF CommitStored
  <1>2. cur = db /\ cur \in Entry /\ cur.blocked = "no" /\ cur.restore = NoId
    BY <1>1, StoringPlace
  <1>3. Id("stored") = obs.s /\ ~There("target") /\ survivors = {fs}
    BY <1>1, PeaceFacts DEF Footing, InPeace, Kept, Ground
  <1>4. /\ next.phase = "stored" /\ next.detached = obs.s
        /\ next.restore = cur.restore /\ next.blocked = "no"
    BY <1>2 DEF Entry
  <1> HIDE DEF next
  <1>5. fs["target"].id = NoId
    BY <1>3, NoFileNoId, PeaceFacts, NamesType DEF There, Id
  <1>6. StampsAgree(next) /\ Layout(next, fs)
    BY <1>2, <1>3, <1>4, <1>5 DEF StampsAgree, Layout, Pair, Id, Exists, NoId
  <1> QED BY <1>1, <1>3, <1>4, <1>6, CalmCommit DEF FootingLabels, Retiring

LEMMA StoreCalm ==
  ASSUME InPeace, Store
  PROVE  Undisturbed'
  <1>1. CASE StoreLoad
    <2>1. \/ Pass("capture") \/ Abandon \/ Loaded("finObserve") \/ Loaded("storeStaging")
          \/ Loaded("storeObserve") \/ Loaded("requireStored")
      BY <1>1 DEF StoreLoad
    <2> QED BY <2>1, CalmCheck DEF FootingLabels, Retiring
  <1>2. CASE RequireStored
    <2>1. pc \in InHand /\ cur.phase = "stored"
      BY <1>2 DEF RequireStored, InHand, Labels, InPeace, Kept, Agreed, AtHand, Place
    <2>2. (Still /\ Exit) \/ Pass("beginRestore")
      BY <1>2, <2>1, StoredFits DEF RequireStored
    <2> QED BY <2>2, CalmOut, CalmCheck DEF FootingLabels, Retiring
  <1> QED BY <1>1, <1>2, StoreIntentCalm, StoreObserveCalm, StoreRenameCalm, StoreVerifyCalm,
             CommitNowStoredCalm DEF Store

-----------------------------------------------------------------------------
(* Restoration in peace                                                    *)

LEMMA RestoreNames ==
  ASSUME NEW e
  PROVE  /\ DetachedName(e) \in Names
         /\ DetachedName(e) \notin {"target", "restore", "final", "retired", Building("restore"),
                                    Building("final")}
         /\ {"target", "restore", "final"} \subseteq Names /\ {"restore", "final"} \subseteq Final
         /\ "target" \notin {"restore", "final", Building("restore"), Building("final")}
         /\ {"restore", Building("restore")} \cap {"final", Building("final")} = {}
         /\ "retired" \notin {"final", Building("final")}
  BY FinalNames DEF DetachedName

LEMMA RestoreIntentCalm ==
  ASSUME InPeace, BeginRestore \/ CommitRestoreIntent
  PROVE  Undisturbed'
  <1>1. pc \in InHand /\ cur.phase \in {"installed", "unmountIntent", "stored"}
    BY DEF BeginRestore, CommitRestoreIntent, InHand, Labels, InPeace, Kept, Agreed, AtHand, Place
  <1>2. CASE BeginRestore
    <2>1. Pass("commitRestoreIntent")
      BY <1>1, <1>2, InstalledFits, StoredFits DEF BeginRestore
    <2> QED BY <2>1, CalmCheck DEF FootingLabels, Retiring
  <1>3. CASE CommitRestoreIntent
    <2> DEFINE next == [cur EXCEPT !.phase  = "restoreIntent", !.next = "none",
                          !.origin = IF cur.phase = "stored" THEN "stored" ELSE "installed"]
    <2>1. Commit(next, "restoreBuild")
      BY <1>3 DEF CommitRestoreIntent
    <2>2. cur = db /\ cur \in Entry /\ cur.blocked = "no" /\ StampsAgree(cur)
          /\ cur.restore = NoId /\ ~Exists(NoId) /\ (cur.phase = "stored" => cur.logical)
      <3>1. cur = db /\ cur \in Entry /\ cur.blocked = "no" /\ StampsAgree(cur) /\ RowSound(cur)
        BY <1>1, InPeaceHand
      <3>2. ~Exists(cur.restore) /\ ValidSnapshot(cur)
        BY <1>1, <3>1 DEF RowSound, IsPresent
      <3>3. cur.restore = NoId
        BY <1>1, <3>1, <3>2 DEF StampsAgree, IsPresent
      <3>4. cur.phase = "stored" => cur.logical
        BY <3>2 DEF ValidSnapshot, ValidStructure
      <3> QED BY <3>1, <3>2, <3>3, <3>4
    <2>3. /\ next.phase = "restoreIntent" /\ next.placeholder = cur.placeholder
          /\ next.detached = cur.detached /\ next.logical = cur.logical /\ next.restore = NoId
          /\ next.origin = IF cur.phase = "stored" THEN "stored" ELSE "installed"
          /\ next.blocked = "no"
      BY <2>2 DEF Entry
    <2> HIDE DEF next
    <2>4. StampsAgree(next)
      BY <2>2, <2>3 DEF StampsAgree
    <2>5. ASSUME NEW f \in survivors PROVE Layout(next, f)
      <3>1. Layout(cur, f)
        BY <2>2, PeaceFacts
      <3>2. CASE cur.phase = "stored"
        <4>1. f["target"].id = NoId /\ f["stored"].id = cur.detached
          BY <3>1, <3>2 DEF Layout, Pair
        <4>2. next.origin = "stored" /\ next.logical
          BY <2>2, <2>3, <3>2
        <4> QED BY <2>2, <2>3, <4>1, <4>2 DEF Layout, RestoreBefore, DetachedName
      <3>3. CASE cur.phase # "stored"
        <4>1. f["target"].id = cur.placeholder /\ f["swap"].id = cur.detached
          BY <1>1, <3>1, <3>3 DEF Layout, Pair
        <4>2. ~Exists(f["restore"].id)
          <5>1. Occupied(db) = {"swap"}
            BY <1>1, <2>2, <3>3 DEF Occupied
          <5>2. "restore" \in StagingNames /\ "restore" # "swap"
            BY FinalNames
          <5> QED BY <5>1, <5>2 DEF InPeace, Kept, Stored, Tidy
        <4>3. f["restore"].id = NoId
          BY <4>2, NoFileNoId, PeaceFacts, NamesType
        <4>4. next.origin = "installed"
          BY <2>3, <3>3
        <4>5. f[DetachedName(next)].id = next.detached
          BY <2>3, <4>1, <4>4 DEF DetachedName
        <4>6. Pair(f, "restore") = RestoreBefore(next) /\ f["target"].id = RestoreBefore(next).t
          BY <2>3, <4>1, <4>3, <4>4 DEF Pair, RestoreBefore
        <4> QED BY <2>2, <2>3, <4>5, <4>6 DEF Layout
      <3> QED BY <3>2, <3>3
    <2> QED BY <2>1, <2>3, <2>4, <2>5, CalmCommit DEF FootingLabels, Retiring
  <1> QED BY <1>2, <1>3

\* What each label of the restoration has in hand.
RestoringLabels == {"restoreBuild", "promoteRestore", "commitRestoreFile", "restoreObserve",
                    "restoreRename", "restoreReobserve", "restoreVerify", "restoreSync",
                    "commitRestored"}

LEMMA RestoringPlace ==
  ASSUME InPeace, pc \in RestoringLabels
  PROVE  /\ cur = db /\ cur \in Entry /\ cur.phase = "restoreIntent" /\ cur.blocked = "no"
         /\ fs[DetachedName(cur)].id = cur.detached
         /\ IF Exists(cur.restore) THEN cur.meta = cur.restore.meta /\ cur.logical
                                   ELSE cur.restore = NoId
         /\ obs \in Obs /\ made \in Identity /\ Place(pc, cur, obs, made)
         /\ Layout(cur, fs)
  <1>1. pc \in InHand
    BY DEF InHand, Labels, RestoringLabels
  <1>2. /\ cur = db /\ cur \in Entry /\ cur.blocked = "no" /\ StampsAgree(cur)
        /\ Layout(cur, fs) /\ Place(pc, cur, obs, made) /\ RowSound(cur)
        /\ obs \in Obs /\ made \in Identity
    BY <1>1, InPeaceHand
  <1>3. cur.phase = "restoreIntent"
    BY <1>2 DEF Place, RestoringLabels
  <1>4. Exists(cur.restore) => cur.logical
    BY <1>2, <1>3 DEF RowSound, IsPresent, ValidSnapshot, ValidStructure
  <1>5. IF Exists(cur.restore) THEN cur.meta = cur.restore.meta ELSE cur.restore = NoId
    BY <1>2, <1>3 DEF StampsAgree, IsPresent
  <1>6. fs[DetachedName(cur)].id = cur.detached
    BY <1>2, <1>3 DEF Layout
  <1> QED BY <1>2, <1>3, <1>4, <1>5, <1>6

\* A file built has the modification stamp it is to have, or is the one found.
LEMMA BuiltStamp ==
  ASSUME Sound, NEW name \in Final, NEW good, NEW body, NEW meta, NEW kept, NEW built,
         KeepOrBuild(name, good, body, meta, kept, built)
  PROVE  \/ good /\ pc' = kept
         \/ pc' = built /\ Id(Building(name))'.meta = meta
  <1> DEFINE new == [id |-> [ino |-> nextIno, meta |-> meta, ctime |-> 0], body |-> body]
             b   == Building(name)
  <1>1. fs \in [Names -> File] /\ name \in Names /\ b \in Names /\ b # name
    BY ReplaceableNames DEF Sound, DiskType
  <1>2. \/ good /\ Proceed(kept, cur, NoObs, Id(name))
        \/ /\ fs' = [[fs EXCEPT ![b] = Nothing] EXCEPT ![name] = Nothing, ![b] = new]
           /\ Goto(built)
    BY DEF KeepOrBuild, Synced
  <1>3. new.id.meta = meta
    OBVIOUS
  <1> HIDE DEF new, b
  <1>4. CASE good /\ Proceed(kept, cur, NoObs, Id(name))
    BY <1>4 DEF Proceed
  <1>5. CASE fs' = [[fs EXCEPT ![b] = Nothing] EXCEPT ![name] = Nothing, ![b] = new] /\ Goto(built)
    <2>1. fs'[b] = new
      BY <1>1, <1>5
    <2> QED BY <1>3, <1>5, <2>1 DEF Goto, Proceed, Id, b
  <1> QED BY <1>2, <1>4, <1>5

LEMMA PromotedStamp ==
  ASSUME Sound, NEW name \in Final, NEW label, Promote(name, label)
  PROVE  made'.meta = Id(Building(name)).meta
  <1>1. fs[Building(name)] \in File
    BY ReplaceableNames DEF Sound, DiskType
  <1>2. made' = Renamed(fs[Building(name)]).id
    BY DEF Promote, Proceed
  <1> QED BY <1>1, <1>2, RenamedFile DEF Id

\* Only what is under the restoration file's names has changed.
LEMMA RestoreBuiltCalm ==
  ASSUME InPeace, pc \in {"restoreBuild", "promoteRestore"}, UNCHANGED db, survivors' = {fs'},
         \A n \in Names \ {"restore", Building("restore")} : fs'[n] = fs[n],
         (cur.logical /\ ~Exists(cur.restore)) \/ fs'["restore"] = fs["restore"],
         Footing'
  PROVE  Undisturbed'
  <1>1. cur = db /\ cur.phase = "restoreIntent" /\ Layout(cur, fs)
    BY RestoringPlace DEF RestoringLabels
  <1>2. fs'["target"] = fs["target"] /\ fs'[DetachedName(cur)] = fs[DetachedName(cur)]
    BY RestoreNames
  <1>3. Pair(fs', "restore") = Pair(fs, "restore") \/ (cur.logical /\ ~Exists(cur.restore))
    BY <1>2 DEF Pair
  <1>4. Layout(cur, fs')
    BY <1>1, <1>2, <1>3 DEF Layout
  <1> QED BY <1>1, <1>4, CalmFiles

LEMMA RestoreBuildCalm ==
  ASSUME InPeace, RestoreBuild \/ PromoteRestore
  PROVE  Undisturbed'
  <1>1. pc \in {"restoreBuild", "promoteRestore"}
    BY DEF RestoreBuild, PromoteRestore
  <1>2. Sound /\ FilesSound /\ fs \in survivors /\ fs \in [Names -> File]
    BY PeaceFacts
  <1>3. CASE PromoteRestore
    <2>1. /\ Promote("restore", "commitRestoreFile") /\ There(Building("restore"))
          /\ Id(Building("restore")).meta = cur.meta /\ cur.logical /\ ~Exists(cur.restore)
      <3>1. pc = "promoteRestore" /\ Promote("restore", "commitRestoreFile")
        BY <1>3 DEF PromoteRestore
      <3>2. There(Building("restore"))
        BY <3>1 DEF InPeace, Kept, Ground
      <3>3. Id(Building("restore")).meta = cur.meta
        BY <3>1, PeaceFacts DEF Footing
      <3>4. cur.logical /\ ~Exists(cur.restore)
        BY <3>1, RestoringPlace DEF RestoringLabels, Place
      <3> QED BY <3>1, <3>2, <3>3, <3>4
    <2>2. /\ survivors' = {fs'} /\ UNCHANGED db /\ pc' = "commitRestoreFile" /\ cur' = cur
          /\ Id("restore")' = made'
      BY <1>2, <2>1, PromotedNames, RestoreNames DEF Proceed
    <2>3. \A n \in Names \ {"restore", Building("restore")} : fs'[n] = fs[n]
      BY <1>2, <2>1, OthersPromoted, RestoreNames
    <2>4. made'.meta = cur.meta
      BY <1>2, <2>1, PromotedStamp, RestoreNames
    <2>5. Footing'
      BY <2>2, <2>4 DEF Footing, Retiring
    <2> QED BY <1>1, <2>1, <2>2, <2>3, <2>5, RestoreBuiltCalm
  <1>4. CASE RestoreBuild /\ cur.logical /\ ~Exists(cur.restore)
    <2>1. KeepOrBuild("restore", Matches("restore", cur.body, cur.meta), cur.body, cur.meta,
                      "commitRestoreFile", "promoteRestore")
      BY <1>4 DEF RestoreBuild
    <2>2. /\ survivors' = {fs'} /\ UNCHANGED db
          /\ \/ /\ Matches("restore", cur.body, cur.meta)
                /\ Proceed("commitRestoreFile", cur, NoObs, Id("restore"))
                /\ Id("restore")' = Id("restore")
             \/ Proceed("promoteRestore", cur, obs, made)
      BY <1>2, <2>1, BuiltNames, RestoreNames
    <2>3. \A n \in Names \ {"restore", Building("restore")} : fs'[n] = fs[n]
      BY <1>2, <2>1, OthersBuilt, RestoreNames
    <2>4. pc' = "promoteRestore" => Id(Building("restore"))'.meta = cur.meta
      BY <1>2, <2>1, BuiltStamp, RestoreNames
    <2>5. /\ cur' = cur /\ pc' \in {"commitRestoreFile", "promoteRestore"}
          /\ pc' = "commitRestoreFile" => Id("restore")' = made' /\ made'.meta = cur.meta
      BY <2>2 DEF Proceed, Matches
    <2>6. Footing'
      BY <2>4, <2>5 DEF Footing, Retiring
    <2> QED BY <1>1, <1>4, <2>2, <2>3, <2>6, RestoreBuiltCalm
  <1>5. CASE RestoreBuild /\ ~(cur.logical /\ ~Exists(cur.restore))
    <2>1. /\ Synced([fs EXCEPT ![Building("restore")] = Nothing]) /\ UNCHANGED db
          /\ Goto("restoreObserve")
      BY <1>5 DEF RestoreBuild
    <2>2. /\ survivors' = {fs'} /\ fs' = [fs EXCEPT ![Building("restore")] = Nothing]
          /\ pc' = "restoreObserve"
      BY <2>1 DEF Synced, Goto, Proceed
    <2>3. /\ \A n \in Names \ {"restore", Building("restore")} : fs'[n] = fs[n]
          /\ fs'["restore"] = fs["restore"]
      BY <1>2, <2>2, FinalNames
    <2>4. Footing'
      BY <2>2, FootingElsewhere DEF FootingLabels, Retiring
    <2> QED BY <1>1, <2>1, <2>2, <2>3, <2>4, RestoreBuiltCalm
  <1> QED BY <1>3, <1>4, <1>5

LEMMA CommitRestoreFileCalm ==
  ASSUME InPeace, CommitRestoreFile
  PROVE  Undisturbed'
  <1> DEFINE next == [cur EXCEPT !.restore = made]
  <1>1. pc = "commitRestoreFile" /\ Commit(next, "restoreObserve")
    BY DEF CommitRestoreFile
  <1>2. /\ cur = db /\ cur \in Entry /\ cur.phase = "restoreIntent" /\ cur.blocked = "no"
        /\ fs[DetachedName(cur)].id = cur.detached /\ Layout(cur, fs)
        /\ cur.logical /\ ~Exists(cur.restore) /\ Exists(made)
    BY <1>1, RestoringPlace DEF RestoringLabels, Place
  <1>3. Id("restore") = made /\ made.meta = cur.meta /\ survivors = {fs}
    BY <1>1, PeaceFacts DEF Footing, InPeace, Kept, Ground
  <1>4. fs["restore"].body = cur.body
    <2>1. "restore" \in Replaceable(db) /\ db.phase # "captured"
      BY <1>2 DEF Replaceable
    <2> QED BY <1>2, <1>3, <2>1 DEF InPeace, Kept, Stored, FilesSound, Disposable, Id
  <1>5. /\ next.phase = "restoreIntent" /\ next.restore = made /\ next.logical
        /\ next.body = cur.body /\ next.meta = cur.meta /\ next.origin = cur.origin
        /\ next.placeholder = cur.placeholder /\ next.detached = cur.detached
        /\ next.blocked = "no"
    BY <1>2 DEF Entry
  <1> HIDE DEF next
  <1>6. StampsAgree(next)
    BY <1>2, <1>3, <1>5 DEF StampsAgree
  <1>7. fs["target"].id = RestoreBefore(cur).t
    BY <1>2 DEF Layout
  <1>8. Pair(fs, "restore") = RestoreBefore(next)
    BY <1>3, <1>5, <1>7 DEF Pair, RestoreBefore, Id
  <1>9. DetachedName(next) = DetachedName(cur)
    BY <1>5 DEF DetachedName
  <1>10. Layout(next, fs)
    BY <1>2, <1>4, <1>5, <1>8, <1>9 DEF Layout
  <1> QED BY <1>1, <1>3, <1>5, <1>6, <1>10, CalmCommit DEF FootingLabels, Retiring

\* Before the exchange what is to be restored is in staging, after it at the
\* target.
LEMMA RestoreTells ==
  ASSUME InPeace, pc \in RestoringLabels, cur.logical => Exists(cur.restore)
  PROVE  /\ \/ Seen("restore") = RestoreBefore(cur)
            \/ After(RestoreAfter(cur), Seen("restore"))
         /\ Seen("restore") = RestoreBefore(cur) /\ cur.logical => fs["restore"].body = cur.body
         /\ After(RestoreAfter(cur), Seen("restore")) /\ cur.logical
              => Matches("target", cur.body, cur.meta)
         /\ After(RestoreAfter(cur), Seen("restore")) =>
              /\ SameFileAfterRename(cur.restore, Id("target"))
              /\ There("target") = Exists(cur.restore)
  <1>1. /\ Layout(cur, fs) /\ cur.phase = "restoreIntent" /\ FilesSound
        /\ IF Exists(cur.restore) THEN cur.meta = cur.restore.meta /\ cur.logical
                                  ELSE cur.restore = NoId
    BY RestoringPlace, PeaceFacts
  <1>2. Seen("restore") = Pair(fs, "restore")
    BY SeenMeaning
  <1>3. \/ /\ Seen("restore") = RestoreBefore(cur)
           /\ cur.logical => fs["restore"].body = cur.body
        \/ /\ After(RestoreAfter(cur), Seen("restore"))
           /\ cur.logical => fs["target"].body = cur.body
    BY <1>1, <1>2 DEF Layout
  <1>4. After(RestoreAfter(cur), Seen("restore")) =>
          /\ SameFileAfterRename(cur.restore, Id("target"))
          /\ There("target") = Exists(cur.restore)
    <2>1. After(RestoreAfter(cur), Seen("restore")) => SameFileAfterRename(cur.restore, Id("target"))
      BY SeenMeaning DEF After, RestoreAfter, RestoreBefore
    <2>2. SameFileAfterRename(cur.restore, Id("target")) => There("target") = Exists(cur.restore)
      BY DEF SameFileAfterRename, There, Exists
    <2> QED BY <2>1, <2>2
  <1>5. cur.logical => ~(Seen("restore") = RestoreBefore(cur)
                          /\ After(RestoreAfter(cur), Seen("restore")))
    <2> SUFFICES ASSUME cur.logical, Seen("restore") = RestoreBefore(cur),
                        After(RestoreAfter(cur), Seen("restore"))
                 PROVE  FALSE
      OBVIOUS
    <2>1. Id("restore") = cur.restore
      BY SeenMeaning DEF RestoreBefore
    <2>2. Id("target").ino = cur.restore.ino
      BY <1>4 DEF SameFileAfterRename
    <2> QED BY <1>1, <2>1, <2>2, NoTwoNames, FinalNames DEF There
  <1>6. After(RestoreAfter(cur), Seen("restore")) /\ cur.logical
          => Matches("target", cur.body, cur.meta)
    BY <1>1, <1>3, <1>4, <1>5 DEF Matches, SameFileAfterRename
  <1> QED BY <1>3, <1>4, <1>5, <1>6

LEMMA RestoreObserveCalm ==
  ASSUME InPeace, RestoreObserve \/ RestoreReobserve
  PROVE  Undisturbed'
  <1>1. pc \in {"restoreObserve", "restoreReobserve"} /\ pc \in RestoringLabels
    BY DEF RestoreObserve, RestoreReobserve, RestoringLabels
  <1>2. cur.logical => Exists(cur.restore)
    BY <1>1, RestoringPlace DEF Place
  <1>3. /\ pc = "restoreReobserve" => After(RestoreAfter(cur), Seen("restore"))
        /\ \/ Seen("restore") = RestoreBefore(cur)
           \/ After(RestoreAfter(cur), Seen("restore"))
    BY <1>1, <1>2, RestoreTells, PeaceFacts DEF Footing
  <1>4. \/ Pass("restoreRename") /\ Seen("restore") = RestoreBefore(cur)
        \/ /\ Still /\ Proceed("restoreVerify", cur, Seen("restore"), NoId)
           /\ After(RestoreAfter(cur), Seen("restore"))
    BY <1>1, <1>3, PeaceFacts DEF RestoreObserve, RestoreReobserve
  <1>5. Still /\ Seen("restore")' = Seen("restore")
    BY <1>4, SeenStays DEF Pass, Still, disk
  <1>6. CASE Pass("restoreRename") /\ Seen("restore") = RestoreBefore(cur)
    <2>1. pc' = "restoreRename" /\ cur' = cur
      BY <1>6 DEF Pass, Goto, Proceed
    <2>2. Footing'
      BY <1>5, <1>6, <2>1 DEF Footing, Retiring
    <2> QED BY <1>5, <2>2, CalmOnward
  <1>7. CASE Proceed("restoreVerify", cur, Seen("restore"), NoId)
    <2>1. pc' = "restoreVerify" /\ obs' = Seen("restore")
      BY <1>7 DEF Proceed
    <2>2. Footing'
      BY <1>5, <2>1 DEF Footing, Retiring
    <2> QED BY <1>5, <2>2, CalmOnward
  <1> QED BY <1>4, <1>6, <1>7

LEMMA RestoreRenameCalm ==
  ASSUME InPeace, RestoreRename
  PROVE  Undisturbed'
  <1>1. pc = "restoreRename" /\ pc \in RestoringLabels
    BY DEF RestoreRename, RestoringLabels
  <1>2. /\ cur = db /\ cur.phase = "restoreIntent" /\ fs[DetachedName(cur)].id = cur.detached
        /\ (cur.logical => Exists(cur.restore)) /\ (Exists(cur.restore) => cur.logical)
        /\ (~Exists(cur.restore) => cur.restore = NoId)
        /\ cur.origin \in {"installed", "stored"}
    BY <1>1, RestoringPlace, PeaceFacts DEF Place, RowSound
  <1>3. Seen("restore") = RestoreBefore(cur) /\ (cur.logical => fs["restore"].body = cur.body)
    BY <1>1, <1>2, RestoreTells, PeaceFacts DEF Footing
  <1>4. /\ Id("target") = RestoreBefore(cur).t /\ Id("restore") = cur.restore
        /\ (cur.origin = "stored" => RestoreBefore(cur).t = NoId)
    BY <1>2, <1>3, SeenMeaning DEF RestoreBefore
  <1>5. /\ fs \in [Names -> File] /\ "target" \in Names /\ "restore" \in Names
        /\ fs["target"] \in File /\ fs["restore"] \in File /\ "target" # "restore"
        /\ DetachedName(cur) \in Names \ {"target", "restore"}
    BY PeaceFacts, NamesType, RestoreNames
  <1>6. CASE Abandon
    BY <1>6, CalmOut DEF Abandon
  <1>7. CASE /\ IF cur.origin = "stored" THEN MoveFile("restore", "target")
                ELSE IF Exists(cur.restore) THEN Exchange("restore")
                ELSE MoveFile("target", "restore")
             /\ Goto("restoreReobserve") /\ UNCHANGED db
    <2>1. /\ survivors' = survivors \cup {fs'}
          /\ fs'[DetachedName(cur)] = fs[DetachedName(cur)]
          /\ SameFileAfterRename(cur.restore, fs'["target"].id)
          /\ SameFileAfterRename(RestoreBefore(cur).t, fs'["restore"].id)
          /\ cur.logical => fs'["target"].body = cur.body
      <3>1. CASE cur.origin = "stored"
        <4>1. /\ survivors' = survivors \cup {fs'}
              /\ fs' = [fs EXCEPT !["target"] = Renamed(fs["restore"]), !["restore"] = Nothing]
          BY <1>7, <3>1 DEF MoveFile, Rename
        <4>2. /\ fs'["target"] = Renamed(fs["restore"]) /\ fs'["restore"] = Nothing
              /\ fs'[DetachedName(cur)] = fs[DetachedName(cur)]
          BY <1>5, <4>1
        <4>3. /\ SameFileAfterRename(cur.restore, fs'["target"].id)
              /\ fs'["target"].body = fs["restore"].body
          BY <1>4, <1>5, <4>2, RenamedFile DEF SameFileAfterRename, Id
        <4>4. SameFileAfterRename(RestoreBefore(cur).t, fs'["restore"].id)
          BY <1>4, <3>1, <4>2 DEF SameFileAfterRename, Nothing
        <4> QED BY <1>3, <4>1, <4>2, <4>3, <4>4
      <3>2. CASE cur.origin # "stored" /\ Exists(cur.restore)
        <4>1. /\ survivors' = survivors \cup {fs'}
              /\ fs' = [fs EXCEPT !["target"]  = Renamed(fs["restore"]),
                                  !["restore"] = Renamed(fs["target"])]
          BY <1>7, <3>2 DEF Exchange, Rename
        <4>2. /\ fs'["target"] = Renamed(fs["restore"]) /\ fs'["restore"] = Renamed(fs["target"])
              /\ fs'[DetachedName(cur)] = fs[DetachedName(cur)]
          BY <1>5, <4>1
        <4>3. /\ SameFileAfterRename(cur.restore, fs'["target"].id)
              /\ SameFileAfterRename(RestoreBefore(cur).t, fs'["restore"].id)
              /\ fs'["target"].body = fs["restore"].body
          BY <1>4, <1>5, <4>2, RenamedFile DEF SameFileAfterRename, Id
        <4> QED BY <1>3, <4>1, <4>2, <4>3
      <3>3. CASE cur.origin # "stored" /\ ~Exists(cur.restore)
        <4>1. /\ survivors' = survivors \cup {fs'}
              /\ fs' = [fs EXCEPT !["restore"] = Renamed(fs["target"]), !["target"] = Nothing]
          BY <1>7, <3>3 DEF MoveFile, Rename
        <4>2. /\ fs'["restore"] = Renamed(fs["target"]) /\ fs'["target"] = Nothing
              /\ fs'[DetachedName(cur)] = fs[DetachedName(cur)]
          BY <1>5, <4>1
        <4>3. SameFileAfterRename(RestoreBefore(cur).t, fs'["restore"].id)
          BY <1>4, <1>5, <4>2, RenamedFile DEF SameFileAfterRename, Id
        <4>4. SameFileAfterRename(cur.restore, fs'["target"].id) /\ ~cur.logical
          BY <1>2, <3>3, <4>2 DEF SameFileAfterRename, Nothing
        <4> QED BY <4>1, <4>2, <4>3, <4>4
      <3> QED BY <3>1, <3>2, <3>3
    <2>2. After(RestoreAfter(cur), Pair(fs', "restore"))
      BY <2>1 DEF After, RestoreAfter, RestoreBefore, Pair
    <2>3. Layout(cur, fs')
      BY <1>2, <2>1, <2>2 DEF Layout
    <2>4. pc' = "restoreReobserve" /\ cur' = cur /\ Seen("restore")' = Pair(fs', "restore")
      BY <1>7 DEF Goto, Proceed, Seen, Pair, Id
    <2>5. After(RestoreAfter(cur), Seen("restore"))'
      BY <2>2, <2>4 DEF After, RestoreAfter, RestoreBefore
    <2>6. Footing'
      BY <2>4, <2>5 DEF Footing, Retiring
    <2> QED BY <1>2, <1>7, <2>1, <2>3, <2>6, CalmFiles
  <1>8. \/ Abandon
        \/ /\ IF cur.origin = "stored" THEN MoveFile("restore", "target")
              ELSE IF Exists(cur.restore) THEN Exchange("restore")
              ELSE MoveFile("target", "restore")
           /\ Goto("restoreReobserve") /\ UNCHANGED db
    BY DEF RestoreRename
  <1> QED BY <1>6, <1>7, <1>8

LEMMA RestoreVerifyCalm ==
  ASSUME InPeace, RestoreVerify \/ RestoreSync
  PROVE  Undisturbed'
  <1>1. pc \in {"restoreVerify", "restoreSync"} /\ pc \in RestoringLabels
    BY DEF RestoreVerify, RestoreSync, RestoringLabels
  <1>2. /\ obs \in Obs /\ After(RestoreAfter(cur), Seen("restore")) /\ Seen("restore") = obs
        /\ (cur.logical <=> Exists(cur.restore))
    BY <1>1, RestoringPlace, PeaceFacts DEF Footing, Place
  <1>3. /\ cur.logical => Matches("target", cur.body, cur.meta)
        /\ SameFileAfterRename(cur.restore, Id("target")) /\ There("target") = Exists(cur.restore)
    BY <1>1, <1>2, RestoreTells
  <1>4. CASE RestoreVerify
    <2>1. [obs EXCEPT !.t = Id("target")] = obs
      <3>1. obs.t = Id("target")
        BY <1>2, SeenMeaning
      <3> QED BY <1>2, <3>1 DEF Obs
    <2>2. \/ Still /\ Proceed("restoreSync", cur, [obs EXCEPT !.t = Id("target")], NoId)
          \/ Pass("restoreSync")
      BY <1>2, <1>3, <1>4, PeaceFacts DEF RestoreVerify
    <2>3. Still /\ fs' = fs /\ obs' = obs /\ pc' = "restoreSync"
      BY <2>1, <2>2 DEF Pass, Still, disk, Goto, Proceed
    <2>4. Seen("restore")' = obs'
      BY <1>2, <2>3, SeenStays
    <2>5. Footing'
      BY <2>3, <2>4 DEF Footing, Retiring
    <2> QED BY <2>3, <2>5, CalmOnward
  <1>5. CASE RestoreSync
    <2>1. SyncWith /\ Goto("commitRestored") /\ UNCHANGED db
      BY <1>5, PeaceFacts DEF RestoreSync
    <2>2. fs' = fs /\ survivors' = {fs'} /\ obs' = obs /\ pc' = "commitRestored"
      BY <2>1 DEF SyncWith, Goto, Proceed
    <2>3. Seen("restore")' = obs'
      BY <1>2, <2>2, SeenStays
    <2>4. Footing'
      BY <2>2, <2>3 DEF Footing, Retiring
    <2> QED BY <2>1, <2>2, <2>4, CalmFiles, PeaceFacts
  <1> QED BY <1>4, <1>5

LEMMA CommitRestoredCalm ==
  ASSUME InPeace, CommitRestored
  PROVE  Undisturbed'
  <1> DEFINE next == [cur EXCEPT !.phase = "restored", !.restore = obs.t, !.displaced = obs.s]
  <1>1. pc = "commitRestored" /\ Commit(next, "cleanup") /\ pc \in RestoringLabels
    BY DEF CommitRestored, RestoringLabels
  <1>2. /\ cur = db /\ cur \in Entry /\ cur.blocked = "no"
        /\ fs[DetachedName(cur)].id = cur.detached /\ After(RestoreAfter(cur), obs)
        /\ (cur.logical <=> Exists(cur.restore))
        /\ Exists(cur.restore) => cur.meta = cur.restore.meta
    BY <1>1, RestoringPlace DEF Place
  <1>3. Seen("restore") = obs /\ survivors = {fs}
    BY <1>1, PeaceFacts DEF Footing
  <1>4. /\ cur.logical => Matches("target", cur.body, cur.meta)
        /\ SameFileAfterRename(cur.restore, Id("target")) /\ There("target") = Exists(cur.restore)
    BY <1>1, <1>2, <1>3, RestoreTells
  <1>5. /\ next.phase = "restored" /\ next.restore = obs.t /\ next.displaced = obs.s
        /\ next.logical = cur.logical /\ next.body = cur.body /\ next.meta = cur.meta
        /\ next.origin = cur.origin /\ next.detached = cur.detached /\ next.blocked = "no"
    BY <1>2 DEF Entry
  <1> HIDE DEF next
  <1>6. obs.t = Id("target") /\ Pair(fs, "restore") = [t |-> obs.t, s |-> obs.s]
    BY <1>3, SeenMeaning DEF Pair
  <1>7. StampsAgree(next)
    <2>1. CASE Exists(cur.restore)
      <3>1. Exists(obs.t) /\ cur.meta = obs.t.meta
        BY <1>2, <1>4, <1>6, <2>1 DEF SameFileAfterRename, There
      <3> QED BY <1>5, <3>1 DEF StampsAgree
    <2>2. CASE ~Exists(cur.restore)
      <3>1. ~Exists(obs.t) /\ obs.t = NoId
        BY <1>4, <1>6, <2>2, NoFileNoId, PeaceFacts, NamesType DEF There, Id
      <3> QED BY <1>5, <3>1 DEF StampsAgree
    <2> QED BY <2>1, <2>2
  <1>8. DetachedName(next) = DetachedName(cur)
    BY <1>5 DEF DetachedName
  <1>9. Layout(next, fs)
    BY <1>2, <1>4, <1>5, <1>6, <1>8 DEF Layout, Matches
  <1> QED BY <1>1, <1>3, <1>5, <1>7, <1>9, CalmCommit DEF FootingLabels, Retiring

LEMMA RestoreCalm ==
  ASSUME InPeace, Restore
  PROVE  Undisturbed'
  <1>1. CASE RestoreLoad
    <2>1. \/ Still /\ Exit
          \/ Abandon \/ Loaded("beginRestore") \/ Loaded("storeObserve") \/ Replay
      BY <1>1 DEF RestoreLoad
    <2> QED BY <2>1, CalmOut, CalmCheck DEF Replay, FootingLabels, Retiring
  <1> QED BY <1>1, RestoreIntentCalm, RestoreBuildCalm, CommitRestoreFileCalm,
             RestoreObserveCalm, RestoreRenameCalm, RestoreVerifyCalm, CommitRestoredCalm
             DEF Restore

-----------------------------------------------------------------------------
(* Clean-up in peace                                                       *)

LEMMA DeleteIntentCalm ==
  ASSUME InPeace, Cleanup \/ CommitDelete
  PROVE  Undisturbed'
  <1>1. pc \in InHand /\ cur.phase \in {"restored", "deleteIntent"}
        /\ (pc = "commitDelete" => cur.phase = "restored")
    BY DEF Cleanup, CommitDelete, InHand, Labels, InPeace, Kept, Agreed, AtHand, Place
  <1>2. /\ cur = db /\ cur \in Entry /\ cur.blocked = "no" /\ Layout(cur, fs) /\ StampsAgree(cur)
        /\ cur.logical = Exists(cur.restore)
    <2>1. /\ cur = db /\ cur \in Entry /\ cur.blocked = "no" /\ Layout(cur, fs) /\ StampsAgree(cur)
          /\ RowSound(cur)
      BY <1>1, InPeaceHand
    <2> QED BY <1>1, <2>1 DEF RowSound, IsPresent, ValidSnapshot, ValidStructure
  <1>3. CASE Cleanup
    <2>1. cur.phase = "restored" => RestoredTarget(cur)
      <3> SUFFICES ASSUME cur.phase = "restored" PROVE RestoredTarget(cur)
        OBVIOUS
      <3>1. Id("target") = cur.restore /\ (cur.logical => fs["target"].body = cur.body)
        BY <1>2 DEF Layout, Pair, Id
      <3>2. cur.logical => cur.meta = cur.restore.meta
        BY <1>2 DEF StampsAgree, IsPresent
      <3> QED BY <1>2, <3>1, <3>2 DEF RestoredTarget, Matches, There
    <2>2. Pass("finalBuild") \/ Pass("commitDelete")
      BY <1>1, <1>3, <2>1, PeaceFacts DEF Cleanup
    <2> QED BY <2>2, CalmCheck DEF FootingLabels, Retiring
  <1>4. CASE CommitDelete
    <2> DEFINE next == [cur EXCEPT !.phase = "deleteIntent"]
    <2>1. Commit(next, "finalBuild") /\ cur.phase = "restored"
      BY <1>1, <1>4 DEF CommitDelete
    <2>2. /\ next.phase = "deleteIntent" /\ next.restore = cur.restore
          /\ next.displaced = cur.displaced /\ next.detached = cur.detached
          /\ next.logical = cur.logical /\ next.origin = cur.origin /\ next.meta = cur.meta
          /\ next.blocked = "no"
      BY <1>2 DEF Entry
    <2> HIDE DEF next
    <2>3. StampsAgree(next)
      BY <1>2, <2>1, <2>2 DEF StampsAgree, IsPresent
    <2>4. ASSUME NEW f \in survivors PROVE Layout(next, f)
      <3>1. /\ f["target"].id = cur.restore /\ f["restore"].id = cur.displaced
            /\ f[DetachedName(cur)].id = cur.detached
        <4>1. Layout(cur, f)
          BY <1>2, PeaceFacts
        <4> QED BY <2>1, <4>1 DEF Layout, Pair
      <3>2. \A n \in {"retired", "final", Building("final")} : ~Exists(f[n].id)
        <4>1. Occupied(db) = {DetachedName(cur), "restore"}
          BY <1>2, <2>1 DEF Occupied
        <4>2. /\ {"retired", "final", Building("final")} \subseteq StagingNames
              /\ "restore" \notin {"retired", "final", Building("final")}
          BY FinalNames
        <4> QED BY <4>1, <4>2, RestoreNames DEF InPeace, Kept, Stored, Tidy
      <3>3. DetachedName(next) = DetachedName(cur)
        BY <2>2 DEF DetachedName
      <3> QED BY <2>2, <3>1, <3>2, <3>3 DEF Layout
    <2> QED BY <2>1, <2>2, <2>3, <2>4, CalmCommit DEF FootingLabels, Retiring
  <1> QED BY <1>3, <1>4

\* What each label of the clean-up has in hand.
CleaningLabels == {"finalBuild", "promoteFinal", "beginFinalization"} \cup Retiring

LEMMA CleaningPlace ==
  ASSUME InPeace, pc \in CleaningLabels
  PROVE  /\ cur = db /\ cur.phase = "deleteIntent"
         /\ fs["target"].id \in {cur.restore, NoId}
         /\ fs["restore"].id \in {cur.displaced, NoId}
         /\ fs[DetachedName(cur)].id \in {cur.detached, NoId}
         /\ Exists(fs["retired"].id) => SameFileAfterRename(cur.restore, fs["retired"].id)
         /\ ~cur.logical => ~Exists(fs["final"].id) /\ ~Exists(fs[Building("final")].id)
         /\ Place(pc, cur, obs, made) /\ FilesSound /\ ~moved
  <1>1. pc \in InHand
    BY DEF InHand, Labels, CleaningLabels, Retiring
  <1>2. cur = db /\ Layout(cur, fs) /\ Place(pc, cur, obs, made)
    BY <1>1, InPeaceHand
  <1>3. cur.phase = "deleteIntent"
    BY <1>2 DEF Place, CleaningLabels, Retiring
  <1> QED BY <1>2, <1>3, PeaceFacts DEF Layout

\* Only files have gone, or the last copy has been made.
LEMMA CleaningCalm ==
  ASSUME InPeace, pc \in CleaningLabels, UNCHANGED db, survivors' \subseteq survivors \cup {fs'},
         Footing',
         \A n \in Names : \/ fs'[n] = fs[n]
                          \/ fs'[n] = Nothing /\ n \in {"restore", DetachedName(cur), "retired"}
                          \/ n \in {"final", Building("final")} /\ cur.logical
  PROVE  Undisturbed'
  <1>1. /\ {"target", "restore", "retired", "final", DetachedName(cur), Building("final")}
             \subseteq Names
        /\ DetachedName(cur) \notin {"target", "final", Building("final")}
        /\ {"target", "restore", "retired"} \cap {"final", Building("final")} = {}
        /\ "target" \notin {"restore", "retired"}
        /\ {"final", Building("final")} \cap {"restore", "retired"} = {}
    BY FinalNames DEF DetachedName
  <1>2. Nothing.id = NoId /\ ~Exists(Nothing.id)
    BY DEF Nothing, NoId, Exists
  <1>3. fs'["target"].id \in {cur.restore, NoId}
    BY <1>1, CleaningPlace
  <1>4. fs'["restore"].id \in {cur.displaced, NoId}
    BY <1>1, <1>2, CleaningPlace
  <1>5. fs'[DetachedName(cur)].id \in {cur.detached, NoId}
    BY <1>1, <1>2, CleaningPlace
  <1>6. Exists(fs'["retired"].id) => SameFileAfterRename(cur.restore, fs'["retired"].id)
    BY <1>1, <1>2, CleaningPlace
  <1>7. ~cur.logical => ~Exists(fs'["final"].id) /\ ~Exists(fs'[Building("final")].id)
    BY <1>1, <1>2, CleaningPlace
  <1>8. Layout(db, fs')
    BY <1>3, <1>4, <1>5, <1>6, <1>7, CleaningPlace DEF Layout
  <1> QED BY <1>8, CalmFiles

LEMMA PromotedHere ==
  ASSUME Sound, NEW name \in Final, NEW label, Promote(name, label)
  PROVE  /\ survivors' = {fs'} /\ UNCHANGED db /\ pc' = label
         /\ Id(name)' = made' /\ ~There(Building(name))'
  <1> DEFINE b    == Building(name)
             file == Renamed(fs[b])
  <1>1. fs \in [Names -> File] /\ name \in Names /\ b \in Names /\ b # name
    BY ReplaceableNames DEF Sound, DiskType
  <1>2. /\ fs' = [fs EXCEPT ![name] = file, ![b] = Nothing] /\ survivors' = {fs'}
        /\ UNCHANGED db /\ Proceed(label, cur, NoObs, file.id)
    BY DEF Promote, Synced
  <1> HIDE DEF file, b
  <1>3. fs'[name] = file /\ fs'[b] = Nothing
    BY <1>1, <1>2
  <1>4. pc' = label /\ made' = file.id
    BY <1>2 DEF Proceed
  <1> QED BY <1>2, <1>3, <1>4 DEF Id, There, Nothing, Exists, NoId, b

LEMMA FinalBuildCalm ==
  ASSUME InPeace, FinalBuild \/ PromoteFinal
  PROVE  Undisturbed'
  <1>1. pc \in {"finalBuild", "promoteFinal"} /\ pc \in CleaningLabels
    BY DEF FinalBuild, PromoteFinal, CleaningLabels
  <1>2. Sound /\ FilesSound /\ fs \in survivors /\ fs \in [Names -> File]
    BY PeaceFacts
  <1>3. CASE PromoteFinal
    <2>1. Promote("final", "retire") /\ cur.logical
      BY <1>1, <1>3, CleaningPlace DEF PromoteFinal, Place
    <2>2. /\ survivors' = {fs'} /\ UNCHANGED db /\ pc' = "retire"
          /\ Id("final")' = made' /\ ~There(Building("final"))'
      BY <1>2, <2>1, PromotedHere, RestoreNames
    <2>3. \A n \in Names \ {"final", Building("final")} : fs'[n] = fs[n]
      BY <1>2, <2>1, OthersPromoted, RestoreNames
    <2>4. Footing'
      BY <2>2 DEF Footing, Retiring
    <2> QED BY <1>1, <2>1, <2>2, <2>3, <2>4, CleaningCalm
  <1>4. CASE FinalBuild /\ cur.logical
    <2>1. KeepOrBuild("final", Matches("final", cur.body, cur.meta), cur.body, cur.meta,
                      "retire", "promoteFinal")
      BY <1>4 DEF FinalBuild
    <2>2. /\ survivors' = {fs'} /\ UNCHANGED db
          /\ \/ /\ Proceed("retire", cur, NoObs, Id("final"))
                /\ Id("final")' = Id("final") /\ ~There(Building("final"))'
             \/ Proceed("promoteFinal", cur, obs, made)
      BY <1>2, <2>1, BuiltNames, RestoreNames
    <2>3. \A n \in Names \ {"final", Building("final")} : fs'[n] = fs[n]
      BY <1>2, <2>1, OthersBuilt, RestoreNames
    <2>4. /\ pc' \in {"retire", "promoteFinal"}
          /\ pc' = "retire" => Id("final")' = made' /\ ~There(Building("final"))'
      BY <2>2 DEF Proceed
    <2>5. Footing'
      BY <2>4 DEF Footing, Retiring
    <2> QED BY <1>1, <1>4, <2>2, <2>3, <2>5, CleaningCalm
  <1>5. CASE FinalBuild /\ ~cur.logical
    <2>1. /\ ~Exists(fs["final"].id) /\ ~Exists(fs[Building("final")].id) /\ made = NoId
          /\ fs["final"].id = NoId
      <3>1. ~Exists(fs["final"].id) /\ ~Exists(fs[Building("final")].id)
        BY <1>1, <1>5, CleaningPlace
      <3>2. made = NoId
        BY <1>1, <1>5, CleaningPlace DEF FinalBuild, Place
      <3> QED BY <1>2, <3>1, <3>2, NoFileNoId, RestoreNames
    <2>2. Pass("retire")
      BY <1>5, <2>1 DEF FinalBuild, There, Id
    <2>3. Still /\ pc' = "retire" /\ made' = made /\ fs' = fs
      BY <2>2 DEF Pass, Goto, Proceed, Still, disk
    <2>4. Id("final")' = made' /\ ~There(Building("final"))'
      BY <2>1, <2>3 DEF There, Id
    <2>5. Footing'
      BY <2>3, <2>4 DEF Footing, Retiring
    <2> QED BY <2>3, <2>5, CalmOnward
  <1> QED BY <1>1, <1>3, <1>4, <1>5 DEF FinalBuild

LEMMA RetireCalm ==
  ASSUME InPeace, Retire \/ RetireRename \/ RetireCheck
  PROVE  Undisturbed'
  <1>1. pc \in {"retire", "retireRename", "retireCheck"} /\ pc \in CleaningLabels
    BY DEF Retire, RetireRename, RetireCheck, CleaningLabels, Retiring
  <1>2. Id("final") = made /\ ~There(Building("final"))
    BY <1>1, PeaceFacts DEF Footing, Retiring
  <1>3. ASSUME NEW label \in {"removeDisplaced", "retireRename"}, Pass(label)
        PROVE  Undisturbed'
    <2>1. Still /\ pc' = label /\ made' = made /\ fs' = fs
      BY <1>3 DEF Pass, Goto, Proceed, Still, disk
    <2>2. Id("final")' = made' /\ ~There(Building("final"))'
      BY <1>2, <2>1, SeenStays
    <2>3. Footing'
      BY <2>1, <2>2 DEF Footing, Retiring
    <2> QED BY <2>1, <2>3, CalmOnward
  <1>4. CASE Abandon
    BY <1>4, CalmOut DEF Abandon
  <1>5. CASE RetireRename /\ ~Abandon
    <2>1. There("target") /\ MoveFile("target", "retired") /\ Goto("retireCheck") /\ UNCHANGED db
      BY <1>5 DEF RetireRename
    <2>2. /\ fs \in [Names -> File] /\ {"target", "retired", "restore", "final"} \subseteq Names
          /\ DetachedName(cur) \in Names \ {"target", "retired"} /\ fs["target"] \in File
          /\ Building("final") \in Names \ {"target", "retired"}
      BY PeaceFacts, FinalNames DEF DetachedName
    <2>3. /\ survivors' = survivors \cup {fs'}
          /\ fs' = [fs EXCEPT !["retired"] = Renamed(fs["target"]), !["target"] = Nothing]
      BY <2>1 DEF MoveFile, Rename
    <2>4. /\ fs'["retired"] = Renamed(fs["target"]) /\ fs'["target"] = Nothing
          /\ \A n \in Names \ {"target", "retired"} : fs'[n] = fs[n]
      BY <2>2, <2>3
    <2>5. fs["target"].id = cur.restore
      BY <1>1, <2>1, CleaningPlace DEF There, Id, Exists, NoId
    <2>6. SameFileAfterRename(cur.restore, fs'["retired"].id)
      BY <2>2, <2>4, <2>5, RenamedFile DEF SameFileAfterRename
    <2>7. fs'["target"].id = NoId
      BY <2>4 DEF Nothing
    <2>8. /\ fs'["restore"] = fs["restore"] /\ fs'["final"] = fs["final"]
          /\ fs'[DetachedName(cur)] = fs[DetachedName(cur)]
          /\ fs'[Building("final")] = fs[Building("final")]
      BY <2>2, <2>4
    <2>9. Layout(db, fs')
      BY <1>1, <2>6, <2>7, <2>8, CleaningPlace DEF Layout
    <2>10. pc' = "retireCheck" /\ made' = made
      BY <2>1 DEF Goto, Proceed
    <2>11. Id("final")' = made' /\ ~There(Building("final"))'
      BY <1>2, <2>8, <2>10 DEF There, Id
    <2>12. Footing'
      BY <2>10, <2>11 DEF Footing, Retiring
    <2> QED BY <2>1, <2>3, <2>9, <2>12, CalmFiles
  <1>6. CASE Retire
    <2>1. Abandon \/ Pass("removeDisplaced") \/ Pass("retireRename")
      BY <1>6 DEF Retire
    <2> QED BY <1>3, <1>4, <2>1
  <1>7. CASE RetireCheck
    <2>1. Abandon \/ Pass("removeDisplaced")
      BY <1>7 DEF RetireCheck
    <2> QED BY <1>3, <1>4, <2>1
  <1> QED BY <1>4, <1>5, <1>6, <1>7

\* A removal that finds the recorded file there, or nothing.
LEMMA RemoveCalm ==
  ASSUME InPeace, pc \in CleaningLabels,
         NEW name \in {"restore", DetachedName(cur), "retired"}, NEW label,
         (~There(name) /\ Pass(label)) \/ (Remove(name) /\ Goto(label) /\ UNCHANGED db),
         ~There(name)' /\ (\A n \in Names \ {name} : Id(n)' = Id(n)) /\ made' = made => Footing'
  PROVE  Undisturbed'
  <1>1. fs \in [Names -> File] /\ name \in Names
    BY PeaceFacts, FinalNames, RestoreNames
  <1>2. CASE ~There(name) /\ Pass(label)
    <2>1. Still /\ fs' = fs /\ made' = made
      BY <1>2 DEF Pass, Still, disk, Goto, Proceed
    <2>2. ~There(name)' /\ \A n \in Names \ {name} : Id(n)' = Id(n)
      BY <1>2, <2>1 DEF There, Id
    <2> QED BY <2>1, <2>2, CalmOnward
  <1>3. CASE Remove(name) /\ Goto(label) /\ UNCHANGED db
    <2>1. fs' = [fs EXCEPT ![name] = Nothing] /\ survivors' = {fs'} /\ UNCHANGED db /\ made' = made
      BY <1>3 DEF Remove, Synced, Goto, Proceed
    <2>2. fs'[name] = Nothing /\ \A n \in Names \ {name} : fs'[n] = fs[n]
      BY <1>1, <2>1
    <2>3. ~There(name)' /\ \A n \in Names \ {name} : Id(n)' = Id(n)
      BY <2>2 DEF There, Id, Nothing, Exists, NoId
    <2>4. Footing'
      BY <2>1, <2>3
    <2>5. \A n \in Names :
            \/ fs'[n] = fs[n]
            \/ fs'[n] = Nothing /\ n \in {"restore", DetachedName(cur), "retired"}
      BY <2>2
    <2> QED BY <2>1, <2>4, <2>5, CleaningCalm
  <1> QED BY <1>2, <1>3

LEMMA UnlinkCalm ==
  ASSUME InPeace, RemoveDisplaced \/ RemoveDetached \/ RemoveRetired
  PROVE  Undisturbed'
  <1>1. pc \in {"removeDisplaced", "removeDetached", "removeRetired"} /\ pc \in CleaningLabels
    BY DEF RemoveDisplaced, RemoveDetached, RemoveRetired, CleaningLabels, Retiring
  <1>2. /\ Id("final") = made /\ ~There(Building("final"))
        /\ pc \in {"removeDetached", "removeRetired"} => ~There("restore")
        /\ pc = "removeRetired" => ~There(DetachedName(cur))
    BY <1>1, PeaceFacts DEF Footing, Retiring
  <1>3. /\ {"restore", "retired", "final", DetachedName(cur), Building("final")} \subseteq Names
        /\ DetachedName(cur) \notin {"restore", "retired", "final", Building("final")}
        /\ {"restore", "retired"} \cap {"final", Building("final")} = {} /\ "restore" # "retired"
    BY FinalNames DEF DetachedName
  <1>4. /\ Id("restore") \in {cur.displaced, NoId} /\ Id(DetachedName(cur)) \in {cur.detached, NoId}
        /\ There("retired") => SameFileAfterRename(cur.restore, Id("retired"))
        /\ ~Exists(NoId)
    BY <1>1, CleaningPlace DEF Id, There, Exists, NoId
  <1>5. CASE Abandon
    BY <1>5, CalmOut DEF Abandon
  <1>6. CASE RemoveDisplaced
    <2>1. RemoveRecorded("restore", cur.displaced, "removeDetached", "displaced")
      BY <1>6 DEF RemoveDisplaced
    <2>2. \/ ~There("restore") /\ Pass("removeDetached")
          \/ Remove("restore") /\ Goto("removeDetached") /\ UNCHANGED db
      BY <1>4, <2>1 DEF RemoveRecorded, There
    <2>3. pc' = "removeDetached" /\ made' = made
      BY <2>2 DEF Pass, Goto, Proceed
    <2>4. ~There("restore")' /\ (\A n \in Names \ {"restore"} : Id(n)' = Id(n)) => Footing'
      BY <1>2, <1>3, <2>3 DEF Footing, Retiring, There
    <2> QED BY <1>1, <2>2, <2>4, RemoveCalm
  <1>7. CASE RemoveDetached
    <2>1. PICK name : name = DetachedName(cur)
      OBVIOUS
    <2>2. RemoveRecorded(name, cur.detached, "removeRetired", "detached")
      BY <1>7, <2>1 DEF RemoveDetached
    <2>3. \/ ~There(name) /\ Pass("removeRetired")
          \/ Remove(name) /\ Goto("removeRetired") /\ UNCHANGED db
      BY <1>4, <2>1, <2>2 DEF RemoveRecorded, There
    <2>4. pc' = "removeRetired" /\ made' = made /\ cur' = cur /\ DetachedName(cur)' = name
      BY <2>1, <2>3 DEF Pass, Goto, Proceed, DetachedName
    <2>5. ~There("restore")
      BY <1>2, <1>7 DEF RemoveDetached
    <2>6. ~There(name)' /\ (\A n \in Names \ {name} : Id(n)' = Id(n)) => Footing'
      BY <1>2, <1>3, <2>1, <2>4, <2>5 DEF Footing, Retiring, There
    <2>7. name \in {"restore", DetachedName(cur), "retired"}
      BY <2>1
    <2> QED BY <1>1, <2>3, <2>4, <2>6, <2>7, RemoveCalm
  <1>8. CASE RemoveRetired /\ ~Abandon
    <2>1. \/ ~There("retired") /\ Pass("finalCheck")
          \/ Remove("retired") /\ Goto("finalCheck") /\ UNCHANGED db
      BY <1>4, <1>8 DEF RemoveRetired
    <2>2. pc' = "finalCheck" /\ made' = made /\ DetachedName(cur)' = DetachedName(cur)
      BY <2>1 DEF Pass, Goto, Proceed, DetachedName
    <2>3. ~There("restore") /\ ~There(DetachedName(cur))
      BY <1>2, <1>8 DEF RemoveRetired
    <2>4. ~There("retired")' /\ (\A n \in Names \ {"retired"} : Id(n)' = Id(n)) => Footing'
      BY <1>2, <1>3, <2>2, <2>3 DEF Footing, Retiring, There
    <2> QED BY <1>1, <2>1, <2>4, RemoveCalm
  <1> QED BY <1>5, <1>6, <1>7, <1>8

\* Nothing is left in staging but the last copy.
LEMMA FinalCheckCalm ==
  ASSUME InPeace, FinalCheck \/ BeginFinalization
  PROVE  Undisturbed'
  <1>1. pc \in {"finalCheck", "beginFinalization"} /\ pc \in CleaningLabels
    BY DEF FinalCheck, BeginFinalization, CleaningLabels, Retiring
  <1>2. CASE FinalCheck
    <2>1. /\ Id("final") = made /\ ~There(Building("final")) /\ ~There("restore")
          /\ ~There(DetachedName(cur)) /\ ~There("retired")
      BY <1>2, PeaceFacts DEF FinalCheck, Footing, Retiring
    <2>2. ASSUME NEW n \in StagingNames \ {"final"} PROVE ~There(n)
      <3>1. Occupied(db) = {DetachedName(cur), "restore", "final", Building("final"), "retired"}
        BY <1>1, CleaningPlace DEF Occupied
      <3> QED BY <2>1, <2>2, <3>1, PeaceFacts DEF InPeace, Kept, Stored, Tidy, There, Id
    <2>3. \/ Abandon
          \/ ~There("target") /\ SyncWith /\ Goto("beginFinalization") /\ UNCHANGED db
      BY <1>2, <2>1, <2>2 DEF FinalCheck
    <2>4. CASE Abandon
      BY <2>4, CalmOut DEF Abandon
    <2>5. CASE ~There("target") /\ SyncWith /\ Goto("beginFinalization") /\ UNCHANGED db
      <3>1. fs' = fs /\ survivors' = {fs'} /\ pc' = "beginFinalization" /\ made' = made
        BY <2>5 DEF SyncWith, Goto, Proceed
      <3>2. Id("final")' = made' /\ ~There("target")'
        BY <2>1, <2>5, <3>1, SeenStays
      <3>3. Footing'
        BY <3>1, <3>2 DEF Footing, Retiring
      <3> QED BY <2>5, <3>1, <3>3, CalmFiles, PeaceFacts
    <2> QED BY <2>3, <2>4, <2>5
  <1>3. CASE BeginFinalization
    <2> DEFINE marker == MarkerOf(cur, made)
    <2>1. db' = marker /\ Proceed("finObserve", marker, NoObs, NoId) /\ UNCHANGED disk
      BY <1>3, PeaceFacts DEF BeginFinalization
    <2>2. marker.phase = "finalizing" /\ marker.restore = made /\ marker.blocked = "no"
      BY DEF MarkerOf, Missing
    <2> HIDE DEF marker
    <2>3. Id("final") = made /\ ~There("target") /\ survivors = {fs}
      BY <1>3, PeaceFacts DEF BeginFinalization, Footing, InPeace, Kept, Ground
    <2>4. Id("target") = NoId
      BY <2>3, NoFileNoId, PeaceFacts, NamesType DEF There, Id
    <2>5. Layout(marker, fs) /\ StampsAgree(marker)
      BY <2>2, <2>3, <2>4 DEF Layout, StampsAgree, IsPresent, Pair, Id
    <2>6. Footing'
      BY <2>1, FootingElsewhere DEF Proceed, FootingLabels, Retiring
    <2> QED BY <2>1, <2>2, <2>3, <2>5, <2>6, CalmRow
  <1> QED BY <1>2, <1>3

LEMMA CleanCalm ==
  ASSUME InPeace, Clean
  PROVE  Undisturbed'
  BY DeleteIntentCalm, FinalBuildCalm, RetireCalm, UnlinkCalm, FinalCheckCalm DEF Clean

-----------------------------------------------------------------------------
(* Handing the credential back in peace                                    *)

LEMMA HandedBackPlace ==
  HandedBack => pc' \in {"prepare", "capture", "idle", "restoreLoad"}
  <1>1. HandedBack => \/ Proceed("prepare", Missing, NoObs, NoId)
                      \/ Proceed("capture", Missing, NoObs, NoId)
                      \/ Exit \/ Reconciled
    BY DEF HandedBack
  <1> QED BY <1>1, ReconciledCalm DEF Proceed, Exit, Enter

LEMMA FinRenameCalm ==
  ASSUME InPeace, FinRename
  PROVE  Undisturbed'
  <1>1. pc = "finRename" /\ pc \in InHand
    BY DEF FinRename, InHand, Labels
  <1>2. cur = db /\ cur.phase = "finalizing" /\ cur.logical /\ Layout(cur, fs) /\ RowSound(cur)
    BY <1>1, InPeaceHand DEF Place, FinLabels
  <1>3. Exists(cur.restore)
    BY <1>2 DEF RowSound, ValidMarker
  <1>4. CASE Abandon
    BY <1>4, CalmOut DEF Abandon
  <1>5. CASE ~Abandon
    <2>1. ~There("target") /\ MoveFile("final", "target") /\ Goto("finVerify") /\ UNCHANGED db
      BY <1>5 DEF FinRename
    <2>2. fs["final"].id = cur.restore
      BY <1>2, <1>3, <2>1 DEF Layout, Pair, After, SameFileAfterRename, There, Id, Exists
    <2>3. /\ fs \in [Names -> File] /\ "target" \in Names /\ "final" \in Names
          /\ fs["final"] \in File
      BY PeaceFacts, NamesType
    <2>4. /\ survivors' = survivors \cup {fs'}
          /\ fs'["target"] = Renamed(fs["final"]) /\ fs'["final"] = Nothing
      BY <2>1, <2>3 DEF MoveFile, Rename
    <2>5. SameFileAfterRename(cur.restore, fs'["target"].id)
      BY <2>2, <2>3, <2>4, RenamedFile DEF SameFileAfterRename
    <2>6. SameFileAfterRename(NoId, fs'["final"].id)
      BY <2>4 DEF SameFileAfterRename, Nothing
    <2>7. Layout(db, fs')
      BY <1>2, <2>5, <2>6 DEF Layout, After, Pair
    <2>8. Footing'
      BY <2>1, FootingElsewhere DEF Goto, Proceed, FootingLabels, Retiring
    <2> QED BY <2>1, <2>4, <2>7, <2>8, CalmFiles
  <1> QED BY <1>4, <1>5

LEMMA FinalizeCalm ==
  ASSUME InPeace, Finalize
  PROVE  Undisturbed'
  <1>1. CASE FinObserve \/ FinVerify \/ FinRecheck
    <2>1. Abandon \/ Pass("finRename") \/ Pass("finSync") \/ Pass("deleteMarker")
      BY <1>1 DEF FinObserve, FinVerify, FinRecheck
    <2> QED BY <2>1, CalmCheck DEF FootingLabels, Retiring
  <1>2. CASE FinSync
    <2>1. SyncWith /\ Goto("finRecheck") /\ UNCHANGED db
      BY <1>2, PeaceFacts DEF FinSync
    <2>2. fs' = fs /\ survivors' = {fs'} /\ pc' = "finRecheck"
      BY <2>1 DEF SyncWith, Goto, Proceed
    <2>3. Footing'
      BY <2>2, FootingElsewhere DEF FootingLabels, Retiring
    <2> QED BY <2>1, <2>2, <2>3, CalmFiles, PeaceFacts
  <1>3. CASE DeleteMarker
    <2>1. UNCHANGED disk /\ (db' = db \/ db' = Missing) /\ (HandedBack \/ Fail)
      BY <1>3 DEF DeleteMarker
    <2>2. pc' \notin FootingLabels
      BY <2>1, HandedBackPlace, FailPlace DEF FootingLabels, Retiring
    <2>3. /\ db'.blocked \in {"no", "staging", "io"} /\ StampsAgree(db')
          /\ \A f \in survivors : Layout(db', f)
      <3>1. Missing.blocked = "no" /\ Missing.phase = "missing"
        BY DEF Missing
      <3>2. StampsAgree(Missing) /\ \A f : Layout(Missing, f)
        BY <3>1 DEF StampsAgree, IsPresent, Layout
      <3> QED BY <2>1, <3>1, <3>2, PeaceFacts
    <2> QED BY <2>1, <2>2, <2>3, CalmRow, FootingElsewhere
  <1> QED BY <1>1, <1>2, <1>3, FinRenameCalm DEF Finalize

-----------------------------------------------------------------------------
(* Peace is kept                                                           *)

LEMMA MountedWriteCalm ==
  ASSUME IInv, Kept, Undisturbed, MountedWrite
  PROVE  Undisturbed'
  <1> DEFINE next == [db EXCEPT !.body = Fresh, !.logical = TRUE]
  <1>1. /\ mounted = "live" /\ db.phase = "mountIntent" /\ Accepts(db, db, next) /\ db' = next
        /\ UNCHANGED <<disk, proc, moved>>
    BY DEF MountedWrite
  <1>2. db \in Entry /\ db # Missing
    BY <1>1 DEF IInv, Sound, StoreType, Missing
  <1>3. /\ next.phase = "mountIntent" /\ next.placeholder = db.placeholder
        /\ next.detached = db.detached /\ next.restore = db.restore /\ next.blocked = db.blocked
    BY <1>1, <1>2 DEF Entry
  <1> HIDE DEF next
  <1>4. next.blocked = "no"
    BY <1>1, <1>2, <1>3, AcceptedRow
  <1>5. next.restore = NoId
    BY <1>1, <1>3 DEF Kept, Agreed, RowSound, Undisturbed, StampsAgree, IsPresent
  <1>6. StampsAgree(next) /\ \A f \in survivors : Layout(next, f)
    BY <1>1, <1>3, <1>5, InstalledCalm DEF Undisturbed
  <1>7. pc \in Holding /\ pc' = pc
    BY <1>1 DEF IInv, Sound, Safe, MountPlaces, proc
  <1>8. Footing'
    BY <1>7, FootingElsewhere DEF Holding, FootingLabels, Retiring
  <1>9. survivors' = survivors
    BY <1>1 DEF disk
  <1> QED BY <1>1, <1>4, <1>6, <1>8, <1>9 DEF Undisturbed

LEMMA DisasterCalm ==
  ASSUME Kept, Undisturbed, Disaster
  PROVE  Undisturbed'
  <1>1. db' = db /\ moved' = moved
    BY DEF Disaster, StepFails, ProcessCrash, PowerLoss, Faulty
  <1>2. pc' \notin FootingLabels
    <2>1. Fail \/ Exit \/ pc' = "idle"
      BY DEF Disaster, StepFails, ProcessCrash, PowerLoss, Enter
    <2> QED BY <2>1, FailPlace DEF FootingLabels, Retiring
  <1>3. survivors' \subseteq survivors
    <2>1. CASE StepFails \/ ProcessCrash
      BY <2>1 DEF StepFails, ProcessCrash, disk
    <2>2. CASE PowerLoss
      BY <2>2 DEF PowerLoss
    <2> QED BY <2>1, <2>2 DEF Disaster
  <1> QED BY <1>1, <1>2, <1>3, FootingElsewhere DEF Undisturbed

LEMMA InitPeace == Init => Peace
  <1> SUFFICES ASSUME Init PROVE Undisturbed
    BY DEF Peace
  <1>1. ~moved /\ pc = "idle" /\ db.blocked = "no" /\ db.phase = "missing"
    BY DEF Init, Missing
  <1>2. StampsAgree(db) /\ \A f \in survivors : Layout(db, f)
    BY <1>1 DEF StampsAgree, IsPresent, Layout
  <1>3. Footing
    BY <1>1 DEF Footing, Retiring
  <1> QED BY <1>1, <1>2, <1>3 DEF Undisturbed

LEMMA CoordinateCalm ==
  ASSUME InPeace, Issue \/ Coordinate
  PROVE  Undisturbed'
  BY IssueCalm, InterceptorCalm, InstallCalm, RestoreCalm, CleanCalm, FinalizeCalm, StoreCalm
     DEF Coordinate

LEMMA NextPeace == IInv /\ Kept /\ Peace /\ [Next]_vars => Peace'
  <1> SUFFICES ASSUME IInv, Kept, Peace, [Next]_vars, Calm'
               PROVE  Undisturbed'
    BY DEF Peace
  <1>1. Kept'
    BY NextKept
  <1>2. edits \in Nat /\ moves \in Nat
    BY DEF IInv, WorldType
  <1>3. CASE (Issue \/ Coordinate) /\ UNCHANGED world /\ UNCHANGED faults
    <2>1. Undisturbed
      BY <1>3 DEF Peace, Calm, world
    <2> QED BY <1>1, <1>3, <2>1, CoordinateCalm DEF InPeace
  <1>4. CASE Owner
    <2>1. edits' = edits + 1 \/ moves' = moves + 1
      BY <1>4 DEF Owner, OwnerReplace, OwnerDelete, OwnerWrite, Edit, MoveParent
    <2> QED BY <1>2, <2>1 DEF Calm
  <1>5. CASE MountedWrite
    <2>1. Undisturbed
      BY <1>5 DEF Peace, Calm, MountedWrite
    <2> QED BY <1>5, <2>1, MountedWriteCalm
  <1>6. CASE Disaster
    <2>1. Undisturbed
      BY <1>6 DEF Peace, Calm, Disaster, StepFails, ProcessCrash, PowerLoss, Faulty
    <2> QED BY <1>6, <2>1, DisasterCalm
  <1>7. CASE UNCHANGED vars
    <2>1. UNCHANGED <<db, fs, survivors, pc, cur, obs, made, moved, edits, moves>>
      BY <1>7 DEF vars, disk, proc, world
    <2>2. Undisturbed
      BY <2>1 DEF Peace, Calm
    <2>3. Footing'
      BY <2>1, <2>2 DEF Undisturbed, Footing, There, Id, Seen
    <2> QED BY <2>1, <2>2, <2>3 DEF Undisturbed
  <1>8. CASE CheckFails
    <2>1. Undisturbed /\ UNCHANGED world /\ Block("io")
      BY <1>8 DEF Peace, Calm, CheckFails, world
    <2> QED BY <1>1, <2>1, CalmBlock DEF InPeace
  <1> QED BY <1>3, <1>4, <1>5, <1>6, <1>7, <1>8 DEF Next

LEMMA AlwaysPeace == Spec => []Peace
  <1>1. Init => IInv /\ Kept /\ Peace
    BY InitInv, InitKept, InitPeace
  <1>2. IInv /\ Kept /\ Peace /\ [Next]_vars => (IInv /\ Kept /\ Peace)'
    BY NextInv, NextKept, NextPeace
  <1> QED BY <1>1, <1>2, PTL DEF Spec

\* docs/storage-v2.md, "Durable phases": as long as nobody else touches the
\* files, every namespace that a power loss may leave at any moment is one the
\* committed phase names, so that its replay accepts it -- the syncs and commits
\* of transaction.rs are in the right order at every step.
THEOREM LayoutFollowed == Spec => []PhaseLayout
  <1>1. Peace => PhaseLayout
    <2> SUFFICES ASSUME Undisturbed, NEW f \in survivors
        PROVE  LET at(n) == f[n].id
                   pair(n) == [t |-> at("target"), s |-> at(n)] IN
               CASE db.phase = "captured" -> at("target") = db.original
                 [] db.phase = "installIntent" ->
                      \/ pair("swap") = InstallBefore(db)
                      \/ After(InstallAfter(db), pair("swap"))
                 [] db.phase \in {"installed", "mountIntent", "unmountIntent"} ->
                      pair("swap") = [t |-> db.placeholder, s |-> db.detached]
                 [] db.phase = "storeIntent" ->
                      \/ pair("stored") = [t |-> db.original, s |-> NoId]
                      \/ After(StoreAfter(db), pair("stored"))
                 [] db.phase = "stored" -> pair("stored") = [t |-> NoId, s |-> db.detached]
                 [] db.phase = "restored" -> at("target") = db.restore
                 [] db.phase = "deleteIntent" ->
                      \/ at("target") = db.restore
                      \/ at("target") = NoId
                 [] db.phase = "finalizing" ->
                      \/ pair("final") = [t |-> NoId, s |-> db.restore]
                      \/ After([t |-> db.restore, s |-> NoId], pair("final"))
                 [] OTHER -> TRUE
      BY DEF Peace, Calm, PhaseLayout
    <2>1. Layout(db, f)
      BY DEF Undisturbed
    <2>2. db.phase = "restored" => f["target"].id = db.restore
      BY <2>1 DEF Layout, Pair
    <2> QED BY <2>1, <2>2 DEF Layout, Pair
  <1> QED BY <1>1, AlwaysPeace, PTL

\* As long as nobody else touches the files, no layout that a crash, an error or
\* a power loss leaves, at any point, is taken for a conflict by a check of
\* transaction.rs: one is recorded only where the check itself failed with an
\* error, and for what offline staging finds.
THEOREM NoConflictInPeace == Spec => []NoSpuriousBlock
  <1>1. Peace => NoSpuriousBlock
    BY DEF Peace, Calm, Undisturbed, NoSpuriousBlock
  <1> QED BY <1>1, AlwaysPeace, PTL
=============================================================================
