----------------------------- MODULE Lifecycle -----------------------------
(***************************************************************************)
(* The storage-v2 coordinator for one watched path: every operation of     *)
(* TransactionManager (src/transaction.rs), the file operations of         *)
(* secure_file.rs it makes, and the callers that sequence it -- the FUSE   *)
(* interceptor's start and stop and the `store' and `restore' commands --  *)
(* against an owner who keeps using the path, process crashes, I/O errors  *)
(* and power loss.                                                         *)
(*                                                                         *)
(* One coordinator runs at a time: the store is opened under an exclusive  *)
(* lock by the daemon or by one offline command.  A step of the model is   *)
(* what lies between two points at which the code can be interrupted with  *)
(* a different result: an observation, a rename, a directory sync, or a    *)
(* store transaction.                                                      *)
(***************************************************************************)
EXTENDS SnapshotStore

CONSTANTS
    Commands,       \* which of "start", "store" and "restore" are issued
    RestoreOnStop,  \* the values settings.restore_on_stop may have
    InitiallyThere, \* whether the path may hold a file at first, or not
    MaxFaults,      \* bound: crashes, power losses and I/O errors
    MaxEdits,       \* bound: modifications by the owner outside the mount
    MaxMoves,       \* bound: replacements of the parent directory
    MaxWrites,      \* bound: writes through the mount
    MaxCaptures     \* bound: captures, one per generation

ASSUME LifecycleAssumption ==
    /\ Commands \subseteq {"start", "store", "restore"}
    /\ RestoreOnStop \subseteq BOOLEAN
    /\ InitiallyThere \subseteq BOOLEAN
    /\ {MaxFaults, MaxEdits, MaxMoves, MaxWrites, MaxCaptures} \subseteq Nat

VARIABLES
    db,            \* the store's entry for the path
    fs,            \* the watched name and the names of the staging directory
    survivors,     \* the namespaces a power loss may leave behind
    exposed,       \* inodes the owner may hold a descriptor of
    nextIno,       \* the next inode number
    mounted,       \* "no", "live", or "stale" once the daemon is gone
    op,            \* the command being carried out
    pc,            \* where in it the coordinator is
    cur,           \* the entry it carries in memory
    obs,           \* the identities it last observed at target and staging
    made,          \* the identity of the file it last prepared
    restoreOnStop, \* FuseInterceptor.restore_on_stop
    refused,       \* history: the store refused a commit of the coordinator
    moved,         \* the pathname leads to another parent directory
    faults, edits, moves, writes, captures,   \* counters of the bounds
    precious       \* history: contents somebody still relies on

disk  == <<fs, survivors, exposed, nextIno>>
proc  == <<op, pc, cur, obs, made, restoreOnStop, mounted>>
world == <<moved, edits, moves, writes, precious>>
vars  == <<db, disk, proc, refused, captures, world, faults>>

-----------------------------------------------------------------------------
(* Files.  ".building-<name>" is the construction name of create_file.     *)

Final == {"swap", "restore", "final"}            \* names create_file makes
Building(name) == CASE name = "swap"    -> ".building-swap"
                    [] name = "restore" -> ".building-restore"
                    [] name = "final"   -> ".building-final"
StagingNames == Final \cup {Building(n) : n \in Final} \cup {"stored", "retired"}
Names        == {"target"} \cup StagingNames

File    == [id : Identity, body : Nat]
Nothing == [id |-> NoId, body |-> Empty]
NoObs   == [t |-> NoId, s |-> NoId]

Id(name)      == fs[name].id
There(name)   == Exists(Id(name))
Renamed(file) == IF Exists(file.id) THEN [file EXCEPT !.id.ctime = @ + 1] ELSE file
Seen(name)    == [t |-> Id("target"), s |-> Id(name)]
After(a, b)   == SameFileAfterRename(a.t, b.t) /\ SameFileAfterRename(a.s, b.s)
Matches(name, body, meta) == There(name) /\ fs[name].body = body /\ Id(name).meta = meta

\* A rename between the watched directory and staging is atomic, and lost or
\* kept by a power loss until one of the two directories is synced.
Rename(files) ==
    /\ fs' = files
    /\ survivors' = survivors \cup {files}
    /\ exposed' = exposed \cup ({files["target"].id.ino} \ {0})
    /\ UNCHANGED nextIno

Exchange(name) == Rename([fs EXCEPT !["target"] = Renamed(fs[name]),
                                    ![name]     = Renamed(fs["target"])])
MoveFile(from, to) == Rename([fs EXCEPT ![to] = Renamed(fs[from]), ![from] = Nothing])

\* A change inside staging, followed by the sync of that directory.
Synced(files) == fs' = files /\ survivors' = {files} /\ UNCHANGED exposed
SyncWith      == survivors' = {fs} /\ UNCHANGED <<fs, exposed, nextIno>>
Remove(name)  == Synced([fs EXCEPT ![name] = Nothing]) /\ UNCHANGED nextIno

-----------------------------------------------------------------------------
(* Control: how an operation proceeds, fails, ends or records a conflict   *)

Proceed(label, entry, seen, file) ==
    /\ pc' = label /\ cur' = entry /\ obs' = seen /\ made' = file
    /\ UNCHANGED <<op, restoreOnStop, mounted>>

Goto(label) == Proceed(label, cur, obs, made)

Enter(command, label, flag) ==
    /\ op' = command /\ pc' = label /\ restoreOnStop' = flag
    /\ cur' = Missing /\ obs' = NoObs /\ made' = NoId

\* The process ends; a mount it was serving stays behind.
Exit == /\ Enter("none", "idle", FALSE)
        /\ mounted' = IF mounted = "live" THEN "stale" ELSE mounted

\* An operation returns an error.  Once a path is in `prepared', a failed
\* start rolls back with restore_on_stop set; a failed stop is tried once
\* more when the interceptor is dropped.
Fail ==
    CASE op = "start" -> Enter("stop", "stop", TRUE) /\ UNCHANGED mounted
      [] op = "stop"  -> Enter("drop", "stop", restoreOnStop) /\ UNCHANGED mounted
      [] OTHER        -> Exit

\* Read-only step of the coordinator: only its own state changes.
Still == UNCHANGED <<db, disk, refused, captures>>

CommitFrom(expected, next, label) ==
    /\ UNCHANGED disk
    /\ IF Accepts(db, expected, next)
       THEN db' = next /\ Proceed(label, next, NoObs, NoId) /\ UNCHANGED refused
       ELSE refused' = TRUE /\ Fail /\ UNCHANGED db

Commit(next, label) == CommitFrom(cur, next, label) /\ UNCHANGED captures

\* conflict: persist the reason without changing the phase, and fail.
Block(reason) ==
    LET blocked == [cur EXCEPT !.blocked = reason] IN
    /\ IF Accepts(db, cur, blocked)
       THEN db' = blocked /\ UNCHANGED refused
       ELSE refused' = TRUE /\ UNCHANGED db
    /\ Fail
    /\ UNCHANGED <<disk, captures>>

\* The outcome of a check that changes nothing else.
Pass(label)  == Still /\ Goto(label)
Abandon      == Still /\ Fail

\* load, then require_unblocked, then the code's match on the lifecycle.
Loaded(label) == Still /\ Proceed(label, db, NoObs, NoId)

-----------------------------------------------------------------------------
(* Commands and the interceptor                                            *)

\* FuseInterceptor::start up to the detachment of a stale mount.  A blocked
\* path is refused before anything is touched.
Start(flag) ==
    /\ pc = "idle" /\ "start" \in Commands
    /\ db.blocked = "no"
    /\ IF IsPresent(db)
       THEN Enter("setup", "detach", flag)
       ELSE mounted = "no" /\ Enter("start", "prepare", flag)
    /\ Still /\ UNCHANGED mounted

RestoreCommand ==
    /\ pc = "idle" /\ "restore" \in Commands /\ mounted = "no"
    /\ Enter("restore", "restoreLoad", FALSE)
    /\ Still /\ UNCHANGED mounted

StoreCommand ==
    /\ pc = "idle" /\ "store" \in Commands /\ mounted = "no"
    /\ Enter("store", "storeLoad", FALSE)
    /\ Still /\ UNCHANGED mounted

StopCommand ==
    /\ pc = "serving"
    /\ Enter("stop", "stop", restoreOnStop)
    /\ Still /\ UNCHANGED mounted

\* stop: only a path with a live session is fenced first.
EnterStop ==
    /\ pc = "stop"
    /\ Pass(IF mounted = "live" THEN "beginUnmount" ELSE "detach")

UnmountOutcome == IF restoreOnStop THEN "restore" ELSE "leave"

BeginUnmount ==
    /\ pc = "beginUnmount"
    /\ CASE db.blocked = "no" /\ db.phase = "mountIntent" -> Loaded("commitUnmount")
         [] db.blocked = "no" /\ db.phase = "unmountIntent" /\ db.next = UnmountOutcome ->
              Pass("detach")
         [] OTHER -> Abandon

\* Mutant: the lifecycle is reconciled while the mount is still there.
CommitUnmountEarly ==
    /\ pc = "commitUnmount"
    /\ LET next == [cur EXCEPT !.phase = "unmountIntent", !.next = UnmountOutcome] IN
       IF db # cur /\ ~Accepts(db, cur, next)
       THEN Pass("beginUnmount") ELSE Commit(next, "reconcile")

\* A write that slipped in since the load is a CAS conflict: load again.
CommitUnmount ==
    /\ pc = "commitUnmount"
    /\ LET next == [cur EXCEPT !.phase = "unmountIntent", !.next = UnmountOutcome] IN
       IF db # cur /\ ~Accepts(db, cur, next)
       THEN Pass("beginUnmount") ELSE Commit(next, "detach")

\* Mutant: a failed umount2 is taken for success.
DetachUnchecked ==
    /\ pc = "detach"
    /\ pc' = "reconcile"
    /\ UNCHANGED <<op, cur, obs, made, restoreOnStop, mounted>>
    /\ Still

\* detach_stale_mount aborts the connection; stop then joins the session.
Detach ==
    /\ pc = "detach"
    /\ mounted' = "no" /\ pc' = "reconcile"
    /\ UNCHANGED <<op, cur, obs, made, restoreOnStop>>
    /\ Still

-----------------------------------------------------------------------------
(* Where the shared procedures return to                                   *)

\* After reconcile_after_mount_absent: start goes on to prepare; stop
\* restores if it was asked to.
Reconciled ==
    IF op = "setup" THEN Enter("start", "prepare", restoreOnStop) /\ UNCHANGED mounted
    ELSE IF restoreOnStop THEN Proceed("restoreLoad", Missing, NoObs, NoId)
    ELSE Exit

\* After the marker is deleted.
HandedBack ==
    CASE op = "start"   -> Proceed("prepare", Missing, NoObs, NoId)
      [] op = "store"   -> Proceed("capture", Missing, NoObs, NoId)
      [] op = "restore" -> Exit
      [] OTHER          -> Reconciled

AfterInstall == IF op = "start" THEN "beginMount" ELSE "beginRestore"

\* prepare, restore and store_offline resume whatever was left unfinished.
Replay ==
    CASE db.phase = "finalizing"                   -> Loaded("finObserve")
      [] db.phase = "captured"                     -> Loaded("beginInstall")
      [] db.phase = "installIntent"                -> Loaded("installObserve")
      [] db.phase = "restoreIntent" /\ ~moved      -> Loaded("restoreBuild")
      [] db.phase \in {"restored", "deleteIntent"} -> Loaded("cleanup")
      [] OTHER                                     -> Abandon

Prepare ==
    /\ pc = "prepare"
    /\ IF db.phase = "missing" THEN Pass("capture")
       ELSE IF db.blocked # "no" THEN Abandon
       ELSE IF db.phase = "installed" THEN Loaded("requireInstalled")
       ELSE Replay

\* Mutant: restore forgets require_unblocked.
RestoreLoadBlocked ==
    /\ pc = "restoreLoad"
    /\ IF db.phase = "missing" THEN Still /\ Exit
       ELSE IF db.phase \in {"installed", "stored"} THEN Loaded("beginRestore")
       ELSE IF db.phase = "storeIntent" THEN Loaded("storeObserve")
       ELSE Replay

RestoreLoad ==
    /\ pc = "restoreLoad"
    /\ IF db.phase = "missing" THEN Still /\ Exit
       ELSE IF db.blocked # "no" THEN Abandon
       ELSE IF db.phase \in {"installed", "stored"} THEN Loaded("beginRestore")
       ELSE IF db.phase = "storeIntent" THEN Loaded("storeObserve")
       ELSE Replay

StoreLoad ==
    /\ pc = "storeLoad"
    /\ IF db.phase = "missing" THEN Pass("capture")
       ELSE IF db.blocked # "no" THEN Abandon
       ELSE IF db.phase = "finalizing" THEN Loaded("finObserve")
       ELSE IF db.phase = "captured" /\ Exists(db.original) THEN Loaded("storeStaging")
       ELSE IF db.phase = "storeIntent" THEN Loaded("storeObserve")
       ELSE IF db.phase = "stored" THEN Loaded("requireStored")
       ELSE Abandon

-----------------------------------------------------------------------------
(* Layout checks                                                           *)

InstalledLayout(e) == /\ ~moved
                      /\ Id("target") = e.placeholder
                      /\ Id("swap") = e.detached

StoredLayout(e) == ~moved /\ ~There("target") /\ Id("stored") = e.detached

\* capture() again, compared with the entry: exact identity and contents.
SourceUnchanged(e) ==
    /\ ~moved
    /\ Id("target") = e.original
    /\ There("target") => fs["target"].body = e.body

-----------------------------------------------------------------------------
(* reconcile_after_mount_absent and abort_mount                            *)

\* Mutant: an unmount interrupted before its reconciliation is forgotten.
ReconcileMountOnly ==
    /\ pc = "reconcile"
    /\ IF db.phase = "finalizing" THEN Loaded("finObserve")
       ELSE IF db.blocked # "no" THEN Abandon
       ELSE IF db.phase = "mountIntent" THEN Loaded("leaveCheck")
       ELSE Still /\ Reconciled

Reconcile ==
    /\ pc = "reconcile"
    /\ IF db.phase = "finalizing" THEN Loaded("finObserve")
       ELSE IF db.blocked # "no" THEN Abandon
       ELSE IF db.phase = "unmountIntent" /\ db.next = "restore"
       THEN Loaded("beginRestore")
       ELSE IF db.phase \in {"mountIntent", "unmountIntent"} THEN Loaded("leaveCheck")
       ELSE Still /\ Reconciled

LeaveCheck ==
    /\ pc = "leaveCheck"
    /\ IF InstalledLayout(cur) THEN Pass("commitLeave") ELSE Block("installed")

CommitLeave ==
    /\ pc = "commitLeave"
    /\ UNCHANGED <<disk, captures>>
    /\ LET next == [cur EXCEPT !.phase = "installed", !.next = "none"] IN
       IF Accepts(db, cur, next)
       THEN db' = next /\ Reconciled /\ UNCHANGED refused
       ELSE refused' = TRUE /\ Fail /\ UNCHANGED db

-----------------------------------------------------------------------------
(* Construction of staging files: create_file behind discard_construction. *)
(* Nothing there: build.  Something there: keep it if it verifies, discard *)
(* and rebuild it if it does not.                                          *)

KeepOrBuild(name, good, body, meta, kept, built) ==
    LET clean == [fs EXCEPT ![Building(name)] = Nothing]
        new   == [id |-> [ino |-> nextIno, meta |-> meta, ctime |-> 0], body |-> body]
    IN
    /\ UNCHANGED <<db, refused, captures>>
    /\ IF There(name) /\ good
       THEN /\ Synced(clean) /\ UNCHANGED nextIno
            /\ Proceed(kept, cur, NoObs, Id(name))
       ELSE /\ Synced([clean EXCEPT ![name] = Nothing, ![Building(name)] = new])
            /\ nextIno' = nextIno + 1
            /\ Goto(built)

\* Promotion to the real name, without replacement, and the directory sync.
Promote(name, label) ==
    LET file == Renamed(fs[Building(name)]) IN
    /\ Synced([fs EXCEPT ![name] = file, ![Building(name)] = Nothing])
    /\ UNCHANGED <<nextIno, db, refused, captures>>
    /\ Proceed(label, cur, NoObs, file.id)

-----------------------------------------------------------------------------
(* capture_record, begin_install, finish_install                           *)

Capture ==
    /\ pc = "capture" /\ captures < MaxCaptures
    /\ LET entry == [Missing EXCEPT !.phase    = "captured",
                                    !.original = Id("target"),
                                    !.meta     = Id("target").meta,
                                    !.body     = fs["target"].body,
                                    !.logical  = There("target")]
       IN IF moved \/ (op = "store" /\ ~There("target"))
          THEN Abandon
          ELSE Still /\ Proceed("commitCaptured", entry, NoObs, NoId)

CommitCaptured ==
    /\ pc = "commitCaptured"
    /\ CommitFrom(Missing, cur, IF op = "store" THEN "storeStaging" ELSE "beginInstall")
    /\ captures' = captures + 1

BeginInstall ==
    /\ pc = "beginInstall"
    /\ IF moved THEN Abandon
       ELSE IF SourceUnchanged(cur) THEN Pass("buildPlaceholder")
       ELSE Block("source")

BuildPlaceholder ==
    /\ pc = "buildPlaceholder"
    /\ KeepOrBuild("swap", fs["swap"].body = Empty, Empty, 0,
                   "commitInstallIntent", "promotePlaceholder")

PromotePlaceholder ==
    /\ pc = "promotePlaceholder"
    /\ Promote("swap", "commitInstallIntent")

CommitInstallIntent ==
    /\ pc = "commitInstallIntent"
    /\ Commit([cur EXCEPT !.phase = "installIntent", !.placeholder = made],
              "installObserve")

InstallBefore(e) == [t |-> e.original, s |-> e.placeholder]
InstallAfter(e)  == [t |-> e.placeholder, s |-> e.original]

\* Mutant: replay after the exchange is not recognised.
InstallObserveOnce ==
    /\ pc = "installObserve"
    /\ IF moved THEN Abandon
       ELSE IF Seen("swap") = InstallBefore(cur) THEN Pass("installRename")
       ELSE Block("install")

InstallObserve ==
    /\ pc = "installObserve"
    /\ IF moved THEN Abandon
       ELSE IF Seen("swap") = InstallBefore(cur) THEN Pass("installRename")
       ELSE IF After(InstallAfter(cur), Seen("swap"))
       THEN Still /\ Proceed("installVerify", cur, Seen("swap"), NoId)
       ELSE Block("install")

\* RENAME_EXCHANGE over whatever is at the target now; RENAME_NOREPLACE when
\* the path was absent.
InstallRename ==
    /\ pc = "installRename"
    /\ IF moved \/ There("target") # Exists(cur.original)
       THEN Abandon
       ELSE /\ IF Exists(cur.original) THEN Exchange("swap") ELSE MoveFile("swap", "target")
            /\ Goto("installReobserve")
            /\ UNCHANGED <<db, refused, captures>>

InstallReobserve ==
    /\ pc = "installReobserve"
    /\ IF moved THEN Abandon
       ELSE IF After(InstallAfter(cur), Seen("swap"))
       THEN Still /\ Proceed("installVerify", cur, Seen("swap"), NoId)
       ELSE Block("install")

InstallVerify ==
    /\ pc = "installVerify"
    /\ IF Exists(cur.original) => Matches("swap", cur.body, cur.meta)
       THEN Pass("installSync") ELSE Block("snapshot")

\* Mutant: the namespaces are not synced before `installed' is committed.
InstallUnsynced ==
    /\ pc = "installSync"
    /\ IF moved THEN Abandon ELSE Pass("commitInstalled")

InstallSync ==
    /\ pc = "installSync"
    /\ IF moved THEN Abandon
       ELSE SyncWith /\ Goto("commitInstalled") /\ UNCHANGED <<db, refused, captures>>

\* Mutant: the placeholder's identity after the rename is not recorded.
CommitInstalledStale ==
    /\ pc = "commitInstalled"
    /\ Commit([cur EXCEPT !.phase = "installed", !.detached = obs.s], "requireInstalled")

CommitInstalled ==
    /\ pc = "commitInstalled"
    /\ Commit([cur EXCEPT !.phase = "installed", !.placeholder = obs.t,
                          !.detached = obs.s], "requireInstalled")

RequireInstalled ==
    /\ pc = "requireInstalled"
    /\ IF InstalledLayout(cur) THEN Pass(AfterInstall) ELSE Block("installed")

-----------------------------------------------------------------------------
(* begin_mount and the kernel mount                                        *)

BeginMount ==
    /\ pc = "beginMount"
    /\ IF InstalledLayout(cur) THEN Pass("commitMount") ELSE Block("installed")

CommitMount ==
    /\ pc = "commitMount"
    /\ Commit([cur EXCEPT !.phase = "mountIntent"], "mount")

\* open_mountpoint binds the mount to the committed placeholder.  When it
\* fails, the rollback's reconcile makes the abort_mount.
Mount ==
    /\ pc = "mount"
    /\ IF ~moved /\ Id("target") = cur.placeholder
       THEN /\ mounted' = "live" /\ pc' = "serving"
            /\ cur' = Missing
            /\ UNCHANGED <<op, obs, made, restoreOnStop>> /\ Still
       ELSE Abandon

-----------------------------------------------------------------------------
(* begin_restore, finish_restore                                           *)

BeginRestore ==
    /\ pc = "beginRestore"
    /\ IF cur.phase = "stored"
       THEN IF StoredLayout(cur) THEN Pass("commitRestoreIntent") ELSE Block("stored")
       ELSE IF InstalledLayout(cur) THEN Pass("commitRestoreIntent") ELSE Block("installed")

CommitRestoreIntent ==
    /\ pc = "commitRestoreIntent"
    /\ Commit([cur EXCEPT !.phase  = "restoreIntent",
                          !.next   = "none",
                          !.origin = IF cur.phase = "stored" THEN "stored" ELSE "installed"],
              "restoreBuild")

\* Mutant: a restoration file already committed is prepared again on replay.
RestoreBuildAlways ==
    /\ pc = "restoreBuild"
    /\ IF cur.logical
       THEN KeepOrBuild("restore", Matches("restore", cur.body, cur.meta), cur.body, cur.meta,
                        "commitRestoreFile", "promoteRestore")
       ELSE /\ Synced([fs EXCEPT ![Building("restore")] = Nothing])
            /\ UNCHANGED <<nextIno, db, refused, captures>>
            /\ Goto("restoreObserve")

RestoreBuild ==
    /\ pc = "restoreBuild"
    /\ IF cur.logical /\ ~Exists(cur.restore)
       THEN KeepOrBuild("restore", Matches("restore", cur.body, cur.meta), cur.body, cur.meta,
                        "commitRestoreFile", "promoteRestore")
       ELSE /\ Synced([fs EXCEPT ![Building("restore")] = Nothing])
            /\ UNCHANGED <<nextIno, db, refused, captures>>
            /\ Goto("restoreObserve")

PromoteRestore ==
    /\ pc = "promoteRestore"
    /\ Promote("restore", "commitRestoreFile")

CommitRestoreFile ==
    /\ pc = "commitRestoreFile"
    /\ Commit([cur EXCEPT !.restore = made], "restoreObserve")

RestoreBefore(e) == [t |-> IF e.origin = "installed" THEN e.placeholder ELSE NoId,
                     s |-> e.restore]
RestoreAfter(e)  == [t |-> RestoreBefore(e).s, s |-> RestoreBefore(e).t]

RestoreObserve ==
    /\ pc = "restoreObserve"
    /\ IF moved THEN Abandon
       ELSE IF Seen("restore") = RestoreBefore(cur) THEN Pass("restoreRename")
       ELSE IF After(RestoreAfter(cur), Seen("restore"))
       THEN Still /\ Proceed("restoreVerify", cur, Seen("restore"), NoId)
       ELSE Block("restore")

\* Exchange with the placeholder; move the placeholder away when the
\* credential is absent; install at the vacant path when it was stored.
RestoreRename ==
    /\ pc = "restoreRename"
    /\ IF moved \/ There("target") # (cur.origin = "installed")
       THEN Abandon
       ELSE /\ IF cur.origin = "stored" THEN MoveFile("restore", "target")
               ELSE IF Exists(cur.restore) THEN Exchange("restore")
               ELSE MoveFile("target", "restore")
            /\ Goto("restoreReobserve")
            /\ UNCHANGED <<db, refused, captures>>

RestoreReobserve ==
    /\ pc = "restoreReobserve"
    /\ IF moved THEN Abandon
       ELSE IF After(RestoreAfter(cur), Seen("restore"))
       THEN Still /\ Proceed("restoreVerify", cur, Seen("restore"), NoId)
       ELSE Block("restore")

\* Mutant: what was exchanged to the target is not read back.
RestoreUnverified ==
    /\ pc = "restoreVerify"
    /\ Still /\ Proceed("restoreSync", cur, [obs EXCEPT !.t = Id("target")], NoId)

RestoreVerify ==
    /\ pc = "restoreVerify"
    /\ IF cur.logical
       THEN IF /\ ~moved
               /\ Matches("target", cur.body, cur.meta)
               /\ SameFileAfterRename(cur.restore, Id("target"))
            THEN Still /\ Proceed("restoreSync", cur, [obs EXCEPT !.t = Id("target")], NoId)
            ELSE Block("verify")
       ELSE IF moved THEN Abandon
       ELSE IF There("target") THEN Block("reappeared")
       ELSE Pass("restoreSync")

RestoreSync ==
    /\ pc = "restoreSync"
    /\ IF moved THEN Abandon
       ELSE SyncWith /\ Goto("commitRestored") /\ UNCHANGED <<db, refused, captures>>

CommitRestored ==
    /\ pc = "commitRestored"
    /\ Commit([cur EXCEPT !.phase = "restored", !.restore = obs.t, !.displaced = obs.s],
              "cleanup")

-----------------------------------------------------------------------------
(* cleanup_restored and retire_restored_target                             *)

RestoredTarget(e) == IF e.logical
                     THEN Matches("target", e.body, e.meta) /\ Id("target") = e.restore
                     ELSE ~There("target")

Cleanup ==
    /\ pc = "cleanup"
    /\ IF moved THEN Block("parent")
       ELSE IF cur.phase = "deleteIntent" THEN Pass("finalBuild")
       ELSE IF cur.phase = "restored" /\ RestoredTarget(cur) THEN Pass("commitDelete")
       ELSE Block("target")

CommitDelete ==
    /\ pc = "commitDelete"
    /\ Commit([cur EXCEPT !.phase = "deleteIntent"], "finalBuild")

FinalBuild ==
    /\ pc = "finalBuild"
    /\ IF cur.logical
       THEN KeepOrBuild("final", Matches("final", cur.body, cur.meta), cur.body, cur.meta,
                        "retire", "promoteFinal")
       ELSE IF There("final") THEN Block("unexpectedFinal")
       ELSE Pass("retire")

PromoteFinal ==
    /\ pc = "promoteFinal"
    /\ Promote("final", "retire")

Retired(e) == ~There("target") /\ There("retired") /\ SameFileAfterRename(e.restore, Id("retired"))

Retire ==
    /\ pc = "retire"
    /\ IF moved THEN Abandon
       ELSE IF Seen("retired") = NoObs THEN Pass("removeDisplaced")
       ELSE IF cur.logical /\ Seen("retired") = [t |-> cur.restore, s |-> NoId]
       THEN Pass("retireRename")
       ELSE IF cur.logical /\ Retired(cur) THEN Pass("removeDisplaced")
       ELSE Abandon

RetireRename ==
    /\ pc = "retireRename"
    /\ IF moved \/ ~There("target") THEN Abandon
       ELSE /\ MoveFile("target", "retired")
            /\ Goto("retireCheck")
            /\ UNCHANGED <<db, refused, captures>>

RetireCheck ==
    /\ pc = "retireCheck"
    /\ IF ~moved /\ Retired(cur) THEN Pass("removeDisplaced") ELSE Abandon

\* remove_verified: the exact recorded identity, or nothing is unlinked.
RemoveRecorded(name, id, label, reason) ==
    IF ~Exists(id) \/ ~There(name) THEN Pass(label)
    ELSE IF Id(name) = id
    THEN Remove(name) /\ Goto(label) /\ UNCHANGED <<db, refused, captures>>
    ELSE Block(reason)

RemoveDisplaced ==
    /\ pc = "removeDisplaced"
    /\ RemoveRecorded("restore", cur.displaced, "removeDetached", "displaced")

DetachedName(e) == IF e.origin = "stored" THEN "stored" ELSE "swap"

RemoveDetached ==
    /\ pc = "removeDetached"
    /\ RemoveRecorded(DetachedName(cur), cur.detached, "removeRetired", "detached")

\* Mutant: the retired file is removed without reading it back.
RemoveRetiredUnread ==
    /\ pc = "removeRetired"
    /\ IF ~There("retired") THEN Pass("finalCheck")
       ELSE IF ~SameFileAfterRename(cur.restore, Id("retired")) THEN Block("retired")
       ELSE Remove("retired") /\ Goto("finalCheck") /\ UNCHANGED <<db, refused, captures>>

RemoveRetired ==
    /\ pc = "removeRetired"
    /\ IF ~There("retired") THEN Pass("finalCheck")
       ELSE IF ~SameFileAfterRename(cur.restore, Id("retired")) THEN Block("retired")
       ELSE IF ~Matches("retired", cur.body, cur.meta) THEN Abandon
       ELSE Remove("retired") /\ Goto("finalCheck") /\ UNCHANGED <<db, refused, captures>>

FinalCheck ==
    /\ pc = "finalCheck"
    /\ IF \E n \in StagingNames \ {"final"} : There(n) THEN Block("unrecognized")
       ELSE IF cur.logical /\ ~Matches("final", cur.body, cur.meta) THEN Abandon
       ELSE IF Id("final") # made THEN Block("final")
       ELSE IF moved \/ There("target") THEN Abandon
       ELSE SyncWith /\ Goto("beginFinalization") /\ UNCHANGED <<db, refused, captures>>

BeginFinalization ==
    /\ pc = "beginFinalization"
    /\ UNCHANGED <<disk, captures>>
    /\ LET marker == MarkerOf(cur, made) IN
       IF AcceptsMarker(db, cur, marker)
       THEN db' = marker /\ Proceed("finObserve", marker, NoObs, NoId) /\ UNCHANGED refused
       ELSE refused' = TRUE /\ Fail /\ UNCHANGED db

-----------------------------------------------------------------------------
(* finish_finalization                                                     *)

Handed(m) == IF m.logical
             THEN /\ SameFileAfterRename(m.restore, Id("target"))
                  /\ Matches("target", m.body, m.meta)
             ELSE ~There("target")

\* Mutant: replay after the last rename is not recognised.
FinObserveOnce ==
    /\ pc = "finObserve"
    /\ IF ~moved /\ cur.logical /\ Seen("final") = [t |-> NoId, s |-> cur.restore]
       THEN Pass("finRename") ELSE Abandon

FinObserve ==
    /\ pc = "finObserve"
    /\ IF moved THEN Abandon
       ELSE IF cur.logical /\ Seen("final") = [t |-> NoId, s |-> cur.restore]
       THEN Pass("finRename")
       ELSE IF ~There("final") /\ Handed(cur) THEN Pass("finSync")
       ELSE Abandon

FinRename ==
    /\ pc = "finRename"
    /\ IF moved \/ There("target") THEN Abandon
       ELSE /\ MoveFile("final", "target")
            /\ Goto("finVerify")
            /\ UNCHANGED <<db, refused, captures>>

FinVerify ==
    /\ pc = "finVerify"
    /\ IF ~moved /\ ~There("final") /\ Handed(cur) THEN Pass("finSync") ELSE Abandon

\* Mutant: the marker is deleted before the last rename is durable.
FinUnsynced ==
    /\ pc = "finSync"
    /\ IF moved THEN Abandon ELSE Pass("finRecheck")

FinSync ==
    /\ pc = "finSync"
    /\ IF moved THEN Abandon
       ELSE SyncWith /\ Goto("finRecheck") /\ UNCHANGED <<db, refused, captures>>

FinRecheck ==
    /\ pc = "finRecheck"
    /\ IF ~moved /\ Handed(cur) THEN Pass("deleteMarker") ELSE Abandon

DeleteMarker ==
    /\ pc = "deleteMarker"
    /\ db' = IF db = cur THEN Missing ELSE db
    /\ IF db = cur THEN HandedBack ELSE Fail
    /\ UNCHANGED <<disk, refused, captures>>

-----------------------------------------------------------------------------
(* store_offline, prepare_offline_staging, finish_store                    *)

StoreStaging ==
    /\ pc = "storeStaging"
    /\ IF moved THEN Abandon
       ELSE IF ~SourceUnchanged(cur) THEN Block("source")
       ELSE IF \E n \in StagingNames : There(n) THEN Block("staging")
       ELSE Pass("commitStoreIntent")

CommitStoreIntent ==
    /\ pc = "commitStoreIntent"
    /\ Commit([cur EXCEPT !.phase = "storeIntent"], "storeObserve")

StoreAfter(e) == [t |-> NoId, s |-> e.original]

\* Mutant: replay after the rename into staging is not recognised.
StoreObserveOnce ==
    /\ pc = "storeObserve"
    /\ IF moved THEN Abandon
       ELSE IF Seen("stored") = [t |-> cur.original, s |-> NoId]
       THEN Pass("storeRename")
       ELSE Block("store")

StoreObserve ==
    /\ pc = "storeObserve"
    /\ IF moved THEN Abandon
       ELSE IF Seen("stored") = [t |-> cur.original, s |-> NoId]
       THEN Pass("storeRename")
       ELSE IF After(StoreAfter(cur), Seen("stored")) THEN Pass("storeVerify")
       ELSE Block("store")

StoreRename ==
    /\ pc = "storeRename"
    /\ IF moved \/ ~There("target") THEN Abandon
       ELSE /\ MoveFile("target", "stored")
            /\ Goto("storeReobserve")
            /\ UNCHANGED <<db, refused, captures>>

StoreReobserve ==
    /\ pc = "storeReobserve"
    /\ IF moved THEN Abandon
       ELSE IF After(StoreAfter(cur), Seen("stored")) THEN Pass("storeVerify")
       ELSE Block("store")

StoreVerify ==
    /\ pc = "storeVerify"
    /\ IF /\ Matches("stored", cur.body, cur.meta)
          /\ SameFileAfterRename(cur.original, Id("stored"))
       THEN Still /\ Proceed("storeSync", cur, Seen("stored"), NoId)
       ELSE Block("storedSnapshot")

StoreSync ==
    /\ pc = "storeSync"
    /\ IF moved THEN Abandon
       ELSE SyncWith /\ Goto("commitStored") /\ UNCHANGED <<db, refused, captures>>

CommitStored ==
    /\ pc = "commitStored"
    /\ Commit([cur EXCEPT !.phase = "stored", !.detached = obs.s], "requireStored")

RequireStored ==
    /\ pc = "requireStored"
    /\ IF ~StoredLayout(cur) THEN Block("stored")
       ELSE IF op = "store" THEN Still /\ Exit
       ELSE Pass("beginRestore")

-----------------------------------------------------------------------------
(* The world: the owner, the mount's clients, crashes                      *)

Fresh == 2 + edits + writes    \* contents and modification stamp of a new write

\* Overwriting a copy the store also holds in custody leaves it precious.
Overwritten(body) == IF IsPresent(db) /\ db.body = body THEN {} ELSE {body}

\* The owner syncs its own edits.
Edit(files, lost, gained) ==
    /\ edits < MaxEdits /\ edits' = edits + 1
    /\ fs' = files /\ survivors' = {files}
    /\ exposed' = exposed \cup ({files["target"].id.ino} \ {0})
    /\ precious' = (precious \ Overwritten(lost)) \cup gained
    /\ UNCHANGED <<db, proc, refused, captures, moved, faults, moves, writes>>

\* A new file renamed over the path, or created at it; only a path that no
\* mount covers leads to the underlying name.
OwnerReplace ==
    /\ mounted = "no" /\ ~moved
    /\ Edit([fs EXCEPT !["target"] =
                [id |-> [ino |-> nextIno, meta |-> Fresh, ctime |-> 0], body |-> Fresh]],
            fs["target"].body, {Fresh})
    /\ nextIno' = nextIno + 1

OwnerDelete ==
    /\ mounted = "no" /\ ~moved /\ There("target")
    /\ Edit([fs EXCEPT !["target"] = Nothing], fs["target"].body, {})
    /\ UNCHANGED nextIno

Written(file, quiet) ==
    [id |-> [ino   |-> file.id.ino,
             meta  |-> IF quiet THEN file.id.meta ELSE Fresh,
             ctime |-> file.id.ctime + 1],
     body |-> Fresh]

\* A write through the path or through a descriptor held since the inode was
\* there; a quiet one puts size and mtime back, which leaves only ctime (the
\* size of an empty file cannot be kept).
OwnerWrite(name, quiet) ==
    /\ There(name) /\ Id(name).ino \in exposed
    /\ quiet => fs[name].body # Empty
    /\ Edit([fs EXCEPT ![name] = Written(@, quiet)], fs[name].body, {Fresh})
    /\ UNCHANGED nextIno

\* The parent directory is replaced by another, or put back.
MoveParent ==
    /\ moves < MaxMoves /\ moves' = moves + 1
    /\ moved' = ~moved
    /\ UNCHANGED <<db, disk, proc, refused, captures, faults, edits, writes, precious>>

\* A mounted write is acknowledged once update_contents has committed it.
MountedWrite ==
    /\ mounted = "live" /\ writes < MaxWrites
    /\ LET next == [db EXCEPT !.body = Fresh, !.logical = TRUE] IN
       /\ db.phase = "mountIntent"
       /\ Accepts(db, db, next)
       /\ db' = next
       /\ precious' = (precious \ {db.body}) \cup {Fresh}
    /\ writes' = writes + 1
    /\ UNCHANGED <<disk, proc, refused, captures, moved, faults, edits, moves>>

Faulty == faults < MaxFaults /\ faults' = faults + 1
          /\ UNCHANGED <<db, refused, captures, moved, edits, moves, writes, precious>>

\* A step of the current operation returns an I/O or database error, and the
\* code passes it on.
StepFails ==
    /\ pc \notin {"idle", "serving"}
    /\ Fail /\ Faulty /\ UNCHANGED disk

\* Labels whose check makes a conflict of every error of its own, be it that the
\* files are not as recorded or that they could not be looked at.
Checking == {"beginInstall", "installVerify", "requireInstalled", "leaveCheck", "beginMount",
             "beginRestore", "restoreVerify", "cleanup", "storeStaging", "storeVerify",
             "requireStored"}

\* An observation or a read inside such a check returns an I/O error.
CheckFails ==
    /\ pc \in Checking
    /\ pc = "installVerify" => Exists(cur.original)
    /\ pc = "restoreVerify" => cur.logical
    /\ Block("io")
    /\ faults < MaxFaults /\ faults' = faults + 1
    /\ UNCHANGED world

ProcessCrash ==
    /\ pc # "idle"
    /\ Exit /\ Faulty /\ UNCHANGED disk

PowerLoss ==
    /\ Faulty
    /\ \E files \in survivors :
         /\ fs' = files /\ survivors' = {files}
         /\ exposed' = {files["target"].id.ino} \ {0}
    /\ Enter("none", "idle", FALSE) /\ mounted' = "no"
    /\ UNCHANGED nextIno

-----------------------------------------------------------------------------

Init ==
    /\ \E there \in InitiallyThere :
         /\ fs = [n \in Names |->
                    IF n = "target" /\ there
                    THEN [id |-> [ino |-> 1, meta |-> 1, ctime |-> 0], body |-> 1]
                    ELSE Nothing]
         /\ precious = IF there THEN {1} ELSE {}
         /\ exposed = IF there THEN {1} ELSE {}
    /\ survivors = {fs} /\ nextIno = 2 /\ db = Missing
    /\ mounted = "no" /\ op = "none" /\ pc = "idle" /\ cur = Missing
    /\ obs = NoObs /\ made = NoId /\ restoreOnStop = FALSE
    /\ refused = FALSE /\ moved = FALSE
    /\ faults = 0 /\ edits = 0 /\ moves = 0 /\ writes = 0 /\ captures = 0

Issue == StoreCommand \/ RestoreCommand \/ StopCommand \/ \E flag \in RestoreOnStop : Start(flag)

Interceptor == EnterStop \/ BeginUnmount \/ CommitUnmount \/ Detach \/ Reconcile
               \/ LeaveCheck \/ CommitLeave \/ Prepare \/ BeginMount \/ CommitMount \/ Mount

Install == Capture \/ CommitCaptured \/ BeginInstall \/ BuildPlaceholder \/ PromotePlaceholder
           \/ CommitInstallIntent \/ InstallObserve \/ InstallRename \/ InstallReobserve
           \/ InstallVerify \/ InstallSync \/ CommitInstalled \/ RequireInstalled

Restore == RestoreLoad \/ BeginRestore \/ CommitRestoreIntent \/ RestoreBuild \/ PromoteRestore
           \/ CommitRestoreFile \/ RestoreObserve \/ RestoreRename \/ RestoreReobserve
           \/ RestoreVerify \/ RestoreSync \/ CommitRestored

Clean == Cleanup \/ CommitDelete \/ FinalBuild \/ PromoteFinal \/ Retire \/ RetireRename
         \/ RetireCheck \/ RemoveDisplaced \/ RemoveDetached \/ RemoveRetired \/ FinalCheck
         \/ BeginFinalization

Finalize == FinObserve \/ FinRename \/ FinVerify \/ FinSync \/ FinRecheck \/ DeleteMarker

Store == StoreLoad \/ StoreStaging \/ CommitStoreIntent \/ StoreObserve \/ StoreRename
         \/ StoreReobserve \/ StoreVerify \/ StoreSync \/ CommitStored \/ RequireStored

Coordinate == Interceptor \/ Install \/ Restore \/ Clean \/ Finalize \/ Store

Owner == OwnerReplace \/ OwnerDelete \/ MoveParent
         \/ \E n \in Names, quiet \in BOOLEAN : OwnerWrite(n, quiet)

Disaster == StepFails \/ ProcessCrash \/ PowerLoss

Next == \/ (Issue \/ Coordinate) /\ UNCHANGED world /\ UNCHANGED faults
        \/ Owner
        \/ MountedWrite
        \/ Disaster
        \/ CheckFails

Spec == Init /\ [][Next]_vars

\* The coordinator is sequential code that waits for nobody.  Nothing is assumed
\* of who issues commands.
FairSpec == Spec /\ WF_vars(Coordinate /\ UNCHANGED <<world, faults>>)

-----------------------------------------------------------------------------
(* Properties                                                              *)

Labels == {"idle", "serving", "stop", "beginUnmount", "commitUnmount", "detach", "reconcile",
           "leaveCheck", "commitLeave", "prepare", "beginMount", "commitMount", "mount",
           "capture", "commitCaptured", "beginInstall", "buildPlaceholder",
           "promotePlaceholder", "commitInstallIntent", "installObserve", "installRename",
           "installReobserve", "installVerify", "installSync", "commitInstalled",
           "requireInstalled", "restoreLoad", "beginRestore", "commitRestoreIntent",
           "restoreBuild", "promoteRestore", "commitRestoreFile", "restoreObserve",
           "restoreRename", "restoreReobserve", "restoreVerify", "restoreSync",
           "commitRestored", "cleanup", "commitDelete", "finalBuild", "promoteFinal",
           "retire", "retireRename", "retireCheck", "removeDisplaced", "removeDetached",
           "removeRetired", "finalCheck", "beginFinalization", "finObserve", "finRename",
           "finVerify", "finSync", "finRecheck", "deleteMarker", "storeLoad",
           "storeStaging", "commitStoreIntent", "storeObserve", "storeRename",
           "storeReobserve", "storeVerify", "storeSync", "commitStored", "requireStored"}

\* Every variable has the type its declaration names.
TypeOK ==
    /\ db \in Entry /\ cur \in Entry
    /\ fs \in [Names -> File]
    /\ survivors \subseteq [Names -> File]
    /\ exposed \subseteq Nat /\ nextIno \in Nat
    /\ mounted \in {"no", "live", "stale"}
    /\ op \in {"none", "setup", "start", "stop", "drop", "restore", "store"}
    /\ pc \in Labels
    /\ obs \in [t : Identity, s : Identity] /\ made \in Identity
    /\ restoreOnStop \in BOOLEAN /\ refused \in BOOLEAN /\ moved \in BOOLEAN
    /\ {faults, edits, moves, writes, captures} \subseteq Nat
    /\ precious \subseteq Nat

\* docs/storage-v2.md: "after every coordinator operation and at every replay
\* point, at least one complete, recoverable copy of the logical credential
\* exists".  Contents the owner wrote, or a mounted write was acknowledged
\* for, are in the snapshot row or in a file, whichever namespace a power
\* loss leaves; what the owner wrote over one of the coordinator's files
\* counts as well.
RecoverableCopy ==
    \A body \in precious, files \in survivors :
        \/ IsPresent(db) /\ db.logical /\ db.body = body
        \/ \E n \in Names : Exists(files[n].id) /\ files[n].body = body

\* docs/storage-v2.md, "Durable phases": with nobody else touching the files,
\* every namespace a power loss may leave behind is one that the committed
\* phase names, so that its replay accepts it.
PhaseLayout ==
    edits = 0 /\ moves = 0 =>
      \A files \in survivors :
        LET at(n) == files[n].id
            pair(n) == [t |-> at("target"), s |-> at(n)] IN
        CASE db.phase = "captured" -> at("target") = db.original
          [] db.phase = "installIntent" ->
               \/ pair("swap") = InstallBefore(db)
               \/ After(InstallAfter(db), pair("swap"))
          [] db.phase \in {"installed", "mountIntent", "unmountIntent"} ->
               pair("swap") = [t |-> db.placeholder, s |-> db.detached]
          [] db.phase = "storeIntent" ->
               \/ pair("stored") = [t |-> db.original, s |-> NoId]
               \/ After(StoreAfter(db), pair("stored"))
          [] db.phase = "stored" -> pair("stored") = [t |-> NoId, s |-> db.detached]
          [] db.phase = "restored" -> at("target") = db.restore
          [] db.phase = "deleteIntent" ->
               \/ at("target") = db.restore
               \/ at("target") = NoId
          [] db.phase = "finalizing" ->
               \/ pair("final") = [t |-> NoId, s |-> db.restore]
               \/ After([t |-> db.restore, s |-> NoId], pair("final"))
          [] OTHER -> TRUE

\* Every commit the coordinator attempts is one the store's independent
\* validation of successors admits: the two state machines agree, also when
\* the entry was replayed or the files were touched in between.
NeverRefused == ~refused

\* A kernel mount, live or stale, always has an unblocked record that says so:
\* start refuses a blocked path before detaching anything, and the offline
\* commands refuse a mounted one, so any other mount could not be removed.
MountIsRecorded ==
    mounted # "no" => db.phase \in {"mountIntent", "unmountIntent"} /\ db.blocked = "no"

\* Once neither row nor marker is left, no copy of the credential remains in
\* staging, and the path holds exactly the last acknowledged contents -- or
\* nothing, if it held nothing and nothing was written -- whatever a power
\* loss does.
CleanHandover ==
    db.phase = "missing" =>
      \A files \in survivors :
        /\ \A n \in StagingNames : ~Exists(files[n].id)
        /\ edits = 0 => IF precious = {} THEN ~Exists(files["target"].id)
                        ELSE files["target"].body \in precious

\* docs/storage-v2.md: a mismatch sets blocked_reason and "Automatic
\* destructive work then stops": no later command changes the entry, and
\* none but the owner or a power loss changes a file.
BlockedIsFrozen ==
    [][db.blocked # "no" =>
         /\ db' = db
         /\ edits' = edits /\ faults' = faults => fs' = fs]_vars

\* Without the owner's interference no layout that crashes, errors and power
\* losses leave behind is taken for a conflict: manual recovery is demanded only
\* where a check could not look at the files ("io": an error of the check is
\* recorded as a conflict, and blocks the path although nothing is wrong with
\* it), or for what offline staging finds (see StagingDebrisIsDisposable).
NoSpuriousBlock == edits = 0 /\ moves = 0 => db.blocked \in {"no", "staging", "io"}

\* docs/storage-v2.md: "Construction names and invalid files whose identity
\* has not yet been committed are disposable replay debris".
StagingDebrisIsDisposable == edits = 0 /\ moves = 0 => db.blocked # "staging"

\* docs/storage-v2.md: "A detected mismatch sets blocked_reason".  So does a check
\* that could not look.
OnlyMismatchesBlock == edits = 0 /\ moves = 0 => db.blocked # "io"

\* transaction.rs: a path that "is stored offline; restore it before starting
\* the daemon" comes back only by the restore command.
StoredStaysOffline == [][db.phase = "stored" /\ db'.phase = "restoreIntent" => op = "restore"]_vars

\* The daemon is started again whenever that stays possible: by the service
\* manager after a failure (Restart=on-failure in packaging/systemd/
\* file-guard.service), by somebody else after a stop or an offline command.
Restarted == SF_vars((\E flag \in RestoreOnStop : Start(flag)) /\ UNCHANGED <<world, faults>>)

\* docs/storage-v2.md, "Ordering and replay": replay takes every interrupted
\* operation to its end, unless an error of a check blocks the path for good.
\* A restoration once begun hands the credential back, however often it is cut
\* short, and is never turned round ...
RestoreCompletes ==
    db.phase \in {"restoreIntent", "restored", "deleteIntent", "finalizing"}
        ~> db.phase = "missing" \/ db.blocked = "io"

\* ... a credential captured is installed (or stored, if that command came
\* first) unless debris in staging stopped it ...
InstallCompletes ==
    db.phase \in {"captured", "installIntent"}
        ~> db.phase \in {"installed", "storeIntent"} \/ db.blocked \in {"staging", "io"}

\* ... an offline removal leaves the credential in staging ...
StoreCompletes == db.phase = "storeIntent" ~> db.phase = "stored" \/ db.blocked = "io"

\* ... and a fenced mount does not stay fenced.
UnmountCompletes ==
    db.phase = "unmountIntent"
        ~> db.phase \in {"installed", "restoreIntent"} \/ db.blocked = "io"

\* Together: whatever operation was under way when it failed or the process died,
\* if the daemon is started again it is brought to its end, or a check that
\* failed has recorded that it needs a hand.
ReplayCompletes ==
    Restarted => RestoreCompletes /\ InstallCompletes /\ StoreCompletes /\ UnmountCompletes
=============================================================================
