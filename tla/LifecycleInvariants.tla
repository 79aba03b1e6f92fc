------------------------ MODULE LifecycleInvariants ------------------------
(***************************************************************************)
(* The inductive invariants of the storage coordinator: what makes the     *)
(* properties of Lifecycle hold from one step to the next.                 *)
(*                                                                         *)
(* There are three, each on top of the one before: IInv (types, checks and *)
(* mounts), Kept (the entry in hand, the files and the credential), and    *)
(* Peace (where the files are while nobody else touches them).             *)
(* LifecycleProofs proves that every step keeps them.                      *)
(***************************************************************************)
EXTENDS Lifecycle

Ops == {"none", "setup", "start", "stop", "drop", "restore", "store"}
Obs == [t : Identity, s : Identity]

\* The conjuncts of TypeOK, grouped by who changes them.
StoreType == db \in Entry /\ refused \in BOOLEAN /\ captures \in Nat
DiskType  == /\ fs \in [Names -> File] /\ survivors \subseteq [Names -> File]
             /\ exposed \subseteq Nat /\ nextIno \in Nat
ProcType  == /\ op \in Ops /\ pc \in Labels /\ cur \in Entry /\ obs \in Obs
             /\ made \in Identity /\ restoreOnStop \in BOOLEAN
             /\ mounted \in {"no", "live", "stale"}
WorldType == /\ moved \in BOOLEAN /\ precious \subseteq Nat
             /\ faults \in Nat /\ edits \in Nat /\ moves \in Nat /\ writes \in Nat

(***************************************************************************)
(* The inductive invariant.  BlockedIsFrozen and MountIsRecorded are not   *)
(* inductive: they hold because every operation has looked at `blocked'    *)
(* by the time it changes anything, and because only some labels are       *)
(* reached with a mount in place.                                          *)
(***************************************************************************)
\* Labels at which the entry has not been found unblocked yet.
Unchecked == {"idle", "stop", "beginUnmount", "detach", "reconcile", "prepare",
              "restoreLoad", "storeLoad", "capture", "commitCaptured"}

\* Labels at which the interceptor holds a live session.
Holding == {"serving", "stop", "beginUnmount", "commitUnmount", "detach"}

\* Past its checks the coordinator works on an unblocked entry.
ChecksHold == pc \notin Unchecked => db.blocked = "no"

\* A finalization marker has no reason to be blocked.
MarkerUnblocked == db.phase = "finalizing" => db.blocked = "no"

\* Where a live or a stale mount may be met, and what mount() relies on.
MountPlaces == /\ mounted = "live"  => pc \in Holding
               /\ mounted = "stale" => pc \in {"idle", "detach"} /\ op \in {"none", "setup"}
               /\ pc = "mount" => db.phase = "mountIntent"

Safe  == ChecksHold /\ MarkerUnblocked /\ MountIsRecorded /\ MountPlaces
Sound == StoreType /\ DiskType /\ ProcType /\ Safe
IInv  == Sound /\ WorldType

-----------------------------------------------------------------------------
(***************************************************************************)
(* Nothing is lost.                                                        *)
(*                                                                         *)
(* The second invariant says what the code takes for granted from one      *)
(* step to the next: which entry it has in hand at each label (Place),     *)
(* which names of the staging directory a phase may occupy (Tidy), that    *)
(* what it discards there nobody relies on (Disposable), and that the      *)
(* identities it has recorded still tell the contents apart after renames, *)
(* quiet writes and power losses (PlaceholdersEmpty, DetachedSpent).       *)
(***************************************************************************)

\* Labels at which the entry in memory is the one in the store.
InHand == Labels \ {"idle", "serving", "stop", "beginUnmount", "commitUnmount", "detach",
                    "reconcile", "prepare", "restoreLoad", "storeLoad", "capture",
                    "commitCaptured"}

\* Labels at which finish_finalization has the marker in hand.
FinLabels == {"finObserve", "finRename", "finVerify", "finSync", "finRecheck", "deleteMarker"}

\* Labels at which nothing is in hand.
Nowhere == {"idle", "serving", "stop", "beginUnmount", "detach", "reconcile", "prepare",
            "restoreLoad", "storeLoad"}

-----------------------------------------------------------------------------
(* The entry                                                               *)

\* What the coordinator's transitions make of an entry, beyond what the store
\* demands of each.
RowSound(e) ==
    /\ e.phase = "missing" => e = Missing
    /\ IsPresent(e) => ValidSnapshot(e)
    /\ e.phase = "finalizing" => ValidMarker(e)
    /\ e.phase \in {"captured", "installIntent", "installed", "mountIntent", "unmountIntent",
                    "storeIntent", "stored"} => ~Exists(e.restore)
    /\ e.phase \in {"captured", "installIntent", "storeIntent", "finalizing"}
         => ~Exists(e.detached)
    /\ e.phase = "unmountIntent" => e.next \in {"restore", "leave"}
    /\ e.phase \in {"restoreIntent", "restored", "deleteIntent"}
         => e.origin \in {"installed", "stored"}
    /\ e.phase \in {"restored", "deleteIntent"} /\ e.origin = "installed"
         => SameFileAfterRename(e.placeholder, e.displaced)

\* A capture not yet committed.
Fledgling(e) ==
    /\ e.phase = "captured" /\ e.blocked = "no"
    /\ e.logical = Exists(e.original) /\ (~e.logical => e.body = Empty)
    /\ ~Exists(e.placeholder) /\ ~Exists(e.detached) /\ ~Exists(e.restore)

\* What holds of the entry in hand, the identities observed and the file made,
\* at each label.
Place(l, e, o, m) ==
    /\ l \in {"leaveCheck", "commitLeave"}
         => e.phase = "mountIntent" \/ (e.phase = "unmountIntent" /\ e.next = "leave")
    /\ l \in {"commitUnmount", "mount"} => e.phase = "mountIntent"
    /\ l \in {"requireInstalled", "beginMount", "commitMount"} => e.phase = "installed"
    /\ l = "commitCaptured" => Fledgling(e)
    /\ l \in {"beginInstall", "buildPlaceholder", "promotePlaceholder",
              "commitInstallIntent"} => e.phase = "captured"
    /\ l \in {"storeStaging", "commitStoreIntent"} => e.phase = "captured" /\ Exists(e.original)
    /\ l = "commitInstallIntent" => Exists(m)
    /\ l \in {"installObserve", "installRename", "installReobserve", "installVerify",
              "installSync", "commitInstalled"} => e.phase = "installIntent"
    /\ l \in {"installVerify", "installSync", "commitInstalled"} => After(InstallAfter(e), o)
    /\ l \in {"beginRestore", "commitRestoreIntent"}
         => \/ e.phase \in {"installed", "stored"}
            \/ e.phase = "unmountIntent" /\ e.next = "restore"
    /\ l \in {"restoreBuild", "promoteRestore", "commitRestoreFile", "restoreObserve",
              "restoreRename", "restoreReobserve", "restoreVerify", "restoreSync",
              "commitRestored"} => e.phase = "restoreIntent"
    /\ l \in {"promoteRestore", "commitRestoreFile"} => e.logical /\ ~Exists(e.restore)
    /\ l = "commitRestoreFile" => Exists(m)
    /\ l \in {"restoreObserve", "restoreRename", "restoreReobserve", "restoreVerify",
              "restoreSync", "commitRestored"} => (e.logical => Exists(e.restore))
    /\ l \in {"restoreVerify", "restoreSync", "commitRestored"} => After(RestoreAfter(e), o)
    /\ l = "cleanup" => e.phase \in {"restored", "deleteIntent"}
    /\ l = "commitDelete" => e.phase = "restored"
    /\ l \in {"finalBuild", "promoteFinal", "retire", "retireRename", "retireCheck",
              "removeDisplaced", "removeDetached", "removeRetired", "finalCheck",
              "beginFinalization"} => e.phase = "deleteIntent"
    /\ l = "promoteFinal" => e.logical
    /\ l \in {"cleanup", "finalBuild", "retire", "retireRename", "retireCheck",
              "removeDisplaced", "removeDetached", "removeRetired", "finalCheck"}
         => (e.logical \/ m = NoId)
    /\ l = "beginFinalization" => e.logical = Exists(m) /\ (e.logical => m.meta = e.meta)
    /\ l \in FinLabels => e.phase = "finalizing"
    /\ l = "finRename" => e.logical
    /\ l \in {"storeObserve", "storeRename", "storeReobserve", "storeVerify", "storeSync",
              "commitStored"} => e.phase = "storeIntent"
    /\ l \in {"storeSync", "commitStored"} => SameFileAfterRename(e.original, o.s)
    /\ l = "requireStored" => e.phase = "stored"

AtHand == /\ pc \in InHand => cur = db
          /\ pc \in {"capture", "commitCaptured"} => db = Missing
          /\ Place(pc, cur, obs, made)

Agreed == RowSound(db) /\ AtHand /\ ~refused

-----------------------------------------------------------------------------
(* The files                                                               *)

\* Every namespace a power loss may leave: no inode has two names, what is at
\* the target may be held open, and no file has a number yet to be given.
FilesSound ==
    /\ fs \in survivors
    /\ nextIno > 0
    /\ \A f \in survivors, n \in Names :
         /\ ~Exists(f[n].id) => f[n] = Nothing
         /\ f[n].id.ino < nextIno
         /\ f[n].body < Fresh
    /\ \A f \in survivors, m, n \in Names :
         Exists(f[m].id) /\ f[m].id.ino = f[n].id.ino => m = n
    /\ \A f \in survivors : Exists(f["target"].id) => f["target"].id.ino \in exposed
    /\ \A i \in exposed : i < nextIno

\* The contents somebody relies on, and those in custody.
BodiesSound == (\A b \in precious : 0 < b) /\ db.body < Fresh

\* The names of the staging directory each phase may occupy.
Occupied(e) ==
    CASE e.phase = "missing" -> {}
      [] e.phase = "captured" -> {"swap", Building("swap")}
      [] e.phase \in {"installIntent", "installed", "mountIntent", "unmountIntent"} -> {"swap"}
      [] e.phase \in {"storeIntent", "stored"} -> {"stored"}
      [] e.phase = "restoreIntent" /\ e.logical /\ ~Exists(e.restore) ->
           {DetachedName(e), "restore", Building("restore")}
      [] e.phase = "restoreIntent" /\ ~(e.logical /\ ~Exists(e.restore)) ->
           {DetachedName(e), "restore"}
      [] e.phase = "restored" -> {DetachedName(e), "restore"}
      [] e.phase = "deleteIntent" ->
           {DetachedName(e), "restore", "final", Building("final"), "retired"}
      [] e.phase = "finalizing" -> {"final"}

Tidy == \A f \in survivors, n \in StagingNames : Exists(f[n].id) => n \in Occupied(db)

\* The names a phase may discard and build again.
Replaceable(e) ==
    IF e.phase = "captured" THEN {"swap", Building("swap")}
    ELSE IF e.phase = "restoreIntent" /\ e.logical /\ ~Exists(e.restore)
    THEN {"restore", Building("restore")}
    ELSE IF e.phase = "deleteIntent" THEN {"final", Building("final")}
    ELSE {}

\* Nobody ever had access to what they hold, and the store has its contents.
Disposable ==
    \A f \in survivors, n \in Replaceable(db) :
      Exists(f[n].id) =>
        /\ f[n].id.ino \notin exposed
        /\ IF db.phase = "captured" THEN f[n].body = Empty /\ f[n].id.meta = 0
                                    ELSE f[n].body = db.body

\* What is at the target cannot be lost before there is an entry, or while
\* there is only a capture.
OneNamespace == db.phase \in {"missing", "captured"} => survivors = {fs}

\* A file with the recorded placeholder's number and modification stamp is
\* empty: a write of the owner, quiet or not, would show.
PlaceholdersEmpty ==
    Exists(db.placeholder) =>
      /\ db.placeholder.meta = 0 /\ db.placeholder.ino < nextIno
      /\ \A f \in survivors, n \in Names :
           f[n].id.ino = db.placeholder.ino /\ f[n].id.meta = 0 => f[n].body = Empty

\* The detached original is never older than recorded, and as recorded it holds
\* nothing that is not in custody too.
DetachedSpent ==
    Exists(db.detached) =>
      /\ db.detached.ino < nextIno
      /\ \A f \in survivors, n \in Names :
           f[n].id.ino = db.detached.ino =>
             /\ f[n].id.ctime >= db.detached.ctime
             /\ f[n].id.ctime = db.detached.ctime => f[n].body \notin precious \ {db.body}

-----------------------------------------------------------------------------
(* The files at each label                                                 *)

Absent(f, names) == \A n \in names : ~Exists(f[n].id)

\* The file under this name is the one observed, and unless it shows, with the
\* contents it was verified to have.
Tracked(name)  == fs[name].id.ino = obs.s.ino /\ fs[name].id.ctime >= obs.s.ctime
Verified(name) == /\ Tracked(name)
                  /\ fs[name].id.ctime = obs.s.ctime => fs[name].body = cur.body

Ground ==
    /\ pc = "commitCaptured" => cur.body < Fresh /\ (op = "store" => Exists(cur.original))
    /\ pc = "promotePlaceholder" => There(Building("swap"))
    /\ pc = "promoteRestore" => There(Building("restore"))
    /\ pc = "commitInstallIntent" => Id("swap") = made /\ ~There(Building("swap"))
    /\ pc = "installVerify" => Tracked("swap")
    /\ pc \in {"installSync", "commitInstalled"} /\ Exists(cur.original) => Verified("swap")
    /\ pc = "commitStoreIntent" => Absent(fs, StagingNames)
    /\ pc = "storeRename" => ~There("stored")
    /\ pc \in {"storeSync", "commitStored"} => Verified("stored")
    /\ pc = "commitRestoreFile" => ~There(Building("restore"))
    /\ pc = "restoreRename" /\ cur.origin = "installed" /\ ~Exists(cur.restore)
         => ~There("restore")
    /\ pc = "retireRename" => ~There("retired")
    /\ pc = "beginFinalization" =>
         /\ Absent(fs, StagingNames \ {"final"})
         /\ cur.logical => There("final") /\ fs["final"].body = cur.body
    /\ pc \in {"finSync", "finRecheck", "deleteMarker"} => ~There("final")
    /\ pc \in {"commitInstalled", "commitStored", "commitRestoreFile", "beginFinalization",
               "finRecheck", "deleteMarker"} => survivors = {fs}

\* The credential, as long as the owner leaves the files alone.
Following ==
    IF db.phase = "missing"
    THEN precious = IF There("target") THEN {fs["target"].body} ELSE {}
    ELSE precious = IF db.logical THEN {db.body} ELSE {}

Handover ==
    edits = 0 =>
      /\ Following
      /\ pc = "commitCaptured" => cur.logical = There("target") /\ cur.body = fs["target"].body
      /\ pc = "deleteMarker" => IF cur.logical
                                THEN There("target") /\ fs["target"].body = cur.body
                                ELSE ~There("target")

Stored == FilesSound /\ BodiesSound /\ Tidy /\ Disposable /\ OneNamespace
          /\ PlaceholdersEmpty /\ DetachedSpent

Kept == Agreed /\ Stored /\ Ground /\ Handover /\ RecoverableCopy

-----------------------------------------------------------------------------
(***************************************************************************)
(* Peace.  As long as nobody but the coordinator and the mount's clients   *)
(* touches the files, every check finds what it looks for.                 *)
(*                                                                         *)
(* The third invariant says, for each phase, where the recorded files are  *)
(* in every namespace a power loss may leave (Layout) -- with contents and *)
(* modification stamps where a later check compares them -- and, for each  *)
(* label, what the code has found or made since it last looked (Footing).  *)
(* That replay accepts what it meets, and that no conflict is declared,    *)
(* both rest on it, so they are proved together.                           *)
(***************************************************************************)

\* Nobody but the coordinator and the mount's clients has touched the path.
Calm == edits = 0 /\ moves = 0

Pair(f, name) == [t |-> f["target"].id, s |-> f[name].id]

\* What each phase admits, in one namespace: where the recorded files are, with
\* what they were recorded to hold as long as that is still compared.
Layout(e, f) ==
    /\ e.phase = "captured" =>
         /\ f["target"].id = e.original
         /\ Exists(e.original) => f["target"].body = e.body
    /\ e.phase = "installIntent" =>
         \/ /\ Pair(f, "swap") = InstallBefore(e)
            /\ Exists(e.original) => f["target"].body = e.body
         \/ /\ After(InstallAfter(e), Pair(f, "swap"))
            /\ Exists(e.original) => f["swap"].body = e.body
    /\ e.phase \in {"installed", "mountIntent", "unmountIntent"} =>
         Pair(f, "swap") = [t |-> e.placeholder, s |-> e.detached]
    /\ e.phase = "storeIntent" =>
         \/ Pair(f, "stored") = [t |-> e.original, s |-> NoId] /\ f["target"].body = e.body
         \/ After(StoreAfter(e), Pair(f, "stored")) /\ f["stored"].body = e.body
    /\ e.phase = "stored" => Pair(f, "stored") = [t |-> NoId, s |-> e.detached]
    /\ e.phase \in {"restoreIntent", "restored"} => f[DetachedName(e)].id = e.detached
    /\ e.phase = "restoreIntent" =>
         IF e.logical /\ ~Exists(e.restore) THEN f["target"].id = RestoreBefore(e).t
         ELSE \/ /\ Pair(f, "restore") = RestoreBefore(e)
                 /\ e.logical => f["restore"].body = e.body
              \/ /\ After(RestoreAfter(e), Pair(f, "restore"))
                 /\ e.logical => f["target"].body = e.body
    /\ e.phase = "restored" =>
         /\ Pair(f, "restore") = [t |-> e.restore, s |-> e.displaced]
         /\ e.logical => f["target"].body = e.body
    /\ e.phase = "deleteIntent" =>
         /\ f["target"].id \in {e.restore, NoId}
         /\ f["restore"].id \in {e.displaced, NoId}
         /\ f[DetachedName(e)].id \in {e.detached, NoId}
         /\ Exists(f["retired"].id) => SameFileAfterRename(e.restore, f["retired"].id)
         /\ ~e.logical => ~Exists(f["final"].id) /\ ~Exists(f[Building("final")].id)
    /\ e.phase = "finalizing" =>
         \/ Pair(f, "final") = [t |-> NoId, s |-> e.restore]
         \/ After([t |-> e.restore, s |-> NoId], Pair(f, "final"))

\* The modification stamps recorded agree with one another, and a restoration
\* file there is none of is recorded as nothing.
StampsAgree(e) ==
    /\ e.phase \in {"captured", "installIntent", "storeIntent"} /\ Exists(e.original)
         => e.meta = e.original.meta
    /\ IsPresent(e) => IF Exists(e.restore) THEN e.meta = e.restore.meta ELSE e.restore = NoId

Retiring == {"retire", "retireRename", "retireCheck", "removeDisplaced", "removeDetached",
             "removeRetired", "finalCheck"}

\* What each label has found or made since it looked, with nobody to undo it.
Footing ==
    /\ pc = "commitCaptured" =>
         /\ Id("target") = cur.original
         /\ Exists(cur.original) => fs["target"].body = cur.body /\ cur.meta = cur.original.meta
         /\ cur.restore = NoId
    /\ pc = "installRename" => Seen("swap") = InstallBefore(cur)
    /\ pc = "installReobserve" => After(InstallAfter(cur), Seen("swap"))
    /\ pc \in {"installVerify", "installSync", "commitInstalled"} => Seen("swap") = obs
    /\ pc \in {"storeReobserve", "storeVerify"} => After(StoreAfter(cur), Seen("stored"))
    /\ pc \in {"storeSync", "commitStored"} => Id("stored") = obs.s /\ ~There("target")
    /\ pc = "promoteRestore" => Id(Building("restore")).meta = cur.meta
    /\ pc = "commitRestoreFile" =>
         Id("restore") = made /\ made.meta = cur.meta
    /\ pc = "restoreRename" => Seen("restore") = RestoreBefore(cur)
    /\ pc = "restoreReobserve" => After(RestoreAfter(cur), Seen("restore"))
    /\ pc \in {"restoreVerify", "restoreSync", "commitRestored"} => Seen("restore") = obs
    /\ pc = "commitRestored" => survivors = {fs}
    /\ pc \in Retiring => Id("final") = made /\ ~There(Building("final"))
    /\ pc \in {"removeDetached", "removeRetired", "finalCheck"} => ~There("restore")
    /\ pc \in {"removeRetired", "finalCheck"} => ~There(DetachedName(cur))
    /\ pc = "finalCheck" => ~There("retired")
    /\ pc = "beginFinalization" => Id("final") = made /\ ~There("target")

Undisturbed == /\ ~moved /\ db.blocked \in {"no", "staging", "io"} /\ StampsAgree(db)
               /\ \A f \in survivors : Layout(db, f)
               /\ Footing

Peace == Calm => Undisturbed
=============================================================================
