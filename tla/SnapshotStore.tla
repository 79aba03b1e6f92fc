--------------------------- MODULE SnapshotStore ---------------------------
(***************************************************************************)
(* What the backing store keeps for one watched path, and which changes of *)
(* it the store accepts (src/store/mod.rs, src/store/record.rs, and the    *)
(* transactions of src/store/sqlite.rs).                                   *)
(*                                                                         *)
(* An entry is a flat record: the fields of every lifecycle variant side   *)
(* by side, a field a phase does not have holding its neutral value.  The  *)
(* snapshot row, the finalization marker and the absence of both are told  *)
(* apart by "phase".  The pair (generation, revision) that a commit        *)
(* compares is represented by the entry it names: the store never has two  *)
(* entries with one version.                                               *)
(***************************************************************************)
EXTENDS Naturals

(***************************************************************************)
(* An ObjectIdentity.  "ino" stands for (dev, inode), never reused here;   *)
(* "meta" for what an ordinary modification changes (mtime, size, mode,    *)
(* owner, link count); "ctime" for the change time, which a rename and     *)
(* every modification advance and nobody can set back.                     *)
(***************************************************************************)
Identity == [ino : Nat, meta : Nat, ctime : Nat]
NoId     == [ino |-> 0, meta |-> 0, ctime |-> 0]

Exists(id) == id.ino # 0

SameFileAfterRename(a, b) == a.ino = b.ino /\ a.meta = b.meta

Empty == 0      \* the contents of a placeholder and of an absent credential

Phases == {"missing", "captured", "installIntent", "installed", "mountIntent",
           "unmountIntent", "storeIntent", "stored", "restoreIntent",
           "restored", "deleteIntent", "finalizing"}

Reasons == {"source", "staging", "install", "snapshot", "installed", "store",
            "storedSnapshot", "stored", "restore", "verify", "reappeared",
            "parent", "target", "unexpectedFinal", "displaced", "detached",
            "retired", "unrecognized", "final", "io"}

\* "restore" is restore_identity while restoring, restored_identity once
\* restored, and the marker's final_identity while finalizing.  A marker's
\* "body" is only the digest of the contents: no copy of them.
Entry == [phase       : Phases,
          blocked     : {"no"} \cup Reasons,
          original    : Identity,
          meta        : Nat,
          body        : Nat,
          logical     : BOOLEAN,
          placeholder : Identity,
          detached    : Identity,
          next        : {"none", "restore", "leave"},
          origin      : {"none", "installed", "stored"},
          restore     : Identity,
          displaced   : Identity]

Missing == [phase |-> "missing", blocked |-> "no", original |-> NoId,
            meta |-> 0, body |-> Empty, logical |-> FALSE,
            placeholder |-> NoId, detached |-> NoId, next |-> "none",
            origin |-> "none", restore |-> NoId, displaced |-> NoId]

IsPresent(e) == e.phase \notin {"missing", "finalizing"}

-----------------------------------------------------------------------------
(* Structure of a snapshot row: validate_snapshot                          *)

NeedsPlaceholder(e) ==
    \/ e.phase \in {"installIntent", "installed", "mountIntent", "unmountIntent"}
    \/ /\ e.phase \in {"restoreIntent", "restored", "deleteIntent"}
       /\ e.origin = "installed"

DetachedIsOriginal(e) ==
    /\ Exists(e.original)
    /\ Exists(e.detached)
    /\ SameFileAfterRename(e.original, e.detached)

ValidRestoreDetached(e) ==
    IF e.origin = "installed" /\ ~Exists(e.original)
    THEN ~Exists(e.detached)
    ELSE DetachedIsOriginal(e)

ValidStructure(e) ==
    CASE e.phase \in {"captured", "installIntent"} -> TRUE
      [] e.phase \in {"installed", "mountIntent", "unmountIntent"} ->
           IF Exists(e.original) THEN DetachedIsOriginal(e) ELSE ~Exists(e.detached)
      [] e.phase = "storeIntent" -> Exists(e.original) /\ e.logical
      [] e.phase = "stored" -> e.logical /\ DetachedIsOriginal(e)
      [] e.phase = "restoreIntent" ->
           /\ Exists(e.restore) => e.logical
           /\ ValidRestoreDetached(e)
      [] e.phase \in {"restored", "deleteIntent"} ->
           /\ e.logical = Exists(e.restore)
           /\ (e.origin = "installed") = Exists(e.displaced)
           /\ ValidRestoreDetached(e)
      [] OTHER -> FALSE

ValidSnapshot(e) ==
    /\ NeedsPlaceholder(e) = Exists(e.placeholder)
    /\ Exists(e.original) => e.logical
    /\ ~e.logical => e.body = Empty
    /\ ValidStructure(e)

-----------------------------------------------------------------------------
(* Which phase may follow which: lifecycle_transition_is_valid             *)

SameDetached(e, f) == e.detached = f.detached

ValidTransition(e, f) ==
    LET Step(from, to) == e.phase = from /\ f.phase = to IN
    \/ Step("captured", "installIntent")
    \/ Step("captured", "storeIntent")
    \/ Step("installIntent", "installed")
    \/ /\ \/ Step("installed", "mountIntent")
          \/ Step("mountIntent", "installed")
          \/ Step("mountIntent", "mountIntent")
          \/ Step("mountIntent", "unmountIntent")
          \/ Step("unmountIntent", "installed") /\ e.next = "leave"
       /\ SameDetached(e, f)
    \/ /\ \/ Step("installed", "restoreIntent")
          \/ Step("unmountIntent", "restoreIntent") /\ e.next = "restore"
       /\ f.origin = "installed"
       /\ SameDetached(e, f)
    \/ Step("storeIntent", "stored")
    \/ /\ Step("stored", "restoreIntent")
       /\ f.origin = "stored"
       /\ SameDetached(e, f)
    \/ /\ Step("restoreIntent", "restoreIntent")
       /\ e.logical /\ ~Exists(e.restore) /\ Exists(f.restore)
       /\ e.origin = f.origin
       /\ SameDetached(e, f)
    \/ /\ Step("restoreIntent", "restored")
       /\ e.origin = f.origin
       /\ SameFileAfterRename(e.restore, f.restore)
       /\ SameDetached(e, f)
    \/ /\ Step("restored", "deleteIntent")
       /\ e.origin = f.origin /\ e.restore = f.restore
       /\ e.displaced = f.displaced
       /\ SameDetached(e, f)

(* validate_successor_fields: what one revision may change of the last     *)
ValidSuccessor(e, f) ==
    /\ f.original = e.original /\ f.meta = e.meta
    /\ \/ f.placeholder = e.placeholder
       \/ /\ e.phase = "installIntent" /\ f.phase = "installed"
          /\ SameFileAfterRename(e.placeholder, f.placeholder)
       \/ /\ e.phase = "captured" /\ f.phase = "installIntent"
          /\ ~Exists(e.placeholder) /\ Exists(f.placeholder)
    /\ e.blocked = "no"
    /\ \/ f.blocked # "no" /\ f = [e EXCEPT !.blocked = f.blocked]
       \/ /\ f.blocked = "no"
          /\ LET mountedUpdate == e.phase = "mountIntent" /\ f.phase = "mountIntent" IN
             /\ f.body = e.body \/ mountedUpdate
             /\ f.logical = e.logical \/ (mountedUpdate /\ f.logical)
          /\ ValidTransition(e, f)

\* Mutant: the successor is validated against the caller's copy of the row and
\* the version comparison is left out of the UPDATE.
AcceptsBlindly(stored, expected, next) ==
    /\ ValidSnapshot(next)
    /\ IF expected = Missing
       THEN stored = Missing /\ next.phase = "captured"
       ELSE IsPresent(stored) /\ ValidSuccessor(expected, next)

(* commit: the first capture, or a successor of the version expected       *)
Accepts(stored, expected, next) ==
    /\ ValidSnapshot(next)
    /\ IF expected = Missing
       THEN /\ stored = Missing
            /\ next.phase = "captured"
            /\ next.logical = Exists(next.original)
            /\ ~Exists(next.placeholder)
            /\ next.blocked = "no"
       ELSE /\ IsPresent(stored)
            /\ stored = expected
            /\ ValidSuccessor(stored, next)

-----------------------------------------------------------------------------
(* begin_finalization replaces the row by a marker in one transaction      *)

MarkerOf(e, final) ==
    [Missing EXCEPT !.phase = "finalizing", !.meta = e.meta, !.body = e.body,
                    !.logical = e.logical, !.restore = final]

ValidMarker(m) ==
    /\ m.logical = Exists(m.restore)
    /\ m.logical => m.restore.meta = m.meta
    /\ ~m.logical => m.body = Empty

AcceptsMarker(stored, expected, marker) ==
    /\ ValidMarker(marker)
    /\ IsPresent(stored)
    /\ stored = expected
    /\ stored.blocked = "no"
    /\ stored.phase = "deleteIntent"
=============================================================================
