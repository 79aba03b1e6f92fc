------------------------------ MODULE MountSet ------------------------------
(***************************************************************************)
(* FuseInterceptor with several watched paths (start, stop, abort_start    *)
(* and drop in src/src/fuse_fs/fuse_interceptor.rs), and the daemon's use  *)
(* of it (start_and_publish and Daemon::stop in src/src/daemon.rs): one    *)
(* path after the other is prepared and mounted, and when one fails all    *)
(* the others are to be undone, each of which may fail too.                *)
(*                                                                         *)
(* An operation of the coordinator on one path is a single step here: it   *)
(* takes the path's record to the end of its way, or fails with the record *)
(* anywhere on it, blocked or not.  Lifecycle models what it does between. *)
(***************************************************************************)
EXTENDS Naturals, Sequences, FiniteSets

CONSTANTS Paths,        \* the watched paths, all different after normalization
          RestoreOnStop,\* the values settings.restore_on_stop may have
          MaxRuns,      \* bound on the runs of the daemon
          MaxFaults,    \* bound on operations that fail, and crashes
          NoPath

ASSUME MountSetAssumption == /\ RestoreOnStop \subseteq BOOLEAN
                             /\ {MaxRuns, MaxFaults} \subseteq Nat
                             /\ NoPath \notin Paths

VARIABLES
    rec,        \* rec[p]: the phase of the path's entry in the store
    blocked,    \* the paths whose record has a blocked_reason
    mount,      \* mount[p]: "no", "live", or "stale" if nobody serves it
    pc,         \* where the interceptor is
    where,      \* which loop it is in: over watched paths, sessions, or `prepared'
    at,         \* the path it is working on
    todo,       \* the paths the loop has not come to
    sessions,   \* sessions[p]: not in `sessions', with a session, or without
    prepared,   \* FuseInterceptor.prepared
    done,       \* `completed' of stop
    kept,       \* the paths stop retains in `sessions' or `prepared'
    flag,       \* FuseInterceptor.restore_on_stop
    dropping,   \* stop is being run again by Drop
    before,     \* history: the records when this run of the daemon began
    reached,    \* history: the paths this run put into `prepared'
    troubled,   \* history: the paths an operation failed for in this run
    ended,      \* history: how the last run ended
    faults, runs

disk    == <<rec, blocked, mount>>
loop    == <<where, at, todo>>
memory  == <<sessions, prepared, flag>>
past    == <<before, reached, ended, runs>>
vars    == <<disk, pc, loop, memory, done, kept, dropping, past, troubled, faults>>

\* restoring stands for restore_intent to delete_intent; unmount_intent says
\* what is to come after it.
Records == {"none", "captured", "installed", "mounting", "leaving", "returning",
            "restoring", "finalizing"}

IsPresent(r) == r \notin {"none", "finalizing"}

Labels == {"off", "setup", "prepare", "beginMount", "mount", "verify", "up", "serving",
           "stop", "fence", "detach", "join", "reconcile", "restore"}

TypeOK ==
    /\ rec \in [Paths -> Records] /\ blocked \subseteq Paths
    /\ mount \in [Paths -> {"no", "live", "stale"}]
    /\ pc \in Labels /\ where \in {"none", "start", "sessions", "prepared"}
    /\ at \in Paths \cup {NoPath} /\ todo \subseteq Paths
    /\ sessions \in [Paths -> {"none", "some", "taken"}] /\ prepared \subseteq Paths
    /\ done \subseteq Paths /\ kept \subseteq Paths
    /\ flag \in BOOLEAN /\ dropping \in BOOLEAN
    /\ before \in [Paths -> Records]
    /\ reached \subseteq Paths /\ troubled \subseteq Paths
    /\ ended \in {"never", "running", "crash", "failed", "ok", "errors"}
    /\ faults \in 0 .. MaxFaults /\ runs \in 0 .. MaxRuns

Init ==
    /\ rec = [p \in Paths |-> "none"] /\ blocked = {}
    /\ mount = [p \in Paths |-> "no"]
    /\ pc = "off" /\ where = "none" /\ at = NoPath /\ todo = {}
    /\ sessions = [p \in Paths |-> "none"] /\ prepared = {}
    /\ done = {} /\ kept = {} /\ flag = FALSE /\ dropping = FALSE
    /\ before = rec /\ reached = {} /\ troubled = {} /\ ended = "never"
    /\ faults = 0 /\ runs = 0

-----------------------------------------------------------------------------
(* The coordinator's operations                                            *)

\* A restoration and an installation from record r on.
Back(r) == CASE r = "none"       -> <<"none">>
             [] r = "finalizing" -> <<"finalizing", "none">>
             [] r = "restoring"  -> <<"restoring", "finalizing", "none">>
             [] r = "captured"   -> <<"captured", "installed", "restoring", "finalizing", "none">>
             [] OTHER            -> <<r, "restoring", "finalizing", "none">>

Forth(r) == CASE r = "installed" -> <<"installed">>
              [] r = "captured"  -> <<"captured", "installed">>
              [] OTHER           -> Back(r) \o <<"captured", "installed">>

\* The records an operation goes through: prepare resumes what was left
\* unfinished, reconcile ends a mount as the record says.
Way(operation, r) ==
    CASE operation = "prepare" -> Forth(r)
      [] operation = "restore" -> Back(r)
      [] operation = "reconcile" ->
           CASE r \in {"mounting", "leaving"}     -> <<r, "installed">>
             [] r \in {"returning", "finalizing"} -> Back(r)
             [] OTHER                             -> <<r>>
      [] operation = "beginMount" -> <<r, "mounting">>
      [] operation = "fence" ->
           IF r = "mounting" THEN <<r, IF flag THEN "returning" ELSE "leaving">> ELSE <<r>>

Ends(way) == way[Len(way)]

\* What every operation finds before it does anything.
Admitted(operation, p) ==
    /\ p \notin blocked
    /\ operation \in {"prepare", "restore"} => rec[p] \notin {"mounting", "leaving", "returning"}
    /\ operation = "beginMount" => rec[p] \in {"installed", "mounting"}
    /\ operation = "fence" => rec[p] \in {"mounting", IF flag THEN "returning" ELSE "leaving"}

Succeed(operation, p) ==
    /\ Admitted(operation, p)
    /\ rec' = [rec EXCEPT ![p] = Ends(Way(operation, rec[p]))]
    /\ UNCHANGED <<blocked, mount, faults>>

\* It fails somewhere on its way, with or without having recorded a conflict.
Break(operation, p) ==
    \/ ~Admitted(operation, p) /\ UNCHANGED <<disk, faults>>
    \/ /\ Admitted(operation, p)
       /\ faults < MaxFaults /\ faults' = faults + 1
       /\ \E i \in 1 .. Len(Way(operation, rec[p])) :
            rec' = [rec EXCEPT ![p] = Way(operation, rec[p])[i]]
       /\ \E conflict \in {{}, {p}} :
            (conflict # {} => IsPresent(rec'[p])) /\ blocked' = blocked \cup conflict
       /\ UNCHANGED mount

\* Something other than the coordinator fails.
Fault == faults < MaxFaults /\ faults' = faults + 1

-----------------------------------------------------------------------------
(* The loops                                                               *)

\* stop begins with the sessions.
Loop == /\ pc' = "stop" /\ where' = "sessions" /\ at' = NoPath
        /\ todo' = {p \in Paths : sessions[p] # "none"}
        /\ done' = {} /\ kept' = {}
        /\ UNCHANGED <<sessions, before, reached, runs>>

\* Mutant: the rollback does as the configuration says of a stop.
RollBackAsConfigured ==
    /\ ended' = "failed"
    /\ Loop /\ UNCHANGED <<prepared, flag, dropping>>

\* A start that failed is rolled back, with restore_on_stop set.
RollBack ==
    /\ flag' = TRUE /\ ended' = "failed"
    /\ Loop /\ UNCHANGED <<prepared, dropping>>

\* The next path of the loop, which is done with this one.
Turn(p) == pc' = "stop" /\ at' = NoPath /\ todo' = todo \ {p} /\ UNCHANGED where

\* Mutant: an error is noted nowhere.
RetainSilently(p) ==
    /\ kept' = kept \cup {p} /\ troubled' = troubled \cup {p}
    /\ Turn(p) /\ UNCHANGED <<prepared, flag, done, dropping, past>>

\* Mutant: the first error ends the loop.
RetainAll(p) ==
    /\ kept' = kept \cup {p} \cup todo /\ troubled' = troubled \cup {p}
    /\ ended' = IF ended = "ok" THEN "errors" ELSE ended
    /\ pc' = "stop" /\ at' = NoPath /\ todo' = {}
    /\ UNCHANGED <<where, prepared, flag, done, dropping, before, reached, runs>>

\* An error of one path while stopping is noted, and the path retained.
Retain(p) ==
    /\ kept' = kept \cup {p} /\ troubled' = troubled \cup {p}
    /\ ended' = IF ended = "ok" THEN "errors" ELSE ended
    /\ Turn(p) /\ UNCHANGED <<prepared, flag, done, dropping, before, reached, runs>>

\* Mutant: a path that cannot be set up is left out.
RefuseOne(p) ==
    IF where = "start"
    THEN /\ troubled' = troubled \cup {p} /\ pc' = "setup" /\ at' = NoPath
         /\ todo' = todo \ {p}
         /\ UNCHANGED <<where, memory, done, kept, dropping, past>>
    ELSE Retain(p) /\ UNCHANGED sessions

\* What an error means where it happens.
Refuse(p) == IF where = "start"
             THEN RollBack /\ troubled' = troubled \cup {p}
             ELSE Retain(p) /\ UNCHANGED sessions

Proceed(label) == pc' = label /\ UNCHANGED <<loop, done, kept, dropping, past, troubled>>

\* The path is recovered.
Completed(p) ==
    /\ done' = IF where = "sessions" THEN done \cup {p} ELSE done
    /\ Turn(p) /\ UNCHANGED <<memory, kept, dropping, past, troubled>>

\* Mutant: only a path that was mounted is remembered.
ToPrepareUnlisted(p) ==
    /\ reached' = reached \cup {p} /\ pc' = "prepare"
    /\ UNCHANGED <<prepared, sessions, flag, done, kept, dropping, before, ended, runs, troubled>>

\* A path is put into `prepared' and prepared.
ToPrepare(p) ==
    /\ prepared' = prepared \cup {p} /\ reached' = reached \cup {p}
    /\ pc' = "prepare"
    /\ UNCHANGED <<sessions, flag, done, kept, dropping, before, ended, runs, troubled>>

-----------------------------------------------------------------------------
(* start                                                                   *)

Start(restoreOnStop) ==
    /\ pc = "off" /\ runs < MaxRuns
    /\ runs' = runs + 1
    /\ pc' = "setup" /\ where' = "start" /\ at' = NoPath /\ todo' = Paths
    /\ sessions' = [p \in Paths |-> "none"] /\ prepared' = {} /\ flag' = restoreOnStop
    /\ before' = rec /\ reached' = {} /\ troubled' = {} /\ ended' = "running"
    /\ UNCHANGED <<disk, done, kept, dropping, faults>>

\* The next watched path: what an earlier run left of it comes first.  A path
\* that is refused here is not in `prepared'.
SetUp(p) ==
    /\ pc = "setup" /\ p \in todo
    /\ IF (IsPresent(rec[p]) /\ p \in blocked) \/ (~IsPresent(rec[p]) /\ mount[p] # "no")
       THEN Refuse(p)
       ELSE /\ at' = p /\ todo' = todo \ {p} /\ UNCHANGED where
            /\ IF IsPresent(rec[p])
               THEN /\ pc' = "detach"
                    /\ UNCHANGED <<memory, done, kept, dropping, past, troubled>>
               ELSE ToPrepare(p)
    /\ UNCHANGED <<disk, faults>>

Prepare ==
    /\ pc = "prepare"
    /\ \/ Succeed("prepare", at) /\ Proceed("beginMount") /\ UNCHANGED memory
       \/ Break("prepare", at) /\ Refuse(at)

BeginMount ==
    /\ pc = "beginMount"
    /\ \/ Succeed("beginMount", at) /\ Proceed("mount") /\ UNCHANGED memory
       \/ Break("beginMount", at) /\ Refuse(at)

\* The session is spawned and recorded.
Mount ==
    /\ pc = "mount"
    /\ mount' = [mount EXCEPT ![at] = "live"]
    /\ sessions' = [sessions EXCEPT ![at] = "some"]
    /\ Proceed("verify")
    /\ UNCHANGED <<rec, blocked, prepared, flag, faults>>

\* Making the file system, mounting or spawning fails.  The kernel mount that
\* may be there is detached and the mount intent taken back; each may fail, the
\* second with a conflict recorded.
MountFails ==
    /\ pc = "mount" /\ Fault
    /\ \E left \in {"no", "stale"}, back \in {"mounting", "installed"} :
         /\ left = "stale" => back = "mounting"
         /\ mount' = [mount EXCEPT ![at] = left]
         /\ rec' = [rec EXCEPT ![at] = back]
         /\ \E conflict \in {{}, {at}} :
              /\ conflict # {} => left = "no" /\ back = "mounting"
              /\ blocked' = blocked \cup conflict
    /\ Refuse(at)

\* verify_mount finds the mount, or another one over it.
Verify ==
    /\ pc = "verify"
    /\ \/ /\ pc' = "setup" /\ at' = NoPath /\ UNCHANGED <<where, todo, memory, faults>>
          /\ UNCHANGED <<done, kept, dropping, past, troubled>>
       \/ Fault /\ Refuse(at)
    /\ UNCHANGED disk

AllMounted ==
    /\ pc = "setup" /\ todo = {}
    /\ Proceed("up")
    /\ UNCHANGED <<disk, memory, faults>>

\* start_and_publish: the pid file is written, or the start aborted.
Publish ==
    /\ pc = "up"
    /\ \/ Proceed("serving") /\ UNCHANGED <<memory, faults>>
       \/ Fault /\ RollBack /\ UNCHANGED troubled
    /\ UNCHANGED disk

-----------------------------------------------------------------------------
(* stop                                                                    *)

Stop ==
    /\ pc = "serving" /\ ended' = "ok"
    /\ Loop
    /\ UNCHANGED <<disk, prepared, flag, dropping, troubled, faults>>

\* A session's writes are fenced before it is unmounted; one that was joined in
\* an earlier attempt has none.
StopSession(p) ==
    /\ pc = "stop" /\ where = "sessions" /\ p \in todo
    /\ at' = p /\ todo' = todo \ {p} /\ UNCHANGED where
    /\ pc' = IF sessions[p] = "some" THEN "fence" ELSE "detach"
    /\ UNCHANGED <<disk, memory, done, kept, dropping, past, troubled, faults>>

Fence ==
    /\ pc = "fence"
    /\ \/ Succeed("fence", at) /\ Proceed("detach") /\ UNCHANGED memory
       \/ Break("fence", at) /\ Refuse(at)

\* detach_stale_mount.
Detach ==
    /\ pc = "detach"
    /\ \/ /\ mount' = [mount EXCEPT ![at] = "no"]
          /\ Proceed(IF where = "sessions" THEN "join" ELSE "reconcile")
          /\ UNCHANGED <<memory, faults>>
       \/ Fault /\ Refuse(at) /\ UNCHANGED mount
    /\ UNCHANGED <<rec, blocked>>

\* The session's thread ended, in order or not: there is none any more.
Join ==
    /\ pc = "join"
    /\ LET taken == [sessions EXCEPT ![at] = "taken"] IN
       \/ /\ sessions' = taken /\ Proceed("reconcile")
          /\ UNCHANGED <<prepared, flag, faults>>
       \/ Fault /\ sessions[at] = "some" /\ sessions' = taken /\ Retain(at)
    /\ UNCHANGED disk

Reconcile ==
    /\ pc = "reconcile"
    /\ \/ /\ Succeed("reconcile", at)
          /\ CASE where = "start" -> ToPrepare(at) /\ UNCHANGED loop
               [] where # "start" /\ flag  -> Proceed("restore") /\ UNCHANGED memory
               [] where # "start" /\ ~flag -> Completed(at)
       \/ Break("reconcile", at) /\ Refuse(at)

Restore ==
    /\ pc = "restore"
    /\ \/ Succeed("restore", at) /\ Completed(at)
       \/ Break("restore", at) /\ Refuse(at)

\* What was prepared and not recovered as a session is next; the sessions that
\* were not retained are gone.
SessionsStopped ==
    /\ pc = "stop" /\ where = "sessions" /\ todo = {}
    /\ where' = "prepared" /\ todo' = prepared \ (done \cup kept)
    /\ sessions' = [p \in Paths |-> IF p \in kept THEN sessions[p] ELSE "none"]
    /\ prepared' = prepared \ done
    /\ UNCHANGED <<disk, pc, at, flag, done, kept, dropping, past, troubled, faults>>

\* By what the store has of it: recover it, finish the finalization, or leave it.
StopPrepared(p) ==
    /\ pc = "stop" /\ where = "prepared" /\ p \in todo
    /\ todo' = todo \ {p} /\ UNCHANGED where
    /\ IF IsPresent(rec[p])
       THEN /\ pc' = "detach" /\ at' = p
            /\ UNCHANGED <<memory, done, kept, dropping, past, troubled>>
       ELSE IF rec[p] = "finalizing" /\ mount[p] = "no"
       THEN /\ pc' = "restore" /\ at' = p
            /\ UNCHANGED <<memory, done, kept, dropping, past, troubled>>
       ELSE IF mount[p] = "no"
       THEN UNCHANGED <<pc, at, memory, done, kept, dropping, past, troubled>>
       ELSE Refuse(p)
    /\ UNCHANGED <<disk, faults>>

\* The process ends; what it still served is nobody's now.
Exit(how) ==
    /\ pc' = "off" /\ where' = "none" /\ at' = NoPath /\ todo' = {}
    /\ mount' = [p \in Paths |-> IF mount[p] = "live" THEN "stale" ELSE mount[p]]
    /\ ended' = how /\ dropping' = FALSE /\ done' = {} /\ kept' = {}
    /\ sessions' = [p \in Paths |-> "none"] /\ prepared' = {} /\ flag' = FALSE
    /\ UNCHANGED <<before, reached, runs>>

\* stop returns.  If it retained anything, it is run once more when the
\* interceptor is dropped.
PreparedStopped ==
    /\ pc = "stop" /\ where = "prepared" /\ todo = {}
    /\ IF kept # {} /\ ~dropping
       THEN /\ dropping' = TRUE /\ prepared' = prepared \cap kept
            /\ Loop
            /\ UNCHANGED <<mount, flag, ended>>
       ELSE Exit(ended)
    /\ UNCHANGED <<rec, blocked, troubled, faults>>

Crash ==
    /\ pc # "off" /\ Fault
    /\ Exit("crash") /\ UNCHANGED <<rec, blocked, troubled>>

Next ==
    \/ \E restoreOnStop \in RestoreOnStop : Start(restoreOnStop)
    \/ \E p \in Paths : SetUp(p) \/ StopSession(p) \/ StopPrepared(p)
    \/ Prepare \/ BeginMount \/ Mount \/ MountFails \/ Verify \/ AllMounted \/ Publish
    \/ Stop \/ Fence \/ Detach \/ Join \/ Reconcile \/ Restore
    \/ SessionsStopped \/ PreparedStopped \/ Crash

Spec == Init /\ [][Next]_vars

-----------------------------------------------------------------------------
(* Properties                                                              *)

\* A daemon that serves, serves every watched path, each from a session it can
\* stop: start gives up all when it cannot have one of them.
ServesAll ==
    pc \in {"up", "serving"} =>
        \A p \in Paths : mount[p] = "live" /\ sessions[p] = "some" /\ rec[p] = "mounting"

\* While the daemon runs nothing it mounted is forgotten: whatever failed, the
\* path is in `sessions', and one whose kernel mount was made without a session
\* is in `prepared', so that stop and Drop come to it.
Remembered ==
    pc # "off" => \A p \in Paths :
        /\ mount[p] = "live" => sessions[p] = "some"
        /\ mount[p] = "stale" /\ p \in reached => p \in prepared

\* Together, with the types: what is mounted is accounted for, at every moment
\* and whatever failed.
Accounted == TypeOK /\ ServesAll /\ Remembered

\* One path's failure is not another's: once a start has failed and is rolled
\* back, every other path it had come to has its file again, and the paths it had
\* not come to are as they were; once the daemon has stopped, with errors or not,
\* every path but those is restored or left installed, as configured.
OthersUndone ==
    pc = "off" =>
        /\ ended = "failed" => \A p \in Paths \ troubled :
              /\ p \in reached    => rec[p] = "none" /\ mount[p] = "no"
              /\ p \notin reached => rec[p] = before[p]
        /\ ended \in {"ok", "errors"} => \A p \in Paths \ troubled :
              rec[p] \in {"none", "installed"} /\ mount[p] = "no"

\* A stop that reports no error has left no mount, nor a record of one.
OkMeansDone ==
    pc = "off" /\ ended = "ok" => \A p \in Paths :
        mount[p] = "no" /\ rec[p] \in {"none", "installed"}
=============================================================================
