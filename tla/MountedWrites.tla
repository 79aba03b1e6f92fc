---------------------------- MODULE MountedWrites ----------------------------
(***************************************************************************)
(* Mounted writes: the FUSE handlers of one mount (CredentialFs and its    *)
(* Shared state, src/fuse_fs/credential_fs.rs), the commit of each write   *)
(* (TransactionManager::update_contents), and the shutdown that fences     *)
(* them (begin_unmount, called from FuseInterceptor::stop).                *)
(*                                                                         *)
(* The session thread handles one call at a time.  An open, and a truncate *)
(* by path, leave it for a task of their own while the policy decides; the *)
(* task goes on beside the session thread, beside other tasks, and after   *)
(* the mount is gone, until the process ends.                              *)
(*                                                                         *)
(* Contents are short sequences of bytes.  Callers are the owner or root;  *)
(* the uid gate is part of the decision.                                   *)
(***************************************************************************)
EXTENDS Naturals, Sequences

CONSTANTS
    Clients,      \* processes that use the mount, one call at a time each
    MaxContent,   \* MAX_CONTENT_LEN
    MaxCalls,     \* bound: calls
    MaxMounts,    \* bound: daemons, one after the other
    MaxFaults     \* bound: store errors and crashes

ASSUME MountedWritesAssumption == {MaxContent, MaxCalls, MaxMounts, MaxFaults} \subseteq Nat

VARIABLES
    row,       \* the snapshot row of the path
    content,   \* Shared.content: the record the mount serves
    handles,   \* Shared.handles: whether each open handle may write
    nextFh,    \* Shared.next_fh
    fh,        \* the handle each client holds, 0 for none
    call,      \* the call each client waits for
    main,      \* how far the daemon has stopped
    loaded,    \* the row begin_unmount loaded
    expected,  \* history: the contents after every committed mutation
    calls, mounts, faults   \* counters of the bounds

shared == <<content, handles, nextFh>>
client == <<fh, call, calls>>
stop   == <<main, loaded, mounts>>
vars   == <<row, shared, client, stop, expected, faults>>

Record == [rev : Nat, phase : {"mounted", "unmounting", "installed"}, contents : Seq(Nat)]

NoRecord == [rev |-> 0, phase |-> "installed", contents |-> <<>>]
NoCall   == [kind |-> "none", write |-> FALSE, trunc |-> FALSE, at |-> 0, byte |-> 0,
             base |-> NoRecord, stage |-> "none"]

-----------------------------------------------------------------------------
(* Contents                                                                *)

Resized(s, n)       == [i \in 1 .. n |-> IF i <= Len(s) THEN s[i] ELSE 0]
Overlaid(s, i, byte) ==
    [Resized(s, IF Len(s) < i + 1 THEN i + 1 ELSE Len(s)) EXCEPT ![i + 1] = byte]

\* What a mutation makes of contents: a byte written, or a new size.
Mutated(c, s) == IF call[c].kind = "write" THEN Overlaid(s, call[c].at, call[c].byte)
                 ELSE Resized(s, call[c].at)

\* SnapshotRecord::successor.
Revised(r, phase, contents) == [rev |-> r.rev + 1, phase |-> phase, contents |-> contents]

-----------------------------------------------------------------------------
(* The mutation lock and the session thread                                *)

Holding(c) == call[c].stage \in {"locked", "reload", "publish"}
LockFree   == \A c \in Clients : ~Holding(c)
ThreadFree == \A c \in Clients : call[c].kind \in {"write", "ftruncate"} => call[c].stage = "none"
Attached   == main \in {"serving", "loaded", "retry", "fenced"}

Answered(c)     == call' = [call EXCEPT ![c] = NoCall]
Stage(c, stage) == call' = [call EXCEPT ![c].stage = stage]

-----------------------------------------------------------------------------
(* Handlers on the session thread.  A call that is refused (EACCES, EFBIG, *)
(* EINVAL), and one that only reads, changes nothing and is left out.      *)

Arrives(c, kind, write, trunc, at, stage) ==
    /\ Attached /\ ThreadFree /\ call[c] = NoCall
    /\ calls < MaxCalls /\ calls' = calls + 1
    /\ call' = [call EXCEPT ![c] = [kind |-> kind, write |-> write, trunc |-> trunc, at |-> at,
                                    byte |-> calls + 2, base |-> NoRecord, stage |-> stage]]
    /\ UNCHANGED <<row, content, nextFh, stop, expected, faults>>

\* The decision is left to a task.  O_TRUNC asks for write authority
\* whatever the access mode.
Open(c, write, trunc) ==
    /\ fh[c] = 0
    /\ trunc => write
    /\ Arrives(c, "open", write, trunc, 0, "deciding")
    /\ UNCHANGED <<handles, fh>>

Writable(c) == fh[c] # 0 /\ handles[fh[c]]

Write(c, offset) ==
    /\ Writable(c) /\ offset + 1 <= MaxContent
    /\ Arrives(c, "write", TRUE, FALSE, offset, "waiting")
    /\ UNCHANGED <<handles, fh>>

\* setattr with a size, through a handle.
TruncateHandle(c, size) ==
    /\ Writable(c) /\ size <= MaxContent
    /\ Arrives(c, "ftruncate", TRUE, FALSE, size, "waiting")
    /\ UNCHANGED <<handles, fh>>

\* setattr with a size, by path: authorised by a task, bounded afterwards.
TruncatePath(c, size) ==
    /\ Arrives(c, "truncate", TRUE, FALSE, size, "deciding")
    /\ UNCHANGED <<handles, fh>>

Release(c) ==
    /\ Attached /\ ThreadFree /\ call[c] = NoCall /\ fh[c] # 0
    /\ handles' = [f \in DOMAIN handles \ {fh[c]} |-> handles[f]]
    /\ fh' = [fh EXCEPT ![c] = 0]
    /\ UNCHANGED <<row, content, nextFh, call, calls, stop, expected, faults>>

-----------------------------------------------------------------------------
(* Tasks                                                                   *)

\* register_handle; a client whose mount is gone never sees the handle.
Opened(c) ==
    /\ handles' = [f \in DOMAIN handles \cup {nextFh} |->
                     IF f = nextFh THEN call[c].write ELSE handles[f]]
    /\ nextFh' = nextFh + 1
    /\ fh' = [fh EXCEPT ![c] = IF Attached THEN nextFh ELSE 0]

\* The rules, or the user, have decided.
Decide(c, allowed) ==
    /\ call[c].stage = "deciding"
    /\ IF allowed /\ call[c].kind = "open" /\ ~call[c].trunc
       THEN Answered(c) /\ Opened(c)
       ELSE /\ IF allowed /\ call[c].at <= MaxContent THEN Stage(c, "waiting") ELSE Answered(c)
            /\ UNCHANGED <<handles, nextFh, fh>>
    /\ UNCHANGED <<row, content, calls, stop, expected, faults>>

\* Mutant: the mutation lock is not taken.
LockShared(c) ==
    /\ call[c].stage = "waiting"
    /\ call' = [call EXCEPT ![c].stage = "locked", ![c].base = content]
    /\ UNCHANGED <<row, shared, fh, calls, stop, expected, faults>>

\* apply_write, apply_truncate: take the lock, copy the record.
Lock(c) ==
    /\ call[c].stage = "waiting" /\ LockFree
    /\ call' = [call EXCEPT ![c].stage = "locked", ![c].base = content]
    /\ UNCHANGED <<row, shared, fh, calls, stop, expected, faults>>

\* The candidate: the successor of the copy, with the mutation made.
Successor(c) == LET base == call[c].base IN Revised(base, base.phase, Mutated(c, base.contents))

\* Mutant: the compare-and-swap ignores the revision.
AcceptedAnyRevision(base) == row.phase = "mounted"

\* Mutant: the row is written whatever it is by now.
AcceptedAlways(base) == TRUE

\* The store's compare-and-swap.
Accepted(base) == row = base

\* The row is replaced by the candidate; the history follows.
Replace(c) ==
    /\ row' = Successor(c)
    /\ expected' = Mutated(c, expected)

Commit(c) ==
    /\ call[c].stage = "locked"
    /\ IF Accepted(call[c].base)
       THEN Replace(c) /\ Stage(c, "publish")
       ELSE Answered(c) /\ UNCHANGED <<row, expected>>
    /\ UNCHANGED <<shared, fh, calls, stop, faults>>

Fault == faults < MaxFaults /\ faults' = faults + 1

CommitFails(c) ==
    /\ call[c].stage = "locked" /\ Fault
    /\ Answered(c)
    /\ UNCHANGED <<row, shared, fh, calls, stop, expected>>

\* COMMIT returned an error: the row is written, or it is not.
CommitUncertain(c) ==
    /\ call[c].stage = "locked" /\ Accepted(call[c].base) /\ Fault
    /\ Replace(c) \/ UNCHANGED <<row, expected>>
    /\ Stage(c, "reload")
    /\ UNCHANGED <<shared, fh, calls, stop>>

\* Mutant: an uncertain commit is published without reading the row again.
ReloadSkipped(c) ==
    /\ call[c].stage = "reload"
    /\ Stage(c, "publish")
    /\ UNCHANGED <<row, shared, fh, calls, stop, expected, faults>>

\* Mutant: an error path forgets to reply.
ReloadSilent(c) ==
    /\ call[c].stage = "reload" /\ row = Successor(c)
    /\ Stage(c, "publish")
    /\ UNCHANGED <<row, shared, fh, calls, stop, expected, faults>>

Reload(c) ==
    /\ call[c].stage = "reload"
    /\ IF row = Successor(c) THEN Stage(c, "publish") ELSE Answered(c)
    /\ UNCHANGED <<row, shared, fh, calls, stop, expected, faults>>

ReloadFails(c) ==
    /\ call[c].stage = "reload" /\ Fault
    /\ Answered(c)
    /\ UNCHANGED <<row, shared, fh, calls, stop, expected>>

\* Mutant: a truncating open does not publish what it committed.
PublishWrites(c) ==
    /\ call[c].stage = "publish"
    /\ content' = IF call[c].kind = "open" THEN content ELSE Successor(c)
    /\ Answered(c)
    /\ IF call[c].kind = "open" THEN Opened(c) ELSE UNCHANGED <<handles, nextFh, fh>>
    /\ UNCHANGED <<row, calls, stop, expected, faults>>

\* Publish, unlock, register the handle of a truncating open, reply.
Publish(c) ==
    /\ call[c].stage = "publish"
    /\ content' = Successor(c)
    /\ Answered(c)
    /\ IF call[c].kind = "open" THEN Opened(c) ELSE UNCHANGED <<handles, nextFh, fh>>
    /\ UNCHANGED <<row, calls, stop, expected, faults>>

-----------------------------------------------------------------------------
(* Shutdown: begin_unmount, detachment, join, reconciliation               *)

Stopping == UNCHANGED <<shared, client, expected>>

\* Mutant: an unmount already fenced is not recognised.
FenceLoadOnce ==
    /\ main \in {"serving", "retry"} /\ row.phase = "mounted"
    /\ main' = "loaded" /\ loaded' = row
    /\ Stopping /\ UNCHANGED <<row, mounts, faults>>

\* Load the row; the same outcome already committed is taken as done.
FenceLoad ==
    /\ main \in {"serving", "retry"}
    /\ IF row.phase = "mounted" THEN main' = "loaded" /\ loaded' = row
       ELSE main' = "fenced" /\ UNCHANGED loaded
    /\ Stopping /\ UNCHANGED <<row, mounts, faults>>

Fenced == Revised(loaded, "unmounting", loaded.contents)

\* A mounted write that came first is a conflict: load again.
FenceCommit ==
    /\ main = "loaded"
    /\ IF Accepted(loaded) THEN row' = Fenced /\ main' = "fenced"
       ELSE main' = "retry" /\ UNCHANGED row
    /\ loaded' = NoRecord
    /\ Stopping /\ UNCHANGED <<mounts, faults>>

\* The commit fails, with or without effect.  stop keeps the session, and the
\* interceptor's drop tries again; when it gives up, the process ends (Crash).
FenceFails ==
    /\ main = "loaded" /\ Fault
    /\ main' = "retry"
    /\ \/ Accepted(loaded) /\ row' = Fenced
       \/ UNCHANGED row
    /\ loaded' = NoRecord
    /\ Stopping /\ UNCHANGED mounts

\* The connection is aborted: no call arrives, and handles are dead.
Detach ==
    /\ main = "fenced"
    /\ main' = "detached"
    /\ fh' = [c \in Clients |-> 0]
    /\ UNCHANGED <<row, shared, call, calls, loaded, mounts, expected, faults>>

\* join waits for the call the session thread is carrying out; then
\* reconcile_after_mount_absent.
Reconcile ==
    /\ main = "detached" /\ ThreadFree
    /\ main' = "reconciled"
    /\ row' = Revised(row, "installed", row.contents)
    /\ Stopping /\ UNCHANGED <<loaded, mounts, faults>>

Die ==
    /\ main' = "down" /\ loaded' = NoRecord
    /\ fh' = [c \in Clients |-> 0] /\ call' = [c \in Clients |-> NoCall]
    /\ content' = NoRecord /\ handles' = << >> /\ nextFh' = 1
    /\ UNCHANGED <<row, expected, calls, mounts>>

Exit  == main = "reconciled" /\ Die /\ UNCHANGED faults
Crash == main # "down" /\ Die /\ Fault

\* The next daemon reconciles the row and mounts again (Lifecycle has the
\* steps in between).
Mount ==
    /\ main = "down" /\ mounts < MaxMounts
    /\ mounts' = mounts + 1
    /\ row' = Revised(row, "mounted", row.contents)
    /\ content' = row' /\ main' = "serving"
    /\ UNCHANGED <<handles, nextFh, client, loaded, expected, faults>>

-----------------------------------------------------------------------------

Init ==
    /\ \E n \in 0 .. MaxContent :
         row = [rev |-> 1, phase |-> "mounted", contents |-> [i \in 1 .. n |-> 1]]
    /\ content = row /\ expected = row.contents
    /\ handles = << >> /\ nextFh = 1
    /\ fh = [c \in Clients |-> 0] /\ call = [c \in Clients |-> NoCall]
    /\ main = "serving" /\ loaded = NoRecord
    /\ calls = 0 /\ mounts = 1 /\ faults = 0

Handler(c) ==
    \/ \E write, trunc \in BOOLEAN : Open(c, write, trunc)
    \/ \E offset \in 0 .. MaxContent : Write(c, offset)
    \/ \E size \in 0 .. MaxContent + 1 : TruncateHandle(c, size) \/ TruncatePath(c, size)
    \/ Release(c)

Task(c) == (\E allowed \in BOOLEAN : Decide(c, allowed))
           \/ Lock(c) \/ Commit(c) \/ Reload(c) \/ Publish(c)

Shutdown == FenceLoad \/ FenceCommit \/ Detach \/ Reconcile \/ Exit

Next ==
    \/ \E c \in Clients : \/ Handler(c) \/ Task(c)
                          \/ CommitFails(c) \/ CommitUncertain(c) \/ ReloadFails(c)
    \/ Shutdown \/ FenceFails \/ Crash \/ Mount

Spec == Init /\ [][Next]_vars

\* The policy decides in the end (a prompt has a timeout), threads and tasks
\* run, and a shutdown once begun goes on.
FairSpec ==
    /\ Spec
    /\ \A c \in Clients : WF_vars(Task(c))
    /\ WF_vars(main # "serving" /\ Shutdown)

-----------------------------------------------------------------------------
(* Properties                                                              *)

Call == [kind : {"none", "open", "write", "ftruncate", "truncate"}, write : BOOLEAN,
         trunc : BOOLEAN, at : Nat, byte : Nat, base : Record,
         stage : {"none", "deciding", "waiting", "locked", "reload", "publish"}]

\* Every variable has the type its declaration names, no contents exceed
\* MAX_CONTENT_LEN whichever call made them, and a client's handle is known.
TypeOK ==
    /\ Len(row.contents) <= MaxContent
    /\ \A c \in Clients : fh[c] \in DOMAIN handles \cup {0}
    /\ row \in Record /\ content \in Record /\ loaded \in Record
    /\ \A f \in DOMAIN handles : f \in Nat /\ handles[f] \in BOOLEAN
    /\ nextFh \in Nat /\ fh \in [Clients -> Nat]
    /\ call \in [Clients -> Call]
    /\ main \in {"serving", "loaded", "retry", "fenced", "detached", "reconciled", "down"}
    /\ expected \in Seq(Nat) /\ {calls, mounts, faults} \subseteq Nat

\* credential_fs.rs: each mutation is made of the contents all earlier ones
\* left, also when the commit of one was uncertain, the mount was taken down
\* and put up again, or the daemon crashed: the row is what the committed
\* mutations make of the original, one after the other.
NoLostUpdate == row.contents = expected

\* What the mount serves was committed: a read never returns bytes that a
\* restart could take back.
NoDirtyRead ==
    main # "down" => /\ content.rev <= row.rev
                     /\ content.rev = row.rev => content = row

\* Without store errors a read sees every mutation that was acknowledged,
\* whichever handle, task or truncating open made it.
ReadYourWrites ==
    faults = 0 /\ LockFree /\ main # "down" => content.contents = row.contents

\* Calls do not fail one another: a mutation fails with EIO only if the store
\* failed or the shutdown has fenced the row.
NoSpuriousFailure ==
    [][\A c \in Clients :
         call[c].stage \in {"locked", "reload"} /\ call'[c].stage = "none"
           => faults' > 0 \/ row.phase # "mounted"]_vars

\* docs/storage-v2.md: "Unmount first changes the revision to `unmounting`,
\* fencing late writes": nothing a task commits afterwards changes the
\* contents, nor brings back the mounted phase.
FencedIsFinal ==
    [][row.phase # "mounted" => /\ row'.contents = row.contents
                                /\ row'.phase = "mounted" => main = "down"]_vars

\* Every call is answered: no error path keeps the lock or forgets to reply.
CallsReturn == \A c \in Clients : call[c].stage # "none" ~> call[c].stage = "none"

\* A shutdown gets past the writes it competes with, the calls it waits for and
\* a fence whose commit was uncertain.
StopCompletes == main \notin {"serving", "down"} ~> main = "down"

\* Nobody waits for ever, neither clients nor the shutdown that joins the session
\* they are served by.
Progress == CallsReturn /\ StopCompletes
=============================================================================
