# file-guard: a TLA+ model

file-guard watches credential files. While its daemon runs, the file at a
watched path is replaced by a FUSE mount that asks a policy (rules, or the user)
before a process may open it; the contents live in a SQLite database. When the
daemon stops, or on `store` and `restore`, the contents move back to, or away
from, the path. This directory models

- how the contents move and what may go wrong on the way: crashes, power loss, I/O errors,
  an owner who goes on using the file, clients of the mount that write while it is taken
  down, several paths of which one fails;
- how an open is decided: rules, session grants, the identity of the caller, the question
  to the user and the handle the decision ends in;
- who owns the rules and the daemon's files when daemons and commands come and go: the
  lease, the control endpoint, the pid file, the audit log and who follows it.

Paths below are relative to the repository, whose crate is `src/src/`.

## 1. The system

| Part | State it keeps | Operations | Talks to |
| --- | --- | --- | --- |
| coordinator, `transaction.rs` | none of its own: a record in memory for one operation | prepare, begin_mount, abort_mount, begin_unmount, reconcile_after_mount_absent, restore, store_offline, update_contents | store (CAS commits), files (renames, syncs) |
| backing store, `store/` | one row or one marker per path, with generation and revision | load, commit, begin_finalization, finish_finalization | SQLite |
| file operations, `secure_file.rs` | the watched name, the staging directory, the parent's identity | observe, capture, exchange, install, move, verify, remove, sync | kernel |
| FUSE interceptor, `fuse_fs/fuse_interceptor.rs` | sessions, prepared paths, restore_on_stop | start, stop, rollback, retry on drop | coordinator, kernel mounts |
| FUSE filesystem, `fuse_fs/credential_fs.rs` | the mounted record, open handles, a mutation lock | open, read, write, setattr | policy engine, update_contents |
| policy engine, `policy/` | rules in memory, session grants | evaluate_open, add, import, edit, remove | rule store, prompt client |
| rule store, `rule_store.rs` | rows, exclusive lease | list, insert, replace, remove | SQLite |
| control API, `control_api.rs` | endpoint socket, 32 slots | dispatch, serve, execute | rule manager, or the rule store when no daemon runs |
| prompt, `prompt/` | dialog lock, rate window | prompt, serve, render | user |
| daemon and control, `daemon.rs`, `control.rs` | leases, pid file, config pointer | new, start, stop, status | all of the above |
| audit log, `logging.rs` | append file, read cursor | log, read_recent, read_new | disk |
| process identity, `process/` | hash cache | identify, capture, verify | /proc |

What is hard in each of them is the list `hazards` of PROJECT.json, each at the
line where it bites. In the order of what it would cost to be wrong:

1. **losing the credential** (coordinator, store, files): a crash between a rename
   and its commit, a rename not yet durable, a file the owner changed since it was
   looked at, a removal by name of something else;
2. **getting stuck**: a replay that does not recognise its own half-done work, or
   wants a transition the store refuses; a mount nobody can remove;
3. **exposing or resurrecting it**: a stored credential that comes back, a late
   write that lands after the fence;
4. **deciding wrongly** (policy, prompt, handles): an answer applied to a changed
   rule set, a handle used beyond its grant;
5. **diverging** (rules in memory and on disk, two daemons, one log and two readers).

## 2. Modules

| Module | What it is |
| --- | --- |
| `SnapshotStore` | the store's entry for a path, what makes one valid, which entry may follow which |
| `Lifecycle` | the coordinator, its files and its callers, for one path, with the owner and failures |
| `Custody` | what the coordinator promises, abstractly |
| `CustodyRefinement` | the mapping from `Lifecycle` to `Custody`, and what else is said of the credential |
| `LifecycleInvariants` | the three inductive invariants of `Lifecycle`: types and checks, the files and the credential, and where the files are while the owner leaves them alone |
| `LifecycleProofs` | the theorems about `Lifecycle` and their proofs: conflicts and mounts; that it implements `Custody`; that nothing is lost, the store admits every commit, and what is handed back is the credential; that, left alone by the owner, it takes no layout for a conflict |
| `MountSet`, `MCMountSet` | the interceptor with several paths: start, rollback, stop and the second try on drop; symmetry of the paths |
| `MountSetProofs` | the inductive invariant of `MountSet`, the theorems and their proofs |
| `MountedWrites` | the FUSE handlers of one mount, their tasks, the commit of each write, and the shutdown that fences them |
| `MountedWritesProofs` | the inductive invariant of `MountedWrites`, the theorems and their proofs |
| `RulePolicy`, `MCRulePolicy` | the decision of an open by rules, session grants and the user, up to the handle; the rules, edits and programs of the run |
| `RulePolicyProofs` | the inductive invariant of `RulePolicy`, the theorems and their proofs |
| `PromptAgent` | the way of a question to the user and back, with every timer on it |
| `PromptAgentProofs` | the inductive invariant of `PromptAgent`, the theorems and their proofs |
| `ExecIdentity`, `MCExecIdentity` | hashes and their cache, and the capture of a caller's executable; symmetry |
| `ExecIdentityProofs` | the inductive invariant of `ExecIdentity`, the theorems and their proofs |
| `RuleOwnership`, `MCRuleOwnership` | the lease, the control endpoint, the rules in database and memory, with daemons that start, stop, fail and die, and commands that go by the endpoint or offline; symmetry |
| `RuleOwnershipProofs` | the inductive invariants of `RuleOwnership`, the theorems and their proofs |
| `DaemonControl`, `MCDaemonControl` | the pid file, `start`, `stop` and `status`, with process ids that are used again; symmetry of the daemons |
| `AuditLog` | records appended by concurrent tasks, rotation, and the reader that follows |
| `DaemonFilesProofs` | the inductive invariants of `DaemonControl` and `AuditLog`, the theorems about both and their proofs |

Where modules meet: `MountSet` has an operation of the coordinator as one step, and `Lifecycle` is
what is inside; `Lifecycle` has an acknowledged mounted write as one step, and `MountedWrites`
is what is inside; `RulePolicy` has a rule command and an answer of the user as one step, and
`RuleOwnership` and `PromptAgent` are what is inside; it takes a caller's identity as captured,
which `ExecIdentity` is about; but the script that a rule pins it hashes itself, rule by rule,
and `ExecIdentity` says when that fails.

### SnapshotStore

`Entry` is a record with the fields of all lifecycle variants side by side; `phase`
tells a missing entry, a row of each lifecycle, and a finalization marker apart.
`ValidSnapshot`, `ValidTransition` and `ValidSuccessor` are the checks of
`store/record.rs`; `Accepts` and `AcceptsMarker` are the compare-and-swap
transactions of `store/sqlite.rs`. The code compares (generation, revision); an entry
is one version, so the model compares entries. Contents are a number, `Empty`
for none; ownership, mode, times and xattrs are one stamp, `meta`; the change time is
`ctime`, because the code tells `==` (nothing at all happened to the inode)
from same_file_after_rename (it was renamed only).

The point of the module is that it is *independent* of the coordinator:
the coordinator builds entries, and the store decides. `NeverRefused` is the
statement that the two agree.

### Lifecycle

One process, the coordinator, with a program counter `pc`, whose labels are the
points between which something else may happen: an observation, a rename, a sync, a
commit. Each `IF` in an action is an early return of the code: `Block` is
`conflict` (record the reason durably, fail), `Abandon` an error without a record,
`Pass` the successful check. At the labels of `Checking` the code takes every error of its own
check for a conflict, also one that says nothing of the files (transaction.rs:480-485, 523-528,
597-604, 666-671, 905-910, 935-943, 953-960, 1409-1415, 1444-1450): `CheckFails` blocks the entry
with the reason "io". Everywhere else an error is passed on (`StepFails`). `Fail` is where an error ends up: a failed start
rolls back as a stop with restore_on_stop set (`rollback`), a failed stop is
retried once when the interceptor is dropped, anything else ends the process.

| Variables | Code |
| --- | --- |
| `db` | the row or marker of the path |
| `fs`, `nextIno` | the watched name and each name of the staging directory, with identity and contents |
| `survivors` | the namespaces a power loss may leave: since the last sync, one per rename |
| `exposed` | inodes that were at the watched path while the owner could open them |
| `mounted` | the kernel mount: live while the session thread serves it, stale once it is gone |
| `op`, `pc`, `cur`, `obs`, `made` | the command, the place in it, and its local variables |
| `restoreOnStop` | the setting the interceptor was started with |
| `refused`, `precious` | history: a commit was rejected; contents somebody still relies on |
| `moved`, `faults`, `edits`, `moves`, `writes`, `captures` | the parent was replaced; counters of the bounds |

`Start`, `StoreCommand`, `RestoreCommand`, `StopCommand` issue commands. Groups
`Interceptor`, `Install`, `Restore`, `Clean`, `Finalize` and `Store` are the steps of the
procedures of the same names. `Owner` edits from outside: replaces, deletes,
overwrites through the path or a held descriptor, also *quietly*, setting mtime
back so that only ctime shows it, and moves the parent. `MountedWrite` is an
acknowledged write through the mount. `Disaster` is an I/O or database error in any
step or check, the death of the process, and a power loss.

### Custody and CustodyRefinement

`Custody` has three variables: the stage of the credential (`owned`, `taken`, `guarded`,
`served`, `fenced`, `leaving`, `offline`, `returning`, `handing`), what is held, and whether it is stuck in
a conflict. Its steps are the promises of the lifecycle: stages follow one another in order, what
is held changes only when a credential is taken, written through the mount or handed back, and
nothing moves that is stuck. `CustodyRefinement` reads the stage off the phase of `Lifecycle`'s entry
and what is held off its contents; files, program counter and local variables are hidden.
`CustodyKept` is the refinement. `CredentialKept` is about the files as well: following the credential
from the path into custody and back, no step changes it but the owner's and acknowledged writes.

### MountSet

The loops of `FuseInterceptor` over watched paths, sessions and prepared paths. An operation of the
coordinator is one step, which succeeds or fails at any point of the way it would have gone
(`Way`), with or without a conflict recorded.

| Variables | Code |
| --- | --- |
| `rec`, `blocked` | the phase of each path's entry, and whether it is blocked |
| `mount` | each path's kernel mount |
| `pc`, `where`, `at`, `todo` | the place in start or stop, the loop, the path it is at, those it has not come to |
| `sessions`, `prepared`, `flag` | the fields of `FuseInterceptor`; `flag` is restore_on_stop |
| `done`, `kept`, `dropping` | what stop has recovered, what it retains, and that it is run by Drop |
| `before`, `reached`, `troubled`, `ended` | history: records at the start of the run, paths it came to, paths something failed for, how it ended |

`SetUp`, `Prepare`, `BeginMount`, `Mount`, `MountFails`, `Verify`, `AllMounted` and `Publish` are the start;
`RollBack` what each error of it leads to; `StopSession`, `Fence`, `Detach`, `Join`, `Reconcile`,
`Restore`, `SessionsStopped`, `StopPrepared` and `PreparedStopped` the stop, which is the rollback also.

### MountedWrites

`Lifecycle` has an acknowledged mounted write as one step. `MountedWrites` is what is
inside: several clients, the session thread that serves one call at a time, the tasks
that `open` and the truncation by path leave it for, the mutation lock, the row and
the copy of it in memory. It keeps of a record only what these steps tell apart: its
revision, its contents and one of three phases (`installed` stands for every phase
without a mount).

| Variables | Code |
| --- | --- |
| `row` | the snapshot row |
| `content`, `handles`, `nextFh` | the fields of `Shared` |
| `fh`, `call` | what each client holds and waits for; `call.stage` is how far its handler or task is, `call.base` the record it copied under the lock |
| `main`, `loaded` | how far `stop` is, and the record begin_unmount loaded |
| `expected` | history: the contents each committed mutation should have led to |
| `calls`, `mounts`, `faults` | counters of the bounds |

`Open`, `Write`, `TruncateHandle`, `TruncatePath` and `Release` are the handlers up to the point
where they leave the session thread or ask for the lock; `Decide` is the policy's answer
in the task; `Lock`, `Commit`, `Reload` and `Publish` are apply_write and apply_truncate with
update_contents, cut where another thread may run; `CommitFails`, `CommitUncertain` and
`ReloadFails` are its error paths. `FenceLoad`, `FenceCommit` and `FenceFails` are begin_unmount,
`Detach` and `Reconcile` the rest of stop, `Exit`, `Crash` and `Mount` the processes one after
the other. The lock is not a variable: it is held by whoever is past `Lock` and has not
answered (a guard that is dropped on every return).

What the model looks for is what happens to a task that is allowed late: after other
writes, after the fence, after the mount is gone.

### RulePolicy

Each open, or truncation by path, is a task that looks rules up for each direction it needs,
each time under the lock anew, then the session's grants, then asks; rules, grants, scripts and
callers change between any two of its steps.

| Variables | Code |
| --- | --- |
| `rules`, `sessions` | `RuleManager::rules`, the identities of `SessionState` |
| `proc`, `script` | what a process id runs, since when, and the script's contents: the world outside |
| `open` | a task's locals in evaluate_open, lookup_rule and prompt_and_apply, later the fields of `OpenHandle`; its field `unread` is history: rules whose script could not be hashed |
| `said` | history: what users and administrators have ever consented to |
| `seen` | history: the rules that denied, and allowed, and the grants that held at every moment of a decision |

lookup_rule holds the rules' lock while it hashes the script once for each rule that pins one.
`LookUp` takes the lock and does the rules that need no hash; each `Hash` is one of the others, in any order
(the answer does not depend on it), with the script as it is at that moment, or with an error,
upon which identity_matches says no match (engine.rs:337-343). Scripts, callers and grants change meanwhile,
rules do not (`Locked`).

`Arrive` is decide_open; `CheckSession` and `Continue` the rest of the loop of evaluate_open; `AnswerOnce`,
`AnswerSession`, `AnswerAlways`, `FallBack` and `Persist` prompt_and_apply; `Complete` and `Close` the
handle; `AddRule`, `EditRule`, `RemoveRule` the commands; `Restart`, `Exec`, `Reuse` and `EditScript`
what happens around them. The two history variables are what the properties
compare with: a decision is held against what people said, not against the rules as the code
keeps them.

### PromptAgent

| Variables | Code |
| --- | --- |
| `client`, `left` | PromptClient::request of each question, and what is left of its hard limit |
| `task`, `shown`, `reply` | handle_conn of its connection, what is left of its dialog's time, the outcome written |
| `queue`, `stamps` | who waits for `dialog_lock`, and `RateLimiter.timestamps` |
| `readers` | the blocking threads that wait for a line of the terminal |
| `ahead` | lines that are in the terminal before a thread reads them |
| `up` | whether the agent's process lives |
| `chosen`, `found`, `delayed`, `admitted` | history: what the user answered, the line a question's thread found typed ahead, whether the question came up at once, all admissions |

Time is a step, `Tick`, which no due timer and no message that can be taken lets pass. `Ask`,
`Receive` and `GiveUp` are the client; `Admit`, `Show` and `Expire` the server; `Click`, `Type` and `Dismiss`
the user, who types whenever the agent runs, with a question on the screen or without; `ReadAhead` is a
thread that finds a line typed before it came to read; `Die` and `Start` the agent's process, with connections that systemd's socket keeps.

### ExecIdentity

A job hashes a path, or identifies the process and hashes its executable; each system call is a
step, and a hash is read in two pieces, so that it may be of a file half rewritten.

| Variables | Code |
| --- | --- |
| `content`, `stamp`, `rooted`, `name` | files: contents, what `Stamp` has of them, `Stamp::cacheable`, and which file a path names |
| `proc` | the start time and the executable behind a process id |
| `cache` | the hash cache, with key and stamp |
| `job` | the locals of hash_file, capture_process_executable and hash_opened |
| `past` | history: what the file held, and what the process ran, since the job began |

The code takes `Stamp::cacheable` of the stamp it has, not of the file: `Cacheable` is the file's as long as
it has that stamp, and either after.

### RuleOwnership

Daemons and clients are processes; a client is one `file-guard rules` command. What they
share is the owner lock, a name in the file system, and the database.

| Variables | Code |
| --- | --- |
| `db`, `nextId` | `learned_rules`, with one field of an entry, and AUTOINCREMENT |
| `lease` | who holds the flock of RuleLease |
| `socket`, `listening` | whose socket has the control path, and whether its listener is open |
| `dpc` | where a daemon is in `start`, Daemon::new, Daemon::start, Daemon::stop and the drops |
| `policy`, `task`, `mem` | whether the main thread, and an authorization, hold the policy; its learned rules |
| `cpc`, `cmd`, `req`, `answer` | where a command is in dispatch, what it is, its request at a daemon, what it reported |
| `effects`, `failed` | history: how often a command changed the rules; whether a start failed |

`Acquire`, `Probe`, `Unlink`, `Bind`, `Load` and `Start` are the start, cut where another process
may act: between the lease and the endpoint, and between finding a socket dead and
removing it. `LoadFails` and `StartFails` are the errors, with the order in which Rust drops
what was built; `Stop`, `Inspect`, `Remove`, `Release` and `Exit` the stop. `Serve` is
handle_connection; `Ask` is an open that waits for the user, `Choose`, `Persist` and `PersistLast` how
it ends, the last after the main thread let go. `ServerEnds` is a server whose accept failed.
`Stat` to `Execute` are dispatch, dispatch_to_endpoint, dispatch_without_endpoint and
execute_offline; `GiveUp` is a closed connection or a timeout, `Kill` the death of the command.

A mutation of the rules is one step: it holds their write lock and a transaction, and asks
nobody meanwhile. A handler that is running when the server is aborted finishes its poll with
its own reference to the policy, hence under the lease: as if it had come before the stop.

### DaemonControl

| Variables | Code |
| --- | --- |
| `proc`, `starts` | the processes by id, each with its start time; others come and go on free ids |
| `daemon` | where `start` is in Daemon::start and Daemon::stop, its mounts, whether it has SIGTERM |
| `file` | the pid file: which inode, and the identity it says |
| `client` | where `stop` or `status` is: the identity read, the process pinned, the one signalled |
| `crashed`, `failed` | history: daemons that ended without their cleanup, and whose umount2 or unlink failed |

`OpenPidFile` and `WritePidFile` are the two halves of write_pid_file; `FailEarly` an error before
the interceptor starts, `RollBack` and `Abandon` one after; `BeginStop`, `Unmount` and `FinishStop` the stop.
An interceptor that cannot unmount keeps nobody from going on: the lease is dropped, the pid file
removed and the process ends with the error (daemon.rs:115-123, 136-141), and an unlink that fails
is only warned about (`Unmounts`, `RemovePidFile`). `Crash` is also a wait_for_shutdown that
returns an error, which ends the process without Daemon::stop. `ReadPidFile`, `Classify`, `RemoveStale` process_from; `OpenPidfd`,
`CheckIdentity`, `SendSignal`, `SeeStopped` and `GiveUp` stop_daemon, with and without pidfds.

### AuditLog

A record is written in two pieces, of which a failed write or a crash leaves the first.

| Variables | Code |
| --- | --- |
| `files`, `log` | the files' contents, and which of them has the path |
| `task`, `fd` | append_entry of each entry and the file it opened |
| `reader` | tail_log: the file it follows and its cursor |
| `printed` | what `log -f` has printed |

`Parsed` is what a reader makes of a text, piece by piece: a whole line is an entry, any other is skipped.
`Open` to `Unlock` and `Fail` are append_entry (which may fail with all of the record written: BufWriter's
drop writes what it has), `Dies` ends the daemon with the tasks that have begun,
`Rename` and `Create` are a rotation, `Begins` and `ReadRecent` the start of `log -f`, `Poll` and `ReadNew`
read_new.

## 3. What the runs show

| Run | Specification and bounds | Distinct states | Checks |
| --- | --- | --- | --- |
| `crash` | `Lifecycle`, fair: 2 faults, 1 write, 2 captures, no edits | 204,653 | `RecoverableCopy`, `PhaseLayout`, `NeverRefused`, `MountIsRecorded`, `CleanHandover`, `NoSpuriousBlock`, `CredentialKept`, `ReplayCompletes` |
| `owner` | `Lifecycle`: 1 fault, 2 edits, 1 move of the parent, 1 write, 1 capture | 1,593,188 | `RecoverableCopy`, `NeverRefused`, `BlockedIsFrozen`, `CustodyKept` |
| `writes` | `MountedWrites`, fair: 2 clients, contents up to 2 bytes, 2 calls, 2 mounts, 2 faults | 341,302 | `NoLostUpdate`, `NoDirtyRead`, `ReadYourWrites`, `FencedIsFinal`, `NoSpuriousFailure`, `Progress` |
| `owners` | `RuleOwnership`: 2 daemons, 1 client, 2 actions, 3 ids, 1 crash; symmetric | 372,923 | `RulesAgree`, `LeaseFollowsPolicy`, `SocketStands`, `IdsAreStable` |
| `paths` | `MountSet`: 3 paths, 2 runs, 3 faults; symmetric | 537,863 | `Accounted`, `OthersUndone`, `OkMeansDone` |
| `policy` | `RulePolicy`: 2 opens at a time, 2 calls, 1 process, 1 command, 1 change, 4 rules to add, a script of 2 versions that may fail to be hashed; symmetric | 1,216,348 | `Authorised`, `DenyThroughout`, `AskingSound` |
| `prompts` | `PromptAgent`, fair: 3 questions, every dialog, 2 questions in a window of 2 ticks, 1 line typed ahead, 1 death | 596,907 | `DialogsSound`, `RateExact`, `GraceSuffices`, `QuestionsEnd` |
| `log` | `AuditLog`, fair: 3 entries, 2 files, 2 faults | 172,102 | `RecordsSound`, `CursorExact`, `Followed` |
| `identity` | `ExecIdentity`: 2 jobs, 2 files, 1 path, 2 changes, a cache of 1; symmetric | 3,302,104 | `HashesSound`, `CapturedTogether` |
| `control` | `DaemonControl`: 2 daemons, 2 clients of which one is no root, 2 ids, 3 processes ever, 1 failed unmount or unlink, with and without pidfds and a hidden /proc; symmetric | 6,715,672 | `SignalsPinned`, `StoppedIsGone`, `RecordSound` |
| `stored` | `Lifecycle` | until violated | `StoredStaysOffline` |
| `once` | `RuleOwnership`: 1 daemon, 2 clients | until violated | `MutatesOnce` |

`crash` and `owner` run the module `CustodyRefinement`, which extends `Lifecycle`. What each
property says is the comment above it in its module. In short:

- `RecoverableCopy`: whatever an acknowledged write, a capture or the owner left is in the row
  or in a file, also in every namespace a power loss may leave.
- `PhaseLayout`: the namespace between commands fits what the committed phase admits.
- `NeverRefused`: the coordinator never proposes an entry the store rejects.
- `CleanHandover`: a file handed back carries the last contents, and nothing is left to replay.
- `NoSpuriousBlock`: without an owner's edit no layout that failures and crashes leave is taken for
  a conflict. Manual recovery is asked for only where a check itself had an error, which the code records
  as a conflict, or for debris in offline staging.
- `BlockedIsFrozen`: a recorded conflict stops all automatic work.
- `CredentialKept`: but for the owner and acknowledged writes, the credential is the same before
  and after every step, on its way into custody, inside, and back.
- `CustodyKept`: the coordinator implements `Custody`.
- `ReplayCompletes`: if the daemon is started again whenever that stays possible (`Restarted`), a
  restoration, an installation, an offline removal and an unmount that were begun are completed
  (`RestoreCompletes`, `InstallCompletes`, `StoreCompletes`, `UnmountCompletes`), unless an error
  of a check has blocked the path.
- `NoLostUpdate`: the row is what the committed mutations make of it, one after the other.
- `NoDirtyRead`, `ReadYourWrites`: the mount serves what was committed, and all of it.
- `FencedIsFinal`: no write lands after the fence.
- `NoSpuriousFailure`: concurrent calls do not make one another fail.
- `Progress`: every call is answered, and a shutdown ends (`CallsReturn`, `StopCompletes`).
- `RulesAgree`: what a daemon decides by is what is in the database.
- `LeaseFollowsPolicy`: the lease is held as long as anybody in the daemon holds the policy,
  and not after.
- `SocketStands`: nobody removes the socket of a daemon that serves, unless a start failed.
- `IdsAreStable`: no command under way means a rule that was added after it.
- `Accounted`: a daemon that serves, serves every watched path, and while it runs no kernel
  mount is one that its stop would not come to (`ServesAll`, `Remembered`).
- `OthersUndone`: after a failed start, and after a stop with errors, every path that nothing
  failed for is as it should be.
- `OkMeansDone`: a stop without an error has left no mount and no record of one.
- `Authorised`: whatever a handle or a truncation lets a caller do, in either direction, somebody
  consented to for that caller, however rules, scripts and processes changed in between.
- `DenyThroughout`: a direction that one rule denied at every moment of the decision is not allowed by
  it, unless the script could not be hashed when that very rule's turn came. Two rules pinned to two
  versions may both be missed while the script changes between their hashes: neither matched throughout.
- `AskingSound`: nobody is asked about an open that was authorized all along by a grant or by rules whose
  hashes did not fail (`AskedWhenNeeded`).
- `DialogsSound`: one dialog at a time (`OneDialog`), and the daemon's decision is the answer given
  to that very question while it waited, the default exactly when there was none (`AnswerCounts`). A
  terminal has two exceptions: a line typed before the question's thread came to read is its answer
  (`Given`), and a line that the thread of an earlier question takes is nobody's (`Swallowed`).
- `RateExact`: a question is admitted if and only if fewer than the limit were in the window.
- `GraceSuffices`: only a question that could not be put at once is ended by the client's limit.
- `QuestionsEnd`: every question is decided, and every dialog goes away.
- `RecordsSound`: tasks that log at once do not write into each other's records
  (`LockKeepsLines`).
- `CursorExact`: what `log -f` printed is what is before its cursor, and nothing twice.
- `Followed`: a record of the current log is printed one day, unless the log is rotated first.
- `HashesSound`: a hash is that of contents the file had as a whole since it was opened, and a
  cached one that would be used is the file's (`HashDescribes`, `CacheSound`).
- `CapturedTogether`: a captured identity is one the process had during the capture.
- `SignalsPinned`: through a pidfd, `stop` signals only the process whose identity it read.
- `StoppedIsGone`: when `stop` says so, the daemon is gone, and has unmounted unless it crashed or
  umount2 failed.
- `RecordSound`: only a crash, or an unlink that failed, leaves a pid file that nobody will
  remove (`StaleOnlyAfterCrash`).

`Accounted`, `AskingSound`, `DialogsSound`, `RecordsSound`, `HashesSound` and `RecordSound` include the type
invariant of their module. Those of `Lifecycle`, `MountedWrites` and `RuleOwnership` are proved
(section 4) and not run.

### Where the code differs from its words

Two disagreements, met while modelling, are runs:

- `stored`: starting the daemon on a path stored offline is refused, but the path was
  already on the list that the rollback restores (fuse_interceptor.rs:258), so the
  refused start takes the credential out of storage.
- `once`: a command whose response is lost is executed again offline once the lease is free
  (control_api.rs:220-230), over what others did meanwhile; docs/architecture.md:28 promises
  that a mutation is durable exactly once.

The others are kept as configurations, each of which `tlc -config` shows violated; for most of
them a property of a run says how far the damage goes.

| Configuration, module | Property | What the code does |
| --- | --- | --- |
| `LifecycleDebris`, `Lifecycle` | `StagingDebrisIsDisposable` | a start that crashes while its placeholder is built, followed by `store`, ends in an entry blocked for manual recovery (transaction.rs:538), over files docs/storage-v2.md:74-76 calls disposable. Without the owner and an error in a check nothing else blocks: `NoSpuriousBlock` |
| `LifecycleUnread`, `Lifecycle` | `OnlyMismatchesBlock` | an I/O error inside a check is recorded like a mismatch (transaction.rs:597 and eight other places), and the path is blocked for good though nothing is wrong with its files; docs/storage-v2.md:43 says that a detected mismatch does so. The files stay: `RecoverableCopy`, `BlockedIsFrozen` |
| `RuleEndpoint`, `RuleOwnership` | `EndpointReachable` | a daemon that failed to start drops the lease before its endpoint, the order of its fields (daemon.rs:13-23), and then removes by name the socket of the daemon that took over. A failed start is the only way: `SocketStands` |
| `RulePolicyTorn`, `MCRulePolicy` | `AnyDenyWins` | the two directions of an open are looked up under two locks (engine.rs:110): a deny that `rules edit` moves from one to the other in between is met by neither; docs/architecture.md:36 says any matching deny wins. A deny that stays is not missed: `DenyThroughout` |
| `RulePolicyUnread`, `MCRulePolicy` | `FailuresWeakenNothing` | a deny that pins a script does not match when the script cannot be hashed (engine.rs:337-343): an allow or a grant may then decide, where docs/architecture.md:31 says that a verification failure never weakens authorization. No other deny is lost with it: `DenyThroughout` |
| `RulePolicyAsked`, `MCRulePolicy` | `DenyInForceWins` | the answer to a question is applied without looking at the rules again (engine.rs:144), also over a deny made meanwhile |
| `RulePolicyLabel`, `MCRulePolicy` | `AlwaysIsARule` | an open allowed by a session's grant is reported as AllowAlways (engine.rs:126), "Allowed by a persistent rule" (rule.rs:96-101) |
| `PromptAgentGrace`, `PromptAgent` | `AgentTimeoutWins` | a question behind another dialog is given up by the client while the agent shows it (client.rs:127-129). One that comes up at once is not: `GraceSuffices` |
| `PromptAgentTerminal`, `PromptAgent` | `LinesReachTheirQuestion` | the thread that reads a line outlives its question (terminal.rs:40) and takes the line of the next, which then counts for no question; and a line typed before a question (a second Enter) is in the terminal when its thread reads, and answers it. Nothing else does either: `AnswerCounts` |
| `AuditLogRotate`, `AuditLog` | `RotationLosesNothing` | a follower that finds a new file drops the rest of the old one (logging.rs:289). Nothing else is lost: `CursorExact`, `Followed` |
| `AuditLogLine`, `AuditLog` | `OneEntryPerLine` | a record that is appended after a failed append shares its line and is skipped (logging.rs:153) |
| `DaemonControlPublished`, `MCDaemonControl` | `PidFileNamesServing` | a stopping daemon drops the lease first and then removes the pid file by name, which may be its successor's (daemon.rs:119-121) |
| `DaemonControlStale`, `MCDaemonControl` | `RemovesOnlyStale` | so does `status` or `stop` that found an earlier record stale (control.rs:74) |
| `DaemonControlFails`, `MCDaemonControl` | `StopUnmounts` | a daemon that could not unmount drops its lease, removes its pid file and exits (daemon.rs:115-123), and `stop` says "stopped". It is gone all the same: `StoppedIsGone` |
| `DaemonControlEarly`, `MCDaemonControl` | `SignalUnmounts` | between the publication of the pid file and the registration of the handler, SIGTERM kills the daemon with its mounts (commands.rs:306-314) |

### Bounds, and why they are enough

Counters are bounded in guards, by constants: `MaxFaults`, `MaxEdits`, `MaxMoves`,
`MaxWrites`, `MaxCaptures`. Commands are not bounded. Two faults cover a failure and
one more during its recovery; with the namespace synced on every replay, a third
meets no state that two did not lead to. Two captures give a second generation, which
is where what the first left behind would matter. Two edits allow an edit of the file
and one of the file that replaced it, or a quiet write and a visible one. One
mounted write is enough to tell the snapshot from the detached original. `owner`
has one fault and one capture: the interesting steps of the owner are between two
steps of the code, which need no failure. Contents are numbered as written, so that
no two are confused. Deadlock checking is off: the system may stop, and at the
bounds everything may be refused.

`MountedWrites` has two clients because its conflicts are between two holders of a
record, or one and the fence; two calls are an open and a write through it, or two mutations
that compete. Two bytes allow a write past the end, two faults a commit of unknown outcome whose
reload fails as well, and a second mount meets what the tasks of the first left. An open handle
whose writes compete with another client's call takes three calls: for the safety properties that
is covered by the theorems of section 4, which hold without these bounds.

`RuleOwnership` is run with two daemons, whose conflict is the socket's name, and one command,
which competes with them and with the permanent choices of users; the theorems cover every
number of both. One crash is that of the owner under a waiting command; who dies twice starts
twice, which a clean exit does also. Three ids are a rule, one more, and one after a
removal. Two actions are what makes an edit one, and two rules collide.

`MountSet`: with three paths one fails, one comes before it in a loop and one after. The
second run meets what the first left. Three faults are one in the start, one in the rollback and
one in the second try.

`RulePolicy`: two opens, so that the answer to one makes a rule or a grant for the other; one
command and one change, each of which may fall between any two steps of both. The rules to add
are one that allows a program a direction, one that denies everybody the other, and two that
allow and deny a script of given contents, so that a look-up has up to two files to hash; the edits move a rule from one direction to another, turn
it round, and drop its pin.

`PromptAgent`: a question on the screen, one behind it, one that is refused; a time limit of one tick
and a window of two keep the code's order (the backstop of a dialog comes before the
client's limit, the window is longer than a dialog). One line typed ahead is enough to answer a
question before it is put, and to go behind a thread that outlived its own. Each dialog of a run may be of a
different kind, of which the agent has one at a time.

`AuditLog`: three entries, of which two compete and one follows; two files are one rotation. A
length limit of four pieces cuts a record. `ExecIdentity`: two changes are one before and one after a
hash was stored, or an exit and a replacement; a cache of one entry is full at once. `DaemonControl`:
two daemons that hand over, a process id that is used again, and a third process, which is
another program's; one failed cleanup, of the daemon that `stop` read of or of the other.

### Fairness

`FairSpec` adds weak fairness of the coordinator's steps: it is sequential code that
waits for nobody, so a step it can take it takes unless the process dies. It does not make
anybody start the daemon: systemd does so after a failure (packaging/systemd/
file-guard.service, Restart=on-failure), but not after a stop or an interrupted offline command. That the
daemon is started again whenever that stays possible is the hypothesis of `ReplayCompletes`
(`Restarted`: strong fairness, because a command issued in between disables the start for a while),
and no part of the specification. Nothing is assumed of the owner, of the
mount's clients or of failures; these are bounded, as a system that fails for ever
completes nothing.

`MountedWrites` has a `FairSpec` of its own: weak fairness of each client's task (the policy
decides in the end, because a prompt has a timeout, after which the answer is deny; threads
and tasks are scheduled), and of the shutdown once it has begun. Nothing makes a client call, a
shutdown begin, or a mount follow. Weak fairness of the lock is enough: who waits for it is
never disabled for ever, because the bound of calls ends the competition. Without that
bound it would take a lock that starves nobody, which std::sync::Mutex does not promise.

`PromptAgent` assumes that time passes (`Tick`), that a client takes an answer or gives up when its limit is
over, and that the agent admits, shows and expires: tasks of tokio's scheduler that wait for
a timer, a message or the lock, which is fair. Nothing is assumed of the user, who may never answer, nor of
an agent that died: `QuestionsEnd` is what the limits alone guarantee.

`AuditLog` assumes that a writer that holds the lock goes on, and that the reader polls, which it does in a
loop with a pause. Nobody has to log or to rotate.

## 4. What is proved

Every safety and action property of the passing runs is a theorem, for every value of the constants; liveness
is left to the runs, see the end of this section. The only assumptions are the named ones on the constants
(`LifecycleAssumption`, `MountedWritesAssumption`, ...): that bounds are natural numbers, and that
things the code keeps apart by their type are different. TLC checked each inductive invariant on the
constants of a run before it was proved.

Most proofs are laid out alike: lemmas about the operators, lemmas about what a step does to whom it does
not move, a lemma for each action or group of actions, then `NextKept`, which puts
them together, and `AlwaysKept` by PTL; the theorems say what of the property the invariant has.

### LifecycleProofs

- `TypeCorrect`: `Spec => []TypeOK`;
- `MountRecorded` (`MountIsRecorded`): a kernel mount always has an unblocked record that says so;
- `BlockedStaysFrozen` (`BlockedIsFrozen`): automatic work stops at a conflict;
- `CustodyImplemented` (`CustodyKept`): the coordinator implements `Custody`.

The definitions of its invariants are in `LifecycleInvariants`. None of these four is inductive alone. The
invariant is `IInv == Sound /\ WorldType`, with

- the types, refined (the identities in `made` and `obs`, and an entry in `cur` that is
  an entry the store can hold);
- `ChecksHold`: at every label after the check of require_unblocked the entry is not
  blocked, which is why no step of an operation changes a blocked entry. It needs that
  only the coordinator blocks, and that it then leaves the operation;
- `MarkerUnblocked`: a marker is never blocked;
- `MountIsRecorded` itself, and `MountPlaces`: the labels at which a mount may be live
  or stale. Without it a commit that leaves `mountIntent` could happen under a mount.

The refinement follows the store and not the files: `SuccessorKeeps` and `MarkerHands` show that
whatever `ValidTransition` and `ValidSuccessor` admit is a step of `Custody`, `EntryRefines` that every
accepted commit is; then each action of `Lifecycle` commits one entry, blocks, or leaves the entry
alone. It needs `ChecksHold`: an entry that is blocked is not worked on, which is what `Custody` says
of being stuck.

The second part of the module, on top of `IInv`, is about the files:

- `CopyRecoverable` (`RecoverableCopy`), `CommitsAdmitted` (`NeverRefused`), `HandoverClean` (`CleanHandover`);
- `CredentialFollowed` (`CredentialKept`): no step but the owner's and an acknowledged write changes the
  credential on its way into custody, inside, and back.

They share one invariant, `Kept`, because they need one another: that a discarded file was
disposable depends on what the entry says, and that the entry is as it should be on the store having
admitted it.

- `Agreed`: `RowSound`, what the coordinator's transitions make of a row beyond what the store
  demands; `Place`, which entry, observation and file the coordinator has in hand at each label;
  and that nothing was refused. Each commit is then shown to be admitted, one lemma per transition
  (`InstallIntentAdmitted` and its like).
- `Stored`: of every namespace a power loss may leave. `FilesSound`, no inode has two
  names; `Tidy`, which names of staging each phase may occupy, so that a name that is not looked at is
  known to be empty; `Disposable`, nobody ever had access to what a phase may discard and build again;
  `OneNamespace`, before a capture is installed nothing at the target is undone by a power loss;
  `PlaceholdersEmpty` and `DetachedSpent`, the recorded identities still tell the contents apart:
  an owner's write, however quiet, leaves a trace in one of the stamps that the code compares.
- `Ground`: what is known of the files at each label, between the look and the commit that
  relies on it. The owner may change the files between any two steps, and everything here
  is stated so that it survives: the file observed under a name keeps its inode, and unless its ctime
  shows it, its contents.
- `Handover`: as long as the owner leaves the files alone, what is relied on is exactly the entry's
  contents.

The third part, on top of both, is about what happens when the owner does nothing at all (`Calm`: no edit and
no move so far), while failures, crashes, power losses, clients of the mount and administrators do as
they please:

- `LayoutFollowed` (`PhaseLayout`): between commands, the names hold what the phase admits;
- `NoConflictInPeace` (`NoSpuriousBlock`): no layout is taken for a conflict, but for the one of
  `StagingDebrisIsDisposable`; what else is recorded as one is an error of a check.

The invariant is `Peace == Calm => Undisturbed`. Neither property is inductive: that no check
fails at one label rests on what the labels before it have left, and what those may leave rests on
which commits came before.

- `Layout`: for each phase, where the recorded files are in every namespace that a power loss may leave, with
  their contents and modification stamps as long as a later check compares them. A replay meets one of two
  namespaces, before and after the one rename of its phase, and recognises either;
- `StampsAgree`: the modification stamps the entry holds in two places agree. The check of a replayed
  restoration compares one where the first attempt wrote the other;
- `Footing`: for each label, what the code has found or made since it last looked. `Kept` could only
  say of these files what the owner cannot disturb; here each check is shown to find exactly what it looks for.

### MountedWritesProofs

All six properties of the run `writes` but `Progress`: `TypeCorrect`, `UpdatesKept` (`NoLostUpdate`),
`ReadsCommitted` (`NoDirtyRead`), `WritesRead` (`ReadYourWrites`), `FenceHolds` (`FencedIsFinal`) and
`FailuresExplained` (`NoSpuriousFailure`), for every set of clients and every cap on contents. The
invariant is `TypeOK /\ Handles /\ Bounded /\ Locks /\ Store`:

- `Exclusive` and `Based`: one mutation at most is past the lock, and its copy is what the mount
  serves. This is what makes the compare-and-swap enough: a commit that the store accepts
  started from the row, and one that it rejects met the fence;
- `Process`: a live process serves a mounted record and past the fence the row is no longer
  mounted, so no copy made under the lock can be the row any more;
- `Committed`: what waits to be published is the row, or the row is already further;
- `Faultless`: without store errors, row and memory differ only between a commit and its
  publication, or by the phase;
- `Bounded`: a call that has passed its check of the size keeps within the cap whatever other
  calls do before it gets the lock;
- `Handles`: handles are numbered upwards, so no registration hits another client's.

`QuietStep` treats every step that leaves row and memory alone, `StoppingStep` every step of the
shutdown; the others have a lemma each.

### RuleOwnershipProofs

`TypeCorrect`, `LeaseHeld` (`LeaseFollowsPolicy`), `RulesStayEqual` (`RulesAgree`), `IdsStable`
(`IdsAreStable`) and `SocketKept` (`SocketStands`), for every number of daemons and clients. The first
four share the invariant `TypeOK /\ Commands /\ Custody /\ LeaseFollowsPolicy /\ RulesAgree`:

- `Custody` (of the lease; not the module): who is between taking the lease and giving it back
  has it, a daemon that has not loaded the rules has no policy, and one that serves has. With
  `LeaseFollowsPolicy` it follows
  that whoever changes the database is alone with it (`OthersIdle`), and that a daemon that
  does so changes equals alike (`PerformKeeps`);
- `Commands`: a command is one from when it is issued and names an id that was given; the next
  id is given after it.

`SocketKept` needs `Sockets` on top: whoever is past bind has the socket; whoever is about to remove
a dead socket holds the lease, so it is nobody's who serves; and an endpoint that is being
dropped after the lease is still listening, so that nobody takes it for dead. A failed start
breaks the last: its listener is closed first.

### RulePolicyProofs

`AlwaysAuthorised` (`Authorised`), `DenialsHold` (`DenyThroughout`) and `AskedSoundly` (`AskingSound`), for any
opens, processes, programs, scripts, rules to add and edits. The invariant,
`Types /\ Callers /\ Founded /\ Decisions`, follows a decision through its loop:

- `Founded`: a rule that allows is one an administrator wrote, or what persist_rule makes
  of a user's permanent choice (`MadeOf`, with the version of the script that this user saw); a grant
  is a session choice. An edit makes a rule the administrator's, whoever it came from;
- `Fresh`: the history of a decision never says more than what holds now. It makes a hash
  at one moment say something of the whole decision: a rule it finds no match did not match
  throughout, or its hash failed;
- `Looking`: in the middle of a look-up, a rule that has denied or allowed all along is still to be hashed
  for, does not bear on the direction, or is one whose hash failed; and if one has matched so far, it was consented to;
- `Looping`: the directions the loop has left behind were consented to, or the user will be asked, and
  none was denied throughout;
- `OutcomeKept`: what a handle can be used for is within what was consented to, for each kind of open
  and for a truncation by path.

`Callers` says that only an interpreter runs a script and that lives of a process are numbered; without
it a grant to one life of a process could pass for one to the next.

### MountSetProofs

`MountsAccounted` (`Accounted`), `FailuresContained` (`OthersUndone`) and `OkMeansAllDone` (`OkMeansDone`), for
any number of paths. The invariant says of each path where it stands with respect to the loops: in the
start (`Starting`) it is still down, in the interceptor's hands (`InHand`, by label), or up; in
the stop (`Stopping`) a path that nothing failed for has its session still to be stopped
(`Pending`), or is as the configuration wants it and will not be touched again (`Settled`).
`Untouched` has the paths the run has not come to, `OfThisRun` that sessions and prepared paths
are of this run. The second try on drop has the same invariant: what the first try has settled
stays so. `WayRecords`, `WayEnds` and the lemmas about `Way` say where an operation of the coordinator may leave a record when it fails.

### DaemonFilesProofs

About `DaemonControl`: `RecordIsSound` (`RecordSound`), `SignalsArePinned` (`SignalsPinned`) and
`StoppedMeansGone` (`StoppedIsGone`), for any number of daemons, commands, other processes and process ids. All come from `NeverAgain`:
ids are used again, start times are not, so an identity that was given out and is not alive
never lives again. `Informed` says of a command what it read and what it pinned: if the process it
pinned is not the one it read of, that one is gone for good. `Known` and `Apart` tell the daemons'
identities apart, `Unmounted` says at which places a daemon has no mount left unless its umount2
failed, and `StaleOnlyAfterCrash` is inductive with them.

About `AuditLog` (whose specification is called `LogSpec` because this module extends both): `RecordsAreSound`
(`RecordsSound`) and `CursorIsExact` (`CursorExact`), for any number of entries, rotations, failed writes and
deaths, any number of records to start with and any length of a read above one piece. The invariant
is `LogKept`:

- `Writers`. Two tasks that write hold different files (`Exclusive`), so the piece a task has begun is
  still the last of its file when it ends it (`Begun`), and what ends a record follows its beginning
  (`Records`), also in a file that was renamed meanwhile. A record is ended by its own task
  (`EndedByTask`) and therefore once (`EndedOnce`);
- `Reading`. The cursor stands at the end of a line, and the entries between where it started and where
  it is are what was printed last (`CursorAt`). Every printed entry ends before the cursor or
  in a file that is behind it (`Sourced`); what is read next ends after it; so with `EndedOnce` nothing is printed
  twice (`PrintedOnce`), whether the next records come from the same file or from a new one.

What is parsed is a recursive function, and `ParsedJoined` is what the proof needs of it: a text that ends with a line
and what follows it are parsed apart. So an append changes nothing that was parsed (files only grow: `Grown`),
and a read takes up where the last one ended (`ReadOn`). Such lemmas are inductions on the length of a
text; they are done by a least counterexample (`Least`, from the well-foundedness of the naturals).

### ExecIdentityProofs

`HashesAreSound` (`HashesSound`) and `IdentityIsOne` (`CapturedTogether`), for any number of jobs, paths, files,
changes and cache entries. `FileKept`: what was read of a file under a stamp, in pieces or from the cache,
is its contents as long as it has that stamp, so the look at the stamp after the reads makes it
contents that it had as a whole. `CacheKept`: an entry with a file's present stamp has the hash of
its present contents, and a key has one entry. `ProcessKept`: start times only grow, so the same one
before and after the executable was opened means one process in between.

### PromptAgentProofs

`DialogsAreSound` (`DialogsSound`), `LimiterExact` (`RateExact`) and `GraceIsEnough`
(`GraceSuffices`), for any number of questions and all limits that keep the order of the code's (`GraceAssumption`: the client's five seconds
come after the two of a graphical dialog). `Place` and `Answer` say what a client can have by where its
connection is: nothing is written before the task is done, and an answer that counts is the
one that was written: what was answered on the screen, or what the thread found typed ahead. `Serial` has the dialog lock and its queue. `Limiter` relates the rate limiter's
timestamps to all admissions: they are the youngest, in order, and what was dropped is as old
as the window; so dropping as many from the front as are old drops the old ones (`FreshKeepsYoung`), and
what is left counts the admissions within the window (`FreshCounts`). `Timely`: from the moment the dialog is put,
the client's limit runs beside it, a grace behind.

### Only model-checked

- Liveness, `ReplayCompletes`, `Progress`, `QuestionsEnd` and `Followed`: out of the prover's reach (it has no
  rules for fairness that these could use, and no ENABLED).

## 5. What is assumed, and what is left out

- The namespace is journalled: renames are atomic, and become durable in the order in
  which they were made; syncing one of the two directories makes the earlier
  renames durable. (The code syncs both; a file system that keeps directories apart
  would need both syncs modelled apart.)
- File contents built in staging are synced before they are renamed (create_file does). The
  owner syncs its own edits.
- Inode numbers are not reused while the model runs.
- A SQLite commit is atomic and durable (rollback journal, synchronous=EXTRA). A commit whose
  result is unknown to the caller is a commit followed by an error (`StepFails`).
- One coordinator at a time: the exclusive lock on the store.
- `MountedWrites`: one handle per client, one byte per write, callers that pass the uid gate.
  Calls that are refused and calls that only read change nothing and are left out. A
  client's calls stop when its mount is gone; its tasks do not. Its `Mount` is the next
  daemon's reconciliation, installation and mount in one step: `Lifecycle` has the steps.
- `RuleOwnership`: a commit of the rules that returns an error has not been made. The
  database is in WAL mode, where a commit is visible to open connections only when it has
  succeeded. Configured rules, refused peers, `list`, `import` (an add for several rules in one
  transaction), the limit of 32 connections and the framing of messages are left out.
- `Lifecycle` and `MountedWrites`: one path. The capture of a path whose parent was replaced fails.
- `MountSet`: an operation of the coordinator is one step. Paths stored offline are left out:
  `stored` shows what a start does to them. A start that fails also restores what an
  earlier stop left installed, because the rollback sets restore_on_stop: the model has it so.
- `RulePolicy`: one watched path and one default action; rules name them. That no image and no
  version is `Unpinned` (`RulePolicyAssumption`) is the code's Option: a missing pin is no hash. Callers are the
  owner or root, others are refused before the policy is asked. Which words a question is put in is
  left out, but for the directions it names.
- `PromptAgent`: time in ticks, the program fast compared with a tick. The framing of messages, the
  peer's uid, versions, the five seconds a request may take to arrive, and the search for a
  graphical backend are left out.
- `ExecIdentity`: what `RulePolicy` needs of a failed hash is only that it may happen. Whatever changes a file changes its stamp (the code compares inode, size, owner,
  mode, mtime and ctime to the nanosecond), and a write and its stamp are one step. A file that is being
  executed is not written (ETXTBSY). The script's path is read from argv after the capture,
  and is not modelled.
- `AuditLog`: rotation by rename. Truncation in place is unsupported by the code, which says so.
  The checks of the file's kind and owner and the limits on a line's length are left out.
- `DaemonControl`: how the interceptor stops, path by path, and its second try on drop are `MountSet`'s; here an
  unmount has worked in the end or has not. A process id together with its start time is never used twice. The pointer to the
  configuration, the second path of the pid file, zombies, a pid file that is read half written
  (it reads as none), and systemd's notifications are left out. Without pidfds, where
  a signal may hit a process that took the id at the last moment, only `StoppedIsGone` applies.
- remove_verified's comparison and unlink are one step, and a rename in the watched directory
  moves whatever is there: the guarantee boundary of docs/storage-v2.md:112-118.
- Whether the staging directory itself exists is left out: its names exist or not.
- The failure of a mount is cleaned up by the rollback's reconciliation, which makes the same
  transition as the abort_mount of the code path in between.
- Not modelled: configuration and command line (parsing and validation of input), packaging and
  scripts: no behaviour over time. Of the parts modelled: the database's schema, encodings and
  headers, the creation and checks of private directories, the kernel's mount table, the
  import of a rule file, `list`, and the limit of 32 connections.

## 6. Plan

Done: every module of section 2. The components are modelled but for what section 5 leaves out, the
safety of every module is proved, and liveness is checked by the runs. What could follow is
in section 5: concurrent writes through one handle, truncation of the audit log, the limit of connections.

## 7. Mutants

Every property of a passing run is broken by a plausible bug in a definition, kept
beside it in the module and marked as a mutant:

- a check left out: `AcceptsBlindly`, `RestoreUnverified`, `RemoveRetiredUnread`, `RestoreLoadBlocked`,
  `VerifyNothing`, `RecheckNothing`, `TrustIdentity`; or an unchecked result, `DetachUnchecked`;
- a comparison of too little: `AcceptedAnyRevision`, `AcceptedAlways`, `PathOnly`, `ProcessAllowed`,
  `StampOnly`, `PollStuck`;
- a missing sync, reset or removal: `InstallUnsynced`, `FinUnsynced`, `PollKeeping`, `FreshTooLong`, `AbandonOnly`;
- work redone on replay, or a replay that recognises only the layout before the
  rename: `RestoreBuildAlways`, `InstallObserveOnce`, `StoreObserveOnce`, `FinObserveOnce`, `FenceLoadOnce`;
- a stale identity, `CommitInstalledStale`, or a fact taken for another: `SeeFileGone`;
- a wrong order: `CommitUnmountEarly`, `ReleasePolicyEarly`, `StopReleasing`, `AllowFirst`;
- a lock not taken: `LockShared` (twice), `NotLocked`;
- a forgotten case or error path: `ReconcileMountOnly`, `ReloadSilent`, `ReloadSkipped`, `PublishWrites`,
  `ToPrepareUnlisted`, `RetainSilently`, `RollBackAsConfigured`, `FinishAny`, `HandleReads`, `ByDirection`;
- one failure made everybody's or nobody's: `RetainAll`, `RefuseOne`;
- a limit left out or off by one: `NoGrace`, `ReceiveInTime`, `ExpireQuietly`, `TickingOn`, `RoomLate`, `CursorToEnd`;
- a rule that is too wide, `LearnedWide`; ids that are used again, `StoreReusing`; a daemon that does not
  answer taken for dead, `FallbackBold`.

They are not part of any specification.
