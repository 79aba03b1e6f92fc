--------------------------- MODULE DaemonControl ---------------------------
(***************************************************************************)
(* How a daemon makes itself known and how another invocation of the       *)
(* program finds and stops it: Daemon::start, Daemon::stop, the pid file   *)
(* (src/src/daemon.rs) and the commands `stop` and `status`                *)
(* (src/src/control.rs).                                                   *)
(*                                                                         *)
(* A process is known by its pid and its start time.  Start times are      *)
(* numbers given out in order, one for each process: two processes of the  *)
(* same pid never have the same.  Pids are reused, also by processes that  *)
(* have nothing to do with the program.                                    *)
(***************************************************************************)
EXTENDS Naturals, FiniteSets

CONSTANTS Daemons,      \* invocations of `file-guard start`
          Clients,      \* invocations of `file-guard stop` and `status`
          Users,        \* those of the clients that do not run as root
          Pids,
          MaxStart,     \* bound on the processes ever started
          MaxFailed,    \* bound on the parts of a cleanup that ever fail
          Pidfds,       \* whether the kernel has pidfd_open: a set of BOOLEANs
          Hidden,       \* whether /proc hides root's processes: a set of BOOLEANs
          NoFile        \* there is no pid file

ASSUME ControlAssumption == /\ Users \subseteq Clients
                            /\ {MaxStart, MaxFailed} \subseteq Nat
                            /\ Pidfds \subseteq BOOLEAN
                            /\ Hidden \subseteq BOOLEAN
                            /\ 0 \notin Pids

VARIABLES proc,         \* proc[p]: the start time of the process p, 0 if there is none
          starts,       \* the last start time given
          daemon,       \* daemon[d]: where `start` is, its process, what it holds
          file,         \* the pid file: whose inode it is and what it says
          client,       \* client[c]: where `stop` or `status` is and what it knows
          crashed,      \* history: the daemons that ended without their cleanup
          failed        \* history: the parts of a daemon's cleanup that failed

vars == <<proc, starts, daemon, file, client, crashed, failed>>

Identity == Pids \X (1 .. MaxStart)

\* An identity nobody has.
Nobody == <<0, 0>>

\* A pid file says one identity, or nothing yet.
File == [inode : Daemons, text : Identity \cup {Nobody}] \cup {NoFile}

\* The steps of Daemon::start and Daemon::stop between which others run.
DaemonPc == {"idle", "starting", "mounted", "publishing", "rollback", "abandoned",
             "serving", "waiting", "unmounting", "released", "gone"}

ClientPc == {"idle", "read", "stale", "open", "check", "signal", "wait",
             "stopped", "running", "none", "hidden", "error"}

Alive(i) == i[1] \in Pids /\ proc[i[1]] = i[2]

\* identity_alive: the process of that pid has that start time.
identity_alive(i) == Alive(i)

TypeOK ==
    /\ proc \in [Pids -> 0 .. MaxStart]
    /\ starts \in 0 .. MaxStart
    /\ daemon \in [Daemons -> [pc : DaemonPc, id : Identity \cup {Nobody},
                               fd : Daemons, mounted : BOOLEAN, term : BOOLEAN]]
    /\ file \in File
    /\ client \in [Clients -> [pc : ClientPc, cmd : {"stop", "status"},
                               id : Identity \cup {Nobody}, pin : 0 .. MaxStart,
                               sent : 0 .. MaxStart]]
    /\ crashed \subseteq Daemons
    /\ failed \subseteq Daemons \X {"umount", "unlink"}

Init ==
    /\ proc = [p \in Pids |-> 0]
    /\ starts = 0
    /\ daemon = [d \in Daemons |-> [pc |-> "idle", id |-> Nobody, fd |-> d,
                                    mounted |-> FALSE, term |-> FALSE]]
    /\ file = NoFile
    /\ client = [c \in Clients |-> [pc |-> "idle", cmd |-> "status", id |-> Nobody,
                                    pin |-> 0, sent |-> 0]]
    /\ crashed = {} /\ failed = {}

-----------------------------------------------------------------------------
(* Processes.                                                              *)

\* The lease on the learned rules, which admits one daemon: taken before the
\* daemon is made, dropped with its policy.
Leased(d) == daemon[d].pc \in {"starting", "mounted", "publishing", "rollback",
                               "abandoned", "serving", "waiting", "unmounting"}

\* A process gets a free pid and the next start time.
Born(p) ==
    /\ proc[p] = 0 /\ starts < MaxStart
    /\ starts' = starts + 1
    /\ proc' = [proc EXCEPT ![p] = starts + 1]

\* The process of daemon d ends.
Ended(d) == proc' = [proc EXCEPT ![daemon[d].id[1]] = 0]

\* Processes of other programs come and go on whatever pid is free.
StrangerStarts(p) == /\ Born(p)
                     /\ UNCHANGED <<daemon, file, client, crashed, failed>>

StrangerEnds(p) ==
    /\ proc[p] /= 0
    /\ \A d \in Daemons : daemon[d].id /= <<p, proc[p]>>
    /\ proc' = [proc EXCEPT ![p] = 0]
    /\ UNCHANGED <<starts, daemon, file, client, crashed, failed>>

-----------------------------------------------------------------------------
(* Daemon::start.                                                          *)

Goto(d, pc) == daemon' = [daemon EXCEPT ![d].pc = pc]

\* The command starts as a process and takes the lease.
Start(d, p) ==
    /\ daemon[d].pc = "idle"
    /\ \A e \in Daemons : ~Leased(e)
    /\ Born(p)
    /\ daemon' = [daemon EXCEPT ![d].pc = "starting", ![d].id = <<p, starts + 1>>]
    /\ UNCHANGED <<file, client, crashed, failed>>

\* Something fails before the interceptor starts, in Daemon::new or Daemon::start:
\* the process ends with the error and touches no file.
FailEarly(d) ==
    /\ daemon[d].pc = "starting"
    /\ Ended(d)
    /\ Goto(d, "gone")
    /\ UNCHANGED <<starts, file, client, crashed, failed>>

\* start_and_publish, first part: interceptor.start mounts, or fails, with some
\* paths mounted or none.
Mount(d) ==
    /\ daemon[d].pc = "starting"
    /\ \/ daemon' = [daemon EXCEPT ![d].pc = "mounted", ![d].mounted = TRUE]
       \/ \E some \in BOOLEAN :
             daemon' = [daemon EXCEPT ![d].pc = "rollback", ![d].mounted = some]
    /\ UNCHANGED <<proc, starts, file, client, crashed, failed>>

\* write_pid_file opens the file: what has the name is truncated, or a new file
\* is made.  It may fail before.
OpenPidFile(d) ==
    /\ daemon[d].pc = "mounted"
    /\ \/ LET inode == IF file = NoFile THEN d ELSE file.inode
          IN  /\ file' = [inode |-> inode, text |-> Nobody]
              /\ daemon' = [daemon EXCEPT ![d].pc = "publishing", ![d].fd = inode]
       \/ Goto(d, "rollback") /\ UNCHANGED file
    /\ UNCHANGED <<proc, starts, client, crashed, failed>>

\* ... and writes its identity into the file it has open, whatever has the name
\* by now.  The write may fail.
WritePidFile(d) ==
    /\ daemon[d].pc = "publishing"
    /\ \/ /\ file' = IF file /= NoFile /\ file.inode = daemon[d].fd
                     THEN [file EXCEPT !.text = daemon[d].id] ELSE file
          /\ Goto(d, "serving")
       \/ Goto(d, "rollback") /\ UNCHANGED file
    /\ UNCHANGED <<proc, starts, client, crashed, failed>>

\* A part of daemon d's cleanup fails.
Fails(d, part) == /\ Cardinality(failed) < MaxFailed
                  /\ failed' = failed \cup {<<d, part>>}

\* Daemon d unmounts, and is at step pc then.  umount2 may fail: the error is
\* reported at the end, and the mount stays.
Unmounts(d, pc) ==
    \/ /\ daemon' = [daemon EXCEPT ![d].pc = pc, ![d].mounted = FALSE]
       /\ UNCHANGED failed
    \/ daemon[d].mounted /\ Goto(d, pc) /\ Fails(d, "umount")

\* remove_pid_file removes what has the name.  An error is only warned about.
RemovePidFile(d) ==
    \/ file' = NoFile /\ UNCHANGED failed
    \/ file /= NoFile /\ UNCHANGED file /\ Fails(d, "unlink")

\* The rollback of interceptor.start, or abort_start.
RollBack(d) ==
    /\ daemon[d].pc = "rollback"
    /\ Unmounts(d, "abandoned")
    /\ UNCHANGED <<proc, starts, file, client, crashed>>

\* Mutant: the file that was opened is left behind.
AbandonOnly(d) ==
    /\ daemon[d].pc = "abandoned"
    /\ Ended(d)
    /\ Goto(d, "gone")
    /\ UNCHANGED <<starts, file, client, crashed, failed>>

\* A start that failed removes the pid file, and ends with its error.
Abandon(d) ==
    /\ daemon[d].pc = "abandoned"
    /\ RemovePidFile(d)
    /\ Ended(d)
    /\ Goto(d, "gone")
    /\ UNCHANGED <<starts, client, crashed>>

\* The rest of start, and wait_for_shutdown: only now is SIGTERM handled.
AwaitShutdown(d) ==
    /\ daemon[d].pc = "serving"
    /\ Goto(d, "waiting")
    /\ UNCHANGED <<proc, starts, file, client, crashed, failed>>

-----------------------------------------------------------------------------
(* Daemon::stop.                                                           *)

\* The service manager, or Ctrl-C, asks a daemon to stop.
Terminate(d) ==
    /\ daemon[d].pc = "waiting" /\ ~daemon[d].term
    /\ daemon' = [daemon EXCEPT ![d].term = TRUE]
    /\ UNCHANGED <<proc, starts, file, client, crashed, failed>>

\* A signal was received, the task of the control socket is gone and the
\* interceptor is told to stop.
BeginStop(d) ==
    /\ daemon[d].pc = "waiting" /\ daemon[d].term
    /\ Goto(d, "unmounting")
    /\ UNCHANGED <<proc, starts, file, client, crashed, failed>>

\* The interceptor has stopped, whether it could unmount or not, and the policy
\* goes with its lease.
Unmount(d) ==
    /\ daemon[d].pc = "unmounting"
    /\ Unmounts(d, "released")
    /\ UNCHANGED <<proc, starts, file, client, crashed>>

\* The pid file is removed, and the process ends.
FinishStop(d) ==
    /\ daemon[d].pc = "released"
    /\ RemovePidFile(d)
    /\ Ended(d)
    /\ Goto(d, "gone")
    /\ UNCHANGED <<starts, client, crashed>>

\* A daemon is killed, or dies, or its wait for a signal ends with an error.
Crash(d) ==
    /\ daemon[d].pc \notin {"idle", "gone"}
    /\ Ended(d)
    /\ daemon' = [daemon EXCEPT ![d].pc = "gone"]
    /\ crashed' = crashed \cup {d}
    /\ UNCHANGED <<starts, file, client, failed>>

-----------------------------------------------------------------------------
(* The commands.                                                           *)

\* running_process, first part: the file is read.  No file, or one that says
\* nothing, is no daemon.
ReadPidFile(c, cmd) ==
    /\ client[c].pc = "idle"
    /\ LET says == IF file = NoFile THEN Nobody ELSE file.text
       IN  client' = [client EXCEPT ![c].pc = IF says = Nobody THEN "none" ELSE "read",
                                    ![c].cmd = cmd, ![c].id = says]
    /\ UNCHANGED <<proc, starts, daemon, file, crashed, failed>>

\* What classify_identity finds of an identity.  A process whose /proc entry is
\* hidden from a user can be probed only.
classify_identity(c, hidden, i) ==
    IF c \in Users /\ hidden
    THEN IF proc[i[1]] = 0 THEN "Stale" ELSE "Unverified"
    ELSE IF identity_alive(i) THEN "Verified" ELSE "Stale"

Classify(c) ==
    /\ client[c].pc = "read"
    /\ \E hidden \in Hidden :
       LET found == classify_identity(c, hidden, client[c].id)
           pc == CASE found = "Stale" -> "stale"
                   [] client[c].cmd = "status" -> "running"
                   [] found = "Unverified" -> "hidden"
                   [] OTHER -> "open"
       IN  client' = [client EXCEPT ![c].pc = pc]
    /\ UNCHANGED <<proc, starts, daemon, file, crashed, failed>>

\* The record was found stale, and what has its name now is removed.  A user may
\* not remove root's file.
RemoveStale(c) ==
    /\ client[c].pc = "stale"
    /\ file' = IF c \in Users THEN file ELSE NoFile
    /\ client' = [client EXCEPT ![c].pc = "none"]
    /\ UNCHANGED <<proc, starts, daemon, crashed, failed>>

\* signal_linux_daemon, first part: pidfd_open pins the process that has the pid
\* now.  An old kernel has no pidfds.
OpenPidfd(c) ==
    /\ client[c].pc = "open"
    /\ \E pidfd \in Pidfds :
          client' = IF ~pidfd THEN [client EXCEPT ![c].pc = "check"]
                    ELSE IF proc[client[c].id[1]] = 0
                         THEN [client EXCEPT ![c].pc = "error"]
                         ELSE [client EXCEPT ![c].pc = "check",
                                             ![c].pin = proc[client[c].id[1]]]
    /\ UNCHANGED <<proc, starts, daemon, file, crashed, failed>>

\* Mutant: the identity that was read is taken for the process that was pinned.
TrustIdentity(c) ==
    /\ client[c].pc = "check"
    /\ client' = [client EXCEPT ![c].pc = "signal"]
    /\ UNCHANGED <<proc, starts, daemon, file, crashed, failed>>

\* The identity is checked again, with the process pinned.
CheckIdentity(c) ==
    /\ client[c].pc = "check"
    /\ client' = [client EXCEPT ![c].pc = IF identity_alive(client[c].id) THEN "signal"
                                                                           ELSE "error"]
    /\ UNCHANGED <<proc, starts, daemon, file, crashed, failed>>

\* A SIGTERM for process i.  A daemon that does not handle it yet is killed by
\* it, whatever it has mounted.
Signalled(i) ==
    IF \E d \in Daemons : daemon[d].id = i
    THEN LET d == CHOOSE e \in Daemons : daemon[e].id = i
         IN  IF daemon[d].pc \in {"waiting", "unmounting", "released"}
             THEN /\ daemon' = [daemon EXCEPT ![d].term = TRUE]
                  /\ UNCHANGED <<proc, crashed>>
             ELSE /\ daemon' = [daemon EXCEPT ![d].pc = "gone", ![d].term = TRUE]
                  /\ proc' = [proc EXCEPT ![i[1]] = 0]
                  /\ crashed' = crashed \cup {d}
    ELSE /\ proc' = [proc EXCEPT ![i[1]] = 0]
         /\ UNCHANGED <<daemon, crashed>>

\* pidfd_send_signal to the pinned process, kill to whatever has the pid.  A
\* user may not signal root's processes, and nobody one that is gone.
SendSignal(c) ==
    /\ client[c].pc = "signal"
    /\ LET pid == client[c].id[1]
           target == IF client[c].pin /= 0 THEN client[c].pin ELSE proc[pid]
       IN  IF c \in Users \/ target = 0 \/ ~Alive(<<pid, target>>)
           THEN /\ client' = [client EXCEPT ![c].pc = "error"]
                /\ UNCHANGED <<proc, daemon, crashed>>
           ELSE /\ client' = [client EXCEPT ![c].pc = "wait", ![c].sent = target]
                /\ Signalled(<<pid, target>>)
    /\ UNCHANGED <<starts, file, failed>>

\* Mutant: the daemon counts as stopped when its pid file is gone.
SeeFileGone(c) ==
    /\ client[c].pc = "wait"
    /\ file = NoFile
    /\ client' = [client EXCEPT ![c].pc = "stopped"]
    /\ UNCHANGED <<proc, starts, daemon, file, crashed, failed>>

\* The command polls the pinned process, or the identity, until it is gone.
SeeStopped(c) ==
    /\ client[c].pc = "wait"
    /\ IF client[c].pin /= 0 THEN ~Alive(<<client[c].id[1], client[c].pin>>)
                             ELSE ~identity_alive(client[c].id)
    /\ client' = [client EXCEPT ![c].pc = "stopped"]
    /\ UNCHANGED <<proc, starts, daemon, file, crashed, failed>>

\* ... for 15 seconds at most.
GiveUp(c) ==
    /\ client[c].pc = "wait"
    /\ client' = [client EXCEPT ![c].pc = "error"]
    /\ UNCHANGED <<proc, starts, daemon, file, crashed, failed>>

\* Every command has ended.
Done == /\ \A c \in Clients : client[c].pc \in {"stopped", "running", "none", "hidden", "error"}
        /\ UNCHANGED vars

Next ==
    \/ \E p \in Pids : StrangerStarts(p) \/ StrangerEnds(p)
    \/ \E d \in Daemons : \/ \E p \in Pids : Start(d, p)
                          \/ FailEarly(d) \/ Mount(d) \/ OpenPidFile(d) \/ WritePidFile(d)
                          \/ RollBack(d) \/ Abandon(d) \/ AwaitShutdown(d) \/ Terminate(d)
                          \/ BeginStop(d) \/ Unmount(d) \/ FinishStop(d) \/ Crash(d)
    \/ \E c \in Clients : \/ \E cmd \in {"stop", "status"} : ReadPidFile(c, cmd)
                          \/ Classify(c) \/ RemoveStale(c) \/ OpenPidfd(c)
                          \/ CheckIdentity(c) \/ SendSignal(c) \/ SeeStopped(c) \/ GiveUp(c)
    \/ Done

Spec == Init /\ [][Next]_vars

-----------------------------------------------------------------------------
(* Properties.                                                             *)

\* `stop` signals through a pidfd nobody but the process whose identity it read
\* from the pid file, however often the pid was reused since: opening the pidfd
\* before checking the identity again (signal_linux_daemon) is what makes it so.
SignalsPinned ==
    \A c \in Clients : client[c].pin /= 0 /\ client[c].sent /= 0
                          => client[c].sent = client[c].id[2]

\* The cleanup of daemon d got by: it did not crash, and that part did not fail.
Cleaned(d, part) == d \notin crashed /\ <<d, part>> \notin failed

\* When `stop` says "stopped", the daemon it read from the pid file is gone, and
\* it has unmounted, unless it crashed or umount2 failed: "stopped" says nothing
\* of an unmount that failed, which only the daemon's own status and log tell.
StoppedIsGone ==
    \A c \in Clients : client[c].pc = "stopped" =>
        /\ ~Alive(client[c].id)
        /\ \A d \in Daemons : daemon[d].id = client[c].id /\ Cleaned(d, "umount")
                                  => ~daemon[d].mounted

\* A pid file outlives daemons only if one of them crashed or could not remove
\* it: a start that failed and a stop remove it (Daemon::start, Daemon::stop),
\* also when a daemon that stops and one that starts share the file.  A start that
\* fails before it mounts removes nothing: it finds no file but of such daemons,
\* or of one that will still remove it.
StaleOnlyAfterCrash ==
    /\ file /= NoFile => \E d \in Daemons : \/ daemon[d].pc \notin {"idle", "starting", "gone"}
                                            \/ ~Cleaned(d, "unlink")
    /\ \A d \in Daemons : /\ file /= NoFile
                          /\ file.text = daemon[d].id
                          /\ daemon[d].pc = "gone"
                          => ~Cleaned(d, "unlink") \/ file.text = Nobody

\* Together, with the types: what the pid file may hold.
RecordSound == TypeOK /\ StaleOnlyAfterCrash

-----------------------------------------------------------------------------
(* What the code says of itself and does not keep.                         *)

\* README: "SIGTERM the running daemon (unmounts cleanly)".  The command reports
\* the daemon's end, not that of its mounts.
StopUnmounts ==
    \A c \in Clients : client[c].pc = "stopped" =>
        \A d \in Daemons : daemon[d].id = client[c].id /\ d \notin crashed => ~daemon[d].mounted

\* A daemon that serves can be found: the pid file names it.  "Record this
\* process's PID so `file-guard stop`/`status` can find it" (write_pid_file).
PidFileNamesServing ==
    \A d \in Daemons : daemon[d].pc \in {"serving", "waiting"}
                          => file /= NoFile /\ file.text = daemon[d].id

\* `stop` and `status` remove a record only after they found it stale: never the
\* record of a daemon that lives (process_from).
RemovesOnlyStale ==
    [][\A c \in Clients : RemoveStale(c) /\ file /= NoFile /\ file' = NoFile
                              => ~Alive(file.text)]_vars

\* SIGTERM from `stop` never ends a daemon that still has its mounts: "the daemon
\* always runs its unmount path instead of being killed with live mounts"
\* (wait_for_shutdown).
SignalUnmounts ==
    [][\A c \in Clients, d \in Daemons :
          SendSignal(c) /\ daemon[d].mounted /\ daemon[d].pc /= "gone"
             => daemon'[d].pc /= "gone"]_vars

=============================================================================
