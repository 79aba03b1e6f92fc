------------------------- MODULE DaemonFilesProofs -------------------------
(***************************************************************************)
(* Proofs about the two files a daemon shares with the commands: the pid   *)
(* file (DaemonControl) and the audit log (AuditLog).                      *)
(*                                                                         *)
(* DaemonControl: what the pid file may say, whom `stop` signals, and what *)
(* it knows when it says "stopped".  Pids are reused and start times are   *)
(* not.  All three properties come from that: an identity that was given   *)
(* out before now and is not alive never lives again.  So a command may    *)
(* act upon what it read, however long ago, when it found it alive while   *)
(* it held the process.                                                    *)
(*                                                                         *)
(* AuditLog: records stay whole because the lock of a file keeps a begun   *)
(* record at its end, and `log -f' prints each record once because its     *)
(* cursor stands between lines and what it passed was printed.             *)
(***************************************************************************)
EXTENDS DaemonControl, AuditLog, TLAPS, SequenceTheorems, WellFoundedInduction,
        NaturalsInduction

-----------------------------------------------------------------------------
(* DaemonControl: the inductive invariant.                                 *)

\* Start times are given out in order.
Dated == \A p \in Pids : proc[p] <= starts

\* A daemon that was started has an identity that was given out, and it is
\* alive until the daemon is gone.
Known == \A d \in Daemons :
    /\ daemon[d].pc = "idle"  => daemon[d].id = Nobody /\ ~daemon[d].mounted
    /\ daemon[d].pc /= "idle" => /\ daemon[d].id \in Identity
                                 /\ daemon[d].id[2] <= starts
                                 /\ Alive(daemon[d].id) <=> daemon[d].pc /= "gone"

\* No two daemons have the same start time.
Apart == \A d, e \in Daemons : d /= e /\ daemon[d].pc /= "idle" /\ daemon[e].pc /= "idle"
                                 => daemon[d].id[2] /= daemon[e].id[2]

\* A daemon that has not mounted yet, or is past its unmounting, holds no mount
\* unless it crashed or its unmount failed.
Unmounted == \A d \in Daemons :
    daemon[d].pc \in {"starting", "abandoned", "released", "gone"} /\ Cleaned(d, "umount")
        => ~daemon[d].mounted

\* What the pid file says was given out.
Published == file /= NoFile => file.text[2] <= starts

\* ... but not to a daemon that has yet to mount.
Unnamed == \A d \in Daemons :
    daemon[d].pc = "starting" /\ file /= NoFile => file.text /= daemon[d].id

\* What a command has read was given out; it pins one process, after reading and
\* before signalling; and if that is not the one it read of, that one is gone.
Informed(c) ==
    /\ client[c].id[2] <= starts
    /\ client[c].pc \notin {"idle", "none"} => client[c].id \in Identity
    /\ client[c].pc \in {"idle", "read", "open"} => client[c].pin = 0
    /\ client[c].pc \in {"idle", "read", "open", "check", "signal"} => client[c].sent = 0
    /\ client[c].pc = "check" /\ client[c].pin \notin {0, client[c].id[2]}
          => ~Alive(client[c].id)
    /\ client[c].pc \in {"signal", "wait"} => client[c].pin \in {0, client[c].id[2]}
    /\ client[c].pc = "stopped" => ~Alive(client[c].id)
    /\ client[c].pin /= 0 /\ client[c].sent /= 0 => client[c].sent = client[c].id[2]

Commands == \A c \in Clients : Informed(c)

Kept == /\ TypeOK
        /\ Dated /\ Known /\ Apart /\ Unmounted
        /\ Published /\ Unnamed /\ StaleOnlyAfterCrash
        /\ Commands

-----------------------------------------------------------------------------
(* What never comes back.                                                  *)

\* What any step does to the processes: one that is not what it was is gone, or
\* was started later than all before.
Onward == /\ starts' \in Nat /\ starts <= starts'
          /\ \A p \in Pids : proc'[p] \in {proc[p], 0} \/ proc'[p] > starts

\* An identity that was given out and is not alive is never alive again.
LEMMA NeverAgain ==
    ASSUME TypeOK, Onward, NEW i \in Identity, i[2] <= starts, ~Alive(i)
    PROVE  ~(i[1] \in Pids /\ proc'[i[1]] = i[2])
<1>1. i[1] \in Pids /\ i[2] \in 1 .. MaxStart
  BY DEF Identity
<1>2. proc[i[1]] /= i[2]
  BY <1>1 DEF Alive
<1>3. proc'[i[1]] \in {proc[i[1]], 0} \/ proc'[i[1]] > starts
  BY <1>1 DEF Onward
<1>4. starts \in Nat /\ i[2] \in Nat /\ i[2] /= 0
  BY <1>1, ControlAssumption DEF TypeOK
<1>5. proc'[i[1]] > starts => proc'[i[1]] /= i[2]
  BY <1>4
<1> QED
  BY <1>2, <1>3, <1>4, <1>5

\* Processes that stand still go onward.
LEMMA StillOnward ==
    ASSUME TypeOK, UNCHANGED <<proc, starts>> PROVE Onward
  BY ControlAssumption DEF TypeOK, Onward

\* Nobody is alive.
LEMMA NobodyIsNot == Nobody \notin Identity /\ ~Alive(Nobody) /\ Nobody[1] = 0 /\ Nobody[2] = 0
  BY ControlAssumption DEF Nobody, Identity, Alive

\* A command that does nothing stays informed, whatever processes do.
LEMMA CommandStands ==
    ASSUME TypeOK, Onward, NEW c \in Clients, Informed(c), client'[c] = client[c]
    PROVE  Informed(c)'
<1>1. client[c].pc \in {"check", "stopped"} /\ ~Alive(client[c].id) => ~Alive(client[c].id)'
  <2> SUFFICES ASSUME client[c].pc \in {"check", "stopped"}, ~Alive(client[c].id)
               PROVE  ~Alive(client[c].id)'
    OBVIOUS
  <2>1. client[c].id \in Identity /\ client[c].id[2] <= starts
    BY DEF Informed
  <2>2. ~(client[c].id[1] \in Pids /\ proc'[client[c].id[1]] = client[c].id[2])
    BY <2>1, NeverAgain
  <2> QED
    BY <2>2 DEF Alive
<1>2. client[c].id[2] <= starts'
  <2>1. client[c].id[2] \in Nat
    BY ControlAssumption, NobodyIsNot DEF TypeOK, Identity
  <2>2. starts \in Nat /\ starts' \in Nat /\ client[c].id[2] <= starts /\ starts <= starts'
    BY ControlAssumption DEF TypeOK, Onward, Informed
  <2> QED
    BY <2>1, <2>2
<1> QED
  BY <1>1, <1>2 DEF Informed

LEMMA CommandsStand ==
    ASSUME TypeOK, Onward, Commands, UNCHANGED client
    PROVE  Commands'
  BY CommandStands DEF Commands

\* What the file says was given out stays so.
LEMMA PublishedStands ==
    ASSUME TypeOK, Onward, Published, UNCHANGED file PROVE Published'
<1>1. file /= NoFile => file.text \in Identity \cup {Nobody} /\ file.text[2] <= starts
  BY DEF TypeOK, File, Published
<1>2. file /= NoFile => file.text[2] \in Nat
  BY <1>1, NobodyIsNot, ControlAssumption DEF Identity
<1>3. starts \in Nat /\ starts' \in Nat /\ starts <= starts'
  BY ControlAssumption DEF TypeOK, Onward
<1> QED
  BY <1>1, <1>2, <1>3 DEF Published

-----------------------------------------------------------------------------
(* The kinds of step a daemon takes, as the invariant sees them.           *)

\* Daemon d, which runs, is at another step and runs; no process changes.
Moved(d) ==
    /\ UNCHANGED <<proc, starts>>
    /\ daemon[d].pc \notin {"idle", "gone"}
    /\ daemon'[d].pc \notin {"idle", "starting", "gone"}
    /\ daemon'[d].id = daemon[d].id
    /\ \A e \in Daemons \ {d} : daemon'[e] = daemon[e]

\* Daemon d, which runs, is gone and its process with it.
Left(d) ==
    /\ UNCHANGED starts
    /\ proc' = [proc EXCEPT ![daemon[d].id[1]] = 0]
    /\ daemon[d].pc \notin {"idle", "gone"} /\ daemon'[d].pc = "gone"
    /\ daemon'[d].id = daemon[d].id
    /\ \A e \in Daemons \ {d} : daemon'[e] = daemon[e]

Census == Dated /\ Known /\ Apart

LEMMA MovedCensus ==
    ASSUME TypeOK, Census, NEW d \in Daemons, Moved(d)
    PROVE  Onward /\ Census'
<1>1. Onward
  BY StillOnward DEF Moved
<1>2. Dated'
  BY DEF Moved, Census, Dated
<1>3. Known'
  <2> SUFFICES ASSUME NEW e \in Daemons
               PROVE  /\ daemon'[e].pc = "idle" => daemon'[e].id = Nobody /\ ~daemon'[e].mounted
                      /\ daemon'[e].pc /= "idle" =>
                            /\ daemon'[e].id \in Identity
                            /\ daemon'[e].id[2] <= starts'
                            /\ Alive(daemon[e].id)' <=> daemon'[e].pc /= "gone"
    BY DEF Known
  <2>1. Alive(daemon[e].id)' <=> Alive(daemon'[e].id)
    BY DEF Moved, Alive
  <2>2. CASE e = d
    BY <2>1, <2>2 DEF Moved, Census, Known
  <2>3. CASE e /= d
    BY <2>1, <2>3 DEF Moved, Census, Known
  <2> QED
    BY <2>2, <2>3
<1>4. Apart'
  <2> SUFFICES ASSUME NEW e \in Daemons, NEW f \in Daemons, e /= f,
                      daemon'[e].pc /= "idle", daemon'[f].pc /= "idle"
               PROVE  daemon'[e].id[2] /= daemon'[f].id[2]
    BY DEF Apart
  <2>1. \A g \in {e, f} : daemon[g].pc /= "idle" /\ daemon'[g].id = daemon[g].id
    BY DEF Moved
  <2> QED
    BY <2>1 DEF Census, Apart
<1> QED
  BY <1>1, <1>2, <1>3, <1>4 DEF Census

\* Two daemons that run have different pids.
LEMMA OwnPid ==
    ASSUME TypeOK, Census, NEW d \in Daemons, NEW e \in Daemons, d /= e,
           daemon[d].pc \notin {"idle", "gone"}, daemon[e].pc \notin {"idle", "gone"}
    PROVE  daemon[d].id[1] /= daemon[e].id[1]
<1>1. Alive(daemon[d].id) /\ Alive(daemon[e].id)
  BY DEF Census, Known
<1>2. daemon[d].id[2] /= daemon[e].id[2]
  BY DEF Census, Apart
<1> QED
  BY <1>1, <1>2 DEF Alive

\* A process that ends is nobody's after.
LEMMA EndedCensus ==
    ASSUME TypeOK, Census, NEW p \in Pids, UNCHANGED starts, proc' = [proc EXCEPT ![p] = 0]
    PROVE  /\ Onward /\ Dated'
           /\ \A i \in Identity : Alive(i)' <=> Alive(i) /\ i[1] /= p
<1>1. proc' \in [Pids -> 0 .. MaxStart] /\ \A q \in Pids : proc'[q] = IF q = p THEN 0 ELSE proc[q]
  BY ControlAssumption DEF TypeOK
<1>2. Onward
  BY <1>1, ControlAssumption DEF TypeOK, Onward
<1>3. Dated'
  BY <1>1, ControlAssumption DEF TypeOK, Census, Dated
<1>4. ASSUME NEW i \in Identity PROVE Alive(i)' <=> Alive(i) /\ i[1] /= p
  <2>1. i[1] \in Pids /\ i[2] /= 0
    BY DEF Identity
  <2> QED
    BY <1>1, <2>1 DEF Alive
<1> QED
  BY <1>2, <1>3, <1>4

LEMMA LeftCensus ==
    ASSUME TypeOK, Census, NEW d \in Daemons, Left(d)
    PROVE  Onward /\ Census'
<1>1. daemon[d].id \in Identity /\ daemon[d].id[1] \in Pids
  BY DEF Left, Census, Known, Identity
<1>2. /\ Onward /\ Dated'
      /\ \A i \in Identity : Alive(i)' <=> Alive(i) /\ i[1] /= daemon[d].id[1]
  BY <1>1, EndedCensus DEF Left
<1>3. Known'
  <2> SUFFICES ASSUME NEW e \in Daemons
               PROVE  /\ daemon'[e].pc = "idle" => daemon'[e].id = Nobody /\ ~daemon'[e].mounted
                      /\ daemon'[e].pc /= "idle" =>
                            /\ daemon'[e].id \in Identity
                            /\ daemon'[e].id[2] <= starts'
                            /\ Alive(daemon[e].id)' <=> daemon'[e].pc /= "gone"
    BY DEF Known
  <2>1. daemon'[e].id = daemon[e].id
    BY DEF Left
  <2>2. CASE e = d
    <3>1. ~Alive(daemon[e].id)'
      BY <1>1, <1>2, <2>1, <2>2 DEF Alive
    <3> QED
      BY <1>1, <2>2, <3>1 DEF Left, Census, Known
  <2>3. CASE e /= d /\ daemon[e].pc \notin {"idle", "gone"}
    <3>1. daemon[e].id \in Identity /\ Alive(daemon[e].id)
          /\ daemon[e].id[1] /= daemon[d].id[1]
      BY <2>3, OwnPid DEF Left, Census, Known
    <3>2. Alive(daemon[e].id)'
      BY <1>2, <2>1, <3>1 DEF Alive
    <3> QED
      BY <2>3, <3>1, <3>2 DEF Left, Census, Known
  <2>4. CASE e /= d /\ daemon[e].pc = "gone"
    <3>1. daemon[e].id \in Identity /\ ~Alive(daemon[e].id)
      BY <2>4 DEF Census, Known
    <3>2. ~Alive(daemon[e].id)'
      BY <1>2, <2>1, <3>1 DEF Alive
    <3> QED
      BY <2>4, <3>1, <3>2 DEF Left, Census, Known
  <2>5. CASE e /= d /\ daemon[e].pc = "idle"
    BY <2>5 DEF Left, Census, Known
  <2> QED
    BY <2>2, <2>3, <2>4, <2>5
<1>4. Apart'
  <2> SUFFICES ASSUME NEW e \in Daemons, NEW f \in Daemons, e /= f,
                      daemon'[e].pc /= "idle", daemon'[f].pc /= "idle"
               PROVE  daemon'[e].id[2] /= daemon'[f].id[2]
    BY DEF Apart
  <2>1. \A g \in {e, f} : daemon[g].pc /= "idle" /\ daemon'[g].id = daemon[g].id
    BY DEF Left
  <2> QED
    BY <2>1 DEF Census, Apart
<1> QED
  BY <1>2, <1>3, <1>4 DEF Census

\* A new process disturbs nobody, and nobody has had its start time.
LEMMA BornCensus ==
    ASSUME TypeOK, Census, NEW p \in Pids, Born(p)
    PROVE  /\ Onward /\ Dated'
           /\ starts' \in 0 .. MaxStart /\ proc' \in [Pids -> 0 .. MaxStart]
           /\ <<p, starts'>> \in Identity /\ Alive(<<p, starts>>)'
           /\ \A i \in Identity : i[2] <= starts => /\ i[2] < starts' /\ i[2] /= starts + 1
                                                    /\ Alive(i)' <=> Alive(i)
<1>1. /\ starts \in Nat /\ starts' = starts + 1 /\ starts' \in 0 .. MaxStart
      /\ starts + 1 \in 1 .. MaxStart /\ proc[p] = 0
  BY ControlAssumption DEF TypeOK, Born
<1>2. /\ proc' \in [Pids -> 0 .. MaxStart]
      /\ \A q \in Pids : proc'[q] = IF q = p THEN starts + 1 ELSE proc[q]
  BY <1>1, ControlAssumption DEF TypeOK, Born
<1>3. Onward
  BY <1>1, <1>2 DEF Onward
<1>4. Dated'
  BY <1>1, <1>2, ControlAssumption DEF TypeOK, Census, Dated
<1>5. <<p, starts'>> \in Identity /\ Alive(<<p, starts>>)'
  BY <1>1, <1>2 DEF Identity, Alive
<1>6. ASSUME NEW i \in Identity, i[2] <= starts
      PROVE  /\ i[2] < starts' /\ i[2] /= starts + 1
             /\ Alive(i)' <=> Alive(i)
  <2>1. i[1] \in Pids /\ i[2] \in Nat /\ i[2] /= 0
    BY ControlAssumption DEF Identity
  <2>2. i[2] < starts' /\ i[2] /= starts + 1
    BY <1>1, <1>6, <2>1
  <2>3. Alive(i)' <=> Alive(i)
    BY <1>1, <1>2, <2>1, <2>2 DEF Alive
  <2> QED
    BY <2>2, <2>3
<1> QED
  BY <1>1, <1>2, <1>3, <1>4, <1>5, <1>6

-----------------------------------------------------------------------------
(* What the pid file says, for the same kinds of step.                     *)

Record == Published /\ Unnamed /\ StaleOnlyAfterCrash

\* What once went wrong stays on record.
Remembered == crashed \subseteq crashed' /\ failed \subseteq failed'

LEMMA MovedRecord ==
    ASSUME TypeOK, Record, NEW d \in Daemons, Moved(d), Remembered, UNCHANGED file
    PROVE  Record'
<1>1. Published'
  BY DEF Moved, Record, Published
<1>2. daemon'[d].pc \notin {"idle", "starting", "gone"}
  BY DEF Moved
<1>3. ASSUME NEW e \in Daemons, file' /= NoFile, file'.text = daemon'[e].id,
             daemon'[e].pc = "gone"
      PROVE  ~Cleaned(e, "unlink")' \/ file'.text = Nobody
  <2>1. e /= d /\ daemon'[e] = daemon[e]
    BY <1>3 DEF Moved
  <2> QED
    BY <1>3, <2>1 DEF Record, StaleOnlyAfterCrash, Remembered, Cleaned
<1>4. Unnamed'
  <2> SUFFICES ASSUME NEW e \in Daemons, daemon'[e].pc = "starting", file' /= NoFile
               PROVE  file'.text /= daemon'[e].id
    BY DEF Unnamed
  <2>1. e /= d /\ daemon'[e] = daemon[e]
    BY <1>2 DEF Moved
  <2> QED
    BY <2>1 DEF Record, Unnamed
<1> QED
  BY <1>1, <1>2, <1>3, <1>4 DEF Record, StaleOnlyAfterCrash

\* A daemon that goes leaves no file, is known not to have removed it, or goes
\* before it has to do with one.
LEMMA LeftRecord ==
    ASSUME TypeOK, Record, NEW d \in Daemons, Left(d), Remembered,
           \/ file' = NoFile
           \/ UNCHANGED file /\ ~Cleaned(d, "unlink")'
           \/ UNCHANGED file /\ daemon[d].pc = "starting"
    PROVE  Record'
<1>1. CASE file' = NoFile
  BY <1>1 DEF Record, Published, Unnamed, StaleOnlyAfterCrash
<1>2. CASE UNCHANGED file /\ file /= NoFile
  <2>1. Published'
    BY <1>2 DEF Left, Record, Published
  <2>2. \A e \in Daemons : ~Cleaned(e, "unlink") => ~Cleaned(e, "unlink")'
    BY DEF Remembered, Cleaned
  <2>3. \E e \in Daemons : \/ daemon'[e].pc \notin {"idle", "starting", "gone"}
                           \/ ~Cleaned(e, "unlink")'
    <3>1. CASE ~Cleaned(d, "unlink")'
      BY <3>1
    <3>2. CASE daemon[d].pc = "starting"
      <4>1. PICK e \in Daemons : \/ daemon[e].pc \notin {"idle", "starting", "gone"}
                                 \/ ~Cleaned(e, "unlink")
        BY <1>2 DEF Record, StaleOnlyAfterCrash
      <4>2. CASE e = d
        BY <2>2, <3>2, <4>1, <4>2
      <4>3. CASE e /= d
        <5>1. daemon'[e] = daemon[e]
          BY <4>3 DEF Left
        <5> QED
          BY <2>2, <4>1, <5>1
      <4> QED
        BY <4>2, <4>3
    <3> QED
      BY <1>2, <3>1, <3>2
  <2>4. ASSUME NEW e \in Daemons, file' /= NoFile, file'.text = daemon'[e].id,
               daemon'[e].pc = "gone"
        PROVE  ~Cleaned(e, "unlink")' \/ file'.text = Nobody
    <3>1. CASE e = d
      <4>1. daemon[d].pc = "starting" => file.text /= daemon[d].id
        BY <1>2 DEF Record, Unnamed
      <4>2. daemon'[d].id = daemon[d].id
        BY DEF Left
      <4> QED
        BY <1>2, <2>4, <3>1, <4>1, <4>2
    <3>2. CASE e /= d
      <4>1. daemon'[e] = daemon[e]
        BY <3>2 DEF Left
      <4>2. ~Cleaned(e, "unlink") \/ file.text = Nobody
        BY <1>2, <2>4, <4>1 DEF Record, StaleOnlyAfterCrash
      <4> QED
        BY <1>2, <2>2, <4>2
    <3> QED
      BY <3>1, <3>2
  <2>5. Unnamed'
    <3> SUFFICES ASSUME NEW e \in Daemons, daemon'[e].pc = "starting", file' /= NoFile
                 PROVE  file'.text /= daemon'[e].id
      BY DEF Unnamed
    <3>1. e /= d /\ daemon'[e] = daemon[e]
      BY DEF Left
    <3> QED
      BY <1>2, <3>1 DEF Record, Unnamed
  <2> QED
    BY <2>1, <2>3, <2>4, <2>5 DEF Record, StaleOnlyAfterCrash
<1> QED
  BY <1>1, <1>2

\* A daemon that changes and does not come to hold mounts past its unmounting.
LEMMA StaysUnmounted ==
    ASSUME Unmounted, NEW d \in Daemons,
           \A e \in Daemons \ {d} : daemon'[e] = daemon[e],
           Remembered,
           /\ daemon'[d].pc \in {"starting", "abandoned", "released", "gone"}
           /\ Cleaned(d, "umount")'
           => ~daemon'[d].mounted
    PROVE  Unmounted'
  BY DEF Unmounted, Remembered, Cleaned

-----------------------------------------------------------------------------
(* The invariant, step by step.                                            *)

LEMMA KeptParts ==
    ASSUME Kept PROVE TypeOK /\ Census /\ Record /\ Unmounted /\ Commands
  BY DEF Kept, Census, Record

LEMMA PartsKept ==
    ASSUME TypeOK, TypeOK', Onward, Census', Record', Unmounted', Commands, UNCHANGED client
    PROVE  Kept'
<1>1. Commands'
  BY CommandsStand
<1> QED
  BY <1>1 DEF Kept, Census, Record

\* The records of a daemon and of a command, one of which most steps change.
Invocation == [pc : DaemonPc, id : Identity \cup {Nobody},
               fd : Daemons, mounted : BOOLEAN, term : BOOLEAN]

Command == [pc : ClientPc, cmd : {"stop", "status"}, id : Identity \cup {Nobody},
            pin : 0 .. MaxStart, sent : 0 .. MaxStart]

Parts == Daemons \X {"umount", "unlink"}

LEMMA DaemonTyped ==
    ASSUME TypeOK, daemon' \in [Daemons -> Invocation],
           UNCHANGED <<proc, starts, client>>, file' \in File, crashed' \subseteq Daemons, failed' \subseteq Parts
    PROVE  TypeOK'
  BY DEF TypeOK, Invocation, Parts

LEMMA InvocationTyped ==
    ASSUME TypeOK, NEW d \in Daemons, NEW r \in Invocation, daemon' = [daemon EXCEPT ![d] = r]
    PROVE  daemon' \in [Daemons -> Invocation]
  BY DEF TypeOK, Invocation

LEMMA InitKept == Init => Kept
<1> SUFFICES ASSUME Init PROVE Kept
  OBVIOUS
<1>1. TypeOK
  <2>1. proc \in [Pids -> 0 .. MaxStart] /\ starts \in 0 .. MaxStart
    BY ControlAssumption DEF Init
  <2>2. daemon \in [Daemons -> [pc : DaemonPc, id : Identity \cup {Nobody},
                                fd : Daemons, mounted : BOOLEAN, term : BOOLEAN]]
    BY DEF Init, DaemonPc
  <2>3. client \in [Clients -> [pc : ClientPc, cmd : {"stop", "status"},
                                id : Identity \cup {Nobody}, pin : 0 .. MaxStart,
                                sent : 0 .. MaxStart]]
    BY ControlAssumption DEF Init, ClientPc
  <2>4. file \in File /\ crashed \subseteq Daemons /\ failed = {}
    BY DEF Init, File
  <2> QED
    BY <2>1, <2>2, <2>3, <2>4 DEF TypeOK
<1>2. Dated /\ Known /\ Apart /\ Unmounted
  BY DEF Init, Dated, Known, Apart, Unmounted
<1>3. Published /\ Unnamed /\ StaleOnlyAfterCrash
  BY DEF Init, Published, Unnamed, StaleOnlyAfterCrash
<1>4. Commands
  BY NobodyIsNot DEF Init, Commands, Informed
<1> QED
  BY <1>1, <1>2, <1>3, <1>4 DEF Kept

\* The steps of `start` and `stop` at which the daemon goes on.
LEMMA MountKept ==
    ASSUME Kept, NEW d \in Daemons, Mount(d) PROVE Kept'
<1>1. TypeOK /\ Census /\ Record /\ Unmounted /\ Commands
  BY KeptParts
<1>2. TypeOK'
  <2>1. daemon' \in [Daemons -> Invocation]
    BY <1>1 DEF TypeOK, Mount, Goto, DaemonPc, Invocation
  <2> QED
    BY <1>1, <2>1, DaemonTyped DEF TypeOK, Mount, Parts
<1>3. Moved(d)
  BY <1>1 DEF TypeOK, Mount, Goto, Moved
<1>4. Onward /\ Census'
  BY <1>1, <1>3, MovedCensus
<1>5. Record'
  BY <1>1, <1>3, MovedRecord DEF Mount, Remembered
<1>6. Unmounted'
  BY <1>1, StaysUnmounted DEF TypeOK, Mount, Goto, Remembered
<1> QED
  BY <1>1, <1>2, <1>4, <1>5, <1>6, PartsKept DEF Mount

LEMMA AwaitShutdownKept ==
    ASSUME Kept, NEW d \in Daemons, AwaitShutdown(d) PROVE Kept'
<1>1. TypeOK /\ Census /\ Record /\ Unmounted /\ Commands
  BY KeptParts
<1>2. TypeOK'
  <2>1. daemon' \in [Daemons -> Invocation]
    BY <1>1 DEF TypeOK, AwaitShutdown, Goto, DaemonPc, Invocation
  <2> QED
    BY <1>1, <2>1, DaemonTyped DEF TypeOK, AwaitShutdown, Parts
<1>3. Moved(d)
  BY <1>1 DEF TypeOK, AwaitShutdown, Goto, Moved
<1>4. Onward /\ Census'
  BY <1>1, <1>3, MovedCensus
<1>5. Record'
  BY <1>1, <1>3, MovedRecord DEF AwaitShutdown, Remembered
<1>6. Unmounted'
  BY <1>1, StaysUnmounted DEF TypeOK, AwaitShutdown, Goto, Remembered
<1> QED
  BY <1>1, <1>2, <1>4, <1>5, <1>6, PartsKept DEF AwaitShutdown

LEMMA TerminateKept ==
    ASSUME Kept, NEW d \in Daemons, Terminate(d) PROVE Kept'
<1>1. TypeOK /\ Census /\ Record /\ Unmounted /\ Commands
  BY KeptParts
<1>2. TypeOK'
  <2>1. daemon' \in [Daemons -> Invocation]
    <3> DEFINE next == [daemon[d] EXCEPT !.term = TRUE]
    <3>1. daemon[d] \in Invocation
      BY <1>1 DEF TypeOK, Invocation
    <3>2. next \in Invocation
      BY <3>1 DEF Invocation, DaemonPc
    <3>3. daemon' = [daemon EXCEPT ![d] = next]
      BY <1>1 DEF TypeOK, Terminate
    <3> HIDE DEF next
    <3> QED
      BY <1>1, <3>2, <3>3, InvocationTyped
  <2> QED
    BY <1>1, <2>1, DaemonTyped DEF TypeOK, Terminate, Parts
<1>3. Moved(d)
  BY <1>1 DEF TypeOK, Terminate, Goto, Moved
<1>4. Onward /\ Census'
  BY <1>1, <1>3, MovedCensus
<1>5. Record'
  BY <1>1, <1>3, MovedRecord DEF Terminate, Remembered
<1>6. Unmounted'
  BY <1>1, StaysUnmounted DEF TypeOK, Terminate, Goto, Remembered
<1> QED
  BY <1>1, <1>2, <1>4, <1>5, <1>6, PartsKept DEF Terminate

LEMMA BeginStopKept ==
    ASSUME Kept, NEW d \in Daemons, BeginStop(d) PROVE Kept'
<1>1. TypeOK /\ Census /\ Record /\ Unmounted /\ Commands
  BY KeptParts
<1>2. TypeOK'
  <2>1. daemon' \in [Daemons -> Invocation]
    BY <1>1 DEF TypeOK, BeginStop, Goto, DaemonPc, Invocation
  <2> QED
    BY <1>1, <2>1, DaemonTyped DEF TypeOK, BeginStop, Parts
<1>3. Moved(d)
  BY <1>1 DEF TypeOK, BeginStop, Goto, Moved
<1>4. Onward /\ Census'
  BY <1>1, <1>3, MovedCensus
<1>5. Record'
  BY <1>1, <1>3, MovedRecord DEF BeginStop, Remembered
<1>6. Unmounted'
  BY <1>1, StaysUnmounted DEF TypeOK, BeginStop, Goto, Remembered
<1> QED
  BY <1>1, <1>2, <1>4, <1>5, <1>6, PartsKept DEF BeginStop

\* A daemon unmounts, or notes that it could not.
LEMMA UnmountsKept ==
    ASSUME Kept, NEW d \in Daemons, NEW pc \in {"abandoned", "released"},
           daemon[d].pc \notin {"idle", "gone"}, Unmounts(d, pc),
           UNCHANGED <<proc, starts, file, client, crashed>>
    PROVE  Kept'
<1>1. TypeOK /\ Census /\ Record /\ Unmounted /\ Commands
  BY KeptParts
<1>2. daemon[d] \in Invocation
  BY <1>1 DEF TypeOK, Invocation
<1>3. PICK m \in BOOLEAN :
         /\ daemon' = [daemon EXCEPT ![d].pc = pc, ![d].mounted = m]
         /\ m => failed' = failed \cup {<<d, "umount">>}
         /\ failed' \in {failed, failed \cup {<<d, "umount">>}}
  <2>1. CASE daemon' = [daemon EXCEPT ![d].pc = pc, ![d].mounted = FALSE] /\ UNCHANGED failed
    BY <2>1
  <2>2. CASE daemon[d].mounted /\ Goto(d, pc) /\ Fails(d, "umount")
    <3>1. daemon' = [daemon EXCEPT ![d].pc = pc, ![d].mounted = daemon[d].mounted]
      BY <1>1, <1>2, <2>2 DEF TypeOK, Goto, Invocation
    <3>2. daemon[d].mounted \in BOOLEAN
      BY <1>2 DEF Invocation
    <3> QED
      BY <2>2, <3>1, <3>2 DEF Fails
  <2> QED
    BY <2>1, <2>2 DEF Unmounts
<1> DEFINE next == [daemon[d] EXCEPT !.pc = pc, !.mounted = m]
<1>4. /\ next \in Invocation /\ next.pc = pc /\ next.id = daemon[d].id
      /\ next.mounted = m
  BY <1>2 DEF Invocation, DaemonPc
<1>5. daemon' = [daemon EXCEPT ![d] = next]
  BY <1>1, <1>3 DEF TypeOK
<1> HIDE DEF next
<1>6. daemon'[d] = next /\ \A e \in Daemons \ {d} : daemon'[e] = daemon[e]
  BY <1>1, <1>5 DEF TypeOK
<1>7. Moved(d)
  BY <1>4, <1>6 DEF Moved
<1>8. Remembered /\ failed' \subseteq Parts
  BY <1>1, <1>3 DEF Remembered, TypeOK, Parts
<1>9. TypeOK'
  <2>1. daemon' \in [Daemons -> Invocation]
    BY <1>1, <1>4, <1>5, InvocationTyped
  <2> QED
    BY <1>1, <1>8, <2>1, DaemonTyped DEF TypeOK
<1>10. Onward /\ Census'
  BY <1>1, <1>7, MovedCensus
<1>11. Record'
  BY <1>1, <1>7, <1>8, MovedRecord
<1>12. Unmounted'
  <2>1. Cleaned(d, "umount")' => ~daemon'[d].mounted
    BY <1>3, <1>4, <1>6 DEF Cleaned
  <2> QED
    BY <1>1, <1>6, <1>8, <2>1, StaysUnmounted
<1> QED
  BY <1>1, <1>9, <1>10, <1>11, <1>12, PartsKept

LEMMA UnmountKept ==
    ASSUME Kept, NEW d \in Daemons, Unmount(d) PROVE Kept'
  BY UnmountsKept DEF Unmount

LEMMA RollBackKept ==
    ASSUME Kept, NEW d \in Daemons, RollBack(d) PROVE Kept'
  BY UnmountsKept DEF RollBack

\* The file that is opened says nothing yet.
LEMMA OpenPidFileKept ==
    ASSUME Kept, NEW d \in Daemons, OpenPidFile(d) PROVE Kept'
<1>1. TypeOK /\ Census /\ Record /\ Unmounted /\ Commands
  BY KeptParts
<1>2. Moved(d)
  BY <1>1 DEF TypeOK, OpenPidFile, Goto, Moved
<1>3. Onward /\ Census'
  BY <1>1, <1>2, MovedCensus
<1>4. Unmounted'
  BY <1>1, StaysUnmounted DEF TypeOK, OpenPidFile, Goto, Remembered
<1>5. CASE UNCHANGED file
  <2>1. TypeOK'
    <3>1. file' \in File
      BY <1>1, <1>5 DEF TypeOK
    <3>2. daemon'[d].fd \in Daemons /\ daemon'[d].pc \in DaemonPc
      BY <1>1, <1>5 DEF TypeOK, OpenPidFile, Goto, DaemonPc, File
    <3> QED
      BY <1>1, <3>1, <3>2 DEF TypeOK, OpenPidFile, Goto
  <2>2. Record'
    BY <1>1, <1>2, <1>5, MovedRecord DEF OpenPidFile, Remembered
  <2> QED
    BY <1>1, <1>3, <1>4, <2>1, <2>2, PartsKept DEF OpenPidFile
<1>6. CASE file' /= file
  <2> DEFINE inode == IF file = NoFile THEN d ELSE file.inode
  <2>1. inode \in Daemons
    BY <1>1 DEF TypeOK, File
  <2>2. /\ file' = [inode |-> inode, text |-> Nobody]
        /\ daemon' = [daemon EXCEPT ![d].pc = "publishing", ![d].fd = inode]
        /\ UNCHANGED <<proc, starts, client, crashed, failed>>
    BY <1>6 DEF OpenPidFile
  <2> HIDE DEF inode
  <2>3. TypeOK'
    <3>1. file' \in File
      BY <2>1, <2>2 DEF File
    <3>2. daemon' \in [Daemons -> Invocation]
      <4> DEFINE next == [daemon[d] EXCEPT !.pc = "publishing", !.fd = inode]
      <4>1. daemon[d] \in Invocation
        BY <1>1 DEF TypeOK, Invocation
      <4>2. next \in Invocation
        BY <4>1, <2>1, <2>2 DEF Invocation, DaemonPc
      <4>3. daemon' = [daemon EXCEPT ![d] = next]
        BY <1>1, <2>1, <2>2 DEF TypeOK
      <4> HIDE DEF next
      <4> QED
        BY <1>1, <4>2, <4>3, InvocationTyped
    <3> QED
      BY <1>1, <2>2, <3>1, <3>2, DaemonTyped DEF TypeOK, Parts
  <2>4. Record'
    <3>1. file'.text = Nobody /\ Nobody[2] = 0
      BY <2>2, NobodyIsNot
    <3>2. Published'
      BY <1>1, <2>2, <3>1, ControlAssumption DEF TypeOK, Published
    <3>3. daemon'[d].pc \notin {"idle", "starting", "gone"}
      BY <1>2 DEF Moved
    <3>4. \A e \in Daemons : daemon'[e].pc /= "idle" => daemon'[e].id /= Nobody
      BY <1>3, NobodyIsNot DEF Census, Known
    <3>5. Unnamed'
      BY <3>1, <3>4 DEF Unnamed
    <3> QED
      BY <3>1, <3>2, <3>3, <3>5 DEF Record, StaleOnlyAfterCrash
  <2> QED
    BY <1>1, <1>3, <1>4, <2>2, <2>3, <2>4, PartsKept
<1> QED
  BY <1>5, <1>6

\* What is written is the identity of a daemon that lives, and nobody else's.
LEMMA WritePidFileKept ==
    ASSUME Kept, NEW d \in Daemons, WritePidFile(d) PROVE Kept'
<1>1. TypeOK /\ Census /\ Record /\ Unmounted /\ Commands
  BY KeptParts
<1>2. Moved(d)
  BY <1>1 DEF TypeOK, WritePidFile, Goto, Moved
<1>3. Onward /\ Census'
  BY <1>1, <1>2, MovedCensus
<1>4. Unmounted'
  BY <1>1, StaysUnmounted DEF TypeOK, WritePidFile, Goto, Remembered
<1>5. file' \in File
  BY <1>1 DEF TypeOK, WritePidFile, File
<1>6. TypeOK'
  BY <1>1, <1>5 DEF TypeOK, WritePidFile, Goto, DaemonPc
<1>7. CASE UNCHANGED file
  <2>1. Record'
    BY <1>1, <1>2, <1>7, MovedRecord DEF WritePidFile, Remembered
  <2> QED
    BY <1>1, <1>3, <1>4, <1>6, <2>1, PartsKept DEF WritePidFile
<1>8. CASE file' /= file
  <2>1. file'.text = daemon[d].id /\ daemon'[d].id = daemon[d].id
    <3>1. file /= NoFile /\ file' = [file EXCEPT !.text = daemon[d].id]
      BY <1>8 DEF WritePidFile
    <3> QED
      BY <1>1, <1>2, <3>1 DEF TypeOK, File, Moved
  <2>2. /\ daemon[d].pc \notin {"idle", "gone"}
        /\ daemon'[d].pc \notin {"idle", "starting", "gone"}
    BY <1>2 DEF Moved
  <2>3. Published'
    BY <1>1, <1>2, <2>1, <2>2 DEF Moved, Published, Census, Known
  <2>4. ASSUME NEW e \in Daemons, daemon'[e].pc \in {"starting", "gone"}
        PROVE  file'.text /= daemon'[e].id
    <3>1. e /= d /\ daemon'[e] = daemon[e] /\ daemon[e].pc \in {"starting", "gone"}
      BY <2>2, <2>4, <1>2 DEF Moved
    <3>2. daemon[e].id[2] /= daemon[d].id[2]
      BY <1>1, <2>2, <3>1 DEF Census, Apart
    <3> QED
      BY <2>1, <3>1, <3>2
  <2>5. Record'
    BY <2>2, <2>3, <2>4 DEF Record, Unnamed, StaleOnlyAfterCrash
  <2> QED
    BY <1>1, <1>3, <1>4, <1>6, <2>5, PartsKept DEF WritePidFile
<1> QED
  BY <1>7, <1>8

-----------------------------------------------------------------------------
(* Processes that start, and processes that end.                           *)

LEMMA StrangerStartsKept ==
    ASSUME Kept, NEW p \in Pids, StrangerStarts(p) PROVE Kept'
<1>1. TypeOK /\ Census /\ Record /\ Unmounted /\ Commands
  BY KeptParts
<1>2. Born(p) /\ UNCHANGED <<daemon, file, client, crashed, failed>>
  BY DEF StrangerStarts
<1>3. /\ Onward /\ Dated'
      /\ starts' \in 0 .. MaxStart /\ proc' \in [Pids -> 0 .. MaxStart]
      /\ \A i \in Identity : i[2] <= starts => i[2] < starts' /\ (Alive(i)' <=> Alive(i))
  BY <1>1, <1>2, BornCensus
<1>4. TypeOK'
  BY <1>1, <1>2, <1>3 DEF TypeOK
<1>5. Known'
  <2> SUFFICES ASSUME NEW e \in Daemons
               PROVE  /\ daemon[e].pc = "idle" => daemon[e].id = Nobody /\ ~daemon[e].mounted
                      /\ daemon[e].pc /= "idle" =>
                            /\ daemon[e].id \in Identity
                            /\ daemon[e].id[2] <= starts'
                            /\ Alive(daemon[e].id)' <=> daemon[e].pc /= "gone"
    BY <1>2 DEF Known
  <2>1. CASE daemon[e].pc = "idle"
    BY <1>1, <2>1 DEF Census, Known
  <2>2. CASE daemon[e].pc /= "idle"
    <3>1. daemon[e].id \in Identity /\ daemon[e].id[2] <= starts
          /\ (Alive(daemon[e].id) <=> daemon[e].pc /= "gone")
      BY <1>1, <2>2 DEF Census, Known
    <3>2. Alive(daemon[e].id)' <=> Alive(daemon[e].id)
      BY <1>2, <1>3, <3>1 DEF Alive
    <3>3. daemon[e].id[2] <= starts'
      <4>1. daemon[e].id[2] < starts' /\ daemon[e].id[2] \in Nat /\ starts' \in Nat
        BY <1>3, <3>1, ControlAssumption DEF Identity
      <4> QED
        BY <4>1
    <3> QED
      BY <2>2, <3>1, <3>2, <3>3
  <2> QED
    BY <2>1, <2>2
<1>6. Census'
  BY <1>1, <1>2, <1>3, <1>5 DEF Census, Apart
<1>7. Record'
  <2>1. Published'
    BY <1>1, <1>2, <1>3, PublishedStands DEF Record
  <2> QED
    BY <1>1, <1>2, <2>1 DEF Record, Unnamed, StaleOnlyAfterCrash, Cleaned
<1>8. Unmounted'
  BY <1>1, <1>2 DEF Unmounted, Cleaned
<1> QED
  BY <1>1, <1>2, <1>3, <1>4, <1>6, <1>7, <1>8, PartsKept

\* A daemon that starts is apart from all that started before.
LEMMA StartKept ==
    ASSUME Kept, NEW d \in Daemons, NEW p \in Pids, Start(d, p) PROVE Kept'
<1>1. TypeOK /\ Census /\ Record /\ Unmounted /\ Commands
  BY KeptParts
<1>2. /\ Born(p) /\ UNCHANGED <<file, client, crashed, failed>>
      /\ daemon[d].pc = "idle" /\ starts' = starts + 1
      /\ daemon' = [daemon EXCEPT ![d].pc = "starting", ![d].id = <<p, starts'>>]
  BY DEF Start, Born
<1>3. /\ Onward /\ Dated'
      /\ starts' \in 0 .. MaxStart /\ proc' \in [Pids -> 0 .. MaxStart]
      /\ <<p, starts'>> \in Identity /\ Alive(<<p, starts>>)'
      /\ \A i \in Identity : i[2] <= starts => /\ i[2] < starts' /\ i[2] /= starts'
                                               /\ Alive(i)' <=> Alive(i)
  BY <1>1, <1>2, BornCensus
<1>4. TypeOK'
  <2> DEFINE next == [daemon[d] EXCEPT !.pc = "starting", !.id = <<p, starts'>>]
  <2>1. daemon[d] \in Invocation
    BY <1>1 DEF TypeOK, Invocation
  <2>2. next \in Invocation
    BY <2>1, <1>3 DEF Invocation, DaemonPc
  <2>3. daemon' = [daemon EXCEPT ![d] = next]
    BY <1>1, <1>2 DEF TypeOK
  <2> HIDE DEF next
  <2>4. daemon' \in [Daemons -> Invocation]
    BY <1>1, <2>2, <2>3, InvocationTyped
  <2> QED
    BY <1>1, <1>2, <1>3, <2>4 DEF TypeOK, Invocation
<1>5. /\ daemon'[d].pc = "starting" /\ daemon'[d].id = <<p, starts'>>
      /\ daemon'[d].mounted = daemon[d].mounted
      /\ \A e \in Daemons \ {d} : daemon'[e] = daemon[e]
  BY <1>1, <1>2 DEF TypeOK
<1>6. ASSUME NEW e \in Daemons, e /= d, daemon[e].pc /= "idle"
      PROVE  /\ daemon'[e].id \in Identity /\ daemon'[e].id[2] <= starts'
             /\ daemon'[e].id[2] /= starts'
             /\ Alive(daemon[e].id)' <=> daemon'[e].pc /= "gone"
  <2>1. daemon[e].id \in Identity /\ daemon[e].id[2] <= starts
        /\ (Alive(daemon[e].id) <=> daemon[e].pc /= "gone")
    BY <1>1, <1>6 DEF Census, Known
  <2>2. daemon'[e] = daemon[e]
    BY <1>5, <1>6
  <2>3. Alive(daemon[e].id)' <=> Alive(daemon[e].id)
    BY <1>3, <2>1, <2>2 DEF Alive
  <2>4. daemon[e].id[2] < starts' /\ daemon[e].id[2] \in Nat /\ starts' \in Nat
    BY <1>3, <2>1, ControlAssumption DEF Identity
  <2>5. daemon[e].id[2] <= starts' /\ daemon[e].id[2] /= starts'
    BY <2>4
  <2> QED
    BY <2>1, <2>2, <2>3, <2>5
<1>7. Known'
  <2> SUFFICES ASSUME NEW e \in Daemons
               PROVE  /\ daemon'[e].pc = "idle" => daemon'[e].id = Nobody /\ ~daemon'[e].mounted
                      /\ daemon'[e].pc /= "idle" =>
                            /\ daemon'[e].id \in Identity
                            /\ daemon'[e].id[2] <= starts'
                            /\ Alive(daemon[e].id)' <=> daemon'[e].pc /= "gone"
    BY DEF Known
  <2>1. CASE e = d
    <3>1. Alive(daemon[e].id)'
      BY <1>3, <1>5, <2>1 DEF Alive
    <3>2. daemon'[e].id[2] <= starts'
      BY <1>3, <1>5, <2>1, ControlAssumption
    <3> QED
      BY <1>3, <1>5, <2>1, <3>1, <3>2
  <2>2. CASE e /= d /\ daemon[e].pc = "idle"
    BY <1>1, <1>5, <2>2 DEF Census, Known
  <2>3. CASE e /= d /\ daemon[e].pc /= "idle"
    BY <1>5, <1>6, <2>3
  <2> QED
    BY <2>1, <2>2, <2>3
<1>8. Apart'
  <2> SUFFICES ASSUME NEW e \in Daemons, NEW f \in Daemons, e /= f,
                      daemon'[e].pc /= "idle", daemon'[f].pc /= "idle"
               PROVE  daemon'[e].id[2] /= daemon'[f].id[2]
    BY DEF Apart
  <2>1. CASE e /= d /\ f /= d
    BY <1>1, <1>5, <2>1 DEF Census, Apart
  <2>2. CASE e = d
    <3>1. daemon'[f].id[2] /= starts'
      BY <1>5, <1>6, <2>2
    <3> QED
      BY <1>5, <2>2, <3>1
  <2>3. CASE f = d
    <3>1. daemon'[e].id[2] /= starts'
      BY <1>5, <1>6, <2>3
    <3> QED
      BY <1>5, <2>3, <3>1
  <2> QED
    BY <2>1, <2>2, <2>3
<1>9. Record'
  <2>1. Published'
    BY <1>1, <1>2, <1>3, PublishedStands DEF Record
  <2>2. \A e \in Daemons : Cleaned(e, "unlink")' <=> Cleaned(e, "unlink")
    BY <1>2 DEF Cleaned
  <2>3. file' /= NoFile => \E e \in Daemons :
                              \/ daemon'[e].pc \notin {"idle", "starting", "gone"}
                              \/ ~Cleaned(e, "unlink")'
    <3> SUFFICES ASSUME file /= NoFile
                 PROVE  \E e \in Daemons :
                           \/ daemon'[e].pc \notin {"idle", "starting", "gone"}
                           \/ ~Cleaned(e, "unlink")'
      BY <1>2
    <3>1. PICK e \in Daemons : \/ daemon[e].pc \notin {"idle", "starting", "gone"}
                               \/ ~Cleaned(e, "unlink")
      BY <1>1 DEF Record, StaleOnlyAfterCrash
    <3>2. CASE e = d
      BY <1>2, <2>2, <3>1, <3>2
    <3>3. CASE e /= d
      BY <1>5, <2>2, <3>1, <3>3
    <3> QED
      BY <3>2, <3>3
  <2>4. ASSUME NEW e \in Daemons, file' /= NoFile, file'.text = daemon'[e].id,
               daemon'[e].pc = "gone"
        PROVE  ~Cleaned(e, "unlink")' \/ file'.text = Nobody
    <3>1. e /= d /\ daemon'[e] = daemon[e]
      BY <1>5, <2>4
    <3> QED
      BY <1>1, <1>2, <2>2, <2>4, <3>1 DEF Record, StaleOnlyAfterCrash
  <2>5. Unnamed'
    <3> SUFFICES ASSUME NEW e \in Daemons, daemon'[e].pc = "starting", file /= NoFile
                 PROVE  file.text /= daemon'[e].id
      BY <1>2 DEF Unnamed
    <3>1. CASE e /= d
      BY <1>1, <1>5, <3>1 DEF Record, Unnamed
    <3>2. CASE e = d
      <4>1. file.text \in Identity \cup {Nobody} /\ file.text[2] <= starts
        BY <1>1 DEF TypeOK, File, Record, Published
      <4>2. file.text[2] \in Nat /\ starts \in Nat
        BY <1>1, <4>1, NobodyIsNot, ControlAssumption DEF TypeOK, Identity
      <4>3. file.text[2] /= starts'
        BY <1>2, <4>1, <4>2
      <4> QED
        BY <1>5, <3>2, <4>3
    <3> QED
      BY <3>1, <3>2
  <2> QED
    BY <2>1, <2>3, <2>4, <2>5 DEF Record, StaleOnlyAfterCrash
<1>10. Unmounted'
  <2>1. ~daemon'[d].mounted
    BY <1>1, <1>2, <1>5 DEF Census, Known
  <2> QED
    BY <1>1, <1>2, <1>5, <2>1, StaysUnmounted DEF Remembered
<1> QED
  BY <1>1, <1>2, <1>3, <1>4, <1>7, <1>8, <1>9, <1>10, PartsKept DEF Census

\* A process that is no daemon's ends.
Reaped(p) == /\ proc' = [proc EXCEPT ![p] = 0]
             /\ \A d \in Daemons : daemon[d].id /= <<p, proc[p]>>
             /\ UNCHANGED <<starts, daemon, crashed, failed>>

LEMMA ReapedCensus ==
    ASSUME TypeOK, Census, NEW p \in Pids, Reaped(p)
    PROVE  Onward /\ Census'
<1>1. /\ Onward /\ Dated'
      /\ \A i \in Identity : Alive(i)' <=> Alive(i) /\ i[1] /= p
  BY EndedCensus DEF Reaped
<1>2. Known'
  <2> SUFFICES ASSUME NEW e \in Daemons, daemon[e].pc /= "idle"
               PROVE  Alive(daemon[e].id)' <=> daemon[e].pc /= "gone"
    BY DEF Reaped, Census, Known
  <2>1. daemon[e].id \in Identity /\ (Alive(daemon[e].id) <=> daemon[e].pc /= "gone")
    BY DEF Census, Known
  <2>2. ~(Alive(daemon[e].id) /\ daemon[e].id[1] = p)
    <3>1. daemon[e].id = <<daemon[e].id[1], daemon[e].id[2]>>
      BY <2>1 DEF Identity
    <3> QED
      BY <3>1 DEF Reaped, Alive
  <2>3. Alive(daemon[e].id)' <=> Alive(daemon[e].id) /\ daemon[e].id[1] /= p
    BY <1>1, <2>1 DEF Reaped, Alive
  <2> QED
    BY <2>1, <2>2, <2>3
<1>3. Apart'
  BY DEF Reaped, Census, Apart
<1> QED
  BY <1>1, <1>2, <1>3 DEF Census

LEMMA StrangerEndsKept ==
    ASSUME Kept, NEW p \in Pids, StrangerEnds(p) PROVE Kept'
<1>1. TypeOK /\ Census /\ Record /\ Unmounted /\ Commands
  BY KeptParts
<1>2. Reaped(p) /\ UNCHANGED <<file, client>>
  BY DEF StrangerEnds, Reaped
<1>3. Onward /\ Census'
  BY <1>1, <1>2, ReapedCensus
<1>4. TypeOK'
  BY <1>1, <1>2, ControlAssumption DEF Reaped, TypeOK
<1>5. Record'
  BY <1>1, <1>2 DEF Reaped, Record, Published, Unnamed, StaleOnlyAfterCrash, Cleaned
<1>6. Unmounted'
  BY <1>1, <1>2 DEF Reaped, Unmounted, Cleaned
<1> QED
  BY <1>1, <1>2, <1>3, <1>4, <1>5, <1>6, PartsKept

\* Processes that end are of the type of processes.
LEMMA ProcTyped ==
    ASSUME NEW f \in [Pids -> 0 .. MaxStart], NEW p
    PROVE  [f EXCEPT ![p] = 0] \in [Pids -> 0 .. MaxStart]
<1>1. 0 \in 0 .. MaxStart
  BY ControlAssumption
<1> QED
  BY <1>1

\* The types after the process of a daemon ended.
LEMMA LeftTyped ==
    ASSUME TypeOK, NEW d \in Daemons, Left(d), NEW r \in Invocation,
           daemon' = [daemon EXCEPT ![d] = r],
           client' \in [Clients -> Command],
           file' \in File, crashed' \subseteq Daemons, failed' \subseteq Parts
    PROVE  TypeOK'
<1>1. daemon' \in [Daemons -> Invocation]
  BY InvocationTyped
<1>2. proc' \in [Pids -> 0 .. MaxStart]
  <2>1. proc' = [proc EXCEPT ![daemon[d].id[1]] = 0]
    BY DEF Left
  <2> QED
    BY <2>1, ProcTyped DEF TypeOK
<1>3. starts' \in 0 .. MaxStart
  BY DEF TypeOK, Left
<1> QED
  BY <1>1, <1>2, <1>3 DEF TypeOK, Invocation, Command, Parts

\* A daemon that ends, and does nothing to its mounts then.
LEMMA EndKept ==
    ASSUME Kept, NEW d \in Daemons, Ended(d), Goto(d, "gone"), UNCHANGED <<starts, client>>,
           daemon[d].pc \in {"starting", "abandoned", "released"} \/ d \in crashed',
           daemon[d].pc \notin {"idle", "gone"},
           file' \in File, crashed' \subseteq Daemons, failed' \subseteq Parts, Remembered,
           \/ file' = NoFile
           \/ UNCHANGED file /\ ~Cleaned(d, "unlink")'
           \/ UNCHANGED file /\ daemon[d].pc = "starting"
    PROVE  Kept'
<1>1. TypeOK /\ Census /\ Record /\ Unmounted /\ Commands
  BY KeptParts
<1> DEFINE next == [daemon[d] EXCEPT !.pc = "gone"]
<1>2. daemon[d] \in Invocation
  BY <1>1 DEF TypeOK, Invocation
<1>3. /\ next \in Invocation /\ next.pc = "gone" /\ next.id = daemon[d].id
      /\ next.mounted = daemon[d].mounted
  BY <1>2 DEF Invocation, DaemonPc
<1>4. daemon' = [daemon EXCEPT ![d] = next]
  BY <1>1 DEF TypeOK, Goto
<1> HIDE DEF next
<1>5. daemon'[d] = next /\ \A e \in Daemons \ {d} : daemon'[e] = daemon[e]
  BY <1>1, <1>4 DEF TypeOK
<1>6. Left(d)
  BY <1>3, <1>5 DEF Ended, Left
<1>7. TypeOK'
  <2>1. client' \in [Clients -> Command]
    BY <1>1 DEF TypeOK, Command
  <2> QED
    BY <1>1, <1>3, <1>4, <1>6, <2>1, LeftTyped
<1>8. Onward /\ Census'
  BY <1>1, <1>6, LeftCensus
<1>9. Record'
  BY <1>1, <1>6, LeftRecord
<1>10. Unmounted'
  <2>1. Cleaned(d, "umount")' => Cleaned(d, "umount") /\ d \notin crashed'
    BY DEF Cleaned, Remembered
  <2>2. Cleaned(d, "umount")' => ~daemon'[d].mounted
    BY <1>1, <1>3, <1>5, <2>1 DEF Unmounted
  <2> QED
    BY <1>1, <1>5, <2>2, StaysUnmounted
<1> QED
  BY <1>1, <1>7, <1>8, <1>9, <1>10, PartsKept

LEMMA FailEarlyKept ==
    ASSUME Kept, NEW d \in Daemons, FailEarly(d) PROVE Kept'
<1>1. TypeOK
  BY KeptParts
<1>2. file' \in File /\ crashed' \subseteq Daemons /\ failed' \subseteq Parts /\ Remembered
  BY <1>1 DEF TypeOK, FailEarly, Parts, Remembered
<1> QED
  BY <1>2, EndKept DEF FailEarly

\* The pid file is removed, or it is on record that it was not.
LEMMA PidFileRemoved ==
    ASSUME TypeOK, NEW d \in Daemons, RemovePidFile(d), UNCHANGED crashed
    PROVE  /\ file' \in File /\ crashed' \subseteq Daemons /\ failed' \subseteq Parts
           /\ Remembered
           /\ file' = NoFile \/ (UNCHANGED file /\ ~Cleaned(d, "unlink")')
  BY DEF TypeOK, File, RemovePidFile, Fails, Parts, Remembered, Cleaned

LEMMA AbandonKept ==
    ASSUME Kept, NEW d \in Daemons, Abandon(d) PROVE Kept'
<1>1. /\ file' \in File /\ crashed' \subseteq Daemons /\ failed' \subseteq Parts
      /\ Remembered
      /\ file' = NoFile \/ (UNCHANGED file /\ ~Cleaned(d, "unlink")')
  BY KeptParts, PidFileRemoved DEF Abandon
<1> QED
  BY <1>1, EndKept DEF Abandon

LEMMA FinishStopKept ==
    ASSUME Kept, NEW d \in Daemons, FinishStop(d) PROVE Kept'
<1>1. /\ file' \in File /\ crashed' \subseteq Daemons /\ failed' \subseteq Parts
      /\ Remembered
      /\ file' = NoFile \/ (UNCHANGED file /\ ~Cleaned(d, "unlink")')
  BY KeptParts, PidFileRemoved DEF FinishStop
<1> QED
  BY <1>1, EndKept DEF FinishStop

LEMMA CrashKept ==
    ASSUME Kept, NEW d \in Daemons, Crash(d) PROVE Kept'
<1>1. TypeOK
  BY KeptParts
<1>2. /\ file' \in File /\ crashed' \subseteq Daemons /\ failed' \subseteq Parts
      /\ Remembered /\ d \in crashed' /\ ~Cleaned(d, "unlink")' /\ UNCHANGED file
  BY <1>1 DEF TypeOK, Crash, Parts, Remembered, Cleaned
<1>3. Ended(d) /\ Goto(d, "gone") /\ UNCHANGED <<starts, client>>
  BY DEF Crash, Goto
<1> QED
  BY <1>2, <1>3, EndKept DEF Crash

-----------------------------------------------------------------------------
(* The commands.                                                           *)

\* A step of a command changes its own record, and may remove the file.
LEMMA CommandKept ==
    ASSUME Kept, NEW c \in Clients, NEW r \in Command, client' = [client EXCEPT ![c] = r],
           UNCHANGED <<proc, starts, daemon, crashed, failed>>, file' = file \/ file' = NoFile,
           Informed(c)'
    PROVE  Kept'
<1>1. TypeOK /\ Census /\ Record /\ Unmounted /\ Commands
  BY KeptParts
<1>2. TypeOK'
  <2>1. client' \in [Clients -> Command]
    BY <1>1 DEF TypeOK, Command
  <2>2. file' \in File
    BY <1>1 DEF TypeOK, File
  <2> QED
    BY <1>1, <2>1, <2>2 DEF TypeOK, Command
<1>3. Census' /\ Unmounted'
  BY <1>1 DEF Census, Dated, Known, Apart, Unmounted, Alive, Cleaned
<1>4. Record'
  BY <1>1 DEF Record, Published, Unnamed, StaleOnlyAfterCrash, Cleaned
<1>5. Commands'
  <2> SUFFICES ASSUME NEW b \in Clients PROVE Informed(b)'
    BY DEF Commands
  <2>1. CASE b = c
    BY <2>1
  <2>2. CASE b /= c
    <3>1. client'[b] = client[b]
      BY <1>1, <2>2 DEF TypeOK
    <3> QED
      BY <1>1, <3>1, StillOnward, CommandStands DEF Commands
  <2> QED
    BY <2>1, <2>2
<1> QED
  BY <1>2, <1>3, <1>4, <1>5 DEF Kept, Census, Record

LEMMA ReadPidFileKept ==
    ASSUME Kept, NEW c \in Clients, NEW cmd \in {"stop", "status"}, ReadPidFile(c, cmd)
    PROVE  Kept'
<1>1. TypeOK /\ Record /\ Commands
  BY KeptParts
<1> DEFINE says == IF file = NoFile THEN Nobody ELSE file.text
           pc == IF says = Nobody THEN "none" ELSE "read"
           next == [client[c] EXCEPT !.pc = pc, !.cmd = cmd, !.id = says]
<1>2. says \in Identity \cup {Nobody} /\ says[2] <= starts
  BY <1>1, NobodyIsNot, ControlAssumption DEF TypeOK, File, Record, Published
<1>3. /\ client' = [client EXCEPT ![c].pc = pc, ![c].cmd = cmd, ![c].id = says]
      /\ UNCHANGED <<proc, starts, daemon, file, crashed, failed>>
      /\ client[c].pc = "idle"
  BY DEF ReadPidFile
<1> HIDE DEF says
<1>4. client[c] \in Command
  BY <1>1 DEF TypeOK, Command
<1>5. /\ next \in Command /\ next.pc = pc /\ next.id = says
      /\ next.pin = client[c].pin /\ next.sent = client[c].sent
  BY <1>2, <1>4 DEF Command, ClientPc
<1>6. client' = [client EXCEPT ![c] = next]
  BY <1>1, <1>3 DEF TypeOK
<1> HIDE DEF next
<1>7. client'[c] = next
  BY <1>1, <1>6 DEF TypeOK
<1>8. client[c].pin = 0 /\ client[c].sent = 0
  BY <1>1, <1>3 DEF Commands, Informed
<1>9. Informed(c)'
  BY <1>2, <1>3, <1>5, <1>7, <1>8 DEF Informed
<1> QED
  BY <1>3, <1>5, <1>6, <1>9, CommandKept

\* A step that changes nothing but where the command is.
LEMMA CommandMoved ==
    ASSUME Kept, NEW c \in Clients, NEW pc \in ClientPc,
           client' = [client EXCEPT ![c].pc = pc],
           UNCHANGED <<proc, starts, daemon, crashed, failed>>, file' = file \/ file' = NoFile,
           client[c].pc \notin {"idle", "none"}, pc \notin {"idle", "read"},
           pc = "open" => client[c].pc = "read",
           pc = "check" => client[c].pc \in {"read", "open"},
           pc = "signal" => /\ client[c].pc = "check"
                            /\ client[c].pin \notin {0, client[c].id[2]}
                                  => Alive(client[c].id),
           pc = "wait" => client[c].pc = "signal",
           pc = "stopped" => ~Alive(client[c].id)
    PROVE  Kept'
<1>1. TypeOK /\ Commands
  BY KeptParts
<1> DEFINE next == [client[c] EXCEPT !.pc = pc]
<1>2. client[c] \in Command
  BY <1>1 DEF TypeOK, Command
<1>3. /\ next \in Command /\ next.pc = pc /\ next.id = client[c].id
      /\ next.pin = client[c].pin /\ next.sent = client[c].sent
  BY <1>2 DEF Command
<1>4. client' = [client EXCEPT ![c] = next]
  BY <1>1 DEF TypeOK
<1> HIDE DEF next
<1>5. client'[c] = next
  BY <1>1, <1>4 DEF TypeOK
<1>6. Informed(c)
  BY <1>1 DEF Commands
<1>7. Alive(client[c].id)' <=> Alive(client[c].id)
  BY <1>3, <1>5 DEF Alive
<1>8. Informed(c)'
  BY <1>3, <1>5, <1>6, <1>7 DEF Informed
<1> QED
  BY <1>3, <1>4, <1>8, CommandKept

LEMMA ClassifyKept ==
    ASSUME Kept, NEW c \in Clients, Classify(c) PROVE Kept'
<1>1. PICK pc \in {"stale", "running", "hidden", "open"} :
         client' = [client EXCEPT ![c].pc = pc]
  BY DEF Classify
<1>2. /\ client[c].pc = "read" /\ pc \in ClientPc
      /\ UNCHANGED <<proc, starts, daemon, file, crashed, failed>>
  BY DEF Classify, ClientPc
<1> QED
  BY <1>1, <1>2, CommandMoved

LEMMA RemoveStaleKept ==
    ASSUME Kept, NEW c \in Clients, RemoveStale(c) PROVE Kept'
<1>1. /\ client[c].pc = "stale" /\ client' = [client EXCEPT ![c].pc = "none"]
      /\ UNCHANGED <<proc, starts, daemon, crashed, failed>> /\ (file' = file \/ file' = NoFile)
  BY DEF RemoveStale
<1> QED
  BY <1>1, CommandMoved DEF ClientPc

\* The process that is pinned is another than the one that was read of only if
\* that one is gone.
LEMMA OpenPidfdKept ==
    ASSUME Kept, NEW c \in Clients, OpenPidfd(c) PROVE Kept'
<1>1. TypeOK /\ Commands
  BY KeptParts
<1>2. client[c].pc = "open" /\ UNCHANGED <<proc, starts, daemon, file, crashed, failed>>
  BY DEF OpenPidfd
<1>3. CASE client' = [client EXCEPT ![c].pc = "check"]
  BY <1>2, <1>3, CommandMoved DEF ClientPc
<1>4. CASE client' = [client EXCEPT ![c].pc = "error"]
  BY <1>2, <1>4, CommandMoved DEF ClientPc
<1>5. CASE client' = [client EXCEPT ![c].pc = "check", ![c].pin = proc[client[c].id[1]]]
  <2> DEFINE next == [client[c] EXCEPT !.pc = "check", !.pin = proc[client[c].id[1]]]
  <2>1. client[c] \in Command /\ Informed(c)
    BY <1>1 DEF TypeOK, Command, Commands
  <2>2. client[c].id \in Identity /\ client[c].id[1] \in Pids
    BY <1>2, <2>1 DEF Informed, Identity
  <2>3. proc[client[c].id[1]] \in 0 .. MaxStart
    BY <1>1, <2>2 DEF TypeOK
  <2>4. /\ next \in Command /\ next.pc = "check" /\ next.id = client[c].id
        /\ next.pin = proc[client[c].id[1]] /\ next.sent = client[c].sent
    BY <2>1, <2>3 DEF Command, ClientPc
  <2>5. client' = [client EXCEPT ![c] = next]
    BY <1>1, <1>5 DEF TypeOK
  <2> HIDE DEF next
  <2>6. client'[c] = next
    BY <1>1, <2>5 DEF TypeOK
  <2>7. next.pin \notin {0, next.id[2]} => ~Alive(client[c].id)'
    BY <1>2, <2>4, <2>6 DEF Alive
  <2>8. Informed(c)'
    BY <1>2, <2>1, <2>2, <2>4, <2>6, <2>7 DEF Informed
  <2> QED
    BY <1>2, <2>4, <2>5, <2>8, CommandKept
<1> QED
  BY <1>3, <1>4, <1>5 DEF OpenPidfd

\* A command that finds the identity alive has pinned that process, or none.
LEMMA CheckIdentityKept ==
    ASSUME Kept, NEW c \in Clients, CheckIdentity(c) PROVE Kept'
<1>1. client[c].pc = "check" /\ UNCHANGED <<proc, starts, daemon, file, crashed, failed>>
  BY DEF CheckIdentity
<1>2. CASE Alive(client[c].id)
  <2>1. client' = [client EXCEPT ![c].pc = "signal"]
    BY <1>2 DEF CheckIdentity, identity_alive
  <2> QED
    BY <1>1, <1>2, <2>1, CommandMoved DEF ClientPc
<1>3. CASE ~Alive(client[c].id)
  <2>1. client' = [client EXCEPT ![c].pc = "error"]
    BY <1>3 DEF CheckIdentity, identity_alive
  <2> QED
    BY <1>1, <2>1, CommandMoved DEF ClientPc
<1> QED
  BY <1>2, <1>3

LEMMA SeeStoppedKept ==
    ASSUME Kept, NEW c \in Clients, SeeStopped(c) PROVE Kept'
<1>1. TypeOK /\ Commands
  BY KeptParts
<1>2. /\ client[c].pc = "wait" /\ client' = [client EXCEPT ![c].pc = "stopped"]
      /\ UNCHANGED <<proc, starts, daemon, file, crashed, failed>>
  BY DEF SeeStopped
<1>3. client[c].id \in Identity /\ client[c].pin \in {0, client[c].id[2]}
  BY <1>1, <1>2 DEF Commands, Informed
<1>4. ~Alive(client[c].id)
  <2>1. CASE client[c].pin /= 0
    <3>1. ~Alive(<<client[c].id[1], client[c].pin>>)
      BY <2>1 DEF SeeStopped
    <3>2. <<client[c].id[1], client[c].pin>> = client[c].id
      BY <1>3, <2>1 DEF Identity
    <3> QED
      BY <3>1, <3>2
  <2>2. CASE client[c].pin = 0
    BY <2>2 DEF SeeStopped, identity_alive
  <2> QED
    BY <2>1, <2>2
<1> QED
  BY <1>2, <1>4, CommandMoved DEF ClientPc

LEMMA GiveUpKept ==
    ASSUME Kept, NEW c \in Clients, GiveUp(c) PROVE Kept'
<1>1. /\ client[c].pc = "wait" /\ client' = [client EXCEPT ![c].pc = "error"]
      /\ UNCHANGED <<proc, starts, daemon, file, crashed, failed>>
  BY DEF GiveUp
<1> QED
  BY <1>1, CommandMoved DEF ClientPc

\* A signal reaches the process that is pinned.  It tells a daemon to stop, ends
\* one that does not listen yet, or ends a process that is nobody's.
LEMMA SendSignalKept ==
    ASSUME Kept, NEW c \in Clients, SendSignal(c) PROVE Kept'
<1>1. TypeOK /\ Census /\ Record /\ Unmounted /\ Commands
  BY KeptParts
<1> DEFINE pid == client[c].id[1]
           target == IF client[c].pin /= 0 THEN client[c].pin ELSE proc[pid]
<1>2. client[c].pc = "signal" /\ UNCHANGED <<starts, file, failed>>
  BY DEF SendSignal
<1>3. CASE /\ client' = [client EXCEPT ![c].pc = "error"]
           /\ UNCHANGED <<proc, daemon, crashed>>
  BY <1>2, <1>3, CommandMoved DEF ClientPc
<1>4. CASE /\ ~(c \in Users \/ target = 0 \/ ~Alive(<<pid, target>>))
           /\ client' = [client EXCEPT ![c].pc = "wait", ![c].sent = target]
           /\ Signalled(<<pid, target>>)
  <2> DEFINE next == [client[c] EXCEPT !.pc = "wait", !.sent = target]
             goal == <<pid, target>>
  <2>1. client[c] \in Command /\ Informed(c)
    BY <1>1 DEF TypeOK, Command, Commands
  <2>2. client[c].id \in Identity /\ pid \in Pids /\ target \in 0 .. MaxStart
    <3>1. client[c].id \in Identity /\ pid \in Pids
      BY <1>2, <2>1 DEF Informed, Identity
    <3>2. proc[pid] \in 0 .. MaxStart /\ client[c].pin \in 0 .. MaxStart
      BY <1>1, <2>1, <3>1 DEF TypeOK, Command
    <3> QED
      BY <3>1, <3>2
  <2>3. target /= 0 /\ Alive(goal) /\ proc[pid] = target
    BY <1>4 DEF Alive
  <2>4. Signalled(goal)
    BY <1>4
  <2>5. client[c].pin /= 0 => target = client[c].id[2]
    BY <1>2, <2>1 DEF Informed
  <2> HIDE DEF target, pid
  <2>6. /\ next \in Command /\ next.pc = "wait" /\ next.id = client[c].id
        /\ next.pin = client[c].pin /\ next.sent = target
    BY <2>1, <2>2 DEF Command, ClientPc
  <2>7. client' = [client EXCEPT ![c] = next]
    BY <1>1, <1>4 DEF TypeOK
  <2> HIDE DEF next
  <2>8. client'[c] = next /\ \A b \in Clients \ {c} : client'[b] = client[b]
    BY <1>1, <2>7 DEF TypeOK
  <2>9. client' \in [Clients -> Command]
    BY <1>1, <2>6, <2>7 DEF TypeOK, Command
  <2>10. ASSUME Onward PROVE Commands'
    <3> SUFFICES ASSUME NEW b \in Clients PROVE Informed(b)'
      BY DEF Commands
    <3>1. CASE b /= c
      BY <1>1, <2>8, <2>10, <3>1, CommandStands DEF Commands
    <3>2. CASE b = c
      <4>1. next.id[2] <= starts' /\ next.id \in Identity
        BY <1>2, <2>1, <2>2, <2>6 DEF Informed
      <4>2. next.pin \in {0, next.id[2]} /\ (next.pin /= 0 => next.sent = next.id[2])
        BY <1>2, <2>1, <2>5, <2>6 DEF Informed
      <4> QED
        BY <2>6, <2>8, <3>2, <4>1, <4>2 DEF Informed
    <3> QED
      BY <3>1, <3>2
  <2>11. ASSUME Onward, TypeOK', Census', Record', Unmounted' PROVE Kept'
    BY <2>10, <2>11 DEF Kept, Census, Record
  <2>12. CASE \E d \in Daemons : daemon[d].id = goal
    <3> DEFINE f == CHOOSE e \in Daemons : daemon[e].id = goal
    <3>7. f \in Daemons /\ daemon[f].id = goal
      BY <2>12
    <3>8. IF daemon[f].pc \in {"waiting", "unmounting", "released"}
          THEN /\ daemon' = [daemon EXCEPT ![f].term = TRUE]
               /\ UNCHANGED <<proc, crashed>>
          ELSE /\ daemon' = [daemon EXCEPT ![f].pc = "gone", ![f].term = TRUE]
               /\ proc' = [proc EXCEPT ![goal[1]] = 0]
               /\ crashed' = crashed \cup {f}
      BY <2>4, <2>12 DEF Signalled
    <3> HIDE DEF f, goal
    <3>9. PICK d \in Daemons : d = f
      BY <3>7
    <3>1. d \in Daemons /\ daemon[d].id = goal
      BY <3>7, <3>9
    <3>2. daemon[d].pc \notin {"idle", "gone"}
      <4>1. goal /= Nobody
        BY <2>3 DEF Nobody, goal
      <4> QED
        BY <1>1, <2>3, <3>1, <4>1 DEF Census, Known
    <3>3. IF daemon[d].pc \in {"waiting", "unmounting", "released"}
          THEN /\ daemon' = [daemon EXCEPT ![d].term = TRUE]
               /\ UNCHANGED <<proc, crashed>>
          ELSE /\ daemon' = [daemon EXCEPT ![d].pc = "gone", ![d].term = TRUE]
               /\ proc' = [proc EXCEPT ![goal[1]] = 0]
               /\ crashed' = crashed \cup {d}
      BY <3>8, <3>9
    <3>4. daemon[d] \in Invocation
      BY <1>1, <3>1 DEF TypeOK, Invocation
    <3>5. CASE daemon[d].pc \in {"waiting", "unmounting", "released"}
      <4> DEFINE told == [daemon[d] EXCEPT !.term = TRUE]
      <4>1. /\ told \in Invocation /\ told.pc = daemon[d].pc /\ told.id = daemon[d].id
            /\ told.mounted = daemon[d].mounted
        BY <3>4 DEF Invocation
      <4>2. daemon' = [daemon EXCEPT ![d] = told] /\ UNCHANGED <<proc, crashed>>
        BY <1>1, <3>1, <3>3, <3>5 DEF TypeOK
      <4> HIDE DEF told
      <4>3. daemon'[d] = told /\ \A e \in Daemons \ {d} : daemon'[e] = daemon[e]
        BY <1>1, <3>1, <4>2 DEF TypeOK
      <4>4. Moved(d)
        BY <1>2, <3>2, <3>5, <4>1, <4>2, <4>3 DEF Moved
      <4>5. Onward /\ Census'
        BY <1>1, <3>1, <4>4, MovedCensus
      <4>6. Record'
        BY <1>1, <1>2, <3>1, <4>2, <4>4, MovedRecord DEF Remembered
      <4>7. Unmounted'
        <5>1. daemon'[d].pc = "released" /\ Cleaned(d, "umount") => ~daemon'[d].mounted
          BY <1>1, <3>1, <4>1, <4>3 DEF Unmounted
        <5>2. Cleaned(d, "umount")' => Cleaned(d, "umount")
          BY <1>2, <4>2 DEF Cleaned
        <5>3. /\ daemon'[d].pc \in {"starting", "abandoned", "released", "gone"}
              /\ Cleaned(d, "umount")'
              => ~daemon'[d].mounted
          BY <3>5, <4>1, <4>3, <5>1, <5>2
        <5> QED
          BY <1>1, <1>2, <3>1, <4>2, <4>3, <5>3, StaysUnmounted DEF Remembered
      <4>8. daemon' \in [Daemons -> Invocation]
        BY <1>1, <3>1, <4>1, <4>2, InvocationTyped
      <4>9. TypeOK'
        BY <1>1, <1>2, <2>9, <4>2, <4>8 DEF TypeOK, Invocation, Command
      <4> QED
        BY <2>11, <4>5, <4>6, <4>7, <4>9
    <3>6. CASE daemon[d].pc \notin {"waiting", "unmounting", "released"}
      <4> DEFINE told == [daemon[d] EXCEPT !.pc = "gone", !.term = TRUE]
      <4>1. told \in Invocation /\ told.pc = "gone" /\ told.id = daemon[d].id
        BY <3>4 DEF Invocation, DaemonPc
      <4>2. /\ daemon' = [daemon EXCEPT ![d] = told]
            /\ proc' = [proc EXCEPT ![daemon[d].id[1]] = 0] /\ crashed' = crashed \cup {d}
        BY <1>1, <3>1, <3>3, <3>6 DEF TypeOK
      <4> HIDE DEF told
      <4>3. daemon'[d] = told /\ \A e \in Daemons \ {d} : daemon'[e] = daemon[e]
        BY <1>1, <3>1, <4>2 DEF TypeOK
      <4>4. Left(d)
        BY <1>2, <3>2, <4>1, <4>2, <4>3 DEF Left
      <4>5. Onward /\ Census'
        BY <1>1, <3>1, <4>4, LeftCensus
      <4>10. Remembered /\ ~Cleaned(d, "unlink")' /\ ~Cleaned(d, "umount")'
        BY <1>2, <4>2 DEF Remembered, Cleaned
      <4>6. Record'
        BY <1>1, <1>2, <3>1, <4>4, <4>10, LeftRecord
      <4>7. Unmounted'
        BY <1>1, <3>1, <4>3, <4>10, StaysUnmounted
      <4>8. TypeOK'
        <5>1. file' \in File /\ crashed' \subseteq Daemons /\ failed' \subseteq Parts
          BY <1>1, <1>2, <3>1, <4>2 DEF TypeOK, Parts
        <5> QED
          BY <1>1, <2>9, <3>1, <4>1, <4>2, <4>4, <5>1, LeftTyped
      <4> QED
        BY <2>11, <4>5, <4>6, <4>7, <4>8
    <3> QED
      BY <3>5, <3>6
  <2>13. CASE ~ \E d \in Daemons : daemon[d].id = goal
    <3>1. proc' = [proc EXCEPT ![pid] = 0] /\ UNCHANGED <<daemon, crashed>>
      BY <2>4, <2>13 DEF Signalled
    <3>2. Reaped(pid)
      <4>1. goal = <<pid, proc[pid]>>
        BY <2>3
      <4> HIDE DEF goal
      <4>2. \A d \in Daemons : daemon[d].id /= goal
        BY <2>13
      <4> QED
        BY <1>2, <3>1, <4>1, <4>2 DEF Reaped
    <3>3. Onward /\ Census'
      BY <1>1, <2>2, <3>2, ReapedCensus
    <3>4. TypeOK'
      <4>1. proc' \in [Pids -> 0 .. MaxStart]
        BY <1>1, <3>1, ProcTyped DEF TypeOK
      <4> QED
        BY <1>1, <1>2, <2>9, <3>1, <4>1 DEF TypeOK, Command
    <3>5. Record' /\ Unmounted'
      BY <1>1, <1>2, <3>1
         DEF Record, Published, Unnamed, StaleOnlyAfterCrash, Unmounted, Cleaned
    <3> QED
      BY <2>11, <3>3, <3>4, <3>5
  <2> QED
    BY <2>12, <2>13
<1> QED
  BY <1>3, <1>4 DEF SendSignal

-----------------------------------------------------------------------------
(* The theorems.                                                           *)

LEMMA NextKept == Kept /\ [Next]_vars => Kept'
<1> SUFFICES ASSUME Kept, [Next]_vars PROVE Kept'
  OBVIOUS
<1>1. ASSUME NEW p \in Pids, StrangerStarts(p) PROVE Kept'
  BY <1>1, StrangerStartsKept
<1>2. ASSUME NEW p \in Pids, StrangerEnds(p) PROVE Kept'
  BY <1>2, StrangerEndsKept
<1>3. ASSUME NEW d \in Daemons, NEW p \in Pids, Start(d, p) PROVE Kept'
  BY <1>3, StartKept
<1>4. ASSUME NEW d \in Daemons, Mount(d) PROVE Kept'
  BY <1>4, MountKept
<1>5. ASSUME NEW d \in Daemons, OpenPidFile(d) PROVE Kept'
  BY <1>5, OpenPidFileKept
<1>6. ASSUME NEW d \in Daemons, WritePidFile(d) PROVE Kept'
  BY <1>6, WritePidFileKept
<1>7. ASSUME NEW d \in Daemons, RollBack(d) PROVE Kept'
  BY <1>7, RollBackKept
<1>8. ASSUME NEW d \in Daemons, AwaitShutdown(d) PROVE Kept'
  BY <1>8, AwaitShutdownKept
<1>9. ASSUME NEW d \in Daemons, Terminate(d) PROVE Kept'
  BY <1>9, TerminateKept
<1>10. ASSUME NEW d \in Daemons, BeginStop(d) PROVE Kept'
  BY <1>10, BeginStopKept
<1>11. ASSUME NEW d \in Daemons, Unmount(d) PROVE Kept'
  BY <1>11, UnmountKept
<1>12. ASSUME NEW d \in Daemons, FinishStop(d) PROVE Kept'
  BY <1>12, FinishStopKept
<1>13. ASSUME NEW d \in Daemons, Crash(d) PROVE Kept'
  BY <1>13, CrashKept
<1>14. ASSUME NEW c \in Clients, NEW cmd \in {"stop", "status"}, ReadPidFile(c, cmd)
       PROVE  Kept'
  BY <1>14, ReadPidFileKept
<1>15. ASSUME NEW c \in Clients, Classify(c) PROVE Kept'
  BY <1>15, ClassifyKept
<1>16. ASSUME NEW c \in Clients, RemoveStale(c) PROVE Kept'
  BY <1>16, RemoveStaleKept
<1>17. ASSUME NEW c \in Clients, OpenPidfd(c) PROVE Kept'
  BY <1>17, OpenPidfdKept
<1>18. ASSUME NEW c \in Clients, CheckIdentity(c) PROVE Kept'
  BY <1>18, CheckIdentityKept
<1>19. ASSUME NEW c \in Clients, SendSignal(c) PROVE Kept'
  BY <1>19, SendSignalKept
<1>20. ASSUME NEW c \in Clients, SeeStopped(c) PROVE Kept'
  BY <1>20, SeeStoppedKept
<1>21. ASSUME NEW c \in Clients, GiveUp(c) PROVE Kept'
  BY <1>21, GiveUpKept
<1>23. ASSUME NEW d \in Daemons, FailEarly(d) PROVE Kept'
  BY <1>23, FailEarlyKept
<1>24. ASSUME NEW d \in Daemons, Abandon(d) PROVE Kept'
  BY <1>24, AbandonKept
<1>22. CASE UNCHANGED vars
  <2>1. TypeOK /\ Census /\ Record /\ Unmounted /\ Commands
    BY KeptParts
  <2>2. UNCHANGED <<proc, starts, daemon, file, client, crashed, failed>>
    BY <1>22 DEF vars
  <2>3. TypeOK' /\ Onward
    BY <2>1, <2>2, StillOnward DEF TypeOK
  <2>4. Census' /\ Unmounted'
    BY <2>1, <2>2 DEF Census, Dated, Known, Apart, Unmounted, Alive, Cleaned
  <2>5. Record'
    BY <2>1, <2>2 DEF Record, Published, Unnamed, StaleOnlyAfterCrash, Cleaned
  <2> QED
    BY <2>1, <2>2, <2>3, <2>4, <2>5, PartsKept
<1> QED
  BY <1>1, <1>2, <1>3, <1>4, <1>5, <1>6, <1>7, <1>8, <1>9, <1>10, <1>11, <1>12, <1>13,
     <1>14, <1>15, <1>16, <1>17, <1>18, <1>19, <1>20, <1>21, <1>22, <1>23, <1>24
  DEF Next, Done

LEMMA AlwaysKept == Spec => []Kept
  BY InitKept, NextKept, PTL DEF Spec

\* The pid file never names, once they are gone, daemons that ended in order, and
\* there is one only while a daemon lives, or after one crashed or could not remove
\* it (Daemon::start and Daemon::stop try to), whatever daemons start and stop side by side.
THEOREM RecordIsSound == Spec => []RecordSound
<1>1. Kept => RecordSound
  BY DEF Kept, RecordSound
<1> QED
  BY <1>1, AlwaysKept, PTL

\* A signal of `stop` that goes through a pidfd reaches the very process that
\* wrote the pid file it read (signal_linux_daemon), however often its pid was
\* used again, by daemons or by others.
THEOREM SignalsArePinned == Spec => []SignalsPinned
<1>1. Kept => SignalsPinned
  BY DEF Kept, Commands, Informed, SignalsPinned
<1> QED
  BY <1>1, AlwaysKept, PTL

\* When `stop` says that the daemon stopped, its process is gone, also if another
\* has its pid, and what it had mounted is unmounted unless it crashed or umount2
\* failed (stop, src/src/control.rs; Daemon::stop goes on after that error).
THEOREM StoppedMeansGone == Spec => []StoppedIsGone
<1>1. Kept => StoppedIsGone
  <2> SUFFICES ASSUME Kept, NEW c \in Clients, client[c].pc = "stopped"
               PROVE  /\ ~Alive(client[c].id)
                      /\ \A d \in Daemons : daemon[d].id = client[c].id /\ Cleaned(d, "umount")
                                                => ~daemon[d].mounted
    BY DEF StoppedIsGone
  <2>1. ~Alive(client[c].id)
    BY DEF Kept, Commands, Informed
  <2>2. ASSUME NEW d \in Daemons, daemon[d].id = client[c].id, Cleaned(d, "umount")
        PROVE  ~daemon[d].mounted
    <3>1. daemon[d].pc \in {"idle", "gone"}
      BY <2>1, <2>2 DEF Kept, Known
    <3> QED
      BY <2>2, <3>1 DEF Kept, Known, Unmounted
  <2> QED
    BY <2>1, <2>2
<1> QED
  BY <1>1, AlwaysKept, PTL

-----------------------------------------------------------------------------
(* AuditLog: texts and their lines.                                        *)

Text == Seq(Piece)

\* Induction, as it can be used here: a set of numbers has a least one.
LEMMA Least ==
  ASSUME NEW S, S \subseteq Nat, S # {}
  PROVE  \E m \in S : \A n \in S : m <= n
  <1>1. PICK m \in S : \A n \in S : <<n, m>> \notin OpToRel(<, Nat)
    BY NatLessThanWellFounded, WFMin
  <1>2. \A n \in S : ~(n < m)
    BY <1>1 DEF OpToRel
  <1> QED BY <1>2

\* A bounded set of numbers has a greatest one, which is its Max.
LEMMA MaxIsGreatest ==
  ASSUME NEW n \in Nat, NEW S, S \subseteq 0 .. n, S # {}
  PROVE  Max(S) \in S /\ \A x \in S : x <= Max(S)
  <1> DEFINE D == {k \in Nat : \E x \in S : k = n - x}
  <1>1. D # {}
    <2>1. PICK x \in S : TRUE
      OBVIOUS
    <2>2. n - x \in Nat
      OBVIOUS
    <2> QED BY <2>2
  <1>2. PICK m \in D : \A k \in D : m <= k
    <2> HIDE DEF D
    <2>1. D \subseteq Nat
      BY DEF D
    <2> QED BY <1>1, <2>1, Least
  <1>3. PICK x \in S : m = n - x
    OBVIOUS
  <1>4. \A y \in S : x >= y
    <2> TAKE y \in S
    <2>1. n - y \in D
      OBVIOUS
    <2> QED BY <1>2, <1>3, <2>1
  <1>5. Max(S) \in S /\ \A y \in S : Max(S) >= y
    BY <1>4 DEF Max
  <1> QED BY <1>5

\* A piece of a text.
LEMMA PieceOf ==
  ASSUME NEW text \in Text, NEW i \in 1 .. Len(text)
  PROVE  /\ text[i] \in Piece /\ text[i].entry \in Entries /\ text[i].end \in BOOLEAN
         /\ text[i] = [entry |-> text[i].entry, end |-> text[i].end]
  <1>1. text[i] \in Piece
    BY ElementOfSeq DEF Text
  <1> QED BY <1>1 DEF Piece

\* A whole line is the two pieces of one record, after the end of a line.
LEMMA WholeIs ==
  ASSUME NEW text \in Text, NEW i \in Nat
  PROVE  Whole(text, i) <=>
           /\ i \in 2 .. Len(text) /\ text[i].end
           /\ text[i - 1] = Begin(text[i].entry)
           /\ i > 2 => text[i - 2].end
  <1>1. Ends(text) = {j \in 1 .. Len(text) : text[j].end}
    BY DEF Ends, Text
  <1>2. ASSUME i \in 1 .. Len(text)
        PROVE  Whole(text, i) <=>
           /\ i \in 2 .. Len(text) /\ text[i].end
           /\ text[i - 1] = Begin(text[i].entry)
           /\ i > 2 => text[i - 2].end
    <2> DEFINE B == {0} \cup {j \in Ends(text) : j < i}
               m == Max(B)
    <2>1. m \in B /\ \A x \in B : x <= m
      <3>1. B \subseteq 0 .. i /\ B # {}
        BY <1>1, <1>2
      <3> HIDE DEF B
      <3> QED BY <3>1, MaxIsGreatest
    <2>2. LineStart(text, i) = 1 + m
      BY DEF LineStart
    <2> HIDE DEF m
    <2>3. m \in 0 .. i - 1 /\ 1 + m \in 1 .. i
      BY <1>1, <1>2, <2>1
    <2> DEFINE s == SubSeq(text, 1 + m, i)
    <2>4. s \in Text /\ Len(s) = i - m /\ \A k \in 1 .. i - m : s[k] = text[m + k]
      BY <1>2, <2>3, SubSeqProperties DEF Text
    <2> HIDE DEF s
    <2>5. s = <<Begin(text[i].entry), text[i]>>
            <=> m = i - 2 /\ text[i - 1] = Begin(text[i].entry)
      <3> DEFINE p == <<Begin(text[i].entry), text[i]>>
      <3>1. p \in Text /\ Len(p) = 2 /\ p[1] = Begin(text[i].entry) /\ p[2] = text[i]
        <4>1. text[i] \in Piece /\ Begin(text[i].entry) \in Piece
          BY <1>2, PieceOf DEF Begin, Piece
        <4> QED BY <4>1 DEF Text
      <3> HIDE DEF p
      <3>2. ASSUME m = i - 2, text[i - 1] = Begin(text[i].entry) PROVE s = p
        <4>1. Len(s) = 2 /\ s[1] = p[1] /\ s[2] = p[2]
          BY <2>3, <2>4, <3>1, <3>2
        <4> QED BY <2>4, <3>1, <4>1, SeqEqual DEF Text
      <3>3. ASSUME s = p PROVE m = i - 2 /\ text[i - 1] = Begin(text[i].entry)
        <4>1. i - m = 2
          BY <2>4, <3>1, <3>3
        <4>2. m = i - 2
          BY <2>3, <4>1
        <4> QED BY <2>3, <2>4, <3>1, <3>3, <4>2
      <3> QED BY <3>2, <3>3 DEF p
    <2>6. ASSUME text[i - 1] = Begin(text[i].entry), i \in 2 .. Len(text)
          PROVE  m = i - 2 <=> (i > 2 => text[i - 2].end)
      <3>1. i - 1 \notin B
        BY <1>1, <2>6 DEF Begin
      <3>2. i - 2 \in B <=> (i > 2 => text[i - 2].end)
        BY <1>1, <2>6
      <3> QED BY <2>1, <2>3, <3>1, <3>2
    <2>7. Whole(text, i) <=> text[i].end /\ s = <<Begin(text[i].entry), text[i]>>
      BY <1>1, <1>2, <2>2 DEF Whole, s
    <2> QED BY <1>2, <2>3, <2>5, <2>6, <2>7
  <1> QED BY <1>1, <1>2 DEF Whole

-----------------------------------------------------------------------------
(* What is parsed of a text, piece by piece.                               *)

LineByLine(text, g) ==
    [n \in 0 .. Len(text) |->
        IF n = 0 THEN <<>>
        ELSE IF Whole(text, n) THEN Append(g[n - 1], text[n].entry) ELSE g[n - 1]]

Lines(text) == CHOOSE g : g = LineByLine(text, g)

\* g[k] is what is parsed of the first k pieces, up to n.
Reads(text, g, n) ==
    /\ g \in [0 .. n -> Seq(Entries)] /\ g[0] = <<>>
    /\ \A k \in 1 .. n :
          g[k] = IF Whole(text, k) THEN Append(g[k - 1], text[k].entry) ELSE g[k - 1]

\* The function that Parsed defines exists.
LEMMA SomeRead ==
  ASSUME NEW text \in Text
  PROVE  \E g : Reads(text, g, Len(text))
  <1> DEFINE T == {n \in 0 .. Len(text) : ~\E g : Reads(text, g, n)}
  <1>1. SUFFICES ASSUME T # {} PROVE FALSE
    <2>1. Len(text) \in 0 .. Len(text)
      BY LenProperties DEF Text
    <2> QED BY <2>1
  <1>2. PICK m \in T : \A n \in T : m <= n
    <2>1. T \subseteq Nat
      OBVIOUS
    <2> HIDE DEF T
    <2> QED BY <1>1, <2>1, Least
  <1>3. m # 0
    <2>1. Reads(text, [k \in 0 .. 0 |-> <<>>], 0)
      BY DEF Reads
    <2> QED BY <2>1
  <1>4. m - 1 \in 0 .. Len(text) /\ m - 1 \notin T
    BY <1>2, <1>3
  <1>5. PICK g : Reads(text, g, m - 1)
    BY <1>4
  <1> DEFINE new == IF Whole(text, m) THEN Append(g[m - 1], text[m].entry) ELSE g[m - 1]
             h == [k \in 0 .. m |-> IF k = m THEN new ELSE g[k]]
  <1>6. new \in Seq(Entries)
    <2>1. g[m - 1] \in Seq(Entries)
      BY <1>2, <1>3, <1>5 DEF Reads
    <2>2. text[m].entry \in Entries
      <3>1. m \in 1 .. Len(text)
        BY <1>2, <1>3
      <3> QED BY <3>1, PieceOf
    <2> QED BY <2>1, <2>2
  <1>7. Reads(text, h, m)
    <2> HIDE DEF new
    <2>1. h \in [0 .. m -> Seq(Entries)] /\ h[0] = <<>>
      BY <1>2, <1>3, <1>5, <1>6 DEF Reads
    <2>2. ASSUME NEW k \in 1 .. m
          PROVE  h[k] = IF Whole(text, k) THEN Append(h[k - 1], text[k].entry) ELSE h[k - 1]
      <3>1. k - 1 \in 0 .. m /\ h[k - 1] = g[k - 1]
        BY <1>2
      <3>2. CASE k = m
        BY <1>2, <3>1, <3>2 DEF new
      <3>3. CASE k # m
        BY <1>2, <1>5, <3>1, <3>3 DEF Reads
      <3> QED BY <3>2, <3>3
    <2> HIDE DEF h
    <2> QED BY <2>1, <2>2 DEF Reads
  <1> QED BY <1>2, <1>7

LEMMA LinesRead ==
  ASSUME NEW text \in Text
  PROVE  Reads(text, Lines(text), Len(text)) /\ Parsed(text) = Lines(text)[Len(text)]
  <1>1. Len(text) \in Nat
    BY DEF Text
  <1>2. PICK g : Reads(text, g, Len(text))
    BY SomeRead
  <1>3. g = LineByLine(text, g)
    <2>1. g = [n \in 0 .. Len(text) |-> g[n]]
      BY <1>1, <1>2 DEF Reads
    <2>2. ASSUME NEW n \in 0 .. Len(text) PROVE g[n] = LineByLine(text, g)[n]
      <3>1. CASE n = 0
        BY <1>2, <3>1 DEF Reads, LineByLine
      <3>2. CASE n \in 1 .. Len(text)
        BY <1>1, <1>2, <3>2 DEF Reads, LineByLine
      <3> QED BY <1>1, <3>1, <3>2
    <2>3. LineByLine(text, g) = [n \in 0 .. Len(text) |-> LineByLine(text, g)[n]]
      BY DEF LineByLine
    <2> QED BY <2>1, <2>2, <2>3
  <1> DEFINE h == Lines(text)
  <1>4. h = LineByLine(text, h)
    BY <1>3 DEF Lines
  <1>5. Parsed(text) = h[Len(text)]
    BY DEF Parsed, Lines, LineByLine
  <1> HIDE DEF h
  <1>6. /\ h = [n \in 0 .. Len(text) |-> h[n]] /\ h[0] = <<>>
        /\ \A k \in 1 .. Len(text) :
              h[k] = IF Whole(text, k) THEN Append(h[k - 1], text[k].entry) ELSE h[k - 1]
    <2>1. h = [n \in 0 .. Len(text) |-> h[n]]
      <3>1. LineByLine(text, h) = [n \in 0 .. Len(text) |-> LineByLine(text, h)[n]]
        BY DEF LineByLine
      <3> QED BY <1>4, <3>1
    <2>2. ASSUME NEW n \in 0 .. Len(text)
          PROVE  h[n] = IF n = 0 THEN <<>>
                        ELSE IF Whole(text, n) THEN Append(h[n - 1], text[n].entry)
                                               ELSE h[n - 1]
      <3>1. h[n] = LineByLine(text, h)[n]
        BY <1>4
      <3> QED BY <3>1 DEF LineByLine
    <2> QED BY <1>1, <2>1, <2>2
  <1> DEFINE T == {n \in 0 .. Len(text) : h[n] # g[n]}
  <1>7. T = {}
    <2> SUFFICES ASSUME T # {} PROVE FALSE
      OBVIOUS
    <2>1. PICK m \in T : \A n \in T : m <= n
      <3>1. T \subseteq Nat
        BY <1>1
      <3> HIDE DEF T
      <3> QED BY <3>1, Least
    <2>2. m # 0
      BY <1>2, <1>6 DEF Reads
    <2>3. m - 1 \in 0 .. Len(text) /\ m - 1 \notin T /\ m \in 1 .. Len(text)
      BY <1>1, <2>1, <2>2
    <2> QED BY <1>2, <1>6, <2>1, <2>3 DEF Reads
  <1>8. h = g
    BY <1>2, <1>6, <1>7 DEF Reads
  <1> QED BY <1>2, <1>5, <1>8 DEF h

-----------------------------------------------------------------------------
(* Texts end to end: what is parsed of one does not depend on what was     *)
(* appended, nor on what came before its line.                             *)

\* The place n of a text is at the end of a line, or at the start of the text.
EndsLine(text, n) == n = 0 \/ n \in Ends(text)

LEMMA EndsAre ==
  ASSUME NEW text \in Text
  PROVE  Ends(text) = {i \in 1 .. Len(text) : text[i].end}
  BY DEF Ends, Text

LEMMA Joined ==
  ASSUME NEW u \in Text, NEW v \in Text
  PROVE  /\ u \o v \in Text /\ Len(u \o v) = Len(u) + Len(v)
         /\ Len(u) \in Nat /\ Len(v) \in Nat
         /\ \A i \in 1 .. Len(u) : (u \o v)[i] = u[i]
         /\ \A i \in 1 .. Len(v) : (u \o v)[Len(u) + i] = v[i]
  BY ConcatProperties, LenProperties DEF Text

LEMMA WholeInFirst ==
  ASSUME NEW u \in Text, NEW v \in Text, NEW i \in 1 .. Len(u)
  PROVE  /\ Whole(u \o v, i) <=> Whole(u, i)
         /\ (u \o v)[i] = u[i]
  <1> DEFINE w == u \o v
  <1>1. /\ w \in Text /\ Len(w) = Len(u) + Len(v) /\ Len(u) \in Nat /\ Len(v) \in Nat
        /\ \A j \in 1 .. Len(u) : w[j] = u[j]
    BY Joined
  <1> HIDE DEF w
  <1>2. Whole(w, i) <=> /\ i \in 2 .. Len(w) /\ w[i].end
                        /\ w[i - 1] = Begin(w[i].entry)
                        /\ i > 2 => w[i - 2].end
    <2>1. i \in Nat
      BY <1>1
    <2> QED BY <1>1, <2>1, WholeIs
  <1>3. Whole(u, i) <=> /\ i \in 2 .. Len(u) /\ u[i].end
                        /\ u[i - 1] = Begin(u[i].entry)
                        /\ i > 2 => u[i - 2].end
    <2>1. i \in Nat
      BY <1>1
    <2> QED BY <2>1, WholeIs
  <1>4. /\ w[i] = u[i] /\ (i > 1 => w[i - 1] = u[i - 1]) /\ (i > 2 => w[i - 2] = u[i - 2])
        /\ (i \in 2 .. Len(w) <=> i > 1) /\ (i \in 2 .. Len(u) <=> i > 1)
    BY <1>1
  <1>5. Whole(w, i) <=> Whole(u, i)
    BY <1>2, <1>3, <1>4
  <1> QED BY <1>4, <1>5 DEF w

LEMMA WholeInSecond ==
  ASSUME NEW u \in Text, NEW v \in Text, EndsLine(u, Len(u)), NEW i \in 1 .. Len(v)
  PROVE  /\ Whole(u \o v, Len(u) + i) <=> Whole(v, i)
         /\ (u \o v)[Len(u) + i] = v[i]
  <1> DEFINE w == u \o v
             n == Len(u)
  <1>1. /\ w \in Text /\ Len(w) = n + Len(v) /\ n \in Nat /\ Len(v) \in Nat
        /\ \A j \in 1 .. n : w[j] = u[j]
        /\ \A j \in 1 .. Len(v) : w[n + j] = v[j]
    BY Joined
  <1>2. n = 0 \/ u[n].end
    BY EndsAre DEF EndsLine
  <1> HIDE DEF w, n
  <1>3. Whole(w, n + i) <=> /\ n + i \in 2 .. Len(w) /\ w[n + i].end
                            /\ w[n + i - 1] = Begin(w[n + i].entry)
                            /\ n + i > 2 => w[n + i - 2].end
    BY <1>1, WholeIs
  <1>4. Whole(v, i) <=> /\ i \in 2 .. Len(v) /\ v[i].end
                        /\ v[i - 1] = Begin(v[i].entry)
                        /\ i > 2 => v[i - 2].end
    BY <1>1, WholeIs
  <1>5. w[n + i] = v[i]
    BY <1>1
  <1>6. CASE i = 1
    <2>1. ~Whole(v, i)
      BY <1>4, <1>6
    <2>2. n # 0 => w[n + i - 1].end
      <3>1. n # 0 => n \in 1 .. n
        BY <1>1
      <3> QED BY <1>1, <1>2, <1>6, <3>1
    <2>3. n = 0 => ~(n + i \in 2 .. Len(w))
      BY <1>1, <1>6
    <2> QED BY <1>3, <1>5, <2>1, <2>2, <2>3 DEF w, n, Begin
  <1>7. CASE i = 2
    <2>1. n + i - 1 = n + 1 /\ 1 \in 1 .. Len(v) /\ n + i - 2 = n
      BY <1>1, <1>7
    <2>2. w[n + i - 1] = v[i - 1] /\ (n + i > 2 => w[n + i - 2].end)
      <3>1. n # 0 => n \in 1 .. n
        BY <1>1
      <3>2. n + i > 2 => n # 0
        BY <1>1, <1>7
      <3> QED BY <1>1, <1>2, <1>7, <2>1, <3>1, <3>2
    <2>3. n + i \in 2 .. Len(w) /\ i \in 2 .. Len(v) /\ ~(i > 2)
      BY <1>1, <1>7
    <2> QED BY <1>3, <1>4, <1>5, <2>2, <2>3 DEF w, n
  <1>8. CASE i > 2
    <2>1. /\ n + i - 1 = n + (i - 1) /\ i - 1 \in 1 .. Len(v)
          /\ n + i - 2 = n + (i - 2) /\ i - 2 \in 1 .. Len(v)
      BY <1>1, <1>8
    <2>2. w[n + i - 1] = v[i - 1] /\ w[n + i - 2] = v[i - 2]
      BY <1>1, <2>1
    <2>3. n + i \in 2 .. Len(w) /\ i \in 2 .. Len(v) /\ n + i > 2
      BY <1>1, <1>8
    <2> QED BY <1>3, <1>4, <1>5, <1>8, <2>2, <2>3 DEF w, n
  <1> QED BY <1>1, <1>6, <1>7, <1>8

LEMMA AppendJoined ==
  ASSUME NEW s \in Seq(Entries), NEW t \in Seq(Entries), NEW e \in Entries
  PROVE  Append(s \o t, e) = s \o Append(t, e)
  <1>1. s \o t \in Seq(Entries) /\ <<e>> \in Seq(Entries)
    OBVIOUS
  <1>2. Append(s \o t, e) = (s \o t) \o <<e>> /\ Append(t, e) = t \o <<e>>
    BY <1>1, AppendIsConcat
  <1> QED BY <1>1, <1>2, ConcatAssociative

\* Parsing goes line by line.
LEMMA ParsedJoined ==
  ASSUME NEW u \in Text, NEW v \in Text, EndsLine(u, Len(u))
  PROVE  Parsed(u \o v) = Parsed(u) \o Parsed(v)
  <1> DEFINE w == u \o v
             n == Len(u)
             gu == Lines(u)
             gv == Lines(v)
             gw == Lines(w)
  <1>1. w \in Text /\ Len(w) = n + Len(v) /\ n \in Nat /\ Len(v) \in Nat
    BY Joined
  <1>2. Reads(u, gu, n) /\ Parsed(u) = gu[n]
    BY LinesRead
  <1>3. Reads(v, gv, Len(v)) /\ Parsed(v) = gv[Len(v)]
    BY LinesRead
  <1>4. Reads(w, gw, n + Len(v)) /\ Parsed(w) = gw[n + Len(v)]
    BY <1>1, LinesRead
  <1>5. \A i \in 1 .. n : (Whole(w, i) <=> Whole(u, i)) /\ w[i] = u[i]
    BY WholeInFirst
  <1>6. \A i \in 1 .. Len(v) : (Whole(w, n + i) <=> Whole(v, i)) /\ w[n + i] = v[i]
    BY WholeInSecond
  <1> HIDE DEF w, n, gu, gv, gw
  <1> DEFINE T == {k \in 0 .. n : gw[k] # gu[k]}
  <1>7. T = {}
    <2> SUFFICES ASSUME T # {} PROVE FALSE
      OBVIOUS
    <2>1. PICK m \in T : \A k \in T : m <= k
      <3>1. T \subseteq Nat
        BY <1>1
      <3> HIDE DEF T
      <3> QED BY <3>1, Least
    <2>2. m # 0
      BY <1>2, <1>4 DEF Reads
    <2>3. m - 1 \in 0 .. n /\ m - 1 \notin T /\ m \in 1 .. n /\ m \in 1 .. n + Len(v)
      BY <1>1, <2>1, <2>2
    <2>4. gw[m] = IF Whole(w, m) THEN Append(gw[m - 1], w[m].entry) ELSE gw[m - 1]
      BY <1>4, <2>3 DEF Reads
    <2>5. gu[m] = IF Whole(u, m) THEN Append(gu[m - 1], u[m].entry) ELSE gu[m - 1]
      BY <1>2, <2>3 DEF Reads
    <2>6. gw[m - 1] = gu[m - 1]
      BY <2>3
    <2> QED BY <1>5, <2>1, <2>3, <2>4, <2>5, <2>6
  <1>8. gw[n] = gu[n]
    BY <1>1, <1>7
  <1> DEFINE Same(k) == gw[n + k] = gu[n] \o gv[k]
             U == {k \in 0 .. Len(v) : ~Same(k)}
  <1>9. U = {}
    <2> SUFFICES ASSUME U # {} PROVE FALSE
      OBVIOUS
    <2>1. PICK m \in U : \A k \in U : m <= k
      <3> HIDE DEF Same
      <3>1. U \subseteq Nat
        BY <1>1
      <3> HIDE DEF U
      <3> QED BY <3>1, Least
    <2>2. gu[n] \in Seq(Entries)
      BY <1>1, <1>2 DEF Reads
    <2>3. m # 0
      <3>1. gv[0] = <<>> /\ n + 0 = n
        BY <1>1, <1>3 DEF Reads
      <3> QED BY <1>8, <2>1, <2>2, <3>1, ConcatEmptySeq
    <2>4. /\ m - 1 \in 0 .. Len(v) /\ m - 1 \notin U /\ m \in 1 .. Len(v)
          /\ n + m \in 1 .. n + Len(v) /\ (n + m) - 1 = n + (m - 1)
      <3> HIDE DEF Same
      <3> QED BY <1>1, <2>1, <2>3
    <2>5. gw[n + m] = IF Whole(w, n + m) THEN Append(gw[n + (m - 1)], w[n + m].entry)
                                         ELSE gw[n + (m - 1)]
      BY <1>4, <2>4 DEF Reads
    <2>6. gv[m] = IF Whole(v, m) THEN Append(gv[m - 1], v[m].entry) ELSE gv[m - 1]
      BY <1>3, <2>4 DEF Reads
    <2>7. gw[n + (m - 1)] = gu[n] \o gv[m - 1]
      BY <2>4
    <2>8. gv[m - 1] \in Seq(Entries) /\ v[m].entry \in Entries
      BY <1>3, <2>4, PieceOf DEF Reads
    <2>9. Append(gu[n] \o gv[m - 1], v[m].entry) = gu[n] \o Append(gv[m - 1], v[m].entry)
      BY <2>2, <2>8, AppendJoined
    <2> QED BY <1>6, <2>1, <2>4, <2>5, <2>6, <2>7, <2>9
  <1>10. Same(Len(v))
    <2> HIDE DEF Same
    <2>1. Len(v) \in 0 .. Len(v)
      BY <1>1
    <2> QED BY <1>9, <2>1
  <1> QED BY <1>2, <1>3, <1>4, <1>10 DEF w

LEMMA ParsedNothing ==
  ASSUME NEW text \in Text, \A i \in 1 .. Len(text) : ~text[i].end
  PROVE  Parsed(text) = <<>>
  <1> DEFINE g == Lines(text)
             T == {n \in 0 .. Len(text) : g[n] # <<>>}
  <1>1. Reads(text, g, Len(text)) /\ Parsed(text) = g[Len(text)]
    BY LinesRead
  <1>2. Len(text) \in Nat
    BY DEF Text
  <1> HIDE DEF g
  <1>3. T = {}
    <2> SUFFICES ASSUME T # {} PROVE FALSE
      OBVIOUS
    <2>1. PICK m \in T : \A k \in T : m <= k
      <3>1. T \subseteq Nat
        BY <1>2
      <3> HIDE DEF T
      <3> QED BY <3>1, Least
    <2>2. m # 0
      BY <1>1 DEF Reads
    <2>3. m - 1 \in 0 .. Len(text) /\ m - 1 \notin T /\ m \in 1 .. Len(text) /\ m \in Nat
      BY <1>2, <2>1, <2>2
    <2>4. ~Whole(text, m)
      BY <2>3, WholeIs
    <2> QED BY <1>1, <2>1, <2>3, <2>4 DEF Reads
  <1> QED BY <1>1, <1>2, <1>3

\* Every entry that is parsed is that of an end of a line.
LEMMA ParsedFrom ==
  ASSUME NEW text \in Text
  PROVE  /\ Parsed(text) \in Seq(Entries)
         /\ \A k \in 1 .. Len(Parsed(text)) :
               \E i \in 1 .. Len(text) : text[i] = End(Parsed(text)[k])
  <1> DEFINE g == Lines(text)
             Found(n) == \A k \in 1 .. Len(g[n]) :
                            \E i \in 1 .. Len(text) : text[i] = End(g[n][k])
             T == {n \in 0 .. Len(text) : ~Found(n)}
  <1>1. Reads(text, g, Len(text)) /\ Parsed(text) = g[Len(text)]
    BY LinesRead
  <1>2. Len(text) \in Nat
    BY DEF Text
  <1>3. \A n \in 0 .. Len(text) : g[n] \in Seq(Entries)
    BY <1>1 DEF Reads
  <1> HIDE DEF g
  <1>4. T = {}
    <2> SUFFICES ASSUME T # {} PROVE FALSE
      OBVIOUS
    <2>1. PICK m \in T : \A k \in T : m <= k
      <3> HIDE DEF Found
      <3>1. T \subseteq Nat
        BY <1>2
      <3> HIDE DEF T
      <3> QED BY <3>1, Least
    <2>2. m # 0
      <3>1. g[0] = <<>>
        BY <1>1 DEF Reads
      <3>2. Found(0)
        BY <3>1
      <3> QED BY <2>1, <3>2
    <2>3. m - 1 \in 0 .. Len(text) /\ Found(m - 1) /\ m \in 1 .. Len(text) /\ m \in Nat
      <3> HIDE DEF Found
      <3> QED BY <1>2, <2>1, <2>2
    <2>4. g[m] = IF Whole(text, m) THEN Append(g[m - 1], text[m].entry) ELSE g[m - 1]
      BY <1>1, <2>3 DEF Reads
    <2>5. CASE Whole(text, m)
      <3>1. text[m].end /\ text[m].entry \in Entries
            /\ text[m] = [entry |-> text[m].entry, end |-> text[m].end]
        BY <2>3, <2>5, WholeIs, PieceOf
      <3>2. text[m] = End(text[m].entry)
        BY <2>3, <3>1, PieceOf DEF End
      <3>3. /\ Len(g[m]) = Len(g[m - 1]) + 1 /\ g[m][Len(g[m])] = text[m].entry
            /\ \A k \in 1 .. Len(g[m - 1]) : g[m][k] = g[m - 1][k]
        BY <1>3, <2>3, <2>4, <2>5, <3>1, AppendProperties
      <3>4. Found(m)
        <4> SUFFICES ASSUME NEW k \in 1 .. Len(g[m])
                     PROVE  \E i \in 1 .. Len(text) : text[i] = End(g[m][k])
          OBVIOUS
        <4>1. CASE k = Len(g[m])
          BY <2>3, <3>2, <3>3, <4>1
        <4>2. CASE k \in 1 .. Len(g[m - 1])
          BY <2>3, <3>3, <4>2
        <4>3. Len(g[m - 1]) \in Nat
          BY <1>3, <2>3
        <4> QED BY <3>3, <4>1, <4>2, <4>3
      <3> QED BY <2>1, <3>4
    <2>6. CASE ~Whole(text, m)
      BY <2>1, <2>3, <2>4, <2>6
    <2> QED BY <2>5, <2>6
  <1>5. Found(Len(text))
    <2> HIDE DEF Found
    <2> QED BY <1>2, <1>4
  <1> QED BY <1>1, <1>2, <1>3, <1>5

\* When each record was ended once, none is parsed twice.
LEMMA ParsedOnce ==
  ASSUME NEW text \in Text,
         \A i, j \in 1 .. Len(text) : text[i].end /\ text[i] = text[j] => i = j
  PROVE  \A k, l \in 1 .. Len(Parsed(text)) :
            Parsed(text)[k] = Parsed(text)[l] => k = l
  <1> DEFINE g == Lines(text)
             Found(n) == \A k \in 1 .. Len(g[n]) :
                            \E i \in 1 .. n : text[i] = End(g[n][k])
             Once(n) == \A k, l \in 1 .. Len(g[n]) : g[n][k] = g[n][l] => k = l
             T == {n \in 0 .. Len(text) : ~(Found(n) /\ Once(n))}
  <1>1. Reads(text, g, Len(text)) /\ Parsed(text) = g[Len(text)]
    BY LinesRead
  <1>2. Len(text) \in Nat
    BY DEF Text
  <1>3. \A n \in 0 .. Len(text) : g[n] \in Seq(Entries)
    BY <1>1 DEF Reads
  <1> HIDE DEF g
  <1>4. T = {}
    <2> SUFFICES ASSUME T # {} PROVE FALSE
      OBVIOUS
    <2>1. PICK m \in T : \A k \in T : m <= k
      <3> HIDE DEF Found, Once
      <3>1. T \subseteq Nat
        BY <1>2
      <3> HIDE DEF T
      <3> QED BY <3>1, Least
    <2>2. m # 0
      <3>1. g[0] = <<>>
        BY <1>1 DEF Reads
      <3>2. Found(0) /\ Once(0)
        BY <3>1
      <3> QED BY <2>1, <3>2
    <2>3. /\ m - 1 \in 0 .. Len(text) /\ Found(m - 1) /\ Once(m - 1)
          /\ m \in 1 .. Len(text) /\ m \in Nat
      <3> HIDE DEF Found, Once
      <3> QED BY <1>2, <2>1, <2>2
    <2>4. g[m] = IF Whole(text, m) THEN Append(g[m - 1], text[m].entry) ELSE g[m - 1]
      BY <1>1, <2>3 DEF Reads
    <2>5. CASE Whole(text, m)
      <3>1. text[m].end /\ text[m].entry \in Entries
            /\ text[m] = [entry |-> text[m].entry, end |-> text[m].end]
        BY <2>3, <2>5, WholeIs, PieceOf
      <3>2. text[m] = End(text[m].entry)
        BY <2>3, <3>1, PieceOf DEF End
      <3>3. /\ Len(g[m]) = Len(g[m - 1]) + 1 /\ g[m][Len(g[m])] = text[m].entry
            /\ \A k \in 1 .. Len(g[m - 1]) : g[m][k] = g[m - 1][k]
            /\ Len(g[m - 1]) \in Nat
        <4>1. g[m - 1] \in Seq(Entries) /\ g[m] = Append(g[m - 1], text[m].entry)
          BY <1>3, <2>3, <2>4, <2>5
        <4> HIDE DEF Found, Once
        <4> QED BY <3>1, <4>1, AppendProperties, LenProperties
      <3>4. ASSUME NEW k \in 1 .. Len(g[m - 1])
            PROVE  g[m][k] # text[m].entry
        <4>1. PICK i \in 1 .. m - 1 : text[i] = End(g[m][k])
          BY <2>3, <3>3
        <4>2. i # m /\ i \in 1 .. Len(text)
          BY <2>3
        <4> QED BY <2>3, <3>1, <3>2, <4>1, <4>2
      <3>5. Found(m)
        <4> SUFFICES ASSUME NEW k \in 1 .. Len(g[m])
                     PROVE  \E i \in 1 .. m : text[i] = End(g[m][k])
          OBVIOUS
        <4>1. CASE k = Len(g[m])
          BY <2>3, <3>2, <3>3, <4>1
        <4>2. CASE k \in 1 .. Len(g[m - 1])
          <5>1. PICK i \in 1 .. m - 1 : text[i] = End(g[m - 1][k])
            BY <2>3, <4>2
          <5> QED BY <2>3, <3>3, <4>2, <5>1
        <4> QED BY <3>3, <4>1, <4>2
      <3>6. Once(m)
        <4> SUFFICES ASSUME NEW k \in 1 .. Len(g[m]), NEW l \in 1 .. Len(g[m]),
                            g[m][k] = g[m][l]
                     PROVE  k = l
          OBVIOUS
        <4>1. CASE k = Len(g[m])
          BY <3>3, <3>4, <4>1
        <4>2. CASE l = Len(g[m])
          BY <3>3, <3>4, <4>2
        <4>3. CASE k # Len(g[m]) /\ l # Len(g[m])
          <5> DEFINE n == Len(g[m - 1])
          <5>1. n \in Nat /\ Len(g[m]) = n + 1
            BY <3>3
          <5> HIDE DEF n
          <5>2. k \in 1 .. n /\ l \in 1 .. n
            BY <4>3, <5>1
          <5> QED BY <2>3, <3>3, <5>2 DEF n
        <4> QED BY <4>1, <4>2, <4>3
      <3> QED BY <2>1, <3>5, <3>6
    <2>6. CASE ~Whole(text, m)
      <3>1. Found(m)
        <4> SUFFICES ASSUME NEW k \in 1 .. Len(g[m])
                     PROVE  \E i \in 1 .. m : text[i] = End(g[m][k])
          OBVIOUS
        <4>1. PICK i \in 1 .. m - 1 : text[i] = End(g[m][k])
          BY <2>3, <2>4, <2>6
        <4> QED BY <2>3, <4>1
      <3>2. Once(m)
        BY <2>3, <2>4, <2>6
      <3> QED BY <2>1, <3>1, <3>2
    <2> QED BY <2>5, <2>6
  <1>5. Once(Len(text))
    <2> HIDE DEF Found, Once
    <2> QED BY <1>2, <1>4
  <1> QED BY <1>1, <1>2, <1>5


\* The complete part of a text ends a line, and no line ends after it.
LEMMA CompletePart ==
  ASSUME NEW text \in Text
  PROVE  /\ CompleteLength(text) \in 0 .. Len(text)
         /\ EndsLine(text, CompleteLength(text))
         /\ \A i \in 1 .. Len(text) : text[i].end => i <= CompleteLength(text)
  <1> DEFINE S == {0} \cup Ends(text)
  <1>1. Len(text) \in Nat /\ Ends(text) = {i \in 1 .. Len(text) : text[i].end}
    BY EndsAre, LenProperties DEF Text
  <1>2. S \subseteq 0 .. Len(text) /\ S # {}
    BY <1>1
  <1>3. CompleteLength(text) = Max(S)
    BY DEF CompleteLength
  <1>4. Max(S) \in S /\ \A x \in S : x <= Max(S)
    <2> HIDE DEF S
    <2> QED BY <1>1, <1>2, MaxIsGreatest
  <1> QED BY <1>1, <1>2, <1>3, <1>4 DEF EndsLine

\* A piece of a text, and what it is parsed to: nothing is lost with the part
\* that is not complete.
LEMMA Cut ==
  ASSUME NEW text \in Text, NEW m \in 0 .. Len(text), NEW n \in m .. Len(text)
  PROVE  /\ SubSeq(text, m + 1, n) \in Text /\ Len(SubSeq(text, m + 1, n)) = n - m
         /\ \A i \in 1 .. n - m : SubSeq(text, m + 1, n)[i] = text[m + i]
  <1>1. Len(text) \in Nat
    BY DEF Text
  <1>2. \A i \in m + 1 .. n : text[i] \in Piece
    <2> TAKE i \in m + 1 .. n
    <2>1. i \in 1 .. Len(text)
      BY <1>1
    <2> QED BY <2>1, PieceOf
  <1>3. m + 1 \in Int /\ n \in Int
    BY <1>1
  <1>4. /\ SubSeq(text, m + 1, n) \in Seq(Piece)
        /\ Len(SubSeq(text, m + 1, n)) = IF m + 1 <= n THEN n - (m + 1) + 1 ELSE 0
        /\ \A i \in 1 .. n - (m + 1) + 1 : SubSeq(text, m + 1, n)[i] = text[m + 1 + i - 1]
    BY <1>2, <1>3, SubSeqProperties
  <1>5. (IF m + 1 <= n THEN n - (m + 1) + 1 ELSE 0) = n - m /\ n - (m + 1) + 1 = n - m
    BY <1>1
  <1>6. \A i \in 1 .. n - m : m + 1 + i - 1 = m + i
    BY <1>1
  <1> QED BY <1>4, <1>5, <1>6 DEF Text

LEMMA ParsedComplete ==
  ASSUME NEW text \in Text
  PROVE  Parsed(text) = Parsed(SubSeq(text, 1, CompleteLength(text)))
  <1> DEFINE c == CompleteLength(text)
             u == SubSeq(text, 1, c)
             v == SubSeq(text, c + 1, Len(text))
  <1>1. /\ c \in 0 .. Len(text) /\ EndsLine(text, c) /\ Len(text) \in Nat
        /\ \A i \in 1 .. Len(text) : text[i].end => i <= c
    BY CompletePart, LenProperties DEF Text
  <1> HIDE DEF c
  <1>2. u \in Text /\ Len(u) = c /\ \A i \in 1 .. c : u[i] = text[i]
    <2>1. 0 \in 0 .. Len(text) /\ c \in 0 .. Len(text) /\ 0 + 1 = 1 /\ c - 0 = c
          /\ \A i \in 1 .. c : 0 + i = i
      BY <1>1
    <2> QED BY <2>1, Cut
  <1>3. v \in Text /\ Len(v) = Len(text) - c /\ \A i \in 1 .. Len(text) - c : v[i] = text[c + i]
    <2>1. Len(text) \in c .. Len(text)
      BY <1>1
    <2> QED BY <1>1, <2>1, Cut
  <1>4. u \o v = text
    <2>1. 1 \in 1 .. Len(text) + 1 /\ c \in 1 - 1 .. Len(text) /\ Len(text) \in c .. Len(text)
      BY <1>1
    <2>2. u \o v = SubSeq(text, 1, Len(text))
      BY <2>1, ConcatAdjacentSubSeq DEF Text
    <2> QED BY <2>2, SubSeqFull DEF Text
  <1> HIDE DEF u, v
  <1>5. EndsLine(u, Len(u))
    BY <1>1, <1>2, EndsAre DEF EndsLine
  <1>6. \A i \in 1 .. Len(v) : ~v[i].end
    BY <1>1, <1>3
  <1>7. Parsed(text) = Parsed(u) \o <<>>
    BY <1>2, <1>3, <1>4, <1>5, <1>6, ParsedJoined, ParsedNothing
  <1> QED BY <1>2, <1>7, ParsedFrom, ConcatEmptySeq DEF c, u

LEMMA SuffixIs ==
  ASSUME NEW s \in Seq(Entries), NEW r \in Seq(Entries)
  PROVE  IsSuffix(s, r \o s)
  <1> DEFINE t == r \o s
             n == Len(s)
             m == Len(r)
             rs == Reverse(s)
             rt == Reverse(t)
  <1>1. /\ t \in Seq(Entries) /\ n \in Nat /\ m \in Nat /\ Len(t) = m + n
        /\ \A i \in 1 .. m + n : t[i] = IF i <= m THEN r[i] ELSE s[i - m]
    BY ConcatProperties, LenProperties
  <1> HIDE DEF t
  <1>2. /\ rs \in Seq(Entries) /\ Len(rs) = n /\ \A i \in 1 .. n : rs[i] = s[(n - i) + 1]
    <2>1. \A i \in 1 .. n : (n - i) + 1 \in 1 .. n
      BY <1>1
    <2> QED BY <1>1, <2>1 DEF Reverse
  <1>3. /\ rt \in Seq(Entries) /\ Len(rt) = m + n
        /\ \A i \in 1 .. m + n : rt[i] = t[((m + n) - i) + 1]
    <2>1. \A i \in 1 .. m + n : ((m + n) - i) + 1 \in 1 .. m + n
      BY <1>1
    <2> QED BY <1>1, <2>1 DEF Reverse
  <1> HIDE DEF rs, rt, n, m
  <1>4. \A i \in 1 .. n : rt[i] = rs[i]
    <2> TAKE i \in 1 .. n
    <2>1. i \in 1 .. m + n /\ ((m + n) - i) + 1 \in 1 .. m + n
          /\ ~(((m + n) - i) + 1 <= m) /\ (((m + n) - i) + 1) - m = (n - i) + 1
      BY <1>1
    <2> QED BY <1>1, <1>2, <1>3, <2>1
  <1>5. SubSeq(rs, 1, n) = SubSeq(rt, 1, n)
    <2>1. \A i \in 1 .. n : rs[i] \in Entries /\ rt[i] \in Entries
      BY <1>1, <1>2, <1>4, ElementOfSeq
    <2>2. 1 \in Int /\ n \in Int /\ (IF 1 <= n THEN n - 1 + 1 ELSE 0) = n /\ n - 1 + 1 = n
          /\ \A i \in 1 .. n : 1 + i - 1 = i
      BY <1>1
    <2>3. /\ SubSeq(rs, 1, n) \in Seq(Entries) /\ Len(SubSeq(rs, 1, n)) = n
          /\ \A i \in 1 .. n : SubSeq(rs, 1, n)[i] = rs[i]
      BY <2>1, <2>2, SubSeqProperties
    <2>4. /\ SubSeq(rt, 1, n) \in Seq(Entries) /\ Len(SubSeq(rt, 1, n)) = n
          /\ \A i \in 1 .. n : SubSeq(rt, 1, n)[i] = rt[i]
      BY <2>1, <2>2, SubSeqProperties
    <2> QED BY <1>4, <2>3, <2>4, SeqEqual
  <1>6. n <= m + n
    BY <1>1
  <1>7. IsPrefix(rs, rt)
    BY <1>2, <1>3, <1>5, <1>6 DEF IsPrefix
  <1> QED BY <1>7 DEF IsSuffix, rs, rt, t

-----------------------------------------------------------------------------
(* The inductive invariant of the audit log.                               *)

TaskPc == {"idle", "opened", "locked", "begun", "written", "done", "failed"}
Stages == {"off", "recent", "polling", "reading", "failed"}

LogTyped ==
    /\ files \in Seq(Text) /\ log \in {0, Len(files)}
    /\ task \in [Entries -> TaskPc] /\ fd \in [Entries -> 0 .. Len(files)]
    /\ reader \in [stage : Stages, file : 0 .. Len(files), at : Nat, from : Nat]
    /\ printed \in Seq(Entries)

\* Before it has read what is there, the reader has printed nothing.
ReaderPlace ==
    /\ reader.stage = "off" => reader.file = 0
    /\ reader.stage \in {"off", "recent"} => reader.at = 0 /\ reader.from = 0 /\ printed = <<>>
    /\ reader.stage \in {"recent", "reading"} => reader.file # 0

Opened == \A e \in Entries :
    task[e] \in {"opened", "locked", "begun", "written"} => fd[e] # 0

\* The lock: one task at a time writes to a file.
Exclusive == \A d, e \in Entries : Writing(d) /\ Writing(e) /\ fd[d] = fd[e] => d = e

\* So what a task has begun is still the end of its file when it goes on.
Begun == \A e \in Entries : task[e] = "begun" =>
    /\ Len(files[fd[e]]) > 0
    /\ files[fd[e]][Len(files[fd[e]])] = Begin(e)

Records == \A f \in 1 .. Len(files) : \A i \in 1 .. Len(files[f]) :
    files[f][i].end => i > 1 /\ files[f][i - 1] = Begin(files[f][i].entry)

\* A record is ended by its own task, and once.
EndedByTask == \A f \in 1 .. Len(files) : \A i \in 1 .. Len(files[f]) :
    files[f][i].end => task[files[f][i].entry] \in {"written", "done", "failed"}

EndedOnce == \A f, g \in 1 .. Len(files) : \A i \in 1 .. Len(files[f]), j \in 1 .. Len(files[g]) :
    files[f][i].end /\ files[f][i] = files[g][j] => f = g /\ i = j

\* The cursor is between lines; what it has passed is what was printed last.
CursorAt == reader.file # 0 =>
    /\ EndsLine(files[reader.file], reader.at) /\ EndsLine(files[reader.file], reader.from)
    /\ reader.from <= reader.at
    /\ \E r \in Seq(Entries) :
          printed = r \o Parsed(SubSeq(files[reader.file], reader.from + 1, reader.at))

\* What was printed ends before the cursor, or in a file that is behind it.
Passed(f, i) == f < reader.file \/ (f = reader.file /\ i <= reader.at)

Sourced == \A k \in 1 .. Len(printed) :
    \E f \in 1 .. Len(files) : \E i \in 1 .. Len(files[f]) :
        files[f][i] = End(printed[k]) /\ Passed(f, i)

PrintedOnce == \A k, l \in 1 .. Len(printed) : printed[k] = printed[l] => k = l

LogTypes == LogTyped /\ ReaderPlace /\ Opened
Writers  == Exclusive /\ Begun /\ Records /\ EndedByTask /\ EndedOnce
Reading  == CursorAt /\ Sourced /\ PrintedOnce
LogKept  == LogTypes /\ Writers /\ Reading

LEMMA InitLog == LogInit => LogKept
  <1> SUFFICES ASSUME LogInit PROVE LogKept
    OBVIOUS
  <1>1. /\ files = << <<>> >> /\ log = 1 /\ printed = <<>>
        /\ task = [e \in Entries |-> "idle"] /\ fd = [e \in Entries |-> 0]
        /\ reader = [stage |-> "off", file |-> 0, at |-> 0, from |-> 0]
    BY DEF LogInit, NoLog
  <1>2. <<>> \in Text
    BY DEF Text
  <1>3. files \in Seq(Text) /\ Len(files) = 1 /\ files[1] = <<>>
    BY <1>1, <1>2
  <1>4. LogTypes
    <2>1. fd \in [Entries -> 0 .. Len(files)] /\ log \in {0, Len(files)}
      BY <1>1, <1>3
    <2>2. task \in [Entries -> TaskPc] /\ printed \in Seq(Entries)
      BY <1>1 DEF TaskPc
    <2>3. reader \in [stage : Stages, file : 0 .. Len(files), at : Nat, from : Nat]
      BY <1>1, <1>3 DEF Stages
    <2>4. ReaderPlace
      BY <1>1 DEF ReaderPlace
    <2>5. Opened
      BY <1>1 DEF Opened
    <2> QED BY <1>3, <2>1, <2>2, <2>3, <2>4, <2>5 DEF LogTypes, LogTyped
  <1>5. \A f \in 1 .. Len(files) : 1 .. Len(files[f]) = {}
    BY <1>3
  <1>6. Writers
    BY <1>1, <1>5 DEF Writers, Exclusive, Begun, Records, EndedByTask, EndedOnce, Writing
  <1>7. Reading
    BY <1>1 DEF Reading, CursorAt, Sourced, PrintedOnce
  <1> QED BY <1>4, <1>6, <1>7 DEF LogKept

-----------------------------------------------------------------------------
(* Files only grow.                                                        *)

Grown ==
    /\ Len(files) <= Len(files')
    /\ \A f \in 1 .. Len(files) :
          /\ Len(files[f]) <= Len(files'[f])
          /\ \A i \in 1 .. Len(files[f]) : files'[f][i] = files[f][i]

LEMMA FileIs ==
  ASSUME LogTyped, NEW f \in 1 .. Len(files)
  PROVE  files[f] \in Text /\ Len(files[f]) \in Nat /\ Len(files) \in Nat
  <1>1. files[f] \in Text
    BY ElementOfSeq DEF LogTyped
  <1> QED BY <1>1, LenProperties DEF Text, LogTyped

LEMMA SameGrown ==
  ASSUME LogTyped, files' = files
  PROVE  Grown
  <1>1. Len(files) \in Nat /\ \A f \in 1 .. Len(files) : Len(files[f]) \in Nat
    BY FileIs, LenProperties DEF LogTyped
  <1> QED BY <1>1 DEF Grown

\* A new file is empty.
LEMMA Added ==
  ASSUME LogTyped, files' = Append(files, <<>>)
  PROVE  /\ files' \in Seq(Text) /\ Len(files) \in Nat /\ Len(files') = Len(files) + 1
         /\ \A f \in 1 .. Len(files) : files'[f] = files[f]
         /\ files'[Len(files')] = <<>>
         /\ Grown
  <1>1. <<>> \in Text
    BY DEF Text
  <1>2. /\ files' \in Seq(Text) /\ Len(files) \in Nat /\ Len(files') = Len(files) + 1
        /\ \A f \in 1 .. Len(files) : files'[f] = files[f]
        /\ files'[Len(files')] = <<>>
    BY <1>1, AppendProperties, LenProperties DEF LogTyped
  <1>3. Grown
    BY <1>2, FileIs DEF Grown
  <1> QED BY <1>2, <1>3

\* A piece is written at the end of a file.
LEMMA Appended ==
  ASSUME LogTyped, NEW d \in 1 .. Len(files), NEW p \in Piece,
         files' = [files EXCEPT ![d] = Append(@, p)]
  PROVE  /\ files' \in Seq(Text) /\ Len(files') = Len(files) /\ Len(files) \in Nat
         /\ \A f \in 1 .. Len(files) : f # d => files'[f] = files[f]
         /\ Len(files[d]) \in Nat /\ Len(files'[d]) = Len(files[d]) + 1
         /\ files'[d][Len(files[d]) + 1] = p
         /\ \A i \in 1 .. Len(files[d]) : files'[d][i] = files[d][i]
         /\ Grown
  <1>1. files \in Seq(Text) /\ files[d] \in Text /\ Len(files[d]) \in Nat /\ Len(files) \in Nat
    BY FileIs DEF LogTyped
  <1>2. /\ Append(files[d], p) \in Text /\ Len(Append(files[d], p)) = Len(files[d]) + 1
        /\ Append(files[d], p)[Len(files[d]) + 1] = p
        /\ \A i \in 1 .. Len(files[d]) : Append(files[d], p)[i] = files[d][i]
    BY <1>1, AppendProperties DEF Text
  <1>3. files' = [files EXCEPT ![d] = Append(files[d], p)]
    OBVIOUS
  <1>4. /\ files' \in Seq(Text) /\ Len(files') = Len(files)
        /\ \A f \in 1 .. Len(files) : files'[f] = IF f = d THEN Append(files[d], p) ELSE files[f]
    BY <1>1, <1>2, <1>3, ExceptSeq
  <1>5. Grown
    BY <1>1, <1>2, <1>4, FileIs DEF Grown
  <1> QED BY <1>1, <1>2, <1>4, <1>5

\* What the reader has passed stays as it was.
LEMMA PartKept ==
  ASSUME LogTyped, files' \in Seq(Text), Grown, NEW f \in 1 .. Len(files),
         NEW m \in 0 .. Len(files[f]), NEW n \in m .. Len(files[f])
  PROVE  SubSeq(files'[f], m + 1, n) = SubSeq(files[f], m + 1, n)
  <1> DEFINE s == files[f]
             t == files'[f]
  <1>1. s \in Text /\ Len(s) \in Nat /\ Len(files) \in Nat
    BY FileIs
  <1>2. f \in 1 .. Len(files')
    BY <1>1, LenProperties DEF Grown
  <1>3. t \in Text /\ Len(t) \in Nat
    BY <1>2, ElementOfSeq, LenProperties DEF Text
  <1>4. Len(s) <= Len(t) /\ \A i \in 1 .. Len(s) : t[i] = s[i]
    BY DEF Grown
  <1>5. m \in 0 .. Len(t) /\ n \in m .. Len(t) /\ m \in 0 .. Len(s) /\ n \in m .. Len(s)
    BY <1>1, <1>3, <1>4
  <1> HIDE DEF s, t
  <1>6. /\ SubSeq(s, m + 1, n) \in Text /\ Len(SubSeq(s, m + 1, n)) = n - m
        /\ \A i \in 1 .. n - m : SubSeq(s, m + 1, n)[i] = s[m + i]
    BY <1>1, <1>5, Cut
  <1>7. /\ SubSeq(t, m + 1, n) \in Text /\ Len(SubSeq(t, m + 1, n)) = n - m
        /\ \A i \in 1 .. n - m : SubSeq(t, m + 1, n)[i] = t[m + i]
    BY <1>3, <1>5, Cut
  <1>8. \A i \in 1 .. n - m : m + i \in 1 .. Len(s)
    BY <1>1, <1>5
  <1>9. \A i \in 1 .. n - m : SubSeq(t, m + 1, n)[i] = SubSeq(s, m + 1, n)[i]
    BY <1>4, <1>6, <1>7, <1>8
  <1> QED BY <1>6, <1>7, <1>9, SeqEqual DEF Text, s, t

LEMMA EndsGrown ==
  ASSUME LogTyped, files' \in Seq(Text), Grown, NEW f \in 1 .. Len(files), NEW n,
         EndsLine(files[f], n)
  PROVE  EndsLine(files'[f], n)
  <1>1. files[f] \in Text /\ Len(files[f]) \in Nat /\ Len(files) \in Nat
    BY FileIs
  <1>2. f \in 1 .. Len(files')
    BY <1>1, LenProperties DEF Grown
  <1>3. files'[f] \in Text /\ Len(files'[f]) \in Nat
    BY <1>2, ElementOfSeq, LenProperties DEF Text
  <1>4. CASE n = 0
    BY <1>4 DEF EndsLine
  <1>5. CASE n \in Ends(files[f])
    <2>1. n \in 1 .. Len(files[f]) /\ files[f][n].end
      BY <1>1, <1>5, EndsAre
    <2>2. n \in 1 .. Len(files'[f]) /\ files'[f][n].end
      BY <1>1, <1>3, <2>1 DEF Grown
    <2> QED BY <1>3, <2>2, EndsAre DEF EndsLine
  <1> QED BY <1>4, <1>5 DEF EndsLine

\* Where the cursor is.
LEMMA CursorIn ==
  ASSUME LogTyped, CursorAt, reader.file # 0
  PROVE  /\ reader.file \in 1 .. Len(files) /\ files[reader.file] \in Text
         /\ Len(files[reader.file]) \in Nat
         /\ reader.at \in 0 .. Len(files[reader.file])
         /\ reader.from \in 0 .. Len(files[reader.file])
         /\ reader.at \in reader.from .. Len(files[reader.file])
  <1>1. /\ reader.file \in 0 .. Len(files) /\ Len(files) \in Nat
        /\ reader.at \in Nat /\ reader.from \in Nat
    BY LenProperties DEF LogTyped
  <1>2. reader.file \in 1 .. Len(files)
    BY <1>1
  <1>3. files[reader.file] \in Text /\ Len(files[reader.file]) \in Nat
    BY <1>2, FileIs
  <1>4. \A n : EndsLine(files[reader.file], n) => n \in 0 .. Len(files[reader.file])
    BY <1>3, EndsAre DEF EndsLine
  <1>5. EndsLine(files[reader.file], reader.at) /\ EndsLine(files[reader.file], reader.from)
        /\ reader.from <= reader.at
    BY DEF CursorAt
  <1>6. reader.at \in 0 .. Len(files[reader.file]) /\ reader.from \in 0 .. Len(files[reader.file])
    BY <1>4, <1>5
  <1> QED BY <1>1, <1>2, <1>3, <1>5, <1>6

\* Whoever does not read leaves what was read.
LEMMA ReadingKept ==
  ASSUME LogTyped, Reading, LogTyped', Grown, UNCHANGED <<reader, printed>>
  PROVE  Reading'
  <1>1. files' \in Seq(Text) /\ Len(files') \in Nat /\ Len(files) \in Nat
    BY LenProperties DEF LogTyped
  <1>2. CursorAt'
    <2> SUFFICES ASSUME reader.file # 0
        PROVE  /\ EndsLine(files'[reader.file], reader.at)
               /\ EndsLine(files'[reader.file], reader.from)
               /\ reader.from <= reader.at
               /\ \E r \in Seq(Entries) : printed = r \o Parsed(
                     SubSeq(files'[reader.file], reader.from + 1, reader.at))
      BY DEF CursorAt
    <2>1. /\ EndsLine(files[reader.file], reader.at) /\ EndsLine(files[reader.file], reader.from)
          /\ reader.from <= reader.at
          /\ \E r \in Seq(Entries) :
               printed = r \o Parsed(SubSeq(files[reader.file], reader.from + 1, reader.at))
      BY DEF Reading, CursorAt
    <2>2. /\ reader.file \in 1 .. Len(files)
          /\ reader.from \in 0 .. Len(files[reader.file])
          /\ reader.at \in reader.from .. Len(files[reader.file])
      BY CursorIn DEF Reading
    <2>3. EndsLine(files'[reader.file], reader.at) /\ EndsLine(files'[reader.file], reader.from)
      BY <1>1, <2>1, <2>2, EndsGrown
    <2>4. PICK f \in 1 .. Len(files) : f = reader.file
      BY <2>2
    <2>5. PICK m \in 0 .. Len(files[f]) : m = reader.from
      BY <2>2, <2>4
    <2>6. PICK n \in m .. Len(files[f]) : n = reader.at
      BY <2>2, <2>4, <2>5
    <2>7. SubSeq(files'[f], m + 1, n) = SubSeq(files[f], m + 1, n)
      BY <1>1, PartKept
    <2> QED BY <2>1, <2>3, <2>4, <2>5, <2>6, <2>7
  <1>3. Sourced'
    <2> SUFFICES ASSUME NEW k \in 1 .. Len(printed)
        PROVE  \E f \in 1 .. Len(files') : \E i \in 1 .. Len(files'[f]) :
                  files'[f][i] = End(printed[k]) /\ Passed(f, i)
      BY DEF Sourced, Passed
    <2>1. PICK f \in 1 .. Len(files) : \E i \in 1 .. Len(files[f]) :
                  files[f][i] = End(printed[k]) /\ Passed(f, i)
      BY DEF Reading, Sourced
    <2>2. PICK i \in 1 .. Len(files[f]) : files[f][i] = End(printed[k]) /\ Passed(f, i)
      BY <2>1
    <2>3. f \in 1 .. Len(files') /\ Len(files[f]) \in Nat
      BY <1>1, FileIs DEF Grown
    <2>4. Len(files'[f]) \in Nat
      BY <1>1, <2>3, ElementOfSeq, LenProperties DEF Text
    <2>5. i \in 1 .. Len(files'[f]) /\ files'[f][i] = files[f][i]
      BY <2>3, <2>4 DEF Grown
    <2> QED BY <2>2, <2>3, <2>5
  <1>4. PrintedOnce'
    BY DEF Reading, PrintedOnce
  <1> QED BY <1>2, <1>3, <1>4 DEF Reading

-----------------------------------------------------------------------------
(* The tasks that log.                                                     *)

LEMMA TypesKept ==
  ASSUME LogTypes, files' \in Seq(Text), Len(files) <= Len(files'), log' \in {0, Len(files')},
         task' \in [Entries -> TaskPc], fd' \in [Entries -> 0 .. Len(files')], Opened',
         UNCHANGED <<reader, printed>>
  PROVE  LogTypes'
  <1>1. reader' \in [stage : Stages, file : 0 .. Len(files'), at : Nat, from : Nat]
    <2>1. Len(files) \in Nat /\ Len(files') \in Nat
      BY LenProperties DEF LogTypes, LogTyped
    <2>2. 0 .. Len(files) \subseteq 0 .. Len(files')
      BY <2>1
    <2> QED BY <2>2 DEF LogTypes, LogTyped
  <1>2. ReaderPlace'
    BY DEF LogTypes, ReaderPlace
  <1> QED BY <1>1, <1>2 DEF LogTypes, LogTyped

\* Tasks that go no further than they have written leave the texts sound.
LEMMA WritersKept ==
  ASSUME LogTypes, Writers, files' \in Seq(Text),
         \A f \in 1 .. Len(files) : files'[f] = files[f],
         Len(files') = Len(files)
           \/ (Len(files') = Len(files) + 1 /\ files'[Len(files')] = <<>>),
         \A e \in Entries : /\ task'[e] = "begun" => task[e] = "begun" /\ fd'[e] = fd[e]
                            /\ task[e] \in {"written", "done", "failed"}
                                 => task'[e] \in {"written", "done", "failed"},
         Exclusive'
  PROVE  Writers'
  <1>1. Len(files) \in Nat /\ Len(files') \in Nat
    BY LenProperties DEF LogTypes, LogTyped
  <1>2. \A f \in 1 .. Len(files') : f \in 1 .. Len(files) \/ 1 .. Len(files'[f]) = {}
    BY <1>1
  <1>3. Begun'
    <2> SUFFICES ASSUME NEW e \in Entries, task'[e] = "begun"
                 PROVE  /\ Len(files'[fd'[e]]) > 0
                        /\ files'[fd'[e]][Len(files'[fd'[e]])] = Begin(e)
      BY DEF Begun
    <2>1. task[e] = "begun" /\ fd'[e] = fd[e] /\ fd[e] # 0 /\ fd[e] \in 0 .. Len(files)
      BY DEF LogTypes, LogTyped, Opened
    <2>2. fd[e] \in 1 .. Len(files)
      BY <1>1, <2>1
    <2> QED BY <2>1, <2>2 DEF Writers, Begun
  <1>4. Records'
    BY <1>1, <1>2 DEF Writers, Records
  <1>5. EndedByTask'
    <2> SUFFICES ASSUME NEW f \in 1 .. Len(files'), NEW i \in 1 .. Len(files'[f]),
                        files'[f][i].end
                 PROVE  task'[files'[f][i].entry] \in {"written", "done", "failed"}
      BY DEF EndedByTask
    <2>1. f \in 1 .. Len(files) /\ files'[f] = files[f]
      BY <1>2
    <2>2. files[f][i].entry \in Entries
      BY <2>1, FileIs, PieceOf DEF LogTypes
    <2>3. task[files[f][i].entry] \in {"written", "done", "failed"}
      BY <2>1 DEF Writers, EndedByTask
    <2> QED BY <2>1, <2>2, <2>3
  <1>6. EndedOnce'
    BY <1>2 DEF Writers, EndedOnce
  <1> QED BY <1>3, <1>4, <1>5, <1>6 DEF Writers

LEMMA OpenKeeps ==
  ASSUME LogKept, NEW e \in Entries, Open(e)
  PROVE  LogKept'
  <1>1. LogTypes /\ LogTyped /\ Writers /\ Reading /\ UNCHANGED <<reader, printed>>
    BY DEF LogKept, LogTypes, Open
  <1>2. /\ task[e] = "idle" /\ task' = [task EXCEPT ![e] = "opened"]
        /\ fd' = [fd EXCEPT ![e] = log']
        /\ \/ log # 0 /\ UNCHANGED <<files, log>>
           \/ files' = Append(files, <<>>) /\ log' = Len(files) + 1
    BY DEF Open, NoLog
  <1>3. /\ files' \in Seq(Text) /\ \A f \in 1 .. Len(files) : files'[f] = files[f]
        /\ Grown /\ Len(files) \in Nat /\ log' = Len(files') /\ log' # 0
        /\ \/ Len(files') = Len(files)
           \/ Len(files') = Len(files) + 1 /\ files'[Len(files')] = <<>>
    <2>1. CASE log # 0 /\ UNCHANGED <<files, log>>
      BY <1>1, <2>1, SameGrown, LenProperties DEF LogTyped
    <2>2. CASE files' = Append(files, <<>>) /\ log' = Len(files) + 1
      <3>1. /\ files' \in Seq(Text) /\ Len(files) \in Nat /\ Len(files') = Len(files) + 1
            /\ \A f \in 1 .. Len(files) : files'[f] = files[f]
            /\ files'[Len(files')] = <<>>
            /\ Grown
        BY <1>1, <2>2, Added
      <3> QED BY <2>2, <3>1
    <2> QED BY <1>2, <2>1, <2>2
  <1>4. task \in [Entries -> TaskPc] /\ fd \in [Entries -> 0 .. Len(files)]
    BY <1>1 DEF LogTyped
  <1>5. task' \in [Entries -> TaskPc] /\ fd' \in [Entries -> 0 .. Len(files')]
    <2>1. \A d \in Entries : fd[d] \in 0 .. Len(files') /\ log' \in 0 .. Len(files')
      BY <1>3, <1>4
    <2> QED BY <1>2, <1>4, <2>1 DEF TaskPc
  <1>6. \A d \in Entries : d # e => task'[d] = task[d] /\ fd'[d] = fd[d]
    BY <1>2, <1>4
  <1>7. task'[e] = "opened" /\ fd'[e] # 0
    BY <1>2, <1>3, <1>4
  <1>8. Opened'
    BY <1>1, <1>6, <1>7 DEF LogTypes, Opened
  <1>9. Exclusive'
    BY <1>1, <1>6, <1>7 DEF Writers, Exclusive, Writing
  <1>10. Len(files) <= Len(files')
    BY <1>3
  <1>11. LogTypes'
    BY <1>1, <1>3, <1>5, <1>8, <1>10, TypesKept
  <1>12. Writers'
    BY <1>1, <1>2, <1>3, <1>6, <1>7, <1>9, WritersKept
  <1> QED BY <1>1, <1>3, <1>11, <1>12, ReadingKept DEF LogKept, LogTypes

\* A step of tasks that touches no file.
LEMMA TasksKept ==
  ASSUME LogKept, UNCHANGED <<files, log, fd, reader, printed>>, task' \in [Entries -> TaskPc],
         \A e \in Entries :
            \/ task'[e] = task[e]
            \/ task[e] = "opened" /\ task'[e] = "locked" /\ LockedBy(fd[e]) = {}
                 /\ \A d \in Entries : d # e => task'[d] = task[d]
            \/ task'[e] \in {"done", "failed"}
  PROVE  LogKept'
  <1>1. LogTypes /\ LogTyped /\ Writers /\ Reading /\ UNCHANGED <<reader, printed>>
    BY DEF LogKept, LogTypes
  <1>2. files \in Seq(Text) /\ Len(files) \in Nat /\ log \in {0, Len(files)}
        /\ fd \in [Entries -> 0 .. Len(files)]
    BY <1>1, LenProperties DEF LogTyped
  <1>3. Opened'
    BY <1>1 DEF LogTypes, Opened
  <1>4. Exclusive'
    <2> SUFFICES ASSUME NEW d \in Entries, NEW e \in Entries, fd[d] = fd[e], d # e,
                        task'[d] \in {"locked", "begun", "written"},
                        task'[e] \in {"locked", "begun", "written"}
                 PROVE  FALSE
      BY DEF Exclusive, Writing
    <2>1. CASE task'[d] = task[d] /\ task'[e] = task[e]
      BY <1>1, <2>1 DEF Writers, Exclusive, Writing
    <2>2. CASE task'[d] # task[d]
      <3>1. LockedBy(fd[d]) = {} /\ task'[e] = task[e]
        BY <2>2
      <3> QED BY <3>1 DEF LockedBy, Writing
    <2>3. CASE task'[e] # task[e]
      <3>1. LockedBy(fd[e]) = {} /\ task'[d] = task[d]
        BY <2>3
      <3> QED BY <3>1 DEF LockedBy, Writing
    <2> QED BY <2>1, <2>2, <2>3
  <1>5. LogTypes'
    BY <1>1, <1>2, <1>3, TypesKept
  <1>6. Writers'
    BY <1>1, <1>2, <1>4, WritersKept
  <1> QED BY <1>1, <1>5, <1>6, SameGrown, ReadingKept DEF LogKept, LogTypes

LEMMA TaskStepKeeps ==
  ASSUME LogKept, NEW e \in Entries, Lock(e) \/ Unlock(e) \/ Fail(e)
  PROVE  LogKept'
  <1>1. task \in [Entries -> TaskPc]
    BY DEF LogKept, LogTypes, LogTyped
  <1>2. CASE Lock(e)
    <2>1. /\ task[e] = "opened" /\ LockedBy(fd[e]) = {}
          /\ task' = [task EXCEPT ![e] = "locked"]
          /\ UNCHANGED <<files, log, fd, reader, printed>>
      BY <1>2 DEF Lock
    <2>2. /\ task' \in [Entries -> TaskPc] /\ task'[e] = "locked"
          /\ \A d \in Entries : d # e => task'[d] = task[d]
      BY <1>1, <2>1 DEF TaskPc
    <2> QED BY <2>1, <2>2, TasksKept
  <1>3. CASE Unlock(e) \/ Fail(e)
    <2>1. PICK to \in {"done", "failed"} :
            /\ task' = [task EXCEPT ![e] = to]
            /\ UNCHANGED <<files, log, fd, reader, printed>>
      BY <1>3 DEF Unlock, Fail
    <2>2. /\ task' \in [Entries -> TaskPc] /\ task'[e] \in {"done", "failed"}
          /\ \A d \in Entries : d # e => task'[d] = task[d]
      BY <1>1, <2>1 DEF TaskPc
    <2> QED BY <2>1, <2>2, TasksKept
  <1> QED BY <1>2, <1>3

LEMMA CrashKeeps ==
  ASSUME LogKept, Dies
  PROVE  LogKept'
  <1>1. task \in [Entries -> TaskPc]
    BY DEF LogKept, LogTypes, LogTyped
  <1>2. /\ task' = [e \in Entries |->
              IF Writing(e) \/ task[e] = "opened" THEN "failed" ELSE task[e]]
        /\ UNCHANGED <<files, log, fd, reader, printed>>
    BY DEF Dies
  <1>3. /\ task' \in [Entries -> TaskPc]
        /\ \A e \in Entries : task'[e] = task[e] \/ task'[e] = "failed"
    BY <1>1, <1>2 DEF TaskPc
  <1> QED BY <1>2, <1>3, TasksKept

LEMMA RotationKeeps ==
  ASSUME LogKept, Rename \/ Create
  PROVE  LogKept'
  <1>1. LogTypes /\ LogTyped /\ Writers /\ Reading
    BY DEF LogKept, LogTypes
  <1>2. UNCHANGED <<task, fd, reader, printed>>
    BY DEF Rename, Create, writer
  <1>3. /\ files' \in Seq(Text) /\ \A f \in 1 .. Len(files) : files'[f] = files[f]
        /\ Grown /\ Len(files) \in Nat /\ log' \in {0, Len(files')}
        /\ \/ Len(files') = Len(files)
           \/ Len(files') = Len(files) + 1 /\ files'[Len(files')] = <<>>
    <2>1. CASE Rename
      <3>1. files' = files /\ log' = 0
        BY <2>1 DEF Rename, NoLog
      <3> QED BY <1>1, <3>1, SameGrown, LenProperties DEF LogTyped
    <2>2. CASE Create
      <3>1. files' = Append(files, <<>>) /\ log' = Len(files) + 1
        BY <2>2 DEF Create
      <3>2. /\ files' \in Seq(Text) /\ Len(files) \in Nat /\ Len(files') = Len(files) + 1
            /\ \A f \in 1 .. Len(files) : files'[f] = files[f]
            /\ files'[Len(files')] = <<>>
            /\ Grown
        BY <1>1, <3>1, Added
      <3> QED BY <3>1, <3>2
    <2> QED BY <2>1, <2>2
  <1>4. fd' \in [Entries -> 0 .. Len(files')] /\ task' \in [Entries -> TaskPc]
    <2>1. 0 .. Len(files) \subseteq 0 .. Len(files') /\ fd \in [Entries -> 0 .. Len(files)]
      BY <1>1, <1>3 DEF LogTyped
    <2> QED BY <1>1, <1>2, <2>1 DEF LogTyped
  <1>5. Opened' /\ Exclusive'
    BY <1>1, <1>2 DEF LogTypes, Writers, Opened, Exclusive, Writing
  <1>6. Len(files) <= Len(files')
    BY <1>3
  <1>7. LogTypes'
    BY <1>1, <1>2, <1>3, <1>4, <1>5, <1>6, TypesKept
  <1>8. Writers'
    BY <1>1, <1>2, <1>3, <1>5, WritersKept
  <1> QED BY <1>1, <1>2, <1>3, <1>7, <1>8, ReadingKept DEF LogKept, LogTypes


\* Nobody else writes to the file a task has locked.
LEMMA OthersElsewhere ==
  ASSUME LogKept, NEW e \in Entries, Writing(e), NEW d \in Entries, d # e,
         task[d] = "begun"
  PROVE  fd[d] # fd[e]
  BY DEF LogKept, Writers, Exclusive, Writing

LEMMA WritesTypes ==
  ASSUME LogKept, NEW e \in Entries, NEW from \in {"locked", "begun"},
         NEW to \in {"begun", "written"}, NEW p \in Piece, Writes(e, from, to, p)
  PROVE  /\ task[e] = from /\ task'[e] = to /\ fd' = fd /\ Writing(e)
         /\ \A d \in Entries : d # e => task'[d] = task[d]
         /\ fd[e] \in 1 .. Len(files) /\ \A d \in Entries : fd[d] \in 0 .. Len(files)
         /\ files' = [files EXCEPT ![fd[e]] = Append(@, p)]
         /\ LogTypes' /\ Exclusive'
         /\ Grown /\ UNCHANGED <<reader, printed>>
  <1>1. LogTypes /\ LogTyped /\ Writers
    BY DEF LogKept, LogTypes
  <1>2. /\ task[e] = from /\ task' = [task EXCEPT ![e] = to]
        /\ files' = [files EXCEPT ![fd[e]] = Append(@, p)]
        /\ UNCHANGED <<log, fd, reader, printed>>
    BY DEF Writes
  <1>3. /\ task \in [Entries -> TaskPc] /\ fd \in [Entries -> 0 .. Len(files)]
        /\ log \in {0, Len(files)} /\ Len(files) \in Nat
    BY <1>1, LenProperties DEF LogTyped
  <1>4. fd[e] # 0
    BY <1>1, <1>2 DEF LogTypes, Opened
  <1>5. fd[e] \in 1 .. Len(files) /\ \A d \in Entries : fd[d] \in 0 .. Len(files)
    BY <1>3, <1>4
  <1>6. PICK f \in 1 .. Len(files) : f = fd[e]
    BY <1>5
  <1>7. files' = [files EXCEPT ![f] = Append(@, p)]
    BY <1>2, <1>6
  <1>8. files' \in Seq(Text) /\ Len(files') = Len(files) /\ Grown
    BY <1>1, <1>7, Appended
  <1>9. /\ task' \in [Entries -> TaskPc] /\ task'[e] = to
        /\ \A d \in Entries : d # e => task'[d] = task[d]
    BY <1>2, <1>3 DEF TaskPc
  <1>10. Opened'
    BY <1>1, <1>2, <1>4, <1>9 DEF LogTypes, Opened
  <1>11. Writing(e)
    BY <1>2 DEF Writing
  <1>12. \A d \in Entries : Writing(d)' => Writing(d)
    BY <1>9, <1>11 DEF Writing
  <1>13. Exclusive'
    BY <1>1, <1>2, <1>12 DEF Writers, Exclusive
  <1>14. LogTypes'
    <2>1. /\ fd' \in [Entries -> 0 .. Len(files')] /\ log' \in {0, Len(files')}
          /\ Len(files) <= Len(files')
      <3>1. fd' = fd /\ log' = log
        BY <1>2
      <3>2. Len(files') = Len(files)
        BY <1>8
      <3> QED BY <1>3, <3>1, <3>2
    <2> QED BY <1>1, <1>2, <1>8, <1>9, <1>10, <2>1, TypesKept
  <1> QED BY <1>2, <1>5, <1>8, <1>9, <1>11, <1>13, <1>14

\* What others have begun is still the end of their files.
LEMMA OthersBegun ==
  ASSUME LogKept, NEW e \in Entries, Writing(e), NEW d \in Entries, d # e,
         task[d] = "begun", fd' = fd, fd[d] \in 0 .. Len(files), NEW w \in 1 .. Len(files),
         w = fd[e], \A f \in 1 .. Len(files) : f # w => files'[f] = files[f]
  PROVE  /\ Len(files'[fd'[d]]) > 0
         /\ files'[fd'[d]][Len(files'[fd'[d]])] = Begin(d)
  <1>1. fd[d] # w
    BY OthersElsewhere
  <1>2. fd[d] # 0 /\ Len(files) \in Nat
    BY LenProperties DEF LogKept, LogTypes, LogTyped, Opened
  <1>3. fd[d] \in 1 .. Len(files) /\ files'[fd[d]] = files[fd[d]]
    BY <1>1, <1>2
  <1> QED BY <1>3 DEF LogKept, Writers, Begun

LEMMA WriteBeginKeeps ==
  ASSUME LogKept, NEW e \in Entries, WriteBegin(e)
  PROVE  LogKept'
  <1> DEFINE p == Begin(e)
  <1>1. p \in Piece /\ ~p.end
    BY DEF Begin, Piece
  <1>2. /\ task[e] = "locked" /\ task'[e] = "begun" /\ fd' = fd /\ Writing(e)
        /\ \A d \in Entries : d # e => task'[d] = task[d]
        /\ fd[e] \in 1 .. Len(files) /\ \A d \in Entries : fd[d] \in 0 .. Len(files)
        /\ files' = [files EXCEPT ![fd[e]] = Append(@, p)]
        /\ LogTypes' /\ Exclusive'
        /\ Grown /\ UNCHANGED <<reader, printed>>
    BY <1>1, WritesTypes DEF WriteBegin
  <1> HIDE DEF p
  <1>3. LogTypes /\ LogTyped /\ Writers /\ Reading
    BY DEF LogKept, LogTypes
  <1>4. PICK w \in 1 .. Len(files) : w = fd[e]
    BY <1>2
  <1>5. /\ files' \in Seq(Text) /\ Len(files') = Len(files) /\ Len(files) \in Nat
        /\ \A f \in 1 .. Len(files) : f # w => files'[f] = files[f]
        /\ Len(files[w]) \in Nat /\ Len(files'[w]) = Len(files[w]) + 1
        /\ files'[w][Len(files[w]) + 1] = p
        /\ \A i \in 1 .. Len(files[w]) : files'[w][i] = files[w][i]
    <2>1. files' = [files EXCEPT ![w] = Append(@, p)]
      BY <1>2, <1>4
    <2> QED BY <1>1, <1>3, <2>1, Appended
  \* The ends of lines are the ones there were.
  <1>6. ASSUME NEW f \in 1 .. Len(files'), NEW i \in 1 .. Len(files'[f]), files'[f][i].end
        PROVE  /\ f \in 1 .. Len(files) /\ i \in 1 .. Len(files[f])
               /\ files[f][i] = files'[f][i]
               /\ i > 1 => files'[f][i - 1] = files[f][i - 1]
    <2>1. f \in 1 .. Len(files)
      BY <1>5
    <2>2. CASE f # w
      BY <1>5, <2>1, <2>2
    <2>3. CASE f = w
      <3>1. i \in 1 .. Len(files[w])
        BY <1>1, <1>5, <1>6, <2>3
      <3>2. i > 1 => i - 1 \in 1 .. Len(files[w])
        BY <1>5, <3>1
      <3> QED BY <1>5, <2>1, <2>3, <3>1, <3>2
    <2> QED BY <2>2, <2>3
  <1>7. Begun'
    <2> SUFFICES ASSUME NEW d \in Entries, task'[d] = "begun"
                 PROVE  /\ Len(files'[fd'[d]]) > 0
                        /\ files'[fd'[d]][Len(files'[fd'[d]])] = Begin(d)
      BY DEF Begun
    <2>1. CASE d = e
      BY <1>2, <1>4, <1>5, <2>1 DEF p
    <2>2. CASE d # e
      BY <1>2, <1>4, <1>5, <2>2, OthersBegun
    <2> QED BY <2>1, <2>2
  <1>8. Records'
    <2> SUFFICES ASSUME NEW f \in 1 .. Len(files'), NEW i \in 1 .. Len(files'[f]),
                        files'[f][i].end
                 PROVE  i > 1 /\ files'[f][i - 1] = Begin(files'[f][i].entry)
      BY DEF Records
    <2> QED BY <1>3, <1>6 DEF Writers, Records
  <1>9. EndedByTask'
    <2> SUFFICES ASSUME NEW f \in 1 .. Len(files'), NEW i \in 1 .. Len(files'[f]),
                        files'[f][i].end
                 PROVE  task'[files'[f][i].entry] \in {"written", "done", "failed"}
      BY DEF EndedByTask
    <2>1. f \in 1 .. Len(files) /\ i \in 1 .. Len(files[f]) /\ files[f][i] = files'[f][i]
      BY <1>6
    <2>2. files[f][i].entry \in Entries
      BY <1>3, <2>1, FileIs, PieceOf
    <2>3. task[files[f][i].entry] \in {"written", "done", "failed"}
      BY <1>3, <2>1 DEF Writers, EndedByTask
    <2> QED BY <1>2, <2>1, <2>2, <2>3
  <1>10. EndedOnce'
    <2> SUFFICES ASSUME NEW f \in 1 .. Len(files'), NEW g \in 1 .. Len(files'),
                        NEW i \in 1 .. Len(files'[f]), NEW j \in 1 .. Len(files'[g]),
                        files'[f][i].end, files'[f][i] = files'[g][j]
                 PROVE  f = g /\ i = j
      BY DEF EndedOnce
    <2>1. f \in 1 .. Len(files) /\ i \in 1 .. Len(files[f]) /\ files[f][i] = files'[f][i]
      BY <1>6
    <2>2. g \in 1 .. Len(files) /\ j \in 1 .. Len(files[g]) /\ files[g][j] = files'[g][j]
      BY <1>6
    <2> QED BY <1>3, <2>1, <2>2 DEF Writers, EndedOnce
  <1>11. Writers'
    BY <1>2, <1>7, <1>8, <1>9, <1>10 DEF Writers
  <1>12. Reading'
    BY <1>2, <1>3, ReadingKept DEF LogTypes
  <1> QED BY <1>2, <1>11, <1>12 DEF LogKept

LEMMA WriteEndKeeps ==
  ASSUME LogKept, NEW e \in Entries, WriteEnd(e)
  PROVE  LogKept'
  <1> DEFINE p == End(e)
  <1>1. p \in Piece /\ p.end /\ p.entry = e
    BY DEF End, Piece
  <1>2. /\ task[e] = "begun" /\ task'[e] = "written" /\ fd' = fd /\ Writing(e)
        /\ \A d \in Entries : d # e => task'[d] = task[d]
        /\ fd[e] \in 1 .. Len(files) /\ \A d \in Entries : fd[d] \in 0 .. Len(files)
        /\ files' = [files EXCEPT ![fd[e]] = Append(@, p)]
        /\ LogTypes' /\ Exclusive'
        /\ Grown /\ UNCHANGED <<reader, printed>>
    BY <1>1, WritesTypes DEF WriteEnd
  <1> HIDE DEF p
  <1>3. LogTypes /\ LogTyped /\ Writers /\ Reading
    BY DEF LogKept, LogTypes
  <1>4. PICK w \in 1 .. Len(files) : w = fd[e]
    BY <1>2
  <1>5. /\ files' \in Seq(Text) /\ Len(files') = Len(files) /\ Len(files) \in Nat
        /\ \A f \in 1 .. Len(files) : f # w => files'[f] = files[f]
        /\ Len(files[w]) \in Nat /\ Len(files'[w]) = Len(files[w]) + 1
        /\ files'[w][Len(files[w]) + 1] = p
        /\ \A i \in 1 .. Len(files[w]) : files'[w][i] = files[w][i]
    <2>1. files' = [files EXCEPT ![w] = Append(@, p)]
      BY <1>2, <1>4
    <2> QED BY <1>1, <1>3, <2>1, Appended
  \* The new end is one of a record that had none; it follows its beginning.
  <1>6. Len(files[w]) > 0 /\ files[w][Len(files[w])] = Begin(e)
    BY <1>2, <1>3, <1>4 DEF Writers, Begun
  <1>7. \A f \in 1 .. Len(files) : \A i \in 1 .. Len(files[f]) :
           files[f][i].end => files[f][i].entry # e
    BY <1>2, <1>3 DEF Writers, EndedByTask
  <1>8. ASSUME NEW f \in 1 .. Len(files'), NEW i \in 1 .. Len(files'[f]), files'[f][i].end
        PROVE  \/ /\ f = w /\ i = Len(files[w]) + 1 /\ files'[f][i] = p
                  /\ i > 1 /\ files'[f][i - 1] = Begin(e)
               \/ /\ f \in 1 .. Len(files) /\ i \in 1 .. Len(files[f])
                  /\ files[f][i] = files'[f][i] /\ files[f][i].entry # e
                  /\ i > 1 => files'[f][i - 1] = files[f][i - 1]
    <2>1. f \in 1 .. Len(files)
      BY <1>5
    <2>2. CASE f # w
      BY <1>5, <1>7, <1>8, <2>1, <2>2
    <2>3. CASE f = w /\ i = Len(files[w]) + 1
      <3>1. i > 1 /\ i - 1 = Len(files[w]) /\ Len(files[w]) \in 1 .. Len(files[w])
        BY <1>5, <1>6, <2>3
      <3> QED BY <1>5, <1>6, <2>3, <3>1
    <2>4. CASE f = w /\ i # Len(files[w]) + 1
      <3>1. i \in 1 .. Len(files[w])
        BY <1>5, <2>4
      <3>2. i > 1 => i - 1 \in 1 .. Len(files[w])
        BY <1>5, <3>1
      <3> QED BY <1>5, <1>7, <1>8, <2>1, <2>4, <3>1, <3>2
    <2> QED BY <2>2, <2>3, <2>4
  <1>9. Begun'
    <2> SUFFICES ASSUME NEW d \in Entries, task'[d] = "begun"
                 PROVE  /\ Len(files'[fd'[d]]) > 0
                        /\ files'[fd'[d]][Len(files'[fd'[d]])] = Begin(d)
      BY DEF Begun
    <2>1. d # e
      BY <1>2
    <2> QED BY <1>2, <1>4, <1>5, <2>1, OthersBegun
  <1>10. Records'
    <2> SUFFICES ASSUME NEW f \in 1 .. Len(files'), NEW i \in 1 .. Len(files'[f]),
                        files'[f][i].end
                 PROVE  i > 1 /\ files'[f][i - 1] = Begin(files'[f][i].entry)
      BY DEF Records
    <2>1. CASE files'[f][i] = p /\ i > 1 /\ files'[f][i - 1] = Begin(e)
      BY <1>1, <2>1
    <2>2. CASE /\ f \in 1 .. Len(files) /\ i \in 1 .. Len(files[f])
               /\ files[f][i] = files'[f][i]
               /\ i > 1 => files'[f][i - 1] = files[f][i - 1]
      BY <1>3, <2>2 DEF Writers, Records
    <2> QED BY <1>8, <2>1, <2>2
  <1>11. EndedByTask'
    <2> SUFFICES ASSUME NEW f \in 1 .. Len(files'), NEW i \in 1 .. Len(files'[f]),
                        files'[f][i].end
                 PROVE  task'[files'[f][i].entry] \in {"written", "done", "failed"}
      BY DEF EndedByTask
    <2>1. CASE files'[f][i] = p
      BY <1>1, <1>2, <2>1
    <2>2. CASE /\ f \in 1 .. Len(files) /\ i \in 1 .. Len(files[f])
               /\ files[f][i] = files'[f][i] /\ files[f][i].entry # e
      <3>1. files[f][i].entry \in Entries
        BY <1>3, <2>2, FileIs, PieceOf
      <3>2. task[files[f][i].entry] \in {"written", "done", "failed"}
        BY <1>3, <2>2 DEF Writers, EndedByTask
      <3> QED BY <1>2, <2>2, <3>1, <3>2
    <2> QED BY <1>8, <2>1, <2>2
  <1>12. EndedOnce'
    <2> SUFFICES ASSUME NEW f \in 1 .. Len(files'), NEW g \in 1 .. Len(files'),
                        NEW i \in 1 .. Len(files'[f]), NEW j \in 1 .. Len(files'[g]),
                        files'[f][i].end, files'[f][i] = files'[g][j]
                 PROVE  f = g /\ i = j
      BY DEF EndedOnce
    <2>1. \/ f = w /\ i = Len(files[w]) + 1 /\ files'[f][i] = p
          \/ /\ f \in 1 .. Len(files) /\ i \in 1 .. Len(files[f])
             /\ files[f][i] = files'[f][i] /\ files[f][i].entry # e
      BY <1>8
    <2>2. \/ g = w /\ j = Len(files[w]) + 1 /\ files'[g][j] = p
          \/ /\ g \in 1 .. Len(files) /\ j \in 1 .. Len(files[g])
             /\ files[g][j] = files'[g][j] /\ files[g][j].entry # e
      BY <1>8
    <2> QED BY <1>1, <1>3, <2>1, <2>2 DEF Writers, EndedOnce
  <1>13. Writers'
    BY <1>2, <1>9, <1>10, <1>11, <1>12 DEF Writers
  <1>14. Reading'
    BY <1>2, <1>3, ReadingKept DEF LogTypes
  <1> QED BY <1>2, <1>13, <1>14 DEF LogKept

-----------------------------------------------------------------------------
(* The reader.                                                             *)

\* A step of the reader leaves the tasks and the texts.
LEMMA ReaderOnly ==
  ASSUME LogKept, UNCHANGED <<files, log, task, fd>>, printed' \in Seq(Entries),
         reader' \in [stage : Stages, file : 0 .. Len(files), at : Nat, from : Nat],
         ReaderPlace', Reading'
  PROVE  LogKept'
  <1>1. LogTypes'
    BY DEF LogKept, LogTypes, LogTyped, Opened
  <1>2. Writers'
    BY DEF LogKept, Writers, Exclusive, Begun, Records, EndedByTask, EndedOnce, Writing
  <1> QED BY <1>1, <1>2 DEF LogKept

LEMMA ReaderIs ==
  ASSUME LogTyped
  PROVE  /\ reader = [stage |-> reader.stage, file |-> reader.file,
                      at |-> reader.at, from |-> reader.from]
         /\ reader.stage \in Stages /\ reader.file \in 0 .. Len(files)
         /\ reader.at \in Nat /\ reader.from \in Nat
         /\ Len(files) \in Nat /\ log \in 0 .. Len(files)
  BY LenProperties DEF LogTyped

LEMMA NothingParsed ==
  ASSUME NEW text, NEW m \in Nat
  PROVE  Parsed(SubSeq(text, m + 1, m)) = <<>>
  <1>1. SubSeq(text, m + 1, m) = <<>>
    BY SubSeqEmpty
  <1>2. PICK t \in Text : t = <<>> /\ 1 .. Len(t) = {}
    <2>1. <<>> \in Text /\ 1 .. Len(<<>>) = {}
      BY DEF Text
    <2> QED BY <2>1
  <1>3. Parsed(t) = <<>>
    BY <1>2, ParsedNothing
  <1> QED BY <1>1, <1>2, <1>3

\* Between lines and with nothing read since, nothing is claimed of the file.
LEMMA FreshCursor ==
  ASSUME LogTyped, UNCHANGED printed, reader'.at = 0, reader'.from = 0
  PROVE  CursorAt'
  <1>1. Parsed(SubSeq(files'[reader'.file], 0 + 1, 0)) = <<>>
    BY NothingParsed
  <1>2. printed \in Seq(Entries) /\ printed = printed \o <<>>
    BY ConcatEmptySeq DEF LogTyped
  <1> QED BY <1>1, <1>2 DEF CursorAt, EndsLine

LEMMA BeginsKeeps ==
  ASSUME LogKept, Begins
  PROVE  LogKept'
  <1>1. LogTyped /\ ReaderPlace /\ Reading
    BY DEF LogKept, LogTypes
  <1>2. /\ reader.stage = "off" /\ UNCHANGED <<files, log, task, fd, printed>>
        /\ reader' = [reader EXCEPT !.stage = IF log = 0 THEN "polling" ELSE "recent",
                                    !.file = log, !.at = 0]
    BY DEF Begins, Reader, writer, NoLog
  <1>3. reader.at = 0 /\ reader.from = 0 /\ printed = <<>>
    BY <1>1, <1>2 DEF ReaderPlace
  <1>4. reader' = [stage |-> IF log = 0 THEN "polling" ELSE "recent",
                   file |-> log, at |-> 0, from |-> 0]
    BY <1>1, <1>2, <1>3, ReaderIs
  <1>5. reader' \in [stage : Stages, file : 0 .. Len(files), at : Nat, from : Nat]
    BY <1>1, <1>4, ReaderIs DEF Stages
  <1>6. ReaderPlace'
    BY <1>2, <1>3, <1>4 DEF ReaderPlace
  <1>7. CursorAt'
    <2>1. reader'.at = 0 /\ reader'.from = 0
      BY <1>4
    <2>2. UNCHANGED printed
      BY <1>2
    <2> QED BY <1>1, <2>1, <2>2, FreshCursor
  <1>8. Sourced' /\ PrintedOnce'
    BY <1>2, <1>3 DEF Sourced, PrintedOnce
  <1> QED BY <1>1, <1>2, <1>5, <1>6, <1>7, <1>8, ReaderOnly DEF Reading, LogTyped

\* The log is never older than the file that is followed.
LEMMA PollKeeps ==
  ASSUME LogKept, Poll
  PROVE  LogKept'
  <1>1. LogTyped /\ ReaderPlace /\ Reading
    BY DEF LogKept, LogTypes
  <1>2. /\ reader.stage = "polling" /\ log # 0 /\ UNCHANGED <<files, log, task, fd, printed>>
        /\ IF log = reader.file
           THEN reader' = [reader EXCEPT !.stage = "reading", !.file = log, !.at = reader.at]
           ELSE reader' = [stage |-> "reading", file |-> log, at |-> 0, from |-> 0]
    BY DEF Poll, Reader, writer, NoLog
  <1>3. log = Len(files)
    BY <1>1, <1>2 DEF LogTyped
  <1>4. CASE log = reader.file
    <2>1. reader' = [stage |-> "reading", file |-> reader.file,
                     at |-> reader.at, from |-> reader.from]
      BY <1>1, <1>2, <1>4, ReaderIs
    <2>2. reader' \in [stage : Stages, file : 0 .. Len(files), at : Nat, from : Nat]
      BY <1>1, <2>1, ReaderIs DEF Stages
    <2>3. ReaderPlace'
      BY <1>2, <1>4, <2>1 DEF ReaderPlace
    <2>4. Reading'
      BY <1>1, <1>2, <2>1 DEF Reading, CursorAt, Sourced, Passed, PrintedOnce
    <2> QED BY <1>1, <1>2, <2>2, <2>3, <2>4, ReaderOnly DEF LogTyped
  <1>5. CASE log # reader.file
    <2>1. reader' = [stage |-> "reading", file |-> log, at |-> 0, from |-> 0]
      BY <1>2, <1>5
    <2>2. reader' \in [stage : Stages, file : 0 .. Len(files), at : Nat, from : Nat]
      BY <1>1, <2>1, ReaderIs DEF Stages
    <2>3. ReaderPlace'
      BY <1>2, <2>1 DEF ReaderPlace
    <2>4. CursorAt'
      BY <1>1, <1>2, <2>1, FreshCursor
    <2>5. reader.file < log
      BY <1>1, <1>3, <1>5, ReaderIs
    <2>6. \A f \in 1 .. Len(files) : \A i : Passed(f, i) => Passed(f, i)'
      BY <1>1, <2>1, <2>5, ReaderIs DEF Passed
    <2>7. Sourced' /\ PrintedOnce'
      BY <1>1, <1>2, <2>6 DEF Reading, Sourced, PrintedOnce
    <2> QED BY <1>1, <1>2, <2>2, <2>3, <2>4, <2>7, ReaderOnly DEF Reading, LogTyped
  <1> QED BY <1>4, <1>5

LEMMA LastIs ==
  ASSUME NEW s \in Seq(Entries), NEW n \in Nat
  PROVE  /\ LastOf(s, n) \in Seq(Entries)
         /\ \E d \in Nat : /\ Len(LastOf(s, n)) + d = Len(s)
                           /\ \A k \in 1 .. Len(LastOf(s, n)) : LastOf(s, n)[k] = s[d + k]
  <1>1. Len(s) \in Nat
    BY LenProperties
  <1>2. CASE Len(s) <= n
    <2>1. LastOf(s, n) = s
      BY <1>2 DEF LastOf
    <2>2. 0 \in Nat /\ Len(s) + 0 = Len(s) /\ \A k \in 1 .. Len(s) : 0 + k = k
      BY <1>1
    <2> QED BY <2>1, <2>2
  <1>3. CASE ~(Len(s) <= n)
    <2> DEFINE d == Len(s) - n
               t == SubSeq(s, d + 1, Len(s))
    <2>1. d \in Nat /\ d + 1 \in Int /\ Len(s) \in Int /\ n + d = Len(s)
          /\ Len(s) - (d + 1) + 1 = n /\ (IF d + 1 <= Len(s) THEN n ELSE 0) = n
          /\ \A k \in 1 .. n : (d + 1) + k - 1 = d + k
      BY <1>1, <1>3
    <2>2. \A i \in d + 1 .. Len(s) : s[i] \in Entries
      <3> TAKE i \in d + 1 .. Len(s)
      <3>1. i \in 1 .. Len(s)
        BY <2>1
      <3> QED BY <3>1, ElementOfSeq
    <2>3. LastOf(s, n) = t
      BY <1>3 DEF LastOf
    <2> HIDE DEF d
    <2>4. /\ t \in Seq(Entries)
          /\ Len(t) = IF d + 1 <= Len(s) THEN Len(s) - (d + 1) + 1 ELSE 0
          /\ \A k \in 1 .. Len(s) - (d + 1) + 1 : t[k] = s[(d + 1) + k - 1]
      BY <2>1, <2>2, SubSeqProperties
    <2> HIDE DEF t
    <2>5. Len(t) = n /\ \A k \in 1 .. n : t[k] = s[d + k]
      BY <2>1, <2>4
    <2> QED BY <2>1, <2>3, <2>4, <2>5
  <1> QED BY <1>2, <1>3

LEMMA FirstIs ==
  ASSUME NEW text \in Text, NEW n \in Nat
  PROVE  /\ FirstOf(text, n) \in Text /\ Len(FirstOf(text, n)) <= Len(text)
         /\ \A i \in 1 .. Len(FirstOf(text, n)) : FirstOf(text, n)[i] = text[i]
  <1>1. Len(text) \in Nat
    BY LenProperties DEF Text
  <1>2. CASE Len(text) <= n
    BY <1>1, <1>2 DEF FirstOf
  <1>3. CASE ~(Len(text) <= n)
    <2>1. 0 \in 0 .. Len(text) /\ n \in 0 .. Len(text) /\ n - 0 = n /\ 0 + 1 = 1
          /\ \A i \in 1 .. n : 0 + i = i
      BY <1>1, <1>3
    <2>2. /\ SubSeq(text, 1, n) \in Text /\ Len(SubSeq(text, 1, n)) = n
          /\ \A i \in 1 .. n : SubSeq(text, 1, n)[i] = text[i]
      BY <2>1, Cut
    <2> QED BY <1>1, <1>3, <2>1, <2>2 DEF FirstOf
  <1> QED BY <1>2, <1>3

\* What is read next, up to the end of its last line, joins what was read.
LEMMA ReadOn ==
  ASSUME NEW text \in Text, NEW a \in 0 .. Len(text), NEW m \in 0 .. a, EndsLine(text, a),
         NEW b \in Text, Len(b) <= Len(text) - a, \A i \in 1 .. Len(b) : b[i] = text[a + i],
         NEW c, c = CompleteLength(b)
  PROVE  /\ c \in 0 .. Len(b) /\ a + c \in 0 .. Len(text) /\ EndsLine(text, a + c)
         /\ \A i \in 1 .. Len(b) : b[i].end => i <= c
         /\ Parsed(SubSeq(text, m + 1, a + c))
              = Parsed(SubSeq(text, m + 1, a)) \o Parsed(b)
  <1>1. Len(text) \in Nat /\ Len(b) \in Nat
    BY LenProperties DEF Text
  <1>2. c \in 0 .. Len(b) /\ EndsLine(b, c) /\ \A i \in 1 .. Len(b) : b[i].end => i <= c
    BY CompletePart
  <1>3. a + c \in 0 .. Len(text) /\ a + c \in a .. Len(text) /\ (a + c) - a = c
    BY <1>1, <1>2
  <1>4. EndsLine(text, a + c)
    <2>1. CASE c = 0
      BY <1>1, <2>1
    <2>2. CASE c # 0
      <3>1. c \in 1 .. Len(b) /\ b[c].end
        BY <1>2, <2>2, EndsAre DEF EndsLine
      <3>2. a + c \in 1 .. Len(text) /\ text[a + c].end
        BY <1>1, <3>1
      <3> QED BY <3>2, EndsAre DEF EndsLine
    <2> QED BY <2>1, <2>2
  <1> DEFINE u == SubSeq(text, m + 1, a)
             v == SubSeq(text, a + 1, a + c)
             w == SubSeq(b, 1, c)
  <1>5. u \in Text /\ Len(u) = a - m /\ \A i \in 1 .. a - m : u[i] = text[m + i]
    <2>1. m \in 0 .. Len(text) /\ a \in m .. Len(text)
      BY <1>1
    <2> QED BY <2>1, Cut
  <1>6. v \in Text /\ Len(v) = c /\ \A i \in 1 .. c : v[i] = text[a + i]
    BY <1>3, Cut
  <1>7. w \in Text /\ Len(w) = c /\ \A i \in 1 .. c : w[i] = b[i]
    <2>1. 0 \in 0 .. Len(b) /\ c - 0 = c /\ 0 + 1 = 1 /\ \A i \in 1 .. c : 0 + i = i
      BY <1>1, <1>2
    <2> QED BY <1>2, <2>1, Cut
  <1>8. v = w
    <2> HIDE DEF v, w
    <2>1. \A i \in 1 .. c : v[i] = w[i]
      BY <1>1, <1>2, <1>6, <1>7
    <2> QED BY <1>6, <1>7, <2>1, SeqEqual DEF Text
  <1>9. Parsed(b) = Parsed(v)
    BY <1>8, ParsedComplete
  <1>10. u \o v = SubSeq(text, m + 1, a + c)
    <2>1. m + 1 \in 1 .. Len(text) + 1 /\ a \in (m + 1) - 1 .. Len(text)
      BY <1>1
    <2> QED BY <1>3, <2>1, ConcatAdjacentSubSeq DEF Text
  <1>11. EndsLine(u, Len(u))
    <2> HIDE DEF u
    <2>1. CASE a = m
      BY <1>1, <1>5, <2>1 DEF EndsLine
    <2>2. CASE a # m
      <3>1. a - m \in 1 .. a - m /\ m + (a - m) = a /\ a # 0
        BY <1>1, <2>2
      <3>2. text[a].end
        BY <3>1, EndsAre DEF EndsLine
      <3>3. Len(u) \in 1 .. Len(u) /\ u[Len(u)].end
        BY <1>5, <3>1, <3>2
      <3> QED BY <1>5, <3>3, EndsAre DEF EndsLine
    <2> QED BY <2>1, <2>2
  <1>12. Parsed(u \o v) = Parsed(u) \o Parsed(v)
    BY <1>5, <1>6, <1>11, ParsedJoined
  <1> QED BY <1>2, <1>3, <1>4, <1>9, <1>10, <1>12

LEMMA ReadRecentKeeps ==
  ASSUME LogKept, MaxRecent \in Nat, ReadRecent
  PROVE  LogKept'
  <1>1. LogTyped /\ ReaderPlace /\ Reading /\ Writers
    BY DEF LogKept, LogTypes
  <1>2. /\ reader.stage = "recent" /\ UNCHANGED <<files, log, task, fd>>
        /\ printed' = LastOf(Parsed(files[reader.file]), MaxRecent)
        /\ reader' = [reader EXCEPT !.stage = "polling",
                                    !.at = CompleteLength(files[reader.file]),
                                    !.from = CompleteLength(files[reader.file])]
    BY DEF ReadRecent, writer
  <1>3. reader.file \in 1 .. Len(files)
    BY <1>1, <1>2, ReaderIs DEF ReaderPlace
  <1>4. PICK text \in Text : text = files[reader.file]
    BY <1>1, <1>3, FileIs
  <1>5. PICK c \in 0 .. Len(text) :
          /\ c = CompleteLength(text) /\ EndsLine(text, c)
          /\ \A i \in 1 .. Len(text) : text[i].end => i <= c
    BY CompletePart
  <1>6. c \in Nat /\ Len(text) \in Nat
    BY <1>5, LenProperties DEF Text
  <1>7. reader' = [stage |-> "polling", file |-> reader.file, at |-> c, from |-> c]
    BY <1>1, <1>2, <1>4, <1>5, ReaderIs
  <1>8. PICK s \in Seq(Entries) : s = Parsed(text)
    BY ParsedFrom
  <1>9. \A k \in 1 .. Len(s) : \E i \in 1 .. Len(text) : text[i] = End(s[k])
    BY <1>8, ParsedFrom
  <1>10. \A k, l \in 1 .. Len(s) : s[k] = s[l] => k = l
    <2>1. \A i, j \in 1 .. Len(text) : text[i].end /\ text[i] = text[j] => i = j
      BY <1>1, <1>3, <1>4 DEF Writers, EndedOnce
    <2> QED BY <1>8, <2>1, ParsedOnce
  <1>11. /\ printed' \in Seq(Entries)
         /\ \E d \in Nat : /\ Len(printed') + d = Len(s)
                           /\ \A k \in 1 .. Len(printed') : printed'[k] = s[d + k]
    <2>1. printed' = LastOf(s, MaxRecent)
      BY <1>2, <1>4, <1>8
    <2> QED BY <2>1, LastIs
  <1>12. PICK d \in Nat : /\ Len(printed') + d = Len(s)
                          /\ \A k \in 1 .. Len(printed') : printed'[k] = s[d + k]
    BY <1>11
  <1>13. Len(printed') \in Nat /\ Len(s) \in Nat
    BY <1>11, LenProperties
  <1>14. \A k \in 1 .. Len(printed') : d + k \in 1 .. Len(s)
    BY <1>12, <1>13
  <1>15. Sourced'
    <2> SUFFICES ASSUME NEW k \in 1 .. Len(printed')
        PROVE  \E f \in 1 .. Len(files') : \E i \in 1 .. Len(files'[f]) :
                  files'[f][i] = End(printed'[k]) /\ Passed(f, i)'
      BY DEF Sourced
    <2>1. PICK i \in 1 .. Len(text) : text[i] = End(printed'[k])
      BY <1>9, <1>12, <1>14
    <2>2. i <= c
      BY <1>5, <2>1 DEF End
    <2>3. Passed(reader.file, i)'
      BY <1>7, <2>2 DEF Passed
    <2> QED BY <1>2, <1>3, <1>4, <2>1, <2>3
  <1>16. PrintedOnce'
    BY <1>10, <1>12, <1>13, <1>14 DEF PrintedOnce
  <1>17. CursorAt'
    <2>1. Parsed(SubSeq(text, c + 1, c)) = <<>>
      BY <1>6, NothingParsed
    <2>2. printed' = printed' \o Parsed(SubSeq(text, c + 1, c))
      BY <1>11, <2>1, ConcatEmptySeq
    <2>3. files'[reader'.file] = text /\ reader'.at = c /\ reader'.from = c /\ c <= c
      <3>1. files' = files
        BY <1>2
      <3>2. reader'.file = reader.file /\ reader'.at = c /\ reader'.from = c
        BY <1>7
      <3> QED BY <1>4, <1>6, <3>1, <3>2
    <2> QED BY <1>5, <1>11, <2>2, <2>3 DEF CursorAt
  <1>18. reader' \in [stage : Stages, file : 0 .. Len(files), at : Nat, from : Nat]
    BY <1>1, <1>6, <1>7, ReaderIs DEF Stages
  <1>19. ReaderPlace'
    BY <1>7 DEF ReaderPlace
  <1>20. UNCHANGED <<files, log, task, fd>>
    BY <1>2
  <1> QED BY <1>11, <1>15, <1>16, <1>17, <1>18, <1>19, <1>20, ReaderOnly DEF Reading

LEMMA JoinAssociates ==
  ASSUME NEW r \in Seq(Entries), NEW q \in Seq(Entries), NEW s \in Seq(Entries)
  PROVE  (r \o q) \o s = r \o (q \o s)
  BY ConcatAssociative

LEMMA ReadNewKeeps ==
  ASSUME LogKept, MaxRead \in Nat, ReadNew
  PROVE  LogKept'
  <1>1. LogTyped /\ ReaderPlace /\ Reading /\ CursorAt /\ Writers
    BY DEF LogKept, LogTypes, Reading
  <1> DEFINE chunk == FirstOf(SubSeq(files[reader.file], reader.at + 1,
                                     Len(files[reader.file])), MaxRead)
  <1>2. /\ reader.stage = "reading"
        /\ printed' = printed \o Parsed(chunk)
        /\ \E stage \in {"failed", "polling"} :
              reader' = [reader EXCEPT !.stage = stage, !.at = @ + CompleteLength(chunk)]
    BY DEF ReadNew, Advance
  <1>3. UNCHANGED <<files, log, task, fd>>
    BY DEF ReadNew, writer
  <1>4. reader.file # 0
    BY <1>1, <1>2 DEF ReaderPlace
  <1>5. /\ reader.file \in 1 .. Len(files) /\ files[reader.file] \in Text
        /\ reader.at \in 0 .. Len(files[reader.file])
        /\ reader.from \in 0 .. reader.at
    BY <1>1, <1>4, CursorIn
  <1>6. PICK text \in Text : text = files[reader.file]
    BY <1>5
  <1>7. PICK a \in 0 .. Len(text) : a = reader.at
    BY <1>5, <1>6
  <1>8. PICK m \in 0 .. a : m = reader.from
    BY <1>5, <1>7
  <1>9. Len(text) \in Nat
    BY LenProperties DEF Text
  <1>10. PICK rest \in Text :
            /\ rest = SubSeq(text, a + 1, Len(text)) /\ Len(rest) = Len(text) - a
            /\ \A i \in 1 .. Len(text) - a : rest[i] = text[a + i]
    <2>1. Len(text) \in a .. Len(text)
      BY <1>9
    <2> QED BY <2>1, Cut
  <1>11. PICK b \in Text :
            /\ b = chunk /\ Len(b) <= Len(text) - a
            /\ \A i \in 1 .. Len(b) : b[i] = text[a + i]
    <2>1. chunk = FirstOf(rest, MaxRead)
      BY <1>6, <1>7, <1>10
    <2> HIDE DEF chunk
    <2>2. /\ chunk \in Text /\ Len(chunk) <= Len(rest)
          /\ \A i \in 1 .. Len(chunk) : chunk[i] = rest[i]
      BY <2>1, FirstIs
    <2>3. Len(chunk) \in Nat
      BY <2>2, LenProperties DEF Text
    <2>4. \A i \in 1 .. Len(chunk) : chunk[i] = text[a + i]
      BY <1>9, <1>10, <2>2, <2>3
    <2> QED BY <1>10, <2>2, <2>4
  <1>12. PICK c : c = CompleteLength(b)
    OBVIOUS
  <1>13. EndsLine(text, a) /\ EndsLine(text, m)
    BY <1>1, <1>4, <1>6, <1>7, <1>8 DEF CursorAt
  <1>14. /\ c \in 0 .. Len(b) /\ a + c \in 0 .. Len(text) /\ EndsLine(text, a + c)
         /\ \A i \in 1 .. Len(b) : b[i].end => i <= c
         /\ Parsed(SubSeq(text, m + 1, a + c))
              = Parsed(SubSeq(text, m + 1, a)) \o Parsed(b)
    <2> HIDE DEF chunk
    <2>1. Len(b) <= Len(text) - a /\ \A i \in 1 .. Len(b) : b[i] = text[a + i]
      BY <1>11
    <2>2. EndsLine(text, a)
      BY <1>13
    <2> QED BY <1>12, <2>1, <2>2, ReadOn
  <1>15. Len(b) \in Nat /\ c \in Nat /\ a \in Nat /\ m \in Nat
    <2>1. Len(b) \in Nat
      BY LenProperties DEF Text
    <2> QED BY <1>9, <1>14, <2>1
  <1>16. PICK stage \in {"failed", "polling"} :
            reader' = [reader EXCEPT !.stage = stage, !.at = @ + CompleteLength(chunk)]
    BY <1>2
  <1>17. reader' = [stage |-> stage, file |-> reader.file, at |-> a + c, from |-> m]
    <2> HIDE DEF chunk
    <2>1. CompleteLength(chunk) = c
      BY <1>11, <1>12
    <2> QED BY <1>1, <1>7, <1>8, <1>16, <2>1, ReaderIs
  <1>18. PICK s \in Seq(Entries) : s = Parsed(b)
    BY ParsedFrom
  <1>19. \A k \in 1 .. Len(s) : \E i \in 1 .. Len(b) : b[i] = End(s[k])
    BY <1>18, ParsedFrom
  <1>20. PICK p \in Seq(Entries) : p = printed
    BY <1>1 DEF LogTyped
  <1>21. printed' = p \o s
    <2> HIDE DEF chunk
    <2> QED BY <1>2, <1>11, <1>18, <1>20
  <1>22. /\ p \o s \in Seq(Entries) /\ Len(p \o s) = Len(p) + Len(s)
         /\ Len(p) \in Nat /\ Len(s) \in Nat
         /\ \A k \in 1 .. Len(p) : (p \o s)[k] = p[k]
         /\ \A k \in Len(p) + 1 .. Len(p) + Len(s) : (p \o s)[k] = s[k - Len(p)]
    BY ConcatProperties, LenProperties
  <1> HIDE DEF chunk
  \* Where what is printed comes from: what is new, from after the cursor.
  <1>23. \A k \in 1 .. Len(p) : \E f \in 1 .. Len(files) : \E i \in 1 .. Len(files[f]) :
            files[f][i] = End(p[k]) /\ (f < reader.file \/ (f = reader.file /\ i <= a))
    BY <1>1, <1>7, <1>20 DEF Reading, Sourced, Passed
  <1>24. ASSUME NEW k \in 1 .. Len(s)
         PROVE  \E i \in a + 1 .. a + c : i \in 1 .. Len(text) /\ text[i] = End(s[k])
    <2>1. PICK j \in 1 .. Len(b) : b[j] = End(s[k])
      BY <1>19
    <2>2. j <= c
      BY <1>14, <2>1 DEF End
    <2>3. a + j \in a + 1 .. a + c /\ a + j \in 1 .. Len(text)
      BY <1>9, <1>11, <1>15, <2>2
    <2> QED BY <1>11, <2>1, <2>3
  <1>25. Sourced'
    <2> SUFFICES ASSUME NEW k \in 1 .. Len(printed')
        PROVE  \E f \in 1 .. Len(files') : \E i \in 1 .. Len(files'[f]) :
                  files'[f][i] = End(printed'[k]) /\ Passed(f, i)'
      BY DEF Sourced
    <2>1. reader'.file = reader.file /\ reader'.at = a + c
      BY <1>17
    <2>2. CASE k \in 1 .. Len(p)
      <3>1. PICK f \in 1 .. Len(files) : \E i \in 1 .. Len(files[f]) :
               files[f][i] = End(p[k]) /\ (f < reader.file \/ (f = reader.file /\ i <= a))
        BY <1>23, <2>2
      <3>2. PICK i \in 1 .. Len(files[f]) :
               files[f][i] = End(p[k]) /\ (f < reader.file \/ (f = reader.file /\ i <= a))
        BY <3>1
      <3>3. Len(files[f]) \in Nat
        BY <1>1, FileIs
      <3>4. Passed(f, i)'
        BY <1>15, <2>1, <3>2, <3>3 DEF Passed
      <3>5. printed'[k] = p[k]
        BY <1>21, <1>22, <2>2
      <3> QED BY <1>3, <3>2, <3>4, <3>5
    <2>3. CASE k \notin 1 .. Len(p)
      <3>1. k \in Len(p) + 1 .. Len(p) + Len(s) /\ k - Len(p) \in 1 .. Len(s)
        BY <1>21, <1>22, <2>3
      <3>2. printed'[k] = s[k - Len(p)]
        BY <1>21, <1>22, <3>1
      <3>3. PICK i \in a + 1 .. a + c :
               i \in 1 .. Len(text) /\ text[i] = End(s[k - Len(p)])
        BY <1>24, <3>1
      <3>4. files' = files /\ i \in 1 .. Len(files[reader.file])
            /\ files[reader.file][i] = End(printed'[k])
        BY <1>3, <1>6, <3>2, <3>3
      <3>5. PICK f \in 1 .. Len(files) : f = reader.file
        BY <1>5
      <3>6. /\ f \in 1 .. Len(files') /\ i \in 1 .. Len(files'[f])
            /\ files'[f][i] = End(printed'[k])
        BY <3>4, <3>5
      <3>7. Passed(f, i)'
        BY <1>15, <2>1, <3>3, <3>5 DEF Passed
      <3> QED BY <3>6, <3>7
    <2> QED BY <2>2, <2>3
  <1>26. PrintedOnce'
    <2>1. \A k, l \in 1 .. Len(p) : p[k] = p[l] => k = l
      BY <1>1, <1>20 DEF Reading, PrintedOnce
    <2>2. \A k, l \in 1 .. Len(s) : s[k] = s[l] => k = l
      <3>1. ASSUME NEW i \in 1 .. Len(b), NEW j \in 1 .. Len(b), b[i].end, b[i] = b[j]
            PROVE  i = j
        <4>1. a + i \in 1 .. Len(text) /\ a + j \in 1 .. Len(text)
          BY <1>9, <1>11, <1>15
        <4>2. \A x, y \in 1 .. Len(text) : text[x].end /\ text[x] = text[y] => x = y
          BY <1>1, <1>5, <1>6 DEF Writers, EndedOnce
        <4>3. text[a + i] = b[i] /\ text[a + j] = b[j]
          BY <1>11
        <4>4. a + i = a + j
          BY <3>1, <4>1, <4>2, <4>3
        <4> QED BY <1>15, <4>4
      <3> QED BY <1>18, <3>1, ParsedOnce
    <2>3. ASSUME NEW k \in 1 .. Len(p), NEW l \in 1 .. Len(s)
          PROVE  p[k] # s[l]
      <3> SUFFICES ASSUME p[k] = s[l] PROVE FALSE
        OBVIOUS
      <3>1. PICK f \in 1 .. Len(files) : \E i \in 1 .. Len(files[f]) :
               files[f][i] = End(p[k]) /\ (f < reader.file \/ (f = reader.file /\ i <= a))
        BY <1>23
      <3>2. PICK i \in 1 .. Len(files[f]) :
               files[f][i] = End(p[k]) /\ (f < reader.file \/ (f = reader.file /\ i <= a))
        BY <3>1
      <3>3. PICK j \in a + 1 .. a + c : j \in 1 .. Len(text) /\ text[j] = End(s[l])
        BY <1>24
      <3>4. files[f][i].end /\ files[f][i] = files[reader.file][j]
            /\ j \in 1 .. Len(files[reader.file])
        BY <1>6, <3>2, <3>3 DEF End
      <3>5. f = reader.file /\ i = j
        BY <1>1, <1>5, <3>4 DEF Writers, EndedOnce
      <3>6. j > a
        BY <1>15
      <3>7. reader.file \in Nat
        BY <1>1, ReaderIs
      <3> QED BY <1>15, <3>2, <3>5, <3>6, <3>7
    <2> SUFFICES ASSUME NEW k \in 1 .. Len(p \o s), NEW l \in 1 .. Len(p \o s),
                        (p \o s)[k] = (p \o s)[l]
                 PROVE  k = l
      BY <1>21 DEF PrintedOnce
    <2>4. \A n \in 1 .. Len(p \o s) :
             n \in 1 .. Len(p) \/ (n \in Len(p) + 1 .. Len(p) + Len(s)
                                   /\ n - Len(p) \in 1 .. Len(s))
      BY <1>22
    <2>5. CASE k \in 1 .. Len(p) /\ l \in 1 .. Len(p)
      BY <1>22, <2>1, <2>5
    <2>6. CASE k \in 1 .. Len(p) /\ l \notin 1 .. Len(p)
      BY <1>22, <2>3, <2>4, <2>6
    <2>7. CASE k \notin 1 .. Len(p) /\ l \in 1 .. Len(p)
      BY <1>22, <2>3, <2>4, <2>7
    <2>8. CASE k \notin 1 .. Len(p) /\ l \notin 1 .. Len(p)
      <3>1. k - Len(p) = l - Len(p)
        BY <1>22, <2>2, <2>4, <2>8
      <3> QED BY <1>22, <3>1
    <2> QED BY <2>5, <2>6, <2>7, <2>8
  <1>27. CursorAt'
    <2>1. PICK r \in Seq(Entries) : printed = r \o Parsed(SubSeq(text, m + 1, a))
      BY <1>1, <1>4, <1>6, <1>7, <1>8 DEF CursorAt
    <2>2. PICK q \in Seq(Entries) : q = Parsed(SubSeq(text, m + 1, a))
      <3>1. m \in 0 .. Len(text) /\ a \in m .. Len(text)
        BY <1>9, <1>15
      <3> QED BY <3>1, Cut, ParsedFrom
    <2>3. printed' = r \o (q \o s)
      <3>1. p = r \o q
        BY <1>20, <2>1, <2>2
      <3>2. (r \o q) \o s = r \o (q \o s)
        BY JoinAssociates
      <3> QED BY <1>21, <3>1, <3>2
    <2>4. q \o s = Parsed(SubSeq(text, m + 1, a + c))
      BY <1>14, <1>18, <2>2
    <2>5. files' = files /\ reader'.file = reader.file /\ reader'.at = a + c /\ reader'.from = m
      BY <1>3, <1>17
    <2>6. m <= a + c
      BY <1>15
    <2> QED BY <1>6, <1>13, <1>14, <2>3, <2>4, <2>5, <2>6 DEF CursorAt
  <1>28. reader' \in [stage : Stages, file : 0 .. Len(files), at : Nat, from : Nat]
    <2>1. a + c \in Nat /\ reader.file \in 0 .. Len(files) /\ stage \in Stages
      BY <1>1, <1>15, ReaderIs DEF Stages
    <2> QED BY <1>15, <1>17, <2>1
  <1>29. ReaderPlace'
    BY <1>4, <1>17 DEF ReaderPlace
  <1>30. printed' \in Seq(Entries)
    BY <1>21, <1>22
  <1> QED BY <1>3, <1>25, <1>26, <1>27, <1>28, <1>29, <1>30, ReaderOnly DEF Reading

-----------------------------------------------------------------------------
(* The theorems about AuditLog.                                            *)

LEMMA NextLog ==
  ASSUME LogKept, [LogNext]_logVars
  PROVE  LogKept'
  <1>1. MaxRecent \in Nat /\ MaxRead \in Nat
    BY AuditLogAssumption
  <1>2. ASSUME NEW e \in Entries, AppendStep(e) \/ Fail(e)
        PROVE  LogKept'
    BY <1>2, OpenKeeps, TaskStepKeeps, WriteBeginKeeps, WriteEndKeeps DEF AppendStep
  <1>3. ASSUME Follow
        PROVE  LogKept'
    BY <1>1, <1>3, ReadRecentKeeps, PollKeeps, ReadNewKeeps DEF Follow
  <1>4. ASSUME UNCHANGED logVars
        PROVE  LogKept'
    <2>1. UNCHANGED <<files, log, task, fd, reader, printed>>
      BY <1>4 DEF logVars, writer
    <2>2. task' = task /\ task \in [Entries -> TaskPc]
      BY <2>1 DEF LogKept, LogTypes, LogTyped
    <2> QED BY <2>1, <2>2, TasksKept
  <1> QED BY <1>2, <1>3, <1>4, CrashKeeps, RotationKeeps, BeginsKeeps DEF LogNext

LEMMA AlwaysLog == LogSpec => []LogKept
  <1>1. LogKept /\ [LogNext]_logVars => LogKept'
    BY NextLog
  <1> QED BY <1>1, InitLog, PTL DEF LogSpec

\* Tasks that log at once do not write into each other's records, in the current
\* file or in one renamed under them, whatever fails or dies; and the cursor of
\* `log -f' is within its file.
THEOREM RecordsAreSound == LogSpec => []RecordsSound
  <1>1. LogKept => RecordsSound
    <2> SUFFICES ASSUME LogKept PROVE RecordsSound
      OBVIOUS
    <2>1. LogTyped /\ Reading /\ CursorAt /\ Records
      BY DEF LogKept, LogTypes, Reading, Writers
    <2>2. files \in Seq(Seq(Piece)) /\ Len(files) \in Nat
      BY <2>1, LenProperties DEF LogTyped, Text
    <2>3. reader.file # 0 => reader.at <= Len(files[reader.file])
      BY <2>1, CursorIn
    <2>4. LogTypeOK
      <3>1. log \in 0 .. Len(files)
        BY <2>1, <2>2 DEF LogTyped
      <3>2. task \in [Entries -> {"idle", "opened", "locked", "begun", "written", "done", "failed"}]
        BY <2>1 DEF LogTyped, TaskPc
      <3> QED BY <2>1, <2>2, <2>3, <3>1, <3>2 DEF LogTyped, LogTypeOK, NoLog
    <2>5. LockKeepsLines
      <3>1. DOMAIN files = 1 .. Len(files)
        BY <2>2
      <3>2. \A f \in 1 .. Len(files) : DOMAIN files[f] = 1 .. Len(files[f])
        BY <2>1, FileIs, LenProperties DEF Text
      <3> QED BY <2>1, <3>1, <3>2 DEF Records, LockKeepsLines
    <2> QED BY <2>4, <2>5 DEF RecordsSound
  <1> QED BY <1>1, AlwaysLog, PTL

\* What `log -f' printed of the file it follows is exactly the records before its
\* cursor, in their order, and nothing is printed twice, across rotations too.
THEOREM CursorIsExact == LogSpec => []CursorExact
  <1>1. LogKept => CursorExact
    <2> SUFFICES ASSUME LogKept PROVE CursorExact
      OBVIOUS
    <2>1. LogTyped /\ Reading /\ CursorAt /\ PrintedOnce
      BY DEF LogKept, LogTypes, Reading
    <2>2. ASSUME reader.file # 0
          PROVE  IsSuffix(Parsed(SubSeq(files[reader.file], reader.from + 1, reader.at)),
                          printed)
      <3>1. /\ files[reader.file] \in Text /\ reader.from \in 0 .. Len(files[reader.file])
            /\ reader.at \in reader.from .. Len(files[reader.file])
        BY <2>1, <2>2, CursorIn
      <3>2. PICK s \in Seq(Entries) :
               s = Parsed(SubSeq(files[reader.file], reader.from + 1, reader.at))
        BY <3>1, Cut, ParsedFrom
      <3>3. PICK r \in Seq(Entries) : printed = r \o s
        BY <2>1, <2>2, <3>2 DEF CursorAt
      <3> QED BY <3>2, <3>3, SuffixIs
    <2>3. DOMAIN printed = 1 .. Len(printed)
      BY <2>1 DEF LogTyped
    <2> QED BY <2>1, <2>2, <2>3 DEF PrintedOnce, CursorExact, NoLog
  <1> QED BY <1>1, AlwaysLog, PTL
=============================================================================
