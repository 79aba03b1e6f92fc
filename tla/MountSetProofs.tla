--------------------------- MODULE MountSetProofs ---------------------------
(***************************************************************************)
(* Proofs about MountSet: what a daemon with several watched paths has     *)
(* mounted is accounted for, and one path's failure is not another's.      *)
(*                                                                         *)
(* start takes the paths one after the other and stop takes them back,     *)
(* sessions first and then what was only prepared.  The invariant says of  *)
(* each path which of the loops has come to it and what it has found: a    *)
(* path that nothing failed for is either still to come, in the hands of   *)
(* the loop, or done.                                                      *)
(***************************************************************************)
EXTENDS MountSet, SequenceTheorems, TLAPS

-----------------------------------------------------------------------------
(* The inductive invariant.                                                *)

\* Where the interceptor works on a path.
Working == {"prepare", "beginMount", "mount", "verify", "fence", "detach", "join",
            "reconcile", "restore"}

\* Which loop each place is in, and what is decided there.
Places ==
    /\ pc = "off" => where = "none"
    /\ pc \in {"setup", "prepare", "beginMount", "mount", "verify", "up", "serving"}
          => where = "start"
    /\ pc \in {"fence", "join"} => where = "sessions"
    /\ pc \in {"stop", "restore"} => where \in {"sessions", "prepared"}
    /\ pc \in {"detach", "reconcile"} => where \in {"start", "sessions", "prepared"}
    /\ pc \in Working => at \in Paths \ todo
    /\ pc \notin Working => at = NoPath
    /\ pc \in {"up", "serving"} => todo = {}
    /\ where = "start" => ended = "running" /\ troubled = {}
    /\ where \in {"sessions", "prepared"} => ended \in {"failed", "ok", "errors"}
    /\ where \in {"none", "start"} => ~dropping
    /\ ended = "ok" => troubled = {}

\* What a daemon has in memory is of this run.
OfThisRun ==
    /\ prepared \subseteq reached
    /\ \A p \in Paths : sessions[p] # "none" => p \in reached
    /\ pc = "off" => \A p \in Paths : mount[p] # "live"

\* A path this run has not come to, and did not fail for, is as it was.
Untouched == \A p \in Paths \ troubled : p \notin reached => rec[p] = before[p]

\* start: a path it has not come to, the one in its hands, and those that are up.
Up(p) == /\ rec[p] = "mounting" /\ mount[p] = "live" /\ sessions[p] = "some"
         /\ p \in reached /\ p \in prepared

Down(p) == mount[p] # "live" /\ sessions[p] = "none" /\ p \notin reached

InHand(p) ==
    CASE pc = "detach"    -> Down(p)
      [] pc = "reconcile" -> Down(p) /\ mount[p] = "no"
      [] pc \in {"prepare", "beginMount", "mount"} ->
            /\ mount[p] = "no" /\ sessions[p] = "none" /\ p \in reached /\ p \in prepared
            /\ pc = "mount" => rec[p] = "mounting"
      [] OTHER -> Up(p)

Starting ==
    where = "start" => \A p \in Paths : /\ p \in todo => Down(p)
                                        /\ p \notin todo /\ p # at => Up(p)
                                        /\ p = at => InHand(p)

\* stop: a path nothing failed for has its session still to be stopped, ...
Pending(p) ==
    /\ where = "sessions" /\ ~dropping
    /\ p \in todo \/ p = at
    /\ p \in todo \/ pc # "restore" => rec[p] \in {"mounting", "leaving", "returning"}

\* ... or is as the configuration wants it, and nothing comes back to it.
Settled(p) ==
    /\ mount[p] = "no"
    /\ IF flag THEN rec[p] = "none" ELSE rec[p] \in {"none", "installed"}
    /\ p \notin todo /\ p # at
    /\ where = "sessions" /\ ~dropping => p \in done
    /\ where = "prepared" \/ dropping => sessions[p] = "none" /\ p \notin prepared

Stopping ==
    where \in {"sessions", "prepared"} =>
       /\ kept \subseteq troubled
       /\ todo \subseteq reached /\ (pc \in Working => at \in reached)
       /\ \A p \in done : mount[p] = "no"
       /\ pc \in {"join", "reconcile", "restore"} => mount[at] = "no"
       /\ where = "sessions" => \A p \in Paths :
             sessions[p] # "none" => p \in todo \/ p = at \/ p \in kept \/ p \in done
       /\ where = "prepared" => \A p \in prepared :
             p \in todo \/ p = at \/ p \in kept \/ mount[p] = "no"
       /\ \A p \in reached \ troubled : Pending(p) \/ Settled(p)
       /\ ended = "failed" => flag
       /\ ended \in {"ok", "errors"} => reached = Paths

Kept == /\ TypeOK /\ Places /\ OfThisRun /\ Untouched
        /\ Starting /\ Stopping
        /\ Remembered /\ OthersUndone

-----------------------------------------------------------------------------
(* The ways of the coordinator's operations.                               *)

Operations == {"prepare", "restore", "reconcile", "beginMount", "fence"}

\* A restoration ends without a record, whatever it began with.
LEMMA BackWay ==
    ASSUME NEW r \in Records
    PROVE  /\ Back(r) \in Seq(Records) /\ Len(Back(r)) \in Nat \ {0}
           /\ Ends(Back(r)) = "none"
<1>1. CASE r = "none"
  BY <1>1 DEF Back, Ends, Records
<1>2. CASE r = "finalizing"
  BY <1>2 DEF Back, Ends, Records
<1>3. CASE r = "restoring"
  BY <1>3 DEF Back, Ends, Records
<1>4. CASE r = "captured"
  BY <1>4 DEF Back, Ends, Records
<1>5. CASE r \notin {"none", "finalizing", "restoring", "captured"}
  <2>1. Back(r) = <<r, "restoring", "finalizing", "none">>
    BY <1>5 DEF Back
  <2> QED
    BY <2>1 DEF Ends, Records
<1> QED
  BY <1>1, <1>2, <1>3, <1>4, <1>5

\* An installation ends installed.
LEMMA ForthWay ==
    ASSUME NEW r \in Records
    PROVE  /\ Forth(r) \in Seq(Records) /\ Len(Forth(r)) \in Nat \ {0}
           /\ Ends(Forth(r)) = "installed"
<1>1. CASE r = "installed"
  BY <1>1 DEF Forth, Ends, Records
<1>2. CASE r = "captured"
  BY <1>2 DEF Forth, Ends, Records
<1>3. CASE r \notin {"installed", "captured"}
  <2> DEFINE s == Back(r)
             t == <<"captured", "installed">>
  <2>1. Forth(r) = s \o t
    BY <1>3 DEF Forth
  <2>2. s \in Seq(Records) /\ Len(s) \in Nat \ {0}
    BY BackWay
  <2>3. t \in Seq(Records) /\ Len(t) = 2 /\ t[2] = "installed"
    BY DEF Records
  <2> HIDE DEF s, t
  <2>4. /\ s \o t \in Seq(Records) /\ Len(s \o t) = Len(s) + Len(t)
        /\ \A i \in 1 .. Len(s) + Len(t) :
              (s \o t)[i] = IF i <= Len(s) THEN s[i] ELSE t[i - Len(s)]
    BY <2>2, <2>3, ConcatProperties
  <2>5. (s \o t)[Len(s) + 2] = t[2]
    <3>1. Len(s) + 2 \in 1 .. Len(s) + Len(t) /\ ~(Len(s) + 2 <= Len(s)) /\ (Len(s) + 2) - Len(s) = 2
      BY <2>2, <2>3
    <3> QED
      BY <2>4, <3>1
  <2> QED
    BY <2>1, <2>2, <2>3, <2>4, <2>5 DEF Ends
<1> QED
  BY <1>1, <1>2, <1>3

\* Every way goes through records, and what it ends with.
LEMMA WayRecords ==
    ASSUME NEW operation \in Operations, NEW r \in Records
    PROVE  Way(operation, r) \in Seq(Records) /\ Len(Way(operation, r)) \in Nat \ {0}
<1>1. CASE operation = "prepare"
  BY <1>1, ForthWay DEF Way
<1>2. CASE operation = "restore"
  BY <1>2, BackWay DEF Way
<1>3. CASE operation = "reconcile"
  <2>1. CASE r \in {"mounting", "leaving"}
    <3>1. Way(operation, r) = <<r, "installed">>
      BY <1>3, <2>1 DEF Way
    <3> QED
      BY <3>1 DEF Records
  <2>2. CASE r \in {"returning", "finalizing"}
    <3>1. Way(operation, r) = Back(r)
      BY <1>3, <2>2 DEF Way
    <3> QED
      BY <3>1, BackWay
  <2>3. CASE r \notin {"mounting", "leaving", "returning", "finalizing"}
    <3>1. Way(operation, r) = <<r>>
      BY <1>3, <2>3 DEF Way
    <3> QED
      BY <3>1
  <2> QED
    BY <2>1, <2>2, <2>3
<1>4. CASE operation = "beginMount"
  <2>1. Way(operation, r) = <<r, "mounting">>
    BY <1>4 DEF Way
  <2> QED
    BY <2>1 DEF Records
<1>5. CASE operation = "fence"
  <2>1. CASE r = "mounting"
    <3> DEFINE s == IF flag THEN "returning" ELSE "leaving"
    <3>1. Way(operation, r) = <<r, s>>
      BY <1>5, <2>1 DEF Way
    <3>2. s \in Records
      BY DEF Records
    <3> HIDE DEF s
    <3> QED
      BY <3>1, <3>2
  <2>2. CASE r # "mounting"
    <3>1. Way(operation, r) = <<r>>
      BY <1>5, <2>2 DEF Way
    <3> QED
      BY <3>1
  <2> QED
    BY <2>1, <2>2
<1> QED
  BY <1>1, <1>2, <1>3, <1>4, <1>5 DEF Operations

LEMMA WayEnds ==
    ASSUME NEW r \in Records
    PROVE  /\ Ends(Way("prepare", r)) = "installed"
           /\ Ends(Way("restore", r)) = "none"
           /\ Ends(Way("beginMount", r)) = "mounting"
           /\ r \in {"mounting", "leaving"} => Ends(Way("reconcile", r)) = "installed"
           /\ r = "returning" => Ends(Way("reconcile", r)) = "none"
           /\ r = "mounting" => Ends(Way("fence", r)) \in {"leaving", "returning"}
           /\ r # "mounting" => Ends(Way("fence", r)) = r
<1>1. Ends(Way("prepare", r)) = "installed"
  BY ForthWay DEF Way
<1>2. Ends(Way("restore", r)) = "none"
  BY BackWay DEF Way
<1>3. Ends(Way("beginMount", r)) = "mounting"
  BY DEF Way, Ends
<1>4. ASSUME r \in {"mounting", "leaving"} PROVE Ends(Way("reconcile", r)) = "installed"
  <2>1. Way("reconcile", r) = <<r, "installed">>
    BY <1>4 DEF Way
  <2> QED
    BY <2>1 DEF Ends
<1>5. ASSUME r = "returning" PROVE Ends(Way("reconcile", r)) = "none"
  <2>1. Way("reconcile", r) = Back(r)
    BY <1>5 DEF Way
  <2> QED
    BY <2>1, BackWay
<1>6. ASSUME r = "mounting" PROVE Ends(Way("fence", r)) \in {"leaving", "returning"}
  <2>1. Way("fence", r) \in {<<r, "returning">>, <<r, "leaving">>}
    BY <1>6 DEF Way
  <2> QED
    BY <2>1 DEF Ends
<1>7. ASSUME r # "mounting" PROVE Ends(Way("fence", r)) = r
  <2>1. Way("fence", r) = <<r>>
    BY <1>7 DEF Way
  <2> QED
    BY <2>1 DEF Ends
<1> QED
  BY <1>1, <1>2, <1>3, <1>4, <1>5, <1>6, <1>7

-----------------------------------------------------------------------------
(* What an operation does to the records.                                  *)

\* Nothing changes on the disk but what belongs to the paths S.
Touched(S) ==
    /\ rec' \in [Paths -> Records] /\ blocked' \subseteq Paths
    /\ mount' \in [Paths -> {"no", "live", "stale"}]
    /\ faults' \in 0 .. MaxFaults
    /\ \A q \in Paths \ S : rec'[q] = rec[q] /\ mount'[q] = mount[q]

LEMMA SucceedTouches ==
    ASSUME TypeOK, NEW operation \in Operations, NEW p \in Paths, Succeed(operation, p)
    PROVE  /\ Touched({p}) /\ UNCHANGED mount
           /\ rec'[p] = Ends(Way(operation, rec[p]))
<1> DEFINE way == Way(operation, rec[p])
<1>1. rec \in [Paths -> Records] /\ rec[p] \in Records
  BY DEF TypeOK
<1>2. way \in Seq(Records) /\ Len(way) \in Nat \ {0}
  BY <1>1, WayRecords
<1>3. rec' = [rec EXCEPT ![p] = Ends(way)] /\ UNCHANGED <<blocked, mount, faults>>
  BY DEF Succeed
<1> HIDE DEF way
<1>4. Ends(way) \in Records
  BY <1>2 DEF Ends
<1>5. /\ rec' \in [Paths -> Records] /\ rec'[p] = Ends(way)
      /\ \A q \in Paths \ {p} : rec'[q] = rec[q]
  BY <1>1, <1>3, <1>4
<1>6. Touched({p})
  BY <1>3, <1>5 DEF TypeOK, Touched
<1> QED
  BY <1>3, <1>5, <1>6 DEF way

LEMMA BreakTouches ==
    ASSUME TypeOK, NEW operation \in Operations, NEW p \in Paths, Break(operation, p)
    PROVE  Touched({p}) /\ UNCHANGED mount
<1> DEFINE way == Way(operation, rec[p])
<1>1. rec \in [Paths -> Records] /\ rec[p] \in Records
  BY DEF TypeOK
<1>2. way \in Seq(Records) /\ Len(way) \in Nat \ {0}
  BY <1>1, WayRecords
<1>3. CASE UNCHANGED <<disk, faults>>
  BY <1>3 DEF TypeOK, disk, Touched
<1>4. CASE /\ faults < MaxFaults /\ faults' = faults + 1
           /\ \E i \in 1 .. Len(way) : rec' = [rec EXCEPT ![p] = way[i]]
           /\ \E conflict \in {{}, {p}} : blocked' = blocked \cup conflict
           /\ UNCHANGED mount
  <2>1. PICK i \in 1 .. Len(way) : rec' = [rec EXCEPT ![p] = way[i]]
    BY <1>4
  <2> HIDE DEF way
  <2>2. way[i] \in Records
    BY <1>2
  <2>3. rec' \in [Paths -> Records] /\ \A q \in Paths \ {p} : rec'[q] = rec[q]
    BY <1>1, <2>1, <2>2
  <2>4. faults' \in 0 .. MaxFaults
    BY <1>4, MountSetAssumption DEF TypeOK
  <2> QED
    BY <1>4, <2>3, <2>4 DEF TypeOK, Touched
<1> QED
  BY <1>3, <1>4 DEF Break

\* Nothing on the disk changes.
LEMMA NothingTouched ==
    ASSUME TypeOK, UNCHANGED disk, faults' \in 0 .. MaxFaults, NEW S
    PROVE  Touched(S)
  BY DEF TypeOK, disk, Touched

LEMMA FaultTyped ==
    ASSUME TypeOK, Fault PROVE faults' \in 0 .. MaxFaults
  BY MountSetAssumption DEF TypeOK, Fault

-----------------------------------------------------------------------------
(* What follows from the invariant.                                        *)

\* While paths are being mounted, those the run came to are in `prepared', and
\* those it is done with are up.
LEMMA StartingReached ==
    ASSUME Kept, where = "start"
    PROVE  /\ reached \subseteq prepared
           /\ \A q \in Paths : q \in reached /\ q # at => Up(q)
<1> SUFFICES ASSUME NEW q \in Paths, q \in reached
             PROVE  q \in prepared /\ (q # at => Up(q))
  BY DEF Kept, TypeOK
<1>1. q \notin todo
  BY DEF Kept, Starting, Down
<1>2. CASE q # at
  BY <1>1, <1>2 DEF Kept, Starting, Up
<1>3. CASE q = at
  <2>1. InHand(q)
    BY <1>3 DEF Kept, Starting
  <2>2. pc \notin {"detach", "reconcile"}
    BY <2>1 DEF InHand, Down
  <2>3. q \in prepared
    <3>1. CASE pc \in {"prepare", "beginMount", "mount"}
      BY <2>1, <3>1 DEF InHand
    <3>2. CASE pc \notin {"detach", "reconcile", "prepare", "beginMount", "mount"}
      BY <2>1, <3>2 DEF InHand, Up
    <3> QED
      BY <2>2, <3>1, <3>2
  <2> QED
    BY <1>3, <2>3
<1> QED
  BY <1>2, <1>3

-----------------------------------------------------------------------------
(* What an error does.                                                     *)

\* An error while stopping: the path is retained, and counts as troubled.
LEMMA RetainKept ==
    ASSUME Kept, NEW p \in Paths, where \in {"sessions", "prepared"},
           p = at \/ (at = NoPath /\ p \in todo),
           Touched({p}), mount'[p] \in {mount[p], "no"}, Retain(p),
           \/ UNCHANGED sessions
           \/ sessions[p] # "none" /\ mount[p] = "no" /\ sessions' = [sessions EXCEPT ![p] = "taken"]
    PROVE  Kept'
<1>1. TypeOK'
  <2>1. ended' \in {"never", "running", "crash", "failed", "ok", "errors"}
    BY DEF Kept, TypeOK, Retain
  <2>2. sessions' \in [Paths -> {"none", "some", "taken"}]
    BY DEF Kept, TypeOK
  <2>3. /\ kept' \subseteq Paths /\ troubled' \subseteq Paths /\ todo' \subseteq Paths
        /\ pc' \in Labels /\ at' \in Paths \cup {NoPath}
        /\ where' \in {"none", "start", "sessions", "prepared"}
    BY DEF Kept, TypeOK, Retain, Turn, Labels
  <2>4. UNCHANGED <<prepared, flag, done, dropping, before, reached, runs>>
    BY DEF Retain
  <2> QED
    BY <2>1, <2>2, <2>3, <2>4 DEF Kept, TypeOK, Touched
<1>2. /\ kept' = kept \cup {p} /\ troubled' = troubled \cup {p}
      /\ pc' = "stop" /\ at' = NoPath /\ todo' = todo \ {p}
      /\ ended \in {"failed", "ok", "errors"}
      /\ ended' = IF ended = "ok" THEN "errors" ELSE ended
      /\ UNCHANGED <<where, prepared, flag, done, dropping, before, reached, runs>>
  BY DEF Kept, Places, Retain, Turn
<1>3. /\ sessions' \in [Paths -> {"none", "some", "taken"}]
      /\ \A q \in Paths : sessions'[q] # "none" <=> sessions[q] # "none"
      /\ \A q \in Paths \ {p} : sessions'[q] = sessions[q]
      /\ sessions'[p] = sessions[p] \/ mount[p] = "no"
  BY DEF Kept, TypeOK
<1>4. \A q \in Paths : mount'[q] \in {mount[q], "no"}
  BY DEF Touched
<1>5. Places'
  BY <1>2 DEF Kept, Places, Working
<1>6. OfThisRun'
  BY <1>2, <1>3 DEF Kept, OfThisRun
<1>7. Untouched'
  BY <1>2 DEF Kept, Untouched, Touched
<1>8. Starting'
  BY <1>2 DEF Starting
<1>9. Stopping'
  <2>1. Stopping /\ Places /\ NoPath \notin Paths
    BY MountSetAssumption DEF Kept
  <2>2. kept' \subseteq troubled' /\ todo' \subseteq reached'
    BY <1>2, <2>1 DEF Stopping
  <2>3. pc' \notin Working
    BY <1>2 DEF Working
  <2>4. \A q \in done' : mount'[q] = "no"
    BY <1>2, <1>4, <2>1 DEF Stopping, Kept, TypeOK
  <2>5. where' = "sessions" => \A q \in Paths :
           sessions'[q] # "none" => q \in todo' \/ q = at' \/ q \in kept' \/ q \in done'
    <3> SUFFICES ASSUME where = "sessions", NEW q \in Paths, sessions[q] # "none"
                 PROVE  q \in todo' \/ q = at' \/ q \in kept' \/ q \in done'
      BY <1>2, <1>3
    <3>1. q \in todo \/ q = at \/ q \in kept \/ q \in done
      BY <2>1 DEF Stopping
    <3> QED
      BY <1>2, <2>1, <3>1
  <2>6. where' = "prepared" => \A q \in prepared' :
           q \in todo' \/ q = at' \/ q \in kept' \/ mount'[q] = "no"
    <3> SUFFICES ASSUME where = "prepared", NEW q \in prepared
                 PROVE  q \in todo' \/ q = at' \/ q \in kept' \/ mount'[q] = "no"
      BY <1>2
    <3>1. q \in Paths
      BY DEF Kept, TypeOK
    <3>2. q \in todo \/ q = at \/ q \in kept \/ mount[q] = "no"
      BY <2>1 DEF Stopping
    <3> QED
      BY <1>2, <1>4, <2>1, <3>1, <3>2
  <2>7. ASSUME NEW q \in reached' \ troubled' PROVE Pending(q)' \/ Settled(q)'
    <3>1. q \in Paths /\ q # p /\ q \in reached \ troubled
      BY <1>2 DEF Kept, TypeOK
    <3>2. rec'[q] = rec[q] /\ mount'[q] = mount[q] /\ sessions'[q] = sessions[q]
      BY <1>3, <3>1 DEF Touched
    <3>3. CASE Pending(q)
      <4>1. q \in todo \/ q = at
        BY <3>3 DEF Pending
      <4>2. q \in todo
        BY <2>1, <3>1, <4>1
      <4> QED
        BY <1>2, <3>1, <3>2, <3>3, <4>2 DEF Pending
    <3>4. CASE Settled(q)
      BY <1>2, <2>1, <3>1, <3>2, <3>4 DEF Settled
    <3> QED
      BY <2>1, <3>1, <3>3, <3>4 DEF Stopping
  <2>8. /\ ended' = "failed" => flag'
        /\ ended' \in {"ok", "errors"} => reached' = Paths
    BY <1>2, <2>1 DEF Stopping
  <2> QED
    BY <2>2, <2>3, <2>4, <2>5, <2>6, <2>7, <2>8, <1>2 DEF Stopping, Working
<1>10. Remembered'
  <2> SUFFICES ASSUME NEW q \in Paths
               PROVE  /\ mount'[q] = "live" => sessions'[q] = "some"
                      /\ mount'[q] = "stale" /\ q \in reached' => q \in prepared'
    BY DEF Remembered
  <2>1. pc # "off"
    BY DEF Kept, Places
  <2>2. /\ mount[q] = "live" => sessions[q] = "some"
        /\ mount[q] = "stale" /\ q \in reached => q \in prepared
    BY <2>1 DEF Kept, Remembered
  <2>3. mount'[q] \in {mount[q], "no"}
    BY <1>4
  <2>4. mount'[q] = "live" => sessions'[q] = "some"
    <3> SUFFICES ASSUME mount'[q] = "live" PROVE sessions'[q] = "some"
      OBVIOUS
    <3>1. mount[q] = "live" /\ sessions[q] = "some"
      BY <2>2, <2>3
    <3>2. sessions'[q] = sessions[q]
      BY <1>3, <3>1
    <3> QED
      BY <3>1, <3>2
  <2> QED
    BY <1>2, <2>2, <2>3, <2>4
<1>11. OthersUndone'
  BY <1>2 DEF OthersUndone
<1> QED
  BY <1>1, <1>5, <1>6, <1>7, <1>8, <1>9, <1>10, <1>11 DEF Kept

\* A start that failed: what is up has its session to be stopped, and what is in
\* hand counts as troubled.
LEMMA RollBackKept ==
    ASSUME Kept, NEW S \in SUBSET Paths, where = "start", \A q \in S : q = at \/ q \in todo,
           at # NoPath => at \in S, Touched(S),
           \A q \in Paths : mount'[q] \in {mount[q], "no"}
                              \/ (mount'[q] = "stale" /\ q \in prepared),
           RollBack, troubled' = S
    PROVE  Kept'
<1>1. /\ kept' = {} /\ done' = {} /\ pc' = "stop" /\ at' = NoPath /\ where' = "sessions"
      /\ todo' = {q \in Paths : sessions[q] # "none"} /\ flag' = TRUE /\ ended' = "failed"
      /\ UNCHANGED <<sessions, prepared, dropping, before, reached, runs>>
  BY DEF RollBack, Loop
<1>2. TypeOK'
  <2>1. pc' \in Labels /\ where' \in {"none", "start", "sessions", "prepared"}
        /\ ended' \in {"never", "running", "crash", "failed", "ok", "errors"}
    BY <1>1 DEF Labels
  <2> QED
    BY <1>1, <2>1 DEF Kept, TypeOK, Touched
<1>3. Places'
  BY <1>1 DEF Kept, Places, Working
<1>4. OfThisRun'
  BY <1>1 DEF Kept, OfThisRun
<1>5. troubled = {} /\ pc # "off" /\ ~dropping
  BY DEF Kept, Places
<1>6. Untouched'
  BY <1>1, <1>5 DEF Kept, Untouched, Touched
<1>7. Starting'
  BY <1>1 DEF Starting
<1>8. reached \subseteq prepared /\ \A q \in Paths : q \in reached /\ q # at => Up(q)
  BY StartingReached
<1>9. Stopping'
  <2>1. kept' \subseteq troubled' /\ todo' \subseteq reached' /\ pc' \notin Working
    BY <1>1 DEF Kept, OfThisRun, Working
  <2>2. \A q \in Paths : sessions'[q] # "none" => q \in todo'
    BY <1>1
  <2>3. ASSUME NEW q \in reached' \ troubled' PROVE Pending(q)'
    <3>1. q \in Paths /\ q \in reached /\ q \notin S
      BY <1>1 DEF Kept, TypeOK
    <3>2. q # at
      BY <3>1, MountSetAssumption
    <3>3. Up(q) /\ rec'[q] = rec[q]
      BY <1>8, <3>1, <3>2 DEF Touched
    <3> QED
      BY <1>1, <1>5, <3>1, <3>3 DEF Pending, Up
  <2> QED
    BY <1>1, <2>1, <2>2, <2>3 DEF Stopping, Working
<1>10. Remembered'
  <2> SUFFICES ASSUME NEW q \in Paths
               PROVE  /\ mount'[q] = "live" => sessions'[q] = "some"
                      /\ mount'[q] = "stale" /\ q \in reached' => q \in prepared'
    BY DEF Remembered
  <2>1. /\ mount[q] = "live" => sessions[q] = "some"
        /\ mount[q] = "stale" /\ q \in reached => q \in prepared
    BY <1>5 DEF Kept, Remembered
  <2> QED
    BY <1>1, <2>1
<1>11. OthersUndone'
  BY <1>1 DEF OthersUndone
<1> QED
  BY <1>2, <1>3, <1>4, <1>6, <1>7, <1>9, <1>10, <1>11 DEF Kept

\* An error, wherever it happens.
LEMMA RefuseKept ==
    ASSUME Kept, NEW p \in Paths, where \in {"start", "sessions", "prepared"},
           p = at \/ (at = NoPath /\ p \in todo),
           Touched({p}), mount'[p] \in {mount[p], "no"}, Refuse(p)
    PROVE  Kept'
<1>1. CASE where = "start"
  <2>1. RollBack /\ troubled' = {p}
    BY <1>1 DEF Refuse, Kept, Places
  <2>2. \A q \in Paths : mount'[q] \in {mount[q], "no"}
    BY DEF Touched
  <2> QED
    BY <1>1, <2>1, <2>2, RollBackKept, MountSetAssumption
<1>2. CASE where \in {"sessions", "prepared"}
  <2>1. Retain(p) /\ UNCHANGED sessions
    BY <1>2 DEF Refuse
  <2> QED
    BY <1>2, <2>1, RetainKept
<1> QED
  BY <1>1, <1>2

LEMMA WorkingAt ==
    ASSUME Kept, pc \in Working
    PROVE  at \in Paths /\ at \notin todo /\ where \in {"start", "sessions", "prepared"}
  BY DEF Kept, Places, Working

\* An operation that fails, and anything else that does.
LEMMA BreakKept ==
    ASSUME Kept, pc \in Working, NEW operation \in Operations,
           Break(operation, at), Refuse(at)
    PROVE  Kept'
<1>1. at \in Paths /\ where \in {"start", "sessions", "prepared"}
  BY WorkingAt
<1>2. Touched({at}) /\ UNCHANGED mount
  BY <1>1, BreakTouches DEF Kept
<1> QED
  BY <1>1, <1>2, RefuseKept

LEMMA FaultKept ==
    ASSUME Kept, pc \in Working, Fault, UNCHANGED disk, Refuse(at)
    PROVE  Kept'
<1>1. at \in Paths /\ where \in {"start", "sessions", "prepared"}
  BY WorkingAt
<1>2. Touched({at}) /\ UNCHANGED mount
  BY FaultTyped, NothingTouched DEF Kept, disk
<1> QED
  BY <1>1, <1>2, RefuseKept

-----------------------------------------------------------------------------
(* What a step that succeeds does.                                         *)

\* A step of start for path p, which is then in hand or up.
LEMMA StartStep ==
    ASSUME Kept, NEW p \in Paths, where = "start", where' = "start", TypeOK', Places',
           p = at \/ p \in todo, at \in {p, NoPath}, at' \in {p, NoPath}, p \notin todo',
           \A q \in Paths \ {p} :
              /\ rec'[q] = rec[q] /\ mount'[q] = mount[q] /\ sessions'[q] = sessions[q]
              /\ q \in reached' <=> q \in reached
              /\ q \in prepared' <=> q \in prepared
              /\ q \in todo' <=> q \in todo,
           UNCHANGED <<before, troubled>>,
           at' = p => InHand(p)', at' # p => Up(p)',
           p \notin reached' => p \notin reached /\ rec'[p] = rec[p] /\ p \notin prepared',
           sessions'[p] # "none" => p \in reached',
           mount'[p] = "live" => sessions'[p] = "some",
           mount'[p] = "stale" /\ p \in reached' => p \in prepared'
    PROVE  Kept'
<1>1. pc # "off" /\ pc' # "off" /\ NoPath \notin Paths
  BY MountSetAssumption DEF Kept, Places
<1>2. OfThisRun'
  <2>1. prepared' \subseteq reached'
    <3> SUFFICES ASSUME NEW q \in prepared' PROVE q \in reached'
      OBVIOUS
    <3>1. q \in Paths
      BY DEF TypeOK
    <3> QED
      BY <3>1 DEF Kept, OfThisRun
  <2>2. \A q \in Paths : sessions'[q] # "none" => q \in reached'
    BY DEF Kept, OfThisRun
  <2> QED
    BY <1>1, <2>1, <2>2 DEF OfThisRun
<1>3. Untouched'
  BY DEF Kept, Untouched
<1>4. Starting'
  <2> SUFFICES ASSUME NEW q \in Paths
               PROVE  /\ q \in todo' => Down(q)'
                      /\ q \notin todo' /\ q # at' => Up(q)'
                      /\ q = at' => InHand(q)'
    BY DEF Starting
  <2>1. CASE q = p
    BY <2>1
  <2>2. CASE q # p
    <3>1. q # at /\ q # at'
      BY <1>1, <2>2
    <3>2. q \in todo => Down(q)
      BY DEF Kept, Starting
    <3>3. q \notin todo => Up(q)
      BY <3>1 DEF Kept, Starting
    <3>4. q \in todo => Down(q)'
      BY <2>2, <3>2 DEF Down
    <3>5. q \notin todo => Up(q)'
      BY <2>2, <3>3 DEF Up
    <3> QED
      BY <2>2, <3>1, <3>4, <3>5
  <2> QED
    BY <2>1, <2>2
<1>5. Stopping' /\ OthersUndone'
  BY <1>1 DEF Stopping, OthersUndone
<1>6. Remembered'
  BY <1>1 DEF Kept, Remembered
<1> QED
  BY <1>2, <1>3, <1>4, <1>5, <1>6 DEF Kept

\* A step of stop for path p, which is then in hand, recovered or left alone.
LEMMA StopStep ==
    ASSUME Kept, NEW p \in Paths, where \in {"sessions", "prepared"}, where' = where,
           TypeOK', Places',
           p = at \/ p \in todo, at \in {p, NoPath}, at' \in {p, NoPath}, todo' = todo \ {p},
           \A q \in Paths \ {p} :
              /\ rec'[q] = rec[q] /\ mount'[q] = mount[q] /\ sessions'[q] = sessions[q],
           UNCHANGED <<prepared, flag, kept, dropping, before, reached, ended, troubled>>,
           done' = done \/ (done' = done \cup {p} /\ mount'[p] = "no"),
           mount'[p] \in {mount[p], "no"},
           sessions'[p] = sessions[p] \/ mount[p] = "no",
           pc' \in Working => at' = p,
           pc' \in {"join", "reconcile", "restore"} => mount'[p] = "no",
           at' # p => IF where = "sessions" THEN p \in done' ELSE mount'[p] = "no",
           p \in reached \ troubled => Pending(p)' \/ Settled(p)'
    PROVE  Kept'
<1>1. pc # "off" /\ pc' # "off" /\ NoPath \notin Paths
  BY MountSetAssumption DEF Kept, Places
<1>2. p \in reached
  <2>1. CASE p \in todo
    BY <2>1 DEF Kept, Stopping
  <2>2. CASE p = at
    <3>1. pc \in Working
      BY <1>1, <2>2 DEF Kept, Places
    <3> QED
      BY <2>2, <3>1 DEF Kept, Stopping
  <2> QED
    BY <2>1, <2>2
<1>3. OfThisRun'
  BY <1>1, <1>2 DEF Kept, OfThisRun
<1>4. Untouched'
  BY <1>2 DEF Kept, Untouched
<1>5. Starting' /\ OthersUndone'
  BY <1>1 DEF Starting, OthersUndone
<1>6. Remembered'
  <2> SUFFICES ASSUME NEW q \in Paths
               PROVE  /\ mount'[q] = "live" => sessions'[q] = "some"
                      /\ mount'[q] = "stale" /\ q \in reached' => q \in prepared'
    BY DEF Remembered
  <2>1. /\ mount[q] = "live" => sessions[q] = "some"
        /\ mount[q] = "stale" /\ q \in reached => q \in prepared
    BY <1>1 DEF Kept, Remembered
  <2> QED
    BY <2>1
<1>7. Stopping'
  <2>1. Stopping
    BY DEF Kept
  <2>2. kept' \subseteq troubled' /\ todo' \subseteq reached' /\ (pc' \in Working => at' \in reached')
    BY <1>2, <2>1 DEF Stopping
  <2>3. \A q \in done' : mount'[q] = "no"
    <3> SUFFICES ASSUME NEW q \in done' PROVE mount'[q] = "no"
      OBVIOUS
    <3>1. q \in Paths /\ (q \in done \/ (q = p /\ mount'[p] = "no"))
      BY DEF TypeOK
    <3>2. q \in done => mount[q] = "no"
      BY <2>1 DEF Stopping
    <3> QED
      BY <3>1, <3>2
  <2>4. pc' \in {"join", "reconcile", "restore"} => mount'[at'] = "no"
    BY DEF Working
  <2>5. where' = "sessions" => \A q \in Paths :
           sessions'[q] # "none" => q \in todo' \/ q = at' \/ q \in kept' \/ q \in done'
    <3> SUFFICES ASSUME where = "sessions", NEW q \in Paths, sessions'[q] # "none"
                 PROVE  q \in todo' \/ q = at' \/ q \in kept' \/ q \in done'
      OBVIOUS
    <3>1. CASE q = p
      BY <3>1
    <3>2. CASE q # p
      <4>1. q \in todo \/ q = at \/ q \in kept \/ q \in done
        BY <2>1, <3>2 DEF Stopping
      <4> QED
        BY <1>1, <3>2, <4>1
    <3> QED
      BY <3>1, <3>2
  <2>6. where' = "prepared" => \A q \in prepared' :
           q \in todo' \/ q = at' \/ q \in kept' \/ mount'[q] = "no"
    <3> SUFFICES ASSUME where = "prepared", NEW q \in prepared
                 PROVE  q \in todo' \/ q = at' \/ q \in kept' \/ mount'[q] = "no"
      OBVIOUS
    <3>1. CASE q = p
      BY <3>1
    <3>2. CASE q # p
      <4>1. q \in Paths /\ (q \in todo \/ q = at \/ q \in kept \/ mount[q] = "no")
        BY <2>1 DEF Stopping, Kept, TypeOK
      <4> QED
        BY <1>1, <3>2, <4>1
    <3> QED
      BY <3>1, <3>2
  <2>7. ASSUME NEW q \in reached' \ troubled' PROVE Pending(q)' \/ Settled(q)'
    <3>1. CASE q = p
      BY <3>1
    <3>2. CASE q # p
      <4>1. q \in Paths /\ q # at' /\ q # at /\ (Pending(q) \/ Settled(q))
        BY <1>1, <2>1, <3>2 DEF Stopping, Kept, TypeOK
      <4>2. rec'[q] = rec[q] /\ mount'[q] = mount[q] /\ sessions'[q] = sessions[q]
        BY <3>2, <4>1
      <4>3. Pending(q) => Pending(q)'
        BY <3>2, <4>1, <4>2 DEF Pending
      <4>4. Settled(q) => Settled(q)'
        BY <3>2, <4>1, <4>2 DEF Settled
      <4> QED
        BY <4>1, <4>3, <4>4
    <3> QED
      BY <3>1, <3>2
  <2>8. /\ ended' = "failed" => flag'
        /\ ended' \in {"ok", "errors"} => reached' = Paths
    BY <2>1 DEF Stopping
  <2> QED
    BY <2>2, <2>3, <2>4, <2>5, <2>6, <2>7, <2>8 DEF Stopping
<1> QED
  BY <1>3, <1>4, <1>5, <1>6, <1>7 DEF Kept

-----------------------------------------------------------------------------
(* start                                                                   *)

LEMMA InitKept == Init => Kept
<1> SUFFICES ASSUME Init PROVE Kept
  OBVIOUS
<1>1. TypeOK
  <2>1. rec \in [Paths -> Records] /\ before \in [Paths -> Records]
    BY DEF Init, Records
  <2>2. /\ mount \in [Paths -> {"no", "live", "stale"}]
        /\ sessions \in [Paths -> {"none", "some", "taken"}]
    BY DEF Init
  <2>3. faults \in 0 .. MaxFaults /\ runs \in 0 .. MaxRuns
    BY MountSetAssumption DEF Init
  <2>4. /\ pc \in Labels /\ where \in {"none", "start", "sessions", "prepared"}
        /\ ended \in {"never", "running", "crash", "failed", "ok", "errors"}
    BY DEF Init, Labels
  <2> QED
    BY <2>1, <2>2, <2>3, <2>4 DEF Init, TypeOK
<1>2. Places /\ OfThisRun /\ Untouched
  BY DEF Init, Places, Working, OfThisRun, Untouched
<1>3. Starting /\ Stopping /\ Remembered /\ OthersUndone
  BY DEF Init, Starting, Stopping, Remembered, OthersUndone
<1> QED
  BY <1>1, <1>2, <1>3 DEF Kept

LEMMA StartKept ==
    ASSUME Kept, NEW restoreOnStop \in RestoreOnStop, Start(restoreOnStop) PROVE Kept'
<1>1. /\ pc' = "setup" /\ where' = "start" /\ at' = NoPath /\ todo' = Paths
      /\ sessions' = [p \in Paths |-> "none"] /\ prepared' = {} /\ flag' = restoreOnStop
      /\ before' = rec /\ reached' = {} /\ troubled' = {} /\ ended' = "running"
      /\ UNCHANGED <<rec, blocked, mount, done, kept, dropping, faults>>
      /\ runs' = runs + 1 /\ runs < MaxRuns /\ pc = "off"
  BY DEF Start, disk
<1>2. TypeOK'
  <2>1. runs' \in 0 .. MaxRuns /\ flag' \in BOOLEAN
    BY <1>1, MountSetAssumption DEF Kept, TypeOK
  <2> QED
    BY <1>1, <2>1 DEF Kept, TypeOK, Labels
<1>3. Places'
  BY <1>1 DEF Kept, Places, Working
<1>4. OfThisRun' /\ Untouched'
  BY <1>1 DEF OfThisRun, Untouched, Kept, TypeOK
<1>5. \A p \in Paths : mount[p] # "live"
  BY <1>1 DEF Kept, OfThisRun
<1>6. Starting'
  BY <1>1, <1>5, MountSetAssumption DEF Starting, Down
<1>7. Stopping' /\ OthersUndone'
  BY <1>1 DEF Stopping, OthersUndone
<1>8. Remembered'
  BY <1>1, <1>5 DEF Remembered
<1> QED
  BY <1>2, <1>3, <1>4, <1>6, <1>7, <1>8 DEF Kept

LEMMA SetUpKept ==
    ASSUME Kept, NEW p \in Paths, SetUp(p) PROVE Kept'
<1>1. /\ pc = "setup" /\ p \in todo /\ where = "start" /\ at = NoPath
      /\ UNCHANGED <<rec, blocked, mount, faults>>
  BY DEF SetUp, Kept, Places, Working, disk
<1>2. CASE Refuse(p)
  <2>1. Touched({p})
    BY <1>1, NothingTouched DEF Kept, TypeOK, disk
  <2> QED
    BY <1>1, <1>2, <2>1, RefuseKept
<1>3. CASE /\ at' = p /\ todo' = todo \ {p} /\ UNCHANGED where /\ pc' = "detach"
           /\ UNCHANGED <<memory, done, kept, dropping, past, troubled>>
  <2>1. TypeOK'
    BY <1>1, <1>3 DEF Kept, TypeOK, Labels, memory, past
  <2>2. Places'
    BY <1>1, <1>3, MountSetAssumption DEF Kept, Places, Working, past
  <2>3. Down(p)
    BY <1>1 DEF Kept, Starting
  <2>4. InHand(p)'
    BY <1>1, <1>3, <2>3 DEF InHand, Down, memory, past
  <2>5. p \notin prepared
    BY <2>3 DEF Kept, OfThisRun, Down
  <2> QED
    BY <1>1, <1>3, <2>1, <2>2, <2>3, <2>4, <2>5, StartStep DEF memory, past, Down
<1>4. CASE /\ at' = p /\ todo' = todo \ {p} /\ UNCHANGED where /\ ToPrepare(p)
           /\ mount[p] = "no"
  <2>1. /\ prepared' = prepared \cup {p} /\ reached' = reached \cup {p} /\ pc' = "prepare"
        /\ UNCHANGED <<sessions, flag, done, kept, dropping, before, ended, runs, troubled>>
    BY <1>4 DEF ToPrepare
  <2>2. TypeOK'
    BY <1>1, <1>4, <2>1 DEF Kept, TypeOK, Labels
  <2>3. Places'
    BY <1>1, <1>4, <2>1, MountSetAssumption DEF Kept, Places, Working
  <2>4. Down(p)
    BY <1>1 DEF Kept, Starting
  <2>5. InHand(p)'
    BY <1>1, <1>4, <2>1, <2>4 DEF InHand, Down
  <2> QED
    BY <1>1, <1>4, <2>1, <2>2, <2>3, <2>4, <2>5, StartStep DEF Down
<1> QED
  BY <1>2, <1>3, <1>4 DEF SetUp

LEMMA PrepareKept ==
    ASSUME Kept, Prepare PROVE Kept'
<1>1. pc = "prepare" /\ pc \in Working /\ "prepare" \in Operations
  BY DEF Prepare, Working, Operations
<1>2. CASE Break("prepare", at) /\ Refuse(at)
  BY <1>1, <1>2, BreakKept
<1>3. CASE Succeed("prepare", at) /\ Proceed("beginMount") /\ UNCHANGED memory
  <2>1. at \in Paths /\ at \notin todo /\ where = "start" /\ InHand(at)
    BY <1>1, WorkingAt DEF Kept, Places, Starting
  <2>2. Touched({at}) /\ UNCHANGED mount
    BY <1>1, <1>3, <2>1, SucceedTouches DEF Kept
  <2>3. /\ pc' = "beginMount"
        /\ UNCHANGED <<where, at, todo, sessions, prepared, flag, done, kept, dropping,
                       before, reached, ended, runs, troubled>>
    BY <1>3 DEF Proceed, loop, memory, past
  <2>4. TypeOK'
    BY <2>2, <2>3 DEF Kept, TypeOK, Touched, Labels
  <2>5. Places'
    BY <1>1, <2>3 DEF Kept, Places, Working
  <2>6. InHand(at)'
    BY <1>1, <2>1, <2>2, <2>3 DEF InHand
  <2> QED
    BY <1>1, <2>1, <2>2, <2>3, <2>4, <2>5, <2>6, StartStep DEF Touched, InHand
<1> QED
  BY <1>2, <1>3 DEF Prepare

LEMMA BeginMountKept ==
    ASSUME Kept, BeginMount PROVE Kept'
<1>1. pc = "beginMount" /\ pc \in Working /\ "beginMount" \in Operations
  BY DEF BeginMount, Working, Operations
<1>2. CASE Break("beginMount", at) /\ Refuse(at)
  BY <1>1, <1>2, BreakKept
<1>3. CASE Succeed("beginMount", at) /\ Proceed("mount") /\ UNCHANGED memory
  <2>1. at \in Paths /\ at \notin todo /\ where = "start" /\ InHand(at)
    BY <1>1, WorkingAt DEF Kept, Places, Starting
  <2>2. Touched({at}) /\ UNCHANGED mount /\ rec'[at] = "mounting"
    <3>1. rec[at] \in Records
      BY <2>1 DEF Kept, TypeOK
    <3> QED
      BY <1>1, <1>3, <2>1, <3>1, SucceedTouches, WayEnds DEF Kept
  <2>3. /\ pc' = "mount"
        /\ UNCHANGED <<where, at, todo, sessions, prepared, flag, done, kept, dropping,
                       before, reached, ended, runs, troubled>>
    BY <1>3 DEF Proceed, loop, memory, past
  <2>4. TypeOK'
    BY <2>2, <2>3 DEF Kept, TypeOK, Touched, Labels
  <2>5. Places'
    BY <1>1, <2>3 DEF Kept, Places, Working
  <2>6. InHand(at)'
    BY <1>1, <2>1, <2>2, <2>3 DEF InHand
  <2> QED
    BY <1>1, <2>1, <2>2, <2>3, <2>4, <2>5, <2>6, StartStep DEF Touched, InHand
<1> QED
  BY <1>2, <1>3 DEF BeginMount

LEMMA MountKept ==
    ASSUME Kept, Mount PROVE Kept'
<1>1. pc = "mount" /\ pc \in Working
  BY DEF Mount, Working
<1>2. at \in Paths /\ at \notin todo /\ where = "start" /\ InHand(at)
  BY <1>1, WorkingAt DEF Kept, Places, Starting
<1>3. /\ mount' = [mount EXCEPT ![at] = "live"] /\ sessions' = [sessions EXCEPT ![at] = "some"]
      /\ pc' = "verify"
      /\ UNCHANGED <<where, at, todo, prepared, flag, done, kept, dropping,
                     before, reached, ended, runs, troubled, rec, blocked, faults>>
  BY DEF Mount, Proceed, loop, past
<1>4. /\ mount' \in [Paths -> {"no", "live", "stale"}]
      /\ sessions' \in [Paths -> {"none", "some", "taken"}]
      /\ mount'[at] = "live" /\ sessions'[at] = "some"
      /\ \A q \in Paths \ {at} : mount'[q] = mount[q] /\ sessions'[q] = sessions[q]
  BY <1>2, <1>3 DEF Kept, TypeOK
<1>5. TypeOK'
  BY <1>3, <1>4 DEF Kept, TypeOK, Labels
<1>6. Places'
  BY <1>1, <1>3 DEF Kept, Places, Working
<1>7. InHand(at)'
  BY <1>1, <1>2, <1>3, <1>4 DEF InHand, Up
<1> QED
  BY <1>1, <1>2, <1>3, <1>4, <1>5, <1>6, <1>7, StartStep DEF InHand

LEMMA MountFailsKept ==
    ASSUME Kept, MountFails PROVE Kept'
<1>1. pc = "mount" /\ pc \in Working /\ Refuse(at) /\ faults' \in 0 .. MaxFaults
  BY FaultTyped DEF MountFails, Working, Kept
<1>2. at \in Paths /\ at \notin todo /\ where = "start" /\ InHand(at)
  BY <1>1, WorkingAt DEF Kept, Places, Starting
<1>3. PICK left \in {"no", "stale"}, back \in {"mounting", "installed"} :
        /\ mount' = [mount EXCEPT ![at] = left] /\ rec' = [rec EXCEPT ![at] = back]
        /\ \E conflict \in {{}, {at}} : blocked' = blocked \cup conflict
  BY DEF MountFails
<1>4. back \in Records
  BY DEF Records
<1>5. /\ mount' \in [Paths -> {"no", "live", "stale"}] /\ rec' \in [Paths -> Records]
      /\ mount'[at] \in {"no", "stale"}
      /\ \A q \in Paths \ {at} : mount'[q] = mount[q] /\ rec'[q] = rec[q]
  BY <1>2, <1>3, <1>4 DEF Kept, TypeOK
<1>6. Touched({at})
  BY <1>1, <1>2, <1>3, <1>5 DEF Kept, TypeOK, Touched
<1>7. at \in prepared
  BY <1>1, <1>2 DEF InHand
<1>8. RollBack /\ troubled' = {at}
  BY <1>1, <1>2 DEF Refuse, Kept, Places
<1>9. \A q \in Paths : mount'[q] \in {mount[q], "no"} \/ (mount'[q] = "stale" /\ q \in prepared)
  BY <1>5, <1>7
<1> QED
  BY <1>2, <1>6, <1>8, <1>9, RollBackKept

LEMMA VerifyKept ==
    ASSUME Kept, Verify PROVE Kept'
<1>1. pc = "verify" /\ pc \in Working /\ UNCHANGED <<rec, blocked, mount>>
  BY DEF Verify, Working, disk
<1>2. CASE Fault /\ Refuse(at)
  BY <1>1, <1>2, FaultKept DEF disk
<1>3. CASE /\ pc' = "setup" /\ at' = NoPath /\ UNCHANGED <<where, todo, memory, faults>>
           /\ UNCHANGED <<done, kept, dropping, past, troubled>>
  <2>1. at \in Paths /\ at \notin todo /\ where = "start" /\ InHand(at)
    BY <1>1, WorkingAt DEF Kept, Places, Starting
  <2>2. Up(at)
    BY <1>1, <2>1 DEF InHand
  <2>3. UNCHANGED <<sessions, prepared, flag, before, reached, ended, runs>>
    BY <1>3 DEF memory, past
  <2>4. TypeOK'
    BY <1>1, <1>3, <2>3 DEF Kept, TypeOK, Labels
  <2>5. Places'
    BY <1>1, <1>3, <2>3 DEF Kept, Places, Working
  <2>6. PICK p \in Paths : p = at
    BY <2>1
  <2>7. Up(p)'
    BY <1>1, <1>3, <2>2, <2>3, <2>6 DEF Up
  <2>8. Up(p)' => /\ p \in reached' /\ p \in prepared' /\ sessions'[p] = "some"
                  /\ mount'[p] = "live"
    BY DEF Up
  <2> QED
    BY <1>1, <1>3, <2>1, <2>3, <2>4, <2>5, <2>6, <2>7, <2>8, StartStep, MountSetAssumption
<1> QED
  BY <1>2, <1>3 DEF Verify

\* Every path is up, and the daemon goes on.
LEMMA StillUp ==
    ASSUME Kept, pc \in {"setup", "up"}, todo = {}, NEW label \in {"up", "serving"},
           Proceed(label), UNCHANGED <<disk, memory, faults>>
    PROVE  Kept'
<1>1. /\ where = "start" /\ at = NoPath /\ NoPath \notin Paths
      /\ ended = "running" /\ troubled = {} /\ ~dropping
  BY MountSetAssumption DEF Kept, Places, Working
<1>2. /\ pc' = label /\ pc # "off" /\ pc' # "off"
      /\ UNCHANGED <<where, at, todo, sessions, prepared, flag, done, kept, dropping, rec, blocked,
                     mount, before, reached, ended, runs, troubled, faults>>
  BY DEF Proceed, loop, memory, past, disk
<1>3. TypeOK'
  BY <1>2 DEF Kept, TypeOK, Labels
<1>4. Places'
  BY <1>1, <1>2 DEF Places, Working
<1>5. OfThisRun' /\ Untouched' /\ Remembered'
  BY <1>2 DEF Kept, OfThisRun, Untouched, Remembered
<1>6. Starting'
  <2> SUFFICES ASSUME NEW p \in Paths PROVE Up(p)'
    BY <1>1, <1>2 DEF Starting
  <2>1. Up(p)
    BY <1>1 DEF Kept, Starting
  <2> QED
    BY <1>2, <2>1 DEF Up
<1>7. Stopping' /\ OthersUndone'
  BY <1>1, <1>2 DEF Stopping, OthersUndone
<1> QED
  BY <1>3, <1>4, <1>5, <1>6, <1>7 DEF Kept

LEMMA AllMountedKept ==
    ASSUME Kept, AllMounted PROVE Kept'
  BY StillUp DEF AllMounted

LEMMA PublishKept ==
    ASSUME Kept, Publish PROVE Kept'
<1>1. /\ pc = "up" /\ UNCHANGED <<rec, blocked, mount>> /\ todo = {}
      /\ where = "start" /\ troubled = {} /\ at = NoPath
  BY DEF Publish, disk, Kept, Places, Working
<1>2. CASE Proceed("serving") /\ UNCHANGED <<memory, faults>>
  BY <1>1, <1>2, StillUp DEF disk
<1>3. CASE Fault /\ RollBack /\ UNCHANGED troubled
  <2>1. Touched({})
    BY <1>1, <1>3, FaultTyped, NothingTouched DEF Kept, disk
  <2> QED
    BY <1>1, <1>3, <2>1, RollBackKept, MountSetAssumption
<1> QED
  BY <1>2, <1>3 DEF Publish

-----------------------------------------------------------------------------
(* stop                                                                    *)

\* A daemon that serves has every path to stop.
LEMMA StopKept ==
    ASSUME Kept, Stop PROVE Kept'
<1>1. /\ pc = "serving" /\ where = "start" /\ at = NoPath /\ todo = {} /\ troubled = {}
      /\ ~dropping /\ NoPath \notin Paths
  BY MountSetAssumption DEF Stop, Kept, Places, Working
<1>2. /\ kept' = {} /\ done' = {} /\ pc' = "stop" /\ at' = NoPath /\ where' = "sessions"
      /\ todo' = {q \in Paths : sessions[q] # "none"} /\ ended' = "ok"
      /\ UNCHANGED <<sessions, prepared, flag, dropping, before, reached, runs, troubled,
                     rec, blocked, mount, faults>>
  BY DEF Stop, Loop, disk
<1>3. \A q \in Paths : Up(q)
  BY <1>1 DEF Kept, Starting
<1>4. reached = Paths /\ todo' = Paths
  BY <1>2, <1>3 DEF Up, Kept, TypeOK
<1>5. TypeOK'
  <2>1. pc' \in Labels /\ where' \in {"none", "start", "sessions", "prepared"}
        /\ ended' \in {"never", "running", "crash", "failed", "ok", "errors"}
    BY <1>2 DEF Labels
  <2> QED
    BY <1>2, <1>4, <2>1 DEF Kept, TypeOK
<1>6. Places'
  BY <1>1, <1>2 DEF Places, Working
<1>7. OfThisRun' /\ Untouched' /\ Remembered'
  BY <1>1, <1>2 DEF Kept, OfThisRun, Untouched, Remembered
<1>8. Stopping'
  <2>1. \A q \in Paths : Pending(q)'
    BY <1>1, <1>2, <1>3, <1>4 DEF Pending, Up
  <2> QED
    BY <1>2, <1>4, <2>1 DEF Stopping, Working
<1>9. Starting' /\ OthersUndone'
  BY <1>2 DEF Starting, OthersUndone
<1> QED
  BY <1>5, <1>6, <1>7, <1>8, <1>9 DEF Kept

LEMMA StopSessionKept ==
    ASSUME Kept, NEW p \in Paths, StopSession(p) PROVE Kept'
<1>1. /\ pc = "stop" /\ where = "sessions" /\ p \in todo /\ at = NoPath
      /\ at' = p /\ todo' = todo \ {p} /\ pc' \in {"fence", "detach"}
      /\ UNCHANGED <<where, sessions, prepared, flag, done, kept, dropping, before, reached,
                     ended, runs, troubled, rec, blocked, mount, faults>>
  BY DEF StopSession, Kept, Places, Working, disk, memory, past
<1>2. TypeOK'
  BY <1>1 DEF Kept, TypeOK, Labels
<1>3. Places'
  BY <1>1 DEF Kept, Places, Working
<1>4. p \in reached \ troubled => Pending(p)'
  <2> SUFFICES ASSUME p \in reached \ troubled PROVE Pending(p)'
    OBVIOUS
  <2>1. Pending(p)
    BY <1>1 DEF Kept, Stopping, Settled
  <2> QED
    BY <1>1, <2>1 DEF Pending
<1> QED
  BY <1>1, <1>2, <1>3, <1>4, StopStep

LEMMA FenceKept ==
    ASSUME Kept, Fence PROVE Kept'
<1>1. pc = "fence" /\ pc \in Working /\ "fence" \in Operations
  BY DEF Fence, Working, Operations
<1>2. CASE Break("fence", at) /\ Refuse(at)
  BY <1>1, <1>2, BreakKept
<1>3. CASE Succeed("fence", at) /\ Proceed("detach") /\ UNCHANGED memory
  <2>1. at \in Paths /\ at \notin todo /\ where = "sessions"
    BY <1>1, WorkingAt DEF Kept, Places
  <2>2. /\ Touched({at}) /\ UNCHANGED mount
        /\ rec[at] \in {"mounting", "leaving", "returning"}
              => rec'[at] \in {"mounting", "leaving", "returning"}
    <3>1. rec[at] \in Records
      BY <2>1 DEF Kept, TypeOK
    <3>2. Touched({at}) /\ UNCHANGED mount /\ rec'[at] = Ends(Way("fence", rec[at]))
      BY <1>1, <1>3, <2>1, SucceedTouches DEF Kept
    <3>3. /\ rec[at] = "mounting" => rec'[at] \in {"leaving", "returning"}
          /\ rec[at] # "mounting" => rec'[at] = rec[at]
      BY <3>1, <3>2, WayEnds
    <3> QED
      BY <3>2, <3>3
  <2>3. /\ pc' = "detach"
        /\ UNCHANGED <<where, at, todo, sessions, prepared, flag, done, kept, dropping,
                       before, reached, ended, runs, troubled>>
    BY <1>3 DEF Proceed, loop, memory, past
  <2>4. TypeOK'
    BY <2>2, <2>3 DEF Kept, TypeOK, Touched, Labels
  <2>5. Places'
    BY <1>1, <2>1, <2>3 DEF Kept, Places, Working
  <2>6. at \in reached \ troubled => Pending(at)'
    <3> SUFFICES ASSUME at \in reached \ troubled PROVE Pending(at)'
      OBVIOUS
    <3>1. Pending(at)
      BY <2>1 DEF Kept, Stopping, Settled
    <3> QED
      BY <1>1, <2>1, <2>2, <2>3, <3>1 DEF Pending
  <2>7. todo' = todo \ {at}
    BY <2>1, <2>3
  <2> QED
    BY <1>1, <2>1, <2>2, <2>3, <2>4, <2>5, <2>6, <2>7, StopStep DEF Touched
<1> QED
  BY <1>2, <1>3 DEF Fence

\* The path is detached: while starting it is in hand still, while stopping it is
\* no more in its way.
LEMMA DetachKept ==
    ASSUME Kept, Detach PROVE Kept'
<1>1. pc = "detach" /\ pc \in Working /\ UNCHANGED <<rec, blocked>>
  BY DEF Detach, Working
<1>2. at \in Paths /\ at \notin todo /\ where \in {"start", "sessions", "prepared"}
  BY <1>1, WorkingAt
<1>3. CASE Fault /\ Refuse(at) /\ UNCHANGED mount
  BY <1>1, <1>3, FaultKept DEF disk
<1>4. CASE /\ mount' = [mount EXCEPT ![at] = "no"]
           /\ Proceed(IF where = "sessions" THEN "join" ELSE "reconcile")
           /\ UNCHANGED <<memory, faults>>
  <2>1. /\ pc' = IF where = "sessions" THEN "join" ELSE "reconcile"
        /\ UNCHANGED <<where, at, todo, sessions, prepared, flag, done, kept, dropping,
                       before, reached, ended, runs, troubled, faults>>
    BY <1>4 DEF Proceed, loop, memory, past
  <2>2. /\ mount' \in [Paths -> {"no", "live", "stale"}] /\ mount'[at] = "no"
        /\ \A q \in Paths \ {at} : mount'[q] = mount[q]
    BY <1>2, <1>4 DEF Kept, TypeOK
  <2>3. TypeOK'
    BY <1>1, <2>1, <2>2 DEF Kept, TypeOK, Labels
  <2>4. Places'
    BY <1>1, <1>2, <2>1 DEF Kept, Places, Working
  <2>5. CASE where = "start"
    <3>1. Down(at)
      BY <1>1, <1>2, <2>5 DEF Kept, Starting, InHand
    <3>2. InHand(at)'
      BY <1>1, <2>1, <2>2, <2>5, <3>1 DEF InHand, Down
    <3>3. at \notin prepared
      BY <3>1 DEF Kept, OfThisRun, Down
    <3> QED
      BY <1>1, <1>2, <2>1, <2>2, <2>3, <2>4, <2>5, <3>1, <3>2, <3>3, StartStep DEF Down
  <2>6. CASE where \in {"sessions", "prepared"}
    <3>1. at \in reached \ troubled => Pending(at)'
      <4> SUFFICES ASSUME at \in reached \ troubled PROVE Pending(at)'
        OBVIOUS
      <4>1. Pending(at)
        BY <2>6 DEF Kept, Stopping, Settled
      <4> QED
        BY <1>1, <1>2, <2>1, <4>1 DEF Pending
    <3>2. todo' = todo \ {at}
      BY <1>2, <2>1
    <3> QED
      BY <1>1, <1>2, <2>1, <2>2, <2>3, <2>4, <2>6, <3>1, <3>2, StopStep
  <2> QED
    BY <1>2, <2>5, <2>6
<1> QED
  BY <1>3, <1>4 DEF Detach

LEMMA JoinKept ==
    ASSUME Kept, Join PROVE Kept'
<1>1. pc = "join" /\ pc \in Working /\ UNCHANGED <<rec, blocked, mount>>
  BY DEF Join, Working, disk
<1>2. at \in Paths /\ at \notin todo /\ where = "sessions" /\ mount[at] = "no"
  BY <1>1, WorkingAt DEF Kept, Places, Stopping
<1>3. CASE /\ sessions' = [sessions EXCEPT ![at] = "taken"] /\ Proceed("reconcile")
           /\ UNCHANGED <<prepared, flag, faults>>
  <2>1. /\ pc' = "reconcile"
        /\ UNCHANGED <<where, at, todo, prepared, flag, done, kept, dropping,
                       before, reached, ended, runs, troubled, faults>>
    BY <1>3 DEF Proceed, loop, past
  <2>2. /\ sessions' \in [Paths -> {"none", "some", "taken"}]
        /\ \A q \in Paths \ {at} : sessions'[q] = sessions[q]
    BY <1>2, <1>3 DEF Kept, TypeOK
  <2>3. TypeOK'
    BY <1>1, <2>1, <2>2 DEF Kept, TypeOK, Labels
  <2>4. Places'
    BY <1>1, <1>2, <2>1 DEF Kept, Places, Working
  <2>5. at \in reached \ troubled => Pending(at)'
    <3> SUFFICES ASSUME at \in reached \ troubled PROVE Pending(at)'
      OBVIOUS
    <3>1. Pending(at)
      BY <1>2 DEF Kept, Stopping, Settled
    <3> QED
      BY <1>1, <1>2, <2>1, <3>1 DEF Pending
  <2>6. todo' = todo \ {at}
    BY <1>2, <2>1
  <2> QED
    BY <1>1, <1>2, <2>1, <2>2, <2>3, <2>4, <2>5, <2>6, StopStep
<1>4. CASE /\ Fault /\ sessions[at] = "some" /\ Retain(at)
           /\ sessions' = [sessions EXCEPT ![at] = "taken"]
  <2>1. Touched({at}) /\ mount'[at] = mount[at]
    BY <1>1, <1>4, FaultTyped, NothingTouched DEF Kept, disk
  <2> QED
    BY <1>2, <1>4, <2>1, RetainKept
<1> QED
  BY <1>3, <1>4 DEF Join

\* The path in hand is recovered: nothing comes back to it.
LEMMA CompletedKept ==
    ASSUME Kept, pc \in Working, where \in {"sessions", "prepared"},
           Touched({at}), UNCHANGED mount, Completed(at), mount[at] = "no",
           at \in reached \ troubled =>
              IF flag THEN rec'[at] = "none" ELSE rec'[at] \in {"none", "installed"}
    PROVE  Kept'
<1>1. PICK p \in Paths : p = at /\ p \notin todo
  BY WorkingAt
<1>2. /\ pc' = "stop" /\ at' = NoPath /\ todo' = todo \ {p}
      /\ done' = IF where = "sessions" THEN done \cup {p} ELSE done
      /\ UNCHANGED <<where, sessions, prepared, flag, kept, dropping, before, reached,
                     ended, runs, troubled>>
  BY <1>1 DEF Completed, Turn, memory, past
<1>3. TypeOK'
  BY <1>1, <1>2 DEF Kept, TypeOK, Touched, Labels
<1>4. Places'
  BY <1>1, <1>2 DEF Kept, Places, Working
<1>5. p \in reached \ troubled => Settled(p)'
  <2> SUFFICES ASSUME p \in reached \ troubled PROVE Settled(p)'
    OBVIOUS
  <2>1. Pending(p)
    BY <1>1 DEF Kept, Stopping, Settled
  <2>2. where = "sessions" /\ ~dropping
    BY <2>1 DEF Pending
  <2> QED
    BY <1>1, <1>2, <2>2, MountSetAssumption DEF Settled
<1> QED
  BY <1>1, <1>2, <1>3, <1>4, <1>5, StopStep, MountSetAssumption DEF Touched, Working

LEMMA ReconcileKept ==
    ASSUME Kept, Reconcile PROVE Kept'
<1>1. pc = "reconcile" /\ pc \in Working /\ "reconcile" \in Operations
  BY DEF Reconcile, Working, Operations
<1>2. at \in Paths /\ at \notin todo /\ where \in {"start", "sessions", "prepared"}
  BY <1>1, WorkingAt
<1>3. CASE Break("reconcile", at) /\ Refuse(at)
  BY <1>1, <1>3, BreakKept
<1>4. CASE /\ Succeed("reconcile", at)
           /\ CASE where = "start" -> ToPrepare(at) /\ UNCHANGED loop
                [] where # "start" /\ flag  -> Proceed("restore") /\ UNCHANGED memory
                [] where # "start" /\ ~flag -> Completed(at)
  <2>1. /\ Touched({at}) /\ UNCHANGED mount
        /\ rec[at] \in {"mounting", "leaving", "returning"} => rec'[at] \in {"none", "installed"}
    <3>1. rec[at] \in Records
      BY <1>2 DEF Kept, TypeOK
    <3>2. Touched({at}) /\ UNCHANGED mount /\ rec'[at] = Ends(Way("reconcile", rec[at]))
      BY <1>1, <1>2, <1>4, SucceedTouches DEF Kept
    <3>3. /\ rec[at] \in {"mounting", "leaving"} => rec'[at] = "installed"
          /\ rec[at] = "returning" => rec'[at] = "none"
      BY <3>1, <3>2, WayEnds
    <3> QED
      BY <3>2, <3>3
  <2>2. CASE where = "start"
    <3>1. /\ prepared' = prepared \cup {at} /\ reached' = reached \cup {at} /\ pc' = "prepare"
          /\ UNCHANGED <<where, at, todo, sessions, flag, done, kept, dropping, before, ended,
                         runs, troubled>>
      BY <1>4, <2>2 DEF ToPrepare, loop
    <3>2. Down(at) /\ mount[at] = "no"
      BY <1>1, <1>2, <2>2 DEF Kept, Starting, InHand
    <3>3. TypeOK'
      BY <1>2, <2>1, <3>1 DEF Kept, TypeOK, Touched, Labels
    <3>4. Places'
      BY <1>1, <2>2, <3>1 DEF Kept, Places, Working
    <3>5. InHand(at)'
      BY <1>2, <2>1, <3>1, <3>2 DEF InHand, Down
    <3> QED
      BY <1>1, <1>2, <2>1, <2>2, <3>1, <3>2, <3>3, <3>4, <3>5, StartStep DEF Touched, Down
  <2>3. CASE where # "start" /\ flag
    <3>1. /\ pc' = "restore"
          /\ UNCHANGED <<where, at, todo, sessions, prepared, flag, done, kept, dropping,
                         before, reached, ended, runs, troubled>>
      BY <1>4, <2>3 DEF Proceed, loop, memory, past
    <3>2. mount[at] = "no"
      BY <1>1, <1>2, <2>3 DEF Kept, Stopping
    <3>3. TypeOK'
      BY <2>1, <3>1 DEF Kept, TypeOK, Touched, Labels
    <3>4. Places'
      BY <1>1, <1>2, <2>3, <3>1 DEF Kept, Places, Working
    <3>5. at \in reached \ troubled => Pending(at)'
      <4> SUFFICES ASSUME at \in reached \ troubled PROVE Pending(at)'
        OBVIOUS
      <4>1. Pending(at)
        BY <1>2, <2>3 DEF Kept, Stopping, Settled
      <4> QED
        BY <1>2, <3>1, <4>1 DEF Pending
    <3>6. todo' = todo \ {at}
      BY <1>2, <3>1
    <3> QED
      BY <1>1, <1>2, <2>1, <2>3, <3>1, <3>2, <3>3, <3>4, <3>5, <3>6, StopStep DEF Touched
  <2>4. CASE where # "start" /\ ~flag
    <3>1. Completed(at)
      BY <1>4, <2>4
    <3>2. mount[at] = "no"
      BY <1>1, <1>2, <2>4 DEF Kept, Stopping
    <3>3. at \in reached \ troubled => rec'[at] \in {"none", "installed"}
      <4> SUFFICES ASSUME at \in reached \ troubled PROVE rec'[at] \in {"none", "installed"}
        OBVIOUS
      <4>1. Pending(at)
        BY <1>2, <2>4 DEF Kept, Stopping, Settled
      <4> QED
        BY <1>1, <2>1, <4>1 DEF Pending
    <3> QED
      BY <1>1, <1>2, <2>1, <2>4, <3>1, <3>2, <3>3, CompletedKept
  <2> QED
    BY <2>2, <2>3, <2>4
<1> QED
  BY <1>3, <1>4 DEF Reconcile

LEMMA RestoreKept ==
    ASSUME Kept, Restore PROVE Kept'
<1>1. pc = "restore" /\ pc \in Working /\ "restore" \in Operations
  BY DEF Restore, Working, Operations
<1>2. at \in Paths /\ where \in {"sessions", "prepared"}
  BY <1>1, WorkingAt DEF Kept, Places
<1>3. CASE Break("restore", at) /\ Refuse(at)
  BY <1>1, <1>3, BreakKept
<1>4. CASE Succeed("restore", at) /\ Completed(at)
  <2>1. Touched({at}) /\ UNCHANGED mount /\ rec'[at] = "none"
    <3>1. rec[at] \in Records
      BY <1>2 DEF Kept, TypeOK
    <3> QED
      BY <1>1, <1>2, <1>4, <3>1, SucceedTouches, WayEnds DEF Kept
  <2>2. mount[at] = "no"
    BY <1>1, <1>2 DEF Kept, Stopping
  <2> QED
    BY <1>1, <1>2, <1>4, <2>1, <2>2, CompletedKept
<1> QED
  BY <1>3, <1>4 DEF Restore

\* A session that is not retained has nothing mounted, and what is recovered is
\* not looked at again.
LEMMA SessionsStoppedKept ==
    ASSUME Kept, SessionsStopped PROVE Kept'
<1>1. /\ pc = "stop" /\ where = "sessions" /\ todo = {} /\ at = NoPath /\ NoPath \notin Paths
      /\ where' = "prepared" /\ todo' = prepared \ (done \cup kept)
      /\ sessions' = [p \in Paths |-> IF p \in kept THEN sessions[p] ELSE "none"]
      /\ prepared' = prepared \ done
      /\ UNCHANGED <<rec, blocked, mount, pc, at, flag, done, kept, dropping, before, reached,
                     ended, runs, troubled, faults>>
  BY MountSetAssumption DEF SessionsStopped, Kept, Places, Working, disk, past
<1>2. TypeOK'
  BY <1>1 DEF Kept, TypeOK
<1>3. Places'
  BY <1>1 DEF Kept, Places, Working
<1>4. OfThisRun' /\ Untouched' /\ Starting' /\ OthersUndone'
  BY <1>1 DEF Kept, OfThisRun, Untouched, Starting, OthersUndone
<1>5. /\ kept \subseteq troubled /\ \A p \in done : mount[p] = "no"
      /\ \A p \in Paths : sessions[p] # "none" => p \in kept \/ p \in done
      /\ ended = "failed" => flag
      /\ ended \in {"ok", "errors"} => reached = Paths
  BY <1>1 DEF Kept, Stopping
<1>6. Remembered'
  <2> SUFFICES ASSUME NEW p \in Paths
               PROVE  /\ mount'[p] = "live" => sessions'[p] = "some"
                      /\ mount'[p] = "stale" /\ p \in reached' => p \in prepared'
    BY DEF Remembered
  <2>1. /\ mount[p] = "live" => sessions[p] = "some"
        /\ mount[p] = "stale" /\ p \in reached => p \in prepared
    BY <1>1 DEF Kept, Remembered
  <2> QED
    BY <1>1, <1>5, <2>1
<1>7. ASSUME NEW p \in reached' \ troubled' PROVE Settled(p)'
  <2>1. p \in Paths /\ p \notin kept /\ p \in reached \ troubled
    BY <1>1, <1>5 DEF Kept, TypeOK
  <2>2. Settled(p)
    BY <1>1, <2>1 DEF Kept, Stopping, Pending
  <2>3. p \in done \/ (dropping /\ sessions[p] = "none" /\ p \notin prepared)
    BY <1>1, <2>2 DEF Settled
  <2> QED
    BY <1>1, <2>1, <2>2, <2>3 DEF Settled
<1>8. Stopping'
  <2>1. todo' \subseteq reached' /\ pc' \notin Working
    BY <1>1 DEF Kept, OfThisRun, Working
  <2>2. \A p \in prepared' : p \in todo' \/ p \in kept'
    BY <1>1
  <2> QED
    BY <1>1, <1>5, <1>7, <2>1, <2>2 DEF Stopping, Working
<1> QED
  BY <1>2, <1>3, <1>4, <1>6, <1>8 DEF Kept

LEMMA StopPreparedKept ==
    ASSUME Kept, NEW p \in Paths, StopPrepared(p) PROVE Kept'
<1>1. /\ pc = "stop" /\ where = "prepared" /\ p \in todo /\ at = NoPath /\ NoPath \notin Paths
      /\ UNCHANGED <<rec, blocked, mount, faults>>
  BY MountSetAssumption DEF StopPrepared, Kept, Places, Working, disk
<1>2. p \in troubled
  BY <1>1 DEF Kept, Stopping, Pending, Settled
<1>3. CASE Refuse(p)
  <2>1. Touched({p}) /\ mount'[p] = mount[p]
    BY <1>1, NothingTouched DEF Kept, TypeOK, disk
  <2> QED
    BY <1>1, <1>3, <2>1, RefuseKept
<1>4. CASE /\ at' = p /\ todo' = todo \ {p} /\ UNCHANGED where
           /\ pc' = "detach" \/ (pc' = "restore" /\ mount[p] = "no")
           /\ UNCHANGED <<memory, done, kept, dropping, past, troubled>>
  <2>1. UNCHANGED <<sessions, prepared, flag, before, reached, ended, runs>>
    BY <1>4 DEF memory, past
  <2>2. TypeOK'
    BY <1>1, <1>4, <2>1 DEF Kept, TypeOK, Labels
  <2>3. Places'
    BY <1>1, <1>4, <2>1 DEF Kept, Places, Working
  <2> QED
    BY <1>1, <1>2, <1>4, <2>1, <2>2, <2>3, StopStep
<1>5. CASE /\ todo' = todo \ {p} /\ UNCHANGED where /\ mount[p] = "no"
           /\ UNCHANGED <<pc, at, memory, done, kept, dropping, past, troubled>>
  <2>1. UNCHANGED <<sessions, prepared, flag, before, reached, ended, runs>>
    BY <1>5 DEF memory, past
  <2>2. TypeOK'
    BY <1>1, <1>5, <2>1 DEF Kept, TypeOK
  <2>3. Places'
    BY <1>1, <1>5, <2>1 DEF Kept, Places, Working
  <2> QED
    BY <1>1, <1>2, <1>5, <2>1, <2>2, <2>3, StopStep DEF Working
<1> QED
  BY <1>3, <1>4, <1>5 DEF StopPrepared

\* The process ends, by itself or not.
LEMMA ExitKept ==
    ASSUME Kept, NEW how \in {"crash", ended}, pc # "off", Exit(how),
           UNCHANGED <<rec, blocked, troubled>>, faults' \in 0 .. MaxFaults,
           OthersUndone'
    PROVE  Kept'
<1>1. /\ pc' = "off" /\ where' = "none" /\ at' = NoPath /\ todo' = {}
      /\ mount' = [p \in Paths |-> IF mount[p] = "live" THEN "stale" ELSE mount[p]]
      /\ ended' = how /\ dropping' = FALSE /\ done' = {} /\ kept' = {}
      /\ sessions' = [p \in Paths |-> "none"] /\ prepared' = {} /\ flag' = FALSE
      /\ UNCHANGED <<before, reached, runs>>
  BY DEF Exit
<1>2. TypeOK'
  <2>1. mount' \in [Paths -> {"no", "live", "stale"}]
    BY <1>1 DEF Kept, TypeOK
  <2>2. /\ pc' \in Labels /\ where' \in {"none", "start", "sessions", "prepared"}
        /\ ended' \in {"never", "running", "crash", "failed", "ok", "errors"}
    BY <1>1 DEF Kept, TypeOK, Labels
  <2> QED
    BY <1>1, <2>1, <2>2 DEF Kept, TypeOK
<1>3. Places'
  BY <1>1 DEF Kept, Places, Working
<1>4. OfThisRun' /\ Untouched' /\ Starting' /\ Stopping' /\ Remembered'
  BY <1>1 DEF Kept, TypeOK, OfThisRun, Untouched, Starting, Stopping, Remembered
<1> QED
  BY <1>2, <1>3, <1>4 DEF Kept

LEMMA PreparedStoppedKept ==
    ASSUME Kept, PreparedStopped PROVE Kept'
<1>1. /\ pc = "stop" /\ where = "prepared" /\ todo = {} /\ at = NoPath /\ NoPath \notin Paths
      /\ UNCHANGED <<rec, blocked, troubled, faults>>
  BY MountSetAssumption DEF PreparedStopped, Kept, Places, Working
<1>2. ASSUME NEW p \in reached \ troubled
      PROVE  Settled(p) /\ sessions[p] = "none" /\ p \notin prepared
  BY <1>1, <1>2 DEF Kept, Stopping, Pending, Settled
<1>3. /\ \A p \in prepared : p \in kept \/ mount[p] = "no"
      /\ ended = "failed" => flag
      /\ ended \in {"ok", "errors"} => reached = Paths
  BY <1>1 DEF Kept, Stopping, TypeOK
<1>4. CASE /\ dropping' = TRUE /\ prepared' = prepared \cap kept /\ Loop
           /\ UNCHANGED <<mount, flag, ended>>
  <2>1. /\ kept' = {} /\ done' = {} /\ pc' = "stop" /\ at' = NoPath /\ where' = "sessions"
        /\ todo' = {q \in Paths : sessions[q] # "none"}
        /\ UNCHANGED <<sessions, before, reached, runs>>
    BY <1>4 DEF Loop
  <2>2. TypeOK'
    <3>1. pc' \in Labels /\ where' \in {"none", "start", "sessions", "prepared"}
      BY <2>1 DEF Labels
    <3> QED
      BY <1>1, <1>4, <2>1, <3>1 DEF Kept, TypeOK
  <2>3. Places'
    BY <1>1, <1>4, <2>1 DEF Kept, Places, Working
  <2>4. OfThisRun' /\ Untouched' /\ Starting' /\ OthersUndone'
    BY <1>1, <1>4, <2>1 DEF Kept, OfThisRun, Untouched, Starting, OthersUndone
  <2>5. Remembered'
    <3> SUFFICES ASSUME NEW p \in Paths
                 PROVE  /\ mount'[p] = "live" => sessions'[p] = "some"
                        /\ mount'[p] = "stale" /\ p \in reached' => p \in prepared'
      BY DEF Remembered
    <3>1. /\ mount[p] = "live" => sessions[p] = "some"
          /\ mount[p] = "stale" /\ p \in reached => p \in prepared
      BY <1>1 DEF Kept, Remembered
    <3> QED
      BY <1>3, <1>4, <2>1, <3>1
  <2>6. ASSUME NEW p \in reached' \ troubled' PROVE Settled(p)'
    <3>1. p \in reached \ troubled /\ p \in Paths
      BY <1>1, <2>1 DEF Kept, TypeOK
    <3>2. Settled(p) /\ sessions[p] = "none" /\ p \notin prepared
      BY <1>2, <3>1
    <3> QED
      BY <1>1, <1>4, <2>1, <3>1, <3>2 DEF Settled
  <2>7. Stopping'
    <3>1. todo' \subseteq reached' /\ pc' \notin Working
      BY <2>1 DEF Kept, OfThisRun, Working
    <3> QED
      BY <1>3, <1>4, <2>1, <2>6, <3>1 DEF Stopping, Working
  <2> QED
    BY <2>2, <2>3, <2>4, <2>5, <2>7 DEF Kept
<1>5. CASE Exit(ended)
  <2>1. /\ ended' = ended /\ UNCHANGED <<before, reached>>
        /\ \A p \in Paths : mount[p] = "no" => mount'[p] = "no"
    BY <1>5 DEF Exit
  <2>2. ended = "failed" => \A p \in Paths \ troubled :
           /\ p \in reached    => rec[p] = "none" /\ mount[p] = "no"
           /\ p \notin reached => rec[p] = before[p]
    BY <1>2, <1>3 DEF Settled, Kept, Untouched
  <2>3. ended \in {"ok", "errors"} => \A p \in Paths \ troubled :
           rec[p] \in {"none", "installed"} /\ mount[p] = "no"
    BY <1>2, <1>3 DEF Settled
  <2>4. OthersUndone'
    BY <1>1, <2>1, <2>2, <2>3 DEF OthersUndone
  <2> QED
    BY <1>1, <1>5, <2>4, ExitKept DEF Kept, TypeOK
<1> QED
  BY <1>4, <1>5 DEF PreparedStopped

LEMMA CrashKept ==
    ASSUME Kept, Crash PROVE Kept'
<1>1. pc # "off" /\ Exit("crash") /\ UNCHANGED <<rec, blocked, troubled>>
  BY DEF Crash
<1>2. faults' \in 0 .. MaxFaults
  BY FaultTyped DEF Crash, Kept
<1>3. OthersUndone'
  BY <1>1 DEF Exit, OthersUndone
<1> QED
  BY <1>1, <1>2, <1>3, ExitKept

-----------------------------------------------------------------------------
(* The theorems.                                                           *)

LEMMA NextKept == Kept /\ [Next]_vars => Kept'
<1> SUFFICES ASSUME Kept, [Next]_vars PROVE Kept'
  OBVIOUS
<1>1. ASSUME NEW restoreOnStop \in RestoreOnStop, Start(restoreOnStop) PROVE Kept'
  BY <1>1, StartKept
<1>2. ASSUME NEW p \in Paths, SetUp(p) \/ StopSession(p) \/ StopPrepared(p) PROVE Kept'
  BY <1>2, SetUpKept, StopSessionKept, StopPreparedKept
<1>3. ASSUME Prepare \/ BeginMount \/ Mount \/ MountFails \/ Verify \/ AllMounted \/ Publish
      PROVE  Kept'
  BY <1>3, PrepareKept, BeginMountKept, MountKept, MountFailsKept, VerifyKept, AllMountedKept,
     PublishKept
<1>4. ASSUME Stop \/ Fence \/ Detach \/ Join \/ Reconcile \/ Restore PROVE Kept'
  BY <1>4, StopKept, FenceKept, DetachKept, JoinKept, ReconcileKept, RestoreKept
<1>5. ASSUME SessionsStopped \/ PreparedStopped \/ Crash PROVE Kept'
  BY <1>5, SessionsStoppedKept, PreparedStoppedKept, CrashKept
<1>6. CASE UNCHANGED vars
  <2>1. UNCHANGED <<rec, blocked, mount, pc, where, at, todo, sessions, prepared, flag, done, kept,
                    dropping, before, reached, ended, runs, troubled, faults>>
    BY <1>6 DEF vars, disk, loop, memory, past
  <2>2. TypeOK' /\ Places' /\ OfThisRun' /\ Untouched'
    BY <2>1 DEF Kept, TypeOK, Places, OfThisRun, Untouched
  <2>3. Starting' /\ Remembered' /\ OthersUndone'
    BY <2>1 DEF Kept, Starting, Down, Up, InHand, Remembered, OthersUndone
  <2>4. Stopping'
    BY <2>1 DEF Kept, Stopping, Pending, Settled
  <2> QED
    BY <2>2, <2>3, <2>4 DEF Kept
<1> QED
  BY <1>1, <1>2, <1>3, <1>4, <1>5, <1>6 DEF Next

LEMMA AlwaysKept == Spec => []Kept
  BY InitKept, NextKept, PTL DEF Spec

\* What the daemon has mounted is accounted for: when it serves it serves every
\* watched path, and whatever failed, each mount is one that stop and Drop come to
\* (FuseInterceptor.sessions and .prepared).
THEOREM MountsAccounted == Spec => []Accounted
<1>1. Kept => ServesAll
  <2> SUFFICES ASSUME Kept, pc \in {"up", "serving"}, NEW p \in Paths
               PROVE  mount[p] = "live" /\ sessions[p] = "some" /\ rec[p] = "mounting"
    BY DEF ServesAll
  <2>1. where = "start" /\ todo = {} /\ at = NoPath
    BY DEF Kept, Places, Working
  <2> QED
    BY <2>1, MountSetAssumption DEF Kept, Starting, Up
<1>2. Kept => Accounted
  BY <1>1 DEF Kept, Accounted
<1> QED
  BY <1>2, AlwaysKept, PTL

\* One path's failure is not another's: when a start failed or the daemon stopped,
\* every path nothing failed for is as it should be (the rollback of start, and
\* stop, which goes on to the next path after an error).
THEOREM FailuresContained == Spec => []OthersUndone
<1>1. Kept => OthersUndone
  BY DEF Kept
<1> QED
  BY <1>1, AlwaysKept, PTL

\* A stop that reports no error has left no mount and no record of one, of any
\* path.
THEOREM OkMeansAllDone == Spec => []OkMeansDone
<1>1. Kept => OkMeansDone
  BY DEF Kept, Places, OthersUndone, OkMeansDone
<1> QED
  BY <1>1, AlwaysKept, PTL
=============================================================================
