------------------------- MODULE ExecIdentityProofs -------------------------
(***************************************************************************)
(* Proofs about ExecIdentity, for every number of jobs, paths, files and   *)
(* changes, and every bound of the cache.                                  *)
(*                                                                         *)
(* A file's stamp is never the same before and after a change of its       *)
(* contents.  So what was read of it under a stamp, in pieces or from the  *)
(* cache, is its contents as long as it still has that stamp; the look at  *)
(* the stamp after the reads turns this into contents that it had.  The    *)
(* start time of a process is compared before and after its executable is  *)
(* opened, and start times only grow: in between it was one process.       *)
(***************************************************************************)
EXTENDS ExecIdentity, FiniteSetTheorems, TLAPS

-----------------------------------------------------------------------------
(* The invariant                                                           *)

Process == [start : Nat, exe : Objects]

Stages == {"idle", "start", "open", "reopen", "restat", "stat", "look", "hit", "first",
           "second", "verify", "store", "recheck", "final", "done"}

Work == [stage : Stages, kind : {"none", "capture", "hash"}, path : Paths \cup {NoFile},
         file : Objects \cup {NoFile}, start : Nat,
         before : (Objects \cup {NoFile}) \X Nat,
         first : Data \cup {NoPiece}, second : Data \cup {NoPiece}]

History == [held : SUBSET Contents, ran : SUBSET Process]

Types ==
    /\ content \in [Objects -> Contents] /\ stamp \in [Objects -> Nat]
    /\ rooted \in [Objects -> BOOLEAN] /\ name \in [Paths -> Objects]
    /\ proc \in Process /\ job \in [Jobs -> Work] /\ past \in [Jobs -> History]

\* The cache has one entry for a key, and no entry with the stamp of a file and
\* the hash of other contents.
CacheKept ==
    /\ cache \subseteq Entry /\ IsFiniteSet(cache) /\ Cardinality(cache) <= MaxCache
    /\ \A d, e \in cache : d.key = e.key => d = e
    /\ \A e \in cache, o \in Objects :
          e.stamp[1] = o => /\ e.stamp[2] <= stamp[o]
                            /\ e.stamp[2] = stamp[o] => e.hash = content[o]

\* Stages of a job that has seen its file's stamp, and those that have a hash.
Stamped == {"look", "hit", "first", "second", "verify", "store"}
Hashing == {"hit", "verify", "store", "recheck", "final", "done"}

\* A job, and what held since it opened its file.
FileKept(j, p) ==
    /\ j.stage # "idle" => (j.kind = "hash" /\ j.path \in Paths) \/ j.kind = "capture"
    /\ Open(j) => j.file \in Objects /\ content[j.file] \in p.held
    /\ j.stage \in Stamped => j.before[1] = j.file /\ j.before[2] <= stamp[j.file]
    /\ j.stage = "second" => j.first \in Data
    /\ j.stage = "second" /\ j.before[2] = stamp[j.file] => j.first = content[j.file][1]
    /\ j.stage \in Hashing => Hash(j) \in Contents
    /\ j.stage \in {"hit", "verify", "store"} /\ j.before[2] = stamp[j.file]
          => Hash(j) = content[j.file]
    /\ j.stage \in {"store", "recheck", "final", "done"} => Hash(j) \in p.held

\* The process that is captured, and those that ran meanwhile.
ProcessKept(j, p) ==
    j.kind = "capture" =>
      /\ j.start <= proc.start
      /\ Open(j) => \E m \in p.ran : m.exe = j.file /\ j.start <= m.start /\ m.start <= proc.start
      /\ j.stage \in {"final", "done"} => [start |-> j.start, exe |-> j.file] \in p.ran

JobKept(a) == FileKept(job[a], past[a]) /\ ProcessKept(job[a], past[a])

Kept == Types /\ CacheKept /\ \A a \in Jobs : JobKept(a)

-----------------------------------------------------------------------------
(* The history                                                             *)

\* What the history of a job becomes with the job.
NextPast(a, j) ==
    [held |-> IF Open(j) THEN past[a].held \cup {content[j.file]} ELSE {},
     ran  |-> past[a].ran \cup {proc}]

LEMMA PastNow ==
    ASSUME Remember, NEW a \in Jobs
    PROVE  /\ job'[a].stage = "idle" => past'[a] = NoPast
           /\ job'[a].stage # "idle" =>
                 past'[a] = [held |-> IF Open(job'[a])
                                      THEN past[a].held \cup {content'[job'[a].file]} ELSE {},
                             ran  |-> past[a].ran \cup {proc'}]
BY DEF Remember

\* The history keeps its type.
LEMMA PastTyped ==
    ASSUME Types, Remember, content' \in [Objects -> Contents], proc' \in Process,
           \A a \in Jobs : Open(job'[a]) => job'[a].file \in Objects
    PROVE  past' \in [Jobs -> History]
<1>1. ASSUME NEW a \in Jobs
      PROVE  past'[a] \in History
  <2>1. past[a] \in History
    BY DEF Types
  <2>2. CASE job'[a].stage = "idle"
    <3>1. past'[a] = NoPast
      BY <2>2, PastNow
    <3> QED
      BY <3>1 DEF NoPast, History
  <2>3. CASE job'[a].stage # "idle"
    <3> DEFINE held == IF Open(job'[a]) THEN past[a].held \cup {content'[job'[a].file]} ELSE {}
               ran == past[a].ran \cup {proc'}
    <3>1. held \in SUBSET Contents /\ ran \in SUBSET Process
      BY <2>1 DEF History
    <3>2. past'[a] = [held |-> held, ran |-> ran]
      BY <2>3, PastNow
    <3> HIDE DEF held, ran
    <3> QED
      BY <3>1, <3>2 DEF History
  <2> QED
    BY <2>2, <2>3
<1>2. past' = [a \in Jobs |-> past'[a]]
  BY DEF Remember
<1> QED
  BY <1>1, <1>2

-----------------------------------------------------------------------------
(* Jobs that a step leaves alone                                           *)

\* Start times and stamps only grow, and contents change with the stamp.
Later == /\ proc.start <= proc'.start
         /\ \A o \in Objects : /\ stamp[o] <= stamp'[o]
                               /\ stamp'[o] = stamp[o] => content'[o] = content[o]

LEMMA StillKept ==
    ASSUME Types, Remember, Later, stamp' \in [Objects -> Nat], proc' \in Process,
           NEW a \in Jobs, job'[a] = job[a], JobKept(a)
    PROVE  JobKept(a)'
<1> DEFINE j == job[a]
<1>1. j \in Work /\ past[a] \in History /\ j.before[2] \in Nat /\ j.start \in Nat
  BY DEF Types, Work
<1>2. proc.start \in Nat /\ proc'.start \in Nat
  BY DEF Types, Process
<1>3. CASE j.stage = "idle"
  BY <1>1, <1>2, <1>3 DEF JobKept, FileKept, ProcessKept, Open, Stamped, Hashing, Later
<1>4. CASE j.stage # "idle"
  <2>1. past'[a] = [held |-> IF Open(j) THEN past[a].held \cup {content'[j.file]} ELSE {},
                    ran  |-> past[a].ran \cup {proc'}]
    BY <1>4, PastNow
  <2>2. /\ past[a].ran \subseteq past'[a].ran
        /\ Open(j) => past[a].held \subseteq past'[a].held /\ content'[j.file] \in past'[a].held
    BY <2>1
  <2>3. ProcessKept(job[a], past[a])'
    <3> SUFFICES ASSUME j.kind = "capture"
                 PROVE  /\ j.start <= proc'.start
                        /\ Open(j) => \E m \in past'[a].ran : /\ m.exe = j.file
                                                              /\ j.start <= m.start
                                                              /\ m.start <= proc'.start
                        /\ j.stage \in {"final", "done"} =>
                              [start |-> j.start, exe |-> j.file] \in past'[a].ran
      BY DEF ProcessKept
    <3>1. ProcessKept(j, past[a])
      BY DEF JobKept
    <3>2. ASSUME Open(j)
          PROVE  \E m \in past'[a].ran : /\ m.exe = j.file /\ j.start <= m.start
                                         /\ m.start <= proc'.start
      <4>1. PICK m \in past[a].ran : /\ m.exe = j.file /\ j.start <= m.start
                                     /\ m.start <= proc.start
        BY <3>1, <3>2 DEF ProcessKept
      <4>2. m.start \in Nat
        BY <1>1 DEF History, Process
      <4> QED
        BY <1>2, <2>2, <4>1, <4>2 DEF Later
    <3> QED
      BY <1>1, <1>2, <2>2, <3>1, <3>2 DEF ProcessKept, Later
  <2>4. FileKept(job[a], past[a])'
    <3>1. FileKept(j, past[a])
      BY DEF JobKept
    <3>2. Open(j) => /\ stamp[j.file] \in Nat /\ stamp'[j.file] \in Nat
                     /\ stamp[j.file] <= stamp'[j.file]
                     /\ stamp'[j.file] = stamp[j.file] => content'[j.file] = content[j.file]
      BY <3>1 DEF FileKept, Later, Types
    <3>3. j.stage \in Stamped \cup Hashing => Open(j)
      BY DEF Stamped, Hashing, Open
    <3> QED
      BY <1>1, <2>2, <3>1, <3>2, <3>3 DEF FileKept, Stamped, Hashing, Hash
  <2> QED
    BY <2>3, <2>4 DEF JobKept
<1> QED
  BY <1>3, <1>4

-----------------------------------------------------------------------------
(* The job that a step takes on                                            *)

LEMMA IdleTyped == Idle \in Work /\ Idle.stage = "idle" /\ Idle.kind = "none" /\ ~Open(Idle)
BY DEF Idle, Work, Stages, NoStamp, Open

\* A job that comes to a stage of which the invariant holds keeps it all.
LEMMA BecomeKept ==
    ASSUME Kept, NEW a \in Jobs, NEW j \in Work, Become(a, j), Remember,
           UNCHANGED <<files, proc>>, CacheKept',
           j.stage = "idle" => j = Idle,
           j.stage # "idle" => FileKept(j, NextPast(a, j)) /\ ProcessKept(j, NextPast(a, j))
    PROVE  Kept'
<1>1. job' \in [Jobs -> Work] /\ job'[a] = j /\ \A b \in Jobs \ {a} : job'[b] = job[b]
  BY DEF Become, Kept, Types
<1>2. UNCHANGED <<content, stamp, rooted, name, proc>>
  BY DEF files
<1>3. Later
  BY <1>2 DEF Later, Kept, Types, Process
<1>4. ASSUME NEW b \in Jobs
      PROVE  JobKept(b)'
  <2>1. CASE b # a
    BY <1>1, <1>2, <1>3, <2>1, StillKept DEF Kept, Types
  <2>2. CASE b = a /\ j.stage = "idle"
    <3>1. job'[b] = Idle
      BY <1>1, <2>2
    <3> QED
      BY <3>1, IdleTyped DEF JobKept, FileKept, ProcessKept, Open, Stamped, Hashing
  <2>3. CASE b = a /\ j.stage # "idle"
    <3>1. past'[b] = NextPast(a, j)
      BY <1>1, <1>2, <2>3, PastNow DEF NextPast
    <3>2. FileKept(j, past'[b]) /\ ProcessKept(j, past'[b])
      BY <2>3, <3>1
    <3> QED
      BY <1>1, <1>2, <2>3, <3>2 DEF JobKept, FileKept, ProcessKept
  <2> QED
    BY <2>1, <2>2, <2>3
<1>5. \A b \in Jobs : Open(job'[b]) => job'[b].file \in Objects
  BY <1>4 DEF JobKept, FileKept
<1>6. past' \in [Jobs -> History]
  BY <1>2, <1>5, PastTyped DEF Kept, Types
<1>7. Types'
  BY <1>1, <1>2, <1>6 DEF Kept, Types
<1> QED
  BY <1>4, <1>7 DEF Kept

\* The cache is sound while nothing changes.
LEMMA CacheStill ==
    ASSUME Kept, UNCHANGED <<files, cache>>
    PROVE  CacheKept'
BY DEF Kept, CacheKept, files

LEMMA FailedKept ==
    ASSUME Kept, NEW a \in Jobs, Failed(a), Quiet
    PROVE  Kept'
<1>1. CacheKept'
  BY CacheStill DEF Quiet
<1> QED
  BY <1>1, IdleTyped, BecomeKept DEF Failed, Quiet

\* The same of a step that leaves the cache alone.
LEMMA QuietKept ==
    ASSUME Kept, NEW a \in Jobs, NEW j \in Work, Become(a, j), Quiet, j.stage # "idle",
           FileKept(j, NextPast(a, j)), ProcessKept(j, NextPast(a, j))
    PROVE  Kept'
<1>1. CacheKept'
  BY CacheStill DEF Quiet
<1> QED
  BY <1>1, BecomeKept DEF Quiet

-----------------------------------------------------------------------------
(* Actions: up to the descriptor                                           *)

\* What is known of a job.
LEMMA AtHand ==
    ASSUME Kept, NEW a \in Jobs
    PROVE  /\ job[a] \in Work /\ past[a] \in History /\ proc \in Process
           /\ FileKept(job[a], past[a]) /\ ProcessKept(job[a], past[a])
BY DEF Kept, Types, JobKept

LEMMA OpenPathKept ==
    ASSUME Kept, NEW a \in Jobs, NEW p \in Paths, OpenPath(a, p)
    PROVE  Kept'
<1> DEFINE j == [Idle EXCEPT !.stage = "restat", !.kind = "hash", !.path = p, !.file = name[p]]
<1>1. Become(a, j) /\ Quiet
  BY DEF OpenPath
<1>2. name[p] \in Objects
  BY DEF Kept, Types
<1>3. /\ j \in Work /\ j.stage = "restat" /\ j.kind = "hash" /\ j.path = p
      /\ j.file = name[p]
  BY <1>2, IdleTyped DEF Work, Stages
<1> HIDE DEF j
<1>4. content[j.file] \in NextPast(a, j).held
  BY <1>3 DEF NextPast, Open
<1>5. FileKept(j, NextPast(a, j)) /\ ProcessKept(j, NextPast(a, j))
  BY <1>2, <1>3, <1>4 DEF FileKept, ProcessKept, Open, Stamped, Hashing
<1> QED
  BY <1>1, <1>3, <1>5, QuietKept

LEMMA IdentifyKept ==
    ASSUME Kept, NEW a \in Jobs, Identify(a)
    PROVE  Kept'
<1> DEFINE j == [Idle EXCEPT !.stage = "start", !.kind = "capture", !.start = proc.start]
<1>1. Become(a, j) /\ Quiet
  BY DEF Identify
<1>2. proc.start \in Nat
  BY DEF Kept, Types, Process
<1>3. j \in Work /\ j.stage = "start" /\ j.kind = "capture" /\ j.start = proc.start
  BY <1>2, IdleTyped DEF Work, Stages
<1> HIDE DEF j
<1>4. FileKept(j, NextPast(a, j)) /\ ProcessKept(j, NextPast(a, j))
  BY <1>2, <1>3 DEF FileKept, ProcessKept, Open, Stamped, Hashing
<1> QED
  BY <1>1, <1>3, <1>4, QuietKept

LEMMA CheckStartKept ==
    ASSUME Kept, NEW a \in Jobs, CheckStart(a)
    PROVE  Kept'
<1>1. CASE Failed(a)
  BY <1>1, FailedKept DEF CheckStart
<1>2. CASE Goto(a, "open")
  <2> DEFINE j == [job[a] EXCEPT !.stage = "open"]
  <2>1. Become(a, j) /\ Quiet /\ job[a].stage = "start"
    BY <1>2 DEF CheckStart, Goto
  <2>2. /\ job[a] \in Work
        /\ FileKept(job[a], past[a]) /\ ProcessKept(job[a], past[a])
    BY AtHand
  <2>3. /\ j \in Work /\ j.stage = "open" /\ j.kind = job[a].kind /\ j.path = job[a].path
        /\ j.start = job[a].start
    BY <2>2 DEF Work, Stages
  <2> HIDE DEF j
  <2>4. FileKept(j, NextPast(a, j)) /\ ProcessKept(j, NextPast(a, j))
    BY <2>1, <2>2, <2>3 DEF FileKept, ProcessKept, Open, Stamped, Hashing
  <2> QED
    BY <2>1, <2>3, <2>4, QuietKept
<1> QED
  BY <1>1, <1>2 DEF CheckStart

\* The executable is opened while the process is the one that was identified,
\* or a later one.
LEMMA OpenExeKept ==
    ASSUME Kept, NEW a \in Jobs, OpenExe(a)
    PROVE  Kept'
<1> DEFINE j == [job[a] EXCEPT !.stage = "reopen", !.file = proc.exe]
<1>1. Become(a, j) /\ Quiet /\ job[a].stage = "open"
  BY DEF OpenExe
<1>2. /\ job[a] \in Work /\ proc \in Process
      /\ FileKept(job[a], past[a]) /\ ProcessKept(job[a], past[a])
  BY AtHand
<1>3. /\ j \in Work /\ j.stage = "reopen" /\ j.kind = job[a].kind /\ j.path = job[a].path
      /\ j.start = job[a].start /\ j.file = proc.exe
  BY <1>2 DEF Work, Stages, Process
<1> HIDE DEF j
<1>4. content[j.file] \in NextPast(a, j).held /\ proc \in NextPast(a, j).ran
  BY <1>3 DEF NextPast, Open
<1>5. ProcessKept(j, NextPast(a, j))
  BY <1>1, <1>2, <1>3, <1>4 DEF ProcessKept, Process
<1>6. FileKept(j, NextPast(a, j))
  BY <1>1, <1>2, <1>3, <1>4 DEF FileKept, Open, Stamped, Hashing, Process
<1> QED
  BY <1>1, <1>3, <1>5, <1>6, QuietKept

-----------------------------------------------------------------------------
(* Actions: from the descriptor to the end                                 *)

\* A job that goes on with its file remembers more.
LEMMA PastGrows ==
    ASSUME NEW a \in Jobs, Open(job[a]), NEW j, Open(j), j.file = job[a].file
    PROVE  /\ past[a].held \subseteq NextPast(a, j).held
           /\ content[j.file] \in NextPast(a, j).held
           /\ past[a].ran \subseteq NextPast(a, j).ran
BY DEF NextPast

\* The process of a capture that goes on with its file, before the last look
\* at its start time.
LEMMA ProcessGoesOn ==
    ASSUME Kept, NEW a \in Jobs, Open(job[a]), NEW j, Open(j), j.file = job[a].file,
           j.kind = job[a].kind, j.start = job[a].start,
           j.stage \in {"final", "done"} => job[a].stage \in {"final", "done"} \/ j.kind = "hash"
    PROVE  ProcessKept(j, NextPast(a, j))
<1>1. ProcessKept(job[a], past[a]) /\ past[a].ran \subseteq NextPast(a, j).ran
  BY AtHand, PastGrows
<1>2. ASSUME j.kind = "capture"
      PROVE  \E m \in NextPast(a, j).ran : m.exe = j.file /\ j.start <= m.start
                                          /\ m.start <= proc.start
  BY <1>1, <1>2 DEF ProcessKept
<1>3. ASSUME j.kind = "capture", j.stage \in {"final", "done"}
      PROVE  [start |-> j.start, exe |-> j.file] \in NextPast(a, j).ran
  BY <1>1, <1>3 DEF ProcessKept
<1> QED
  BY <1>1, <1>2, <1>3 DEF ProcessKept

\* A job changes its stage only.
LEMMA GotoKept ==
    ASSUME Kept, NEW a \in Jobs, Open(job[a]), Quiet,
           NEW stage \in {"stat", "first", "store", "done"}, Goto(a, stage),
           stage = "first" => job[a].stage \in Stamped,
           stage = "store" => job[a].stage = "verify"
                              /\ job[a].before[2] = stamp[job[a].file],
           stage = "done" => job[a].stage = "final"
    PROVE  Kept'
<1> DEFINE j == [job[a] EXCEPT !.stage = stage]
<1>1. Become(a, j)
  BY DEF Goto
<1>2. job[a] \in Work /\ FileKept(job[a], past[a])
  BY AtHand
<1>3. /\ j \in Work /\ j.stage = stage /\ j.kind = job[a].kind /\ j.path = job[a].path
      /\ j.start = job[a].start /\ j.file = job[a].file /\ j.before = job[a].before
      /\ j.first = job[a].first /\ j.second = job[a].second
  BY <1>2 DEF Work, Stages
<1> HIDE DEF j
<1>4. Open(j) /\ Hash(j) = Hash(job[a])
  BY <1>3 DEF Open, Hash
<1>5. ProcessKept(j, NextPast(a, j))
  BY <1>3, <1>4, ProcessGoesOn
<1>6. /\ past[a].held \subseteq NextPast(a, j).held
      /\ content[j.file] \in NextPast(a, j).held
  BY <1>3, <1>4, PastGrows
<1>7. FileKept(j, NextPast(a, j))
  BY <1>2, <1>3, <1>4, <1>6 DEF FileKept, Open, Stamped, Hashing
<1> QED
  BY <1>1, <1>3, <1>5, <1>7, QuietKept

LEMMA RestatKept ==
    ASSUME Kept, NEW a \in Jobs, RestatPath(a) \/ RestatExe(a)
    PROVE  Kept'
<1>1. Open(job[a]) /\ Quiet /\ (Failed(a) \/ Goto(a, "stat"))
  BY DEF RestatPath, RestatExe, Open
<1> QED
  BY <1>1, FailedKept, GotoKept

LEMMA StatOpenedKept ==
    ASSUME Kept, NEW a \in Jobs, StatOpened(a)
    PROVE  Kept'
<1> DEFINE j == [job[a] EXCEPT !.stage = "look", !.before = StampOf(job[a].file)]
<1>1. Become(a, j) /\ Quiet /\ job[a].stage = "stat" /\ Open(job[a])
  BY DEF StatOpened, Open
<1>2. job[a] \in Work /\ FileKept(job[a], past[a])
  BY AtHand
<1>3. job[a].file \in Objects /\ stamp[job[a].file] \in Nat
  BY <1>1, <1>2 DEF FileKept, Kept, Types
<1>4. /\ StampOf(job[a].file) \in (Objects \cup {NoFile}) \X Nat
      /\ StampOf(job[a].file)[1] = job[a].file
      /\ StampOf(job[a].file)[2] = stamp[job[a].file]
  BY <1>3 DEF StampOf
<1>5. /\ j \in Work /\ j.stage = "look" /\ j.kind = job[a].kind /\ j.path = job[a].path
      /\ j.start = job[a].start /\ j.file = job[a].file /\ j.before = StampOf(job[a].file)
  BY <1>2, <1>4 DEF Work, Stages
<1> HIDE DEF j
<1>6. Open(j)
  BY <1>5 DEF Open
<1>7. ProcessKept(j, NextPast(a, j))
  BY <1>1, <1>5, <1>6, ProcessGoesOn
<1>8. content[j.file] \in NextPast(a, j).held
  BY <1>1, <1>5, <1>6, PastGrows
<1>9. FileKept(j, NextPast(a, j))
  BY <1>2, <1>1, <1>3, <1>4, <1>5, <1>8 DEF FileKept, Stamped, Hashing
<1> QED
  BY <1>1, <1>5, <1>7, <1>9, QuietKept


LEMMA Pieces ==
    ASSUME NEW c \in Contents
    PROVE  c = <<c[1], c[2]>> /\ c[1] \in Data /\ c[2] \in Data
BY DEF Contents

\* A cached hash is the contents' as long as the file has its stamp.
LEMMA LookKept ==
    ASSUME Kept, NEW a \in Jobs, Look(a)
    PROVE  Kept'
<1>1. Quiet /\ job[a].stage = "look" /\ Open(job[a])
  BY DEF Look, Open
<1>2. /\ job[a] \in Work /\ FileKept(job[a], past[a])
  BY AtHand
<1>3. CASE Goto(a, "first")
  BY <1>1, <1>3, GotoKept DEF Stamped
<1>4. ASSUME NEW e \in Cached(job[a]),
             Become(a, [job[a] EXCEPT !.stage = "hit", !.first = e.hash[1],
                                      !.second = e.hash[2]])
      PROVE  Kept'
  <2> DEFINE j == [job[a] EXCEPT !.stage = "hit", !.first = e.hash[1], !.second = e.hash[2]]
  <2>1. e \in cache /\ e.stamp = job[a].before /\ e.hash \in Contents
    BY DEF Cached, Kept, CacheKept, Entry
  <2>2. e.hash = <<e.hash[1], e.hash[2]>> /\ e.hash[1] \in Data /\ e.hash[2] \in Data
    BY <2>1, Pieces
  <2>3. /\ j \in Work /\ j.stage = "hit" /\ j.kind = job[a].kind /\ j.path = job[a].path
        /\ j.start = job[a].start /\ j.file = job[a].file /\ j.before = job[a].before
        /\ j.first = e.hash[1] /\ j.second = e.hash[2]
    BY <1>2, <2>2 DEF Work, Stages
  <2>4. Become(a, j)
    BY <1>4
  <2> HIDE DEF j
  <2>5. Open(j) /\ Hash(j) = e.hash
    BY <2>2, <2>3 DEF Open, Hash
  <2>6. ProcessKept(j, NextPast(a, j))
    BY <1>1, <2>3, <2>5, ProcessGoesOn
  <2>7. content[j.file] \in NextPast(a, j).held
    BY <1>1, <2>3, <2>5, PastGrows
  <2>8. /\ job[a].file \in Objects /\ job[a].before[1] = job[a].file
        /\ job[a].before[2] <= stamp[job[a].file]
        /\ job[a].before[2] = stamp[job[a].file] => e.hash = content[job[a].file]
    BY <1>1, <1>2, <2>1 DEF FileKept, Kept, CacheKept, Stamped
  <2>9. FileKept(j, NextPast(a, j))
    BY <1>1, <1>2, <2>1, <2>3, <2>5, <2>7, <2>8 DEF FileKept, Stamped, Hashing
  <2> QED
    BY <1>1, <2>3, <2>4, <2>6, <2>9, QuietKept
<1> QED
  BY <1>3, <1>4 DEF Look

\* A job with a hash of what its file held goes on to the end, or to the last
\* looks at its process.
LEMMA HashedFileKept ==
    ASSUME Kept, NEW a \in Jobs, job[a].stage \in {"hit", "store"},
           Hash(job[a]) \in past[a].held
    PROVE  LET j == Hashed(job[a]) IN
           /\ j \in Work /\ j.stage # "idle"
           /\ FileKept(j, NextPast(a, j)) /\ ProcessKept(j, NextPast(a, j))
<1> DEFINE j == Hashed(job[a])
<1>1. /\ job[a] \in Work /\ FileKept(job[a], past[a]) /\ Open(job[a])
  BY AtHand DEF Open
<1>2. PICK stage \in {"recheck", "done"} :
         j = [job[a] EXCEPT !.stage = stage] /\ (stage = "done" => job[a].kind # "capture")
  BY DEF Hashed
<1> HIDE DEF j
<1>3. /\ j \in Work /\ j.stage = stage /\ j.kind = job[a].kind /\ j.path = job[a].path
      /\ j.start = job[a].start /\ j.file = job[a].file /\ j.before = job[a].before
      /\ j.first = job[a].first /\ j.second = job[a].second
  BY <1>1, <1>2 DEF Work, Stages
<1>4. Open(j) /\ Hash(j) = Hash(job[a])
  BY <1>3 DEF Open, Hash
<1>5. j.kind = "capture" \/ j.kind = "hash"
  BY <1>1, <1>3 DEF FileKept, Open
<1>6. ProcessKept(j, NextPast(a, j))
  BY <1>1, <1>2, <1>3, <1>4, <1>5, ProcessGoesOn
<1>7. /\ past[a].held \subseteq NextPast(a, j).held
      /\ content[j.file] \in NextPast(a, j).held
  BY <1>1, <1>3, <1>4, PastGrows
<1>8. FileKept(j, NextPast(a, j))
  BY <1>1, <1>3, <1>4, <1>7 DEF FileKept, Open, Stamped, Hashing
<1> QED
  BY <1>3, <1>6, <1>8 DEF j

\* The stamp after the look into the cache is the entry's, or it does not count.
LEMMA HitKept ==
    ASSUME Kept, NEW a \in Jobs, Hit(a)
    PROVE  Kept'
<1> DEFINE j == [job[a] EXCEPT !.stage = "first"]
<1>1. Quiet /\ job[a].stage = "hit" /\ Open(job[a])
  BY DEF Hit, Open
<1>2. CASE StampOf(job[a].file) = job[a].before /\ Become(a, Hashed(job[a]))
  <2>1. FileKept(job[a], past[a])
    BY AtHand
  <2>2. job[a].before[2] = stamp[job[a].file]
    BY <1>2 DEF StampOf
  <2>3. Hash(job[a]) \in past[a].held
    BY <1>1, <2>1, <2>2 DEF FileKept
  <2> QED
    BY <1>1, <1>2, <2>3, HashedFileKept, QuietKept
<1>3. CASE Become(a, [job[a] EXCEPT !.stage = "first"])
  <2>1. Goto(a, "first")
    BY <1>3 DEF Goto
  <2> QED
    BY <1>1, <2>1, GotoKept DEF Stamped
<1> QED
  BY <1>2, <1>3 DEF Hit

LEMMA ReadFirstKept ==
    ASSUME Kept, NEW a \in Jobs, ReadFirst(a)
    PROVE  Kept'
<1> DEFINE j == [job[a] EXCEPT !.stage = "second", !.first = content[job[a].file][1]]
<1>1. Become(a, j) /\ Quiet /\ job[a].stage = "first" /\ Open(job[a])
  BY DEF ReadFirst, Open
<1>2. job[a] \in Work /\ FileKept(job[a], past[a])
  BY AtHand
<1>3. content[job[a].file] \in Contents
  BY <1>1, <1>2 DEF FileKept, Kept, Types
<1>4. content[job[a].file][1] \in Data
  BY <1>3, Pieces
<1>5. /\ j \in Work /\ j.stage = "second" /\ j.kind = job[a].kind /\ j.path = job[a].path
      /\ j.start = job[a].start /\ j.file = job[a].file /\ j.before = job[a].before
      /\ j.first = content[job[a].file][1]
  BY <1>2, <1>4 DEF Work, Stages
<1> HIDE DEF j
<1>6. Open(j)
  BY <1>5 DEF Open
<1>7. ProcessKept(j, NextPast(a, j))
  BY <1>1, <1>5, <1>6, ProcessGoesOn
<1>8. content[j.file] \in NextPast(a, j).held
  BY <1>1, <1>5, <1>6, PastGrows
<1>9. FileKept(j, NextPast(a, j))
  BY <1>1, <1>2, <1>4, <1>5, <1>8 DEF FileKept, Stamped, Hashing
<1> QED
  BY <1>1, <1>5, <1>7, <1>9, QuietKept

LEMMA ReadSecondKept ==
    ASSUME Kept, NEW a \in Jobs, ReadSecond(a)
    PROVE  Kept'
<1> DEFINE j == [job[a] EXCEPT !.stage = "verify", !.second = content[job[a].file][2]]
<1>1. Become(a, j) /\ Quiet /\ job[a].stage = "second" /\ Open(job[a])
  BY DEF ReadSecond, Open
<1>2. job[a] \in Work /\ FileKept(job[a], past[a])
  BY AtHand
<1>3. content[job[a].file] \in Contents
  BY <1>1, <1>2 DEF FileKept, Kept, Types
<1>4. /\ content[job[a].file][2] \in Data
      /\ content[job[a].file] = <<content[job[a].file][1], content[job[a].file][2]>>
  BY <1>3, Pieces
<1>5. /\ j \in Work /\ j.stage = "verify" /\ j.kind = job[a].kind /\ j.path = job[a].path
      /\ j.start = job[a].start /\ j.file = job[a].file /\ j.before = job[a].before
      /\ j.first = job[a].first /\ j.second = content[job[a].file][2]
  BY <1>2, <1>4 DEF Work, Stages
<1> HIDE DEF j
<1>6. Open(j)
  BY <1>5 DEF Open
<1>7. ProcessKept(j, NextPast(a, j))
  BY <1>1, <1>5, <1>6, ProcessGoesOn
<1>8. content[j.file] \in NextPast(a, j).held
  BY <1>1, <1>5, <1>6, PastGrows
<1>9. /\ Hash(j) \in Contents
      /\ j.before[2] = stamp[j.file] => Hash(j) = content[j.file]
  BY <1>1, <1>2, <1>4, <1>5 DEF FileKept, Hash, Contents
<1>10. FileKept(j, NextPast(a, j))
  BY <1>1, <1>2, <1>5, <1>8, <1>9 DEF FileKept, Stamped, Hashing
<1> QED
  BY <1>1, <1>5, <1>7, <1>10, QuietKept

LEMMA VerifyKept ==
    ASSUME Kept, NEW a \in Jobs, Verify(a)
    PROVE  Kept'
<1>1. Quiet /\ job[a].stage = "verify" /\ Open(job[a])
  BY DEF Verify, Open
<1>2. CASE StampOf(job[a].file) = job[a].before /\ Goto(a, "store")
  <2>1. job[a].before[2] = stamp[job[a].file]
    BY <1>2 DEF StampOf
  <2> QED
    BY <1>1, <1>2, <2>1, GotoKept
<1>3. CASE Failed(a)
  BY <1>1, <1>3, FailedKept
<1> QED
  BY <1>2, <1>3 DEF Verify


\* The process still has the start time it had before its executable was
\* opened: it is the one that ran it.
LEMMA RecheckKept ==
    ASSUME Kept, NEW a \in Jobs, Recheck(a)
    PROVE  Kept'
<1>1. Quiet /\ job[a].stage = "recheck" /\ Open(job[a])
  BY DEF Recheck, Open
<1>2. CASE proc.start = job[a].start /\ Goto(a, "final")
  <2> DEFINE j == [job[a] EXCEPT !.stage = "final"]
  <2>1. Become(a, j)
    BY <1>2 DEF Goto
  <2>2. /\ job[a] \in Work /\ past[a] \in History /\ proc \in Process
        /\ FileKept(job[a], past[a]) /\ ProcessKept(job[a], past[a])
    BY AtHand
  <2>3. /\ j \in Work /\ j.stage = "final" /\ j.kind = job[a].kind /\ j.path = job[a].path
        /\ j.start = job[a].start /\ j.file = job[a].file /\ j.before = job[a].before
        /\ j.first = job[a].first /\ j.second = job[a].second
    BY <2>2 DEF Work, Stages
  <2> HIDE DEF j
  <2>4. Open(j) /\ Hash(j) = Hash(job[a])
    BY <2>3 DEF Open, Hash
  <2>5. /\ past[a].held \subseteq NextPast(a, j).held
        /\ content[j.file] \in NextPast(a, j).held
        /\ past[a].ran \subseteq NextPast(a, j).ran
    BY <1>1, <2>3, <2>4, PastGrows
  <2>6. ProcessKept(j, NextPast(a, j))
    <3> SUFFICES ASSUME j.kind = "capture"
                 PROVE  /\ j.start <= proc.start
                        /\ \E m \in NextPast(a, j).ran : /\ m.exe = j.file
                                                         /\ j.start <= m.start
                                                         /\ m.start <= proc.start
                        /\ [start |-> j.start, exe |-> j.file] \in NextPast(a, j).ran
      BY DEF ProcessKept
    <3>1. PICK m \in past[a].ran : /\ m.exe = j.file /\ j.start <= m.start
                                   /\ m.start <= proc.start
      BY <1>1, <2>2, <2>3 DEF ProcessKept
    <3>2. m \in Process /\ m.start = j.start
      BY <1>2, <2>2, <2>3, <3>1 DEF History, Process
    <3>3. m = [start |-> j.start, exe |-> j.file]
      BY <3>1, <3>2 DEF Process
    <3> QED
      BY <2>5, <3>1, <3>3
  <2>7. FileKept(j, NextPast(a, j))
    BY <1>1, <2>2, <2>3, <2>4, <2>5 DEF FileKept, Stamped, Hashing
  <2> QED
    BY <1>1, <2>1, <2>3, <2>6, <2>7, QuietKept
<1>3. CASE Failed(a)
  BY <1>1, <1>3, FailedKept
<1> QED
  BY <1>2, <1>3 DEF Recheck

LEMMA FinalKept ==
    ASSUME Kept, NEW a \in Jobs, Final(a)
    PROVE  Kept'
<1>1. Quiet /\ job[a].stage = "final" /\ Open(job[a])
  BY DEF Final, Open
<1> QED
  BY <1>1, FailedKept, GotoKept DEF Final

LEMMA FinishKept ==
    ASSUME Kept, NEW a \in Jobs, Finish(a)
    PROVE  Kept'
BY FailedKept DEF Finish

-----------------------------------------------------------------------------
(* The cache                                                               *)

\* An entry more keeps to the bound: a full cache is flushed first.
LEMMA EntryAdded ==
    ASSUME CacheKept, NEW new, MaxCache \in Nat \ {0}
    PROVE  LET next == Room(new.key) \cup {new}
           IN IsFiniteSet(next) /\ Cardinality(next) <= MaxCache
<1>1. IsFiniteSet(cache) /\ Cardinality(cache) \in Nat
  BY FS_CardinalityType DEF CacheKept
<1>2. IsFiniteSet({}) /\ Cardinality({}) = 0
  BY FS_EmptySet
<1>3. PICK room : room = Room(new.key)
  OBVIOUS
<1>4. IsFiniteSet(room) /\ Cardinality(room) \in Nat /\ Cardinality(room) + 1 <= MaxCache
  <2>1. CASE Cardinality(cache) >= MaxCache
    <3>1. room = {}
      BY <1>3, <2>1 DEF Room
    <3> QED
      BY <1>2, <3>1
  <2>2. CASE ~(Cardinality(cache) >= MaxCache)
    <3>1. room \subseteq cache
      BY <1>3, <2>2 DEF Room, Others
    <3>2. /\ IsFiniteSet(room) /\ Cardinality(room) \in Nat
          /\ Cardinality(room) <= Cardinality(cache)
      BY <1>1, <3>1, FS_Subset, FS_CardinalityType
    <3> QED
      BY <1>1, <2>2, <3>2
  <2> QED
    BY <2>1, <2>2
<1>5. /\ IsFiniteSet(room \cup {new})
      /\ Cardinality(room \cup {new}) = Cardinality(room)
         \/ Cardinality(room \cup {new}) = Cardinality(room) + 1
  BY <1>4, FS_AddElement
<1> QED
  BY <1>3, <1>4, <1>5

\* An entry of what was read of a file, with the stamp it had.
LEMMA StoreKept ==
    ASSUME Kept, NEW a \in Jobs, Store(a)
    PROVE  Kept'
<1> DEFINE j == job[a]
           key == KeyOf(j)
           new == [key |-> key, stamp |-> j.before, hash |-> Hash(j)]
<1>1. /\ j.stage = "store" /\ Become(a, Hashed(j)) /\ Remember /\ UNCHANGED <<files, proc>>
      /\ cache' = Room(key) \cup {new} \/ cache' = Others(key)
  BY DEF Store
<1>2. j \in Work /\ FileKept(j, past[a]) /\ Open(j)
  BY <1>1, AtHand DEF Open
<1>3. /\ j.file \in Objects /\ j.before \in Objects \X Nat /\ j.before[1] = j.file
      /\ j.before[2] <= stamp[j.file] /\ Hash(j) \in Contents
      /\ j.before[2] = stamp[j.file] => Hash(j) = content[j.file]
  BY <1>1, <1>2 DEF FileKept, Work, Stamped, Hashing
<1>4. key \in Key
  BY <1>1, <1>2, <1>3 DEF FileKept, KeyOf, Key
<1>5. new \in Entry /\ new.key = key /\ new.stamp = j.before /\ new.hash = Hash(j)
  BY <1>3, <1>4 DEF Entry
<1> HIDE DEF new, key
<1>6. CacheKept
  BY DEF Kept
<1>7. Room(key) \subseteq cache /\ Others(key) \subseteq cache
      /\ \A e \in Room(key) \cup Others(key) : e.key # key
  BY DEF Room, Others
<1>8. cache' \subseteq cache \cup {new} /\ cache' \subseteq Entry
  BY <1>1, <1>5, <1>6, <1>7 DEF CacheKept
<1>9. \A d, e \in cache' : d.key = e.key => d = e
  <2>1. \A d, e \in cache : d.key = e.key => d = e
    BY <1>6 DEF CacheKept
  <2>2. \A e \in cache' : e = new \/ (e \in cache /\ e.key # key)
    BY <1>1, <1>7
  <2> QED
    BY <1>5, <2>1, <2>2
<1>10. IsFiniteSet(cache') /\ Cardinality(cache') <= MaxCache
  <2>1. CASE cache' = Room(key) \cup {new}
    <3>1. cache' = Room(new.key) \cup {new}
      BY <1>5, <2>1
    <3> QED
      BY <1>6, <3>1, EntryAdded, ExecIdentityAssumption
  <2>2. CASE cache' = Others(key)
    <3>1. cache' \subseteq cache /\ IsFiniteSet(cache) /\ Cardinality(cache) <= MaxCache
      BY <1>6, <1>7, <2>2 DEF CacheKept
    <3>2. /\ IsFiniteSet(cache') /\ Cardinality(cache') <= Cardinality(cache)
          /\ Cardinality(cache') \in Nat /\ Cardinality(cache) \in Nat
      BY <3>1, FS_Subset, FS_CardinalityType
    <3> QED
      BY <3>1, <3>2, ExecIdentityAssumption
  <2> QED
    BY <1>1, <2>1, <2>2
<1>11. UNCHANGED <<content, stamp>>
  BY <1>1 DEF files
<1>12. \A e \in cache', o \in Objects :
          e.stamp[1] = o => /\ e.stamp[2] <= stamp'[o]
                            /\ e.stamp[2] = stamp'[o] => e.hash = content'[o]
  BY <1>3, <1>5, <1>6, <1>8, <1>11 DEF CacheKept
<1>13. CacheKept'
  BY <1>8, <1>9, <1>10, <1>12 DEF CacheKept
<1>14. Hash(j) \in past[a].held
  BY <1>1, <1>2 DEF FileKept
<1> QED
  BY <1>1, <1>13, <1>14, HashedFileKept, BecomeKept

-----------------------------------------------------------------------------
(* Processes and files                                                     *)

\* A change in the world keeps it all, if stamps go with contents and start
\* times grow.
LEMMA WorldKept ==
    ASSUME Kept, Remember, Later, UNCHANGED <<cache, job>>,
           content' \in [Objects -> Contents], stamp' \in [Objects -> Nat],
           rooted' \in [Objects -> BOOLEAN], name' \in [Paths -> Objects], proc' \in Process
    PROVE  Kept'
<1>1. ASSUME NEW a \in Jobs
      PROVE  JobKept(a)'
  BY StillKept DEF Kept
<1>2. \A a \in Jobs : Open(job'[a]) => job'[a].file \in Objects
  BY <1>1 DEF JobKept, FileKept
<1>3. past' \in [Jobs -> History]
  BY <1>2, PastTyped DEF Kept
<1>4. Types'
  BY <1>3 DEF Kept, Types
<1>5. \A e \in cache, o \in Objects :
         e.stamp[1] = o => /\ e.stamp[2] <= stamp'[o]
                           /\ e.stamp[2] = stamp'[o] => e.hash = content'[o]
  <2> SUFFICES ASSUME NEW e \in cache, NEW o \in Objects, e.stamp[1] = o
               PROVE  /\ e.stamp[2] <= stamp'[o]
                      /\ e.stamp[2] = stamp'[o] => e.hash = content'[o]
    OBVIOUS
  <2>1. /\ e.stamp[2] <= stamp[o] /\ e.stamp[2] \in Nat
        /\ e.stamp[2] = stamp[o] => e.hash = content[o]
    BY DEF Kept, CacheKept, Entry
  <2>2. /\ stamp[o] \in Nat /\ stamp'[o] \in Nat /\ stamp[o] <= stamp'[o]
        /\ stamp'[o] = stamp[o] => content'[o] = content[o]
    BY DEF Kept, Types, Later
  <2> QED
    BY <2>1, <2>2
<1>6. CacheKept'
  BY <1>5 DEF Kept, CacheKept
<1> QED
  BY <1>1, <1>4, <1>6 DEF Kept

LEMMA EnvironmentKept ==
    ASSUME Kept, Environment
    PROVE  Kept'
<1>1. Types
  BY DEF Kept
<1>2. ASSUME NEW p \in Paths, Exec(p) \/ Recycle(p)
      PROVE  Kept'
  <2>1. /\ Remember /\ UNCHANGED <<cache, job, content, stamp, rooted, name>>
        /\ proc' = [proc EXCEPT !.exe = name[p]]
           \/ proc' = [start |-> proc.start + 1, exe |-> name[p]]
    BY <1>2 DEF Exec, Recycle, files
  <2>2. proc \in Process /\ name[p] \in Objects
    BY <1>1 DEF Types
  <2>3. proc' \in Process /\ proc.start <= proc'.start
    BY <2>1, <2>2 DEF Process
  <2>4. Later
    BY <1>1, <2>1, <2>3 DEF Later, Types
  <2> QED
    BY <1>1, <2>1, <2>3, <2>4, WorldKept DEF Types
<1>3. ASSUME NEW p \in Paths, NEW o \in Objects, Replace(p, o)
      PROVE  Kept'
  <2>1. /\ Remember /\ UNCHANGED <<content, rooted, proc, cache, job>>
        /\ name' = [name EXCEPT ![p] = o]
        /\ stamp' = [stamp EXCEPT ![o] = @ + 1, ![name[p]] = @ + 1]
    BY <1>3 DEF Replace
  <2>2. /\ name' \in [Paths -> Objects] /\ stamp' \in [Objects -> Nat]
        /\ \A q \in Objects : stamp[q] <= stamp'[q]
    BY <1>1, <2>1 DEF Types
  <2>3. Later
    BY <1>1, <2>1, <2>2 DEF Later, Types, Process
  <2> QED
    BY <1>1, <2>1, <2>2, <2>3, WorldKept DEF Types
<1>4. ASSUME NEW o \in Objects, Chmod(o)
      PROVE  Kept'
  <2>1. /\ Remember /\ UNCHANGED <<content, name, proc, cache, job>>
        /\ rooted' = [rooted EXCEPT ![o] = ~@] /\ stamp' = [stamp EXCEPT ![o] = @ + 1]
    BY <1>4 DEF Chmod
  <2>2. /\ rooted' \in [Objects -> BOOLEAN] /\ stamp' \in [Objects -> Nat]
        /\ \A q \in Objects : stamp[q] <= stamp'[q]
    BY <1>1, <2>1 DEF Types
  <2>3. Later
    BY <1>1, <2>1, <2>2 DEF Later, Types, Process
  <2> QED
    BY <1>1, <2>1, <2>2, <2>3, WorldKept DEF Types
<1>5. ASSUME NEW o \in Objects, NEW c \in Contents, Write(o, c)
      PROVE  Kept'
  <2>1. /\ Remember /\ UNCHANGED <<rooted, name, proc, cache, job>>
        /\ content' = [content EXCEPT ![o] = c] /\ stamp' = [stamp EXCEPT ![o] = @ + 1]
    BY <1>5 DEF Write
  <2>2. /\ content' \in [Objects -> Contents] /\ stamp' \in [Objects -> Nat]
        /\ \A q \in Objects : /\ stamp[q] <= stamp'[q]
                              /\ stamp'[q] = stamp[q] => content'[q] = content[q]
    BY <1>1, <2>1 DEF Types
  <2>3. Later
    BY <1>1, <2>1, <2>2 DEF Later, Types, Process
  <2> QED
    BY <1>1, <2>1, <2>2, <2>3, WorldKept DEF Types
<1> QED
  BY <1>2, <1>3, <1>4, <1>5 DEF Environment

-----------------------------------------------------------------------------
(* The theorems                                                            *)

LEMMA InitKept == Init => Kept
<1> SUFFICES ASSUME Init
             PROVE  Kept
  OBVIOUS
<1>1. /\ content \in [Objects -> Contents] /\ stamp = [o \in Objects |-> 0]
      /\ rooted \in [Objects -> BOOLEAN] /\ name \in [Paths -> Objects]
      /\ proc \in [start : {1}, exe : Objects] /\ cache = {}
      /\ job = [a \in Jobs |-> Idle] /\ past = [a \in Jobs |-> NoPast]
  BY DEF Init
<1>2. NoPast \in History
  BY DEF NoPast, History
<1>3. Types
  BY <1>1, <1>2, IdleTyped DEF Types, Process
<1>4. CacheKept
  BY <1>1, FS_EmptySet, ExecIdentityAssumption DEF CacheKept
<1>5. ASSUME NEW a \in Jobs
      PROVE  JobKept(a)
  BY <1>1, IdleTyped DEF JobKept, FileKept, ProcessKept, Stamped, Hashing
<1> QED
  BY <1>3, <1>4, <1>5 DEF Kept

LEMMA NextKept == Kept /\ [Next]_vars => Kept'
<1> SUFFICES ASSUME Kept, [Next]_vars
             PROVE  Kept'
  OBVIOUS
<1>1. ASSUME NEW a \in Jobs, JobStep(a)
      PROVE  Kept'
  BY <1>1, IdentifyKept, CheckStartKept, OpenExeKept, OpenPathKept, RestatKept, StatOpenedKept,
     LookKept, HitKept, ReadFirstKept, ReadSecondKept, VerifyKept, StoreKept, RecheckKept,
     FinalKept, FinishKept DEF JobStep
<1>2. CASE Environment
  BY <1>2, EnvironmentKept
<1>3. CASE UNCHANGED vars
  BY <1>3 DEF vars, files, Kept, Types, CacheKept, JobKept, FileKept, ProcessKept
<1> QED
  BY <1>1, <1>2, <1>3 DEF Next

LEMMA AlwaysKept == Spec => []Kept
BY InitKept, NextKept, PTL DEF Spec

\* The hash a job returns is of contents its file had, as a whole, since the job
\* opened it, computed or cached; and a cached hash that would be taken for a
\* file is that of its contents.  The cache has one entry for a key and keeps
\* to its bound.
THEOREM HashesAreSound == Spec => []HashesSound
<1>1. Kept => TypeOK
  BY DEF Kept, Types, CacheKept, JobKept, FileKept, Process, TypeOK
<1>2. Kept => HashDescribes
  BY DEF Kept, JobKept, FileKept, HashDescribes, Ends
<1>3. Kept => CacheSound
  <2> SUFFICES ASSUME Kept, NEW e \in cache, NEW o \in Objects, e.stamp = StampOf(o)
               PROVE  e.hash = content[o]
    BY DEF CacheSound
  <2>1. e.stamp[1] = o /\ e.stamp[2] = stamp[o]
    BY DEF StampOf
  <2> QED
    BY <2>1 DEF Kept, CacheKept
<1> QED
  BY <1>1, <1>2, <1>3, AlwaysKept, PTL DEF HashesSound

\* The start time and the executable a capture returns were those of one
\* process at a moment of the capture, however often it executed another file or
\* its id was given away meanwhile.
THEOREM IdentityIsOne == Spec => []CapturedTogether
<1>1. Kept => CapturedTogether
  BY DEF Kept, JobKept, ProcessKept, CapturedTogether, Ends
<1> QED
  BY <1>1, AlwaysKept, PTL
=============================================================================
