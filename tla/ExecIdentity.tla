---------------------------- MODULE ExecIdentity ----------------------------
(***************************************************************************)
(* Who asks: the identification of a caller from /proc (process/           *)
(* identify.rs, process/linux.rs) and the hashes of executables and        *)
(* scripts with their shared cache (process/integrity.rs).                 *)
(*                                                                         *)
(* A job captures the executable of a process, or hashes the file a path   *)
(* names; jobs run beside each other, and beside processes that execute    *)
(* and exit and files that are replaced and rewritten.  Contents are two   *)
(* pieces, read one after the other.  A file's stamp, with its time of     *)
(* change, is another one after every change to it: this assumes a clock   *)
(* finer than two changes.  An executable that runs cannot be written      *)
(* (ETXTBSY).                                                              *)
(***************************************************************************)
EXTENDS Naturals, FiniteSets

CONSTANTS
    Jobs,        \* identifications and hashes under way
    Paths,       \* paths of scripts and executables
    Objects,     \* files
    Data,        \* what a piece of a file can be
    MaxCache,    \* MAX_CACHE_ENTRIES
    MaxChanges   \* bound: execs, exits, replacements and writes

ASSUME ExecIdentityAssumption == MaxCache \in Nat \ {0} /\ MaxChanges \in Nat

VARIABLES
    content,   \* each file's pieces
    stamp,     \* each file's Stamp, as a number
    rooted,    \* Stamp::cacheable: root's, and nobody else may write it
    name,      \* the file each path names
    proc,      \* the process: its start time, and the executable it runs
    cache,     \* the cached hashes, with the key and the stamp of each
    job,       \* the jobs
    past,      \* history: what held since each job opened its file
    changes    \* counter of the bound

files == <<content, stamp, rooted, name>>
vars  == <<files, proc, cache, job, past, changes>>

Contents == Data \X Data
NoFile   == "no file"
NoPiece  == "no piece"
NoStamp  == <<NoFile, 0>>

Key  == (Paths \X {"path"}) \cup (Objects \X {"object"})
Entry == [key : Key, stamp : Objects \X Nat, hash : Contents]

Idle == [stage |-> "idle", kind |-> "none", path |-> NoFile, file |-> NoFile, start |-> 0,
         before |-> NoStamp, first |-> NoPiece, second |-> NoPiece]
NoPast == [held |-> {}, ran |-> {}]

-----------------------------------------------------------------------------
(* What a job sees                                                         *)

KeyOf(j) == IF j.kind = "capture" THEN <<j.file, "object">> ELSE <<j.path, "path">>
Hash(j)  == <<j.first, j.second>>

\* Mutant: a stamp without the device and the inode.
StampOnly(o) == <<CHOOSE p \in Objects : TRUE, stamp[o]>>

\* Stamp::from.
StampOf(o) == <<o, stamp[o]>>

Open(j)  == j.stage \notin {"idle", "start", "open"}

Become(a, j) == job' = [job EXCEPT ![a] = j]
Failed(a)    == Become(a, Idle)
Goto(a, stage) == Become(a, [job[a] EXCEPT !.stage = stage])

\* The past of a job begins with the job, and what its file held when it is
\* opened.
Remember ==
    past' = [a \in Jobs |->
      IF job'[a].stage = "idle" THEN NoPast
      ELSE [held |-> IF Open(job'[a]) THEN past[a].held \cup {content'[job'[a].file]} ELSE {},
            ran  |-> past[a].ran \cup {proc'}]]

Quiet == UNCHANGED <<files, proc, cache, changes>> /\ Remember

-----------------------------------------------------------------------------
(* hash_file, up to the descriptor it hashes                               *)

OpenPath(a, p) ==
    /\ job[a].stage = "idle"
    /\ Become(a, [Idle EXCEPT !.stage = "restat", !.kind = "hash", !.path = p, !.file = name[p]])
    /\ Quiet

\* Was the path replaced while it was opened?
RestatPath(a) ==
    /\ job[a].stage = "restat"
    /\ IF name[job[a].path] = job[a].file THEN Goto(a, "stat") ELSE Failed(a)
    /\ Quiet

-----------------------------------------------------------------------------
(* identify and capture_process_executable, up to the descriptor           *)

Identify(a) ==
    /\ job[a].stage = "idle"
    /\ Become(a, [Idle EXCEPT !.stage = "start", !.kind = "capture", !.start = proc.start])
    /\ Quiet

CheckStart(a) ==
    /\ job[a].stage = "start"
    /\ IF proc.start = job[a].start THEN Goto(a, "open") ELSE Failed(a)
    /\ Quiet

OpenExe(a) ==
    /\ job[a].stage = "open"
    /\ Become(a, [job[a] EXCEPT !.stage = "reopen", !.file = proc.exe])
    /\ Quiet

\* Is it still the executable, now that its path was read?
RestatExe(a) ==
    /\ job[a].stage = "reopen"
    /\ IF proc.exe = job[a].file THEN Goto(a, "stat") ELSE Failed(a)
    /\ Quiet

-----------------------------------------------------------------------------
(* hash_opened                                                             *)

\* Whether the stamp job j has says that only root writes the file: its rights go
\* with the stamp, so those it had then are known only while it has them.
Cacheable(j) == IF StampOf(j.file) = j.before THEN {rooted[j.file]} ELSE BOOLEAN

Cached(j) == {e \in cache : e.key = KeyOf(j) /\ e.stamp = j.before}

StatOpened(a) ==
    /\ job[a].stage = "stat"
    /\ Become(a, [job[a] EXCEPT !.stage = "look", !.before = StampOf(job[a].file)])
    /\ Quiet

\* A cached hash counts if it has the stamp of the file.
Look(a) ==
    /\ job[a].stage = "look"
    /\ \/ /\ TRUE \in Cacheable(job[a])
          /\ \E e \in Cached(job[a]) :
                Become(a, [job[a] EXCEPT !.stage = "hit", !.first = e.hash[1],
                                         !.second = e.hash[2]])
       \/ /\ FALSE \in Cacheable(job[a]) \/ Cached(job[a]) = {}
          /\ Goto(a, "first")
    /\ Quiet

\* What is done with a hash: a capture looks at the process once more.
Hashed(j) == [j EXCEPT !.stage = IF j.kind = "capture" THEN "recheck" ELSE "done"]

Hit(a) ==
    /\ job[a].stage = "hit"
    /\ Become(a, IF StampOf(job[a].file) = job[a].before THEN Hashed(job[a])
                 ELSE [job[a] EXCEPT !.stage = "first"])
    /\ Quiet

ReadFirst(a) ==
    /\ job[a].stage = "first"
    /\ Become(a, [job[a] EXCEPT !.stage = "second", !.first = content[job[a].file][1]])
    /\ Quiet

ReadSecond(a) ==
    /\ job[a].stage = "second"
    /\ Become(a, [job[a] EXCEPT !.stage = "verify", !.second = content[job[a].file][2]])
    /\ Quiet

\* Mutant: the stamp is not compared with the one before the hash.
VerifyNothing(a) ==
    /\ job[a].stage = "verify"
    /\ Become(a, [job[a] EXCEPT !.stage = "store", !.before = StampOf(job[a].file)])
    /\ Quiet

\* A file that changed while it was read has no hash.
Verify(a) ==
    /\ job[a].stage = "verify"
    /\ IF StampOf(job[a].file) = job[a].before THEN Goto(a, "store") ELSE Failed(a)
    /\ Quiet

Others(key) == {e \in cache : e.key # key}

\* Mutant: the cache is full one entry later.
RoomLate(key) == IF Cardinality(cache) > MaxCache THEN {} ELSE Others(key)

\* A full cache is flushed before the entry is added.
Room(key) == IF Cardinality(cache) >= MaxCache THEN {} ELSE Others(key)

\* The file may have changed since: the entry has the stamp of what was read.
Store(a) ==
    LET key == KeyOf(job[a])
        new == [key |-> key, stamp |-> job[a].before, hash |-> Hash(job[a])]
    IN
    /\ job[a].stage = "store"
    /\ \/ TRUE \in Cacheable(job[a]) /\ cache' = Room(key) \cup {new}
       \/ FALSE \in Cacheable(job[a]) /\ cache' = Others(key)
    /\ Become(a, Hashed(job[a]))
    /\ UNCHANGED <<files, proc, changes>> /\ Remember

-----------------------------------------------------------------------------
(* The end of a capture: the start time, then the executable               *)

\* Mutant: the process is not looked at again.
RecheckNothing(a) == job[a].stage = "recheck" /\ Goto(a, "done") /\ Quiet

Recheck(a) ==
    /\ job[a].stage = "recheck"
    /\ IF proc.start = job[a].start THEN Goto(a, "final") ELSE Failed(a)
    /\ Quiet

Final(a) ==
    /\ job[a].stage = "final"
    /\ IF proc.exe = job[a].file THEN Goto(a, "done") ELSE Failed(a)
    /\ Quiet

\* The identity is used, or the hash.
Finish(a) == job[a].stage = "done" /\ Failed(a) /\ Quiet

-----------------------------------------------------------------------------
(* Processes and files                                                     *)

Changing == changes < MaxChanges /\ changes' = changes + 1

Exec(p) ==
    /\ Changing /\ proc' = [proc EXCEPT !.exe = name[p]]
    /\ UNCHANGED <<files, cache, job>> /\ Remember

\* The process ends and its id is another's, of a later start time.
Recycle(p) ==
    /\ Changing /\ proc' = [start |-> proc.start + 1, exe |-> name[p]]
    /\ UNCHANGED <<files, cache, job>> /\ Remember

Replace(p, o) ==
    /\ Changing /\ name[p] # o /\ name' = [name EXCEPT ![p] = o]
    /\ stamp' = [stamp EXCEPT ![o] = @ + 1, ![name[p]] = @ + 1]
    /\ UNCHANGED <<content, rooted, proc, cache, job>> /\ Remember

Write(o, c) ==
    /\ Changing /\ proc.exe # o /\ content[o] # c
    /\ content' = [content EXCEPT ![o] = c] /\ stamp' = [stamp EXCEPT ![o] = @ + 1]
    /\ UNCHANGED <<rooted, name, proc, cache, job>> /\ Remember

Chmod(o) ==
    /\ Changing /\ rooted' = [rooted EXCEPT ![o] = ~@] /\ stamp' = [stamp EXCEPT ![o] = @ + 1]
    /\ UNCHANGED <<content, name, proc, cache, job>> /\ Remember

-----------------------------------------------------------------------------
(* The specification                                                       *)

Init ==
    /\ content \in [Objects -> Contents] /\ \A o \in Objects : content[o][1] = content[o][2]
    /\ stamp = [o \in Objects |-> 0] /\ rooted \in [Objects -> BOOLEAN]
    /\ name \in [Paths -> Objects]
    /\ proc \in [start : {1}, exe : Objects]
    /\ cache = {} /\ job = [a \in Jobs |-> Idle] /\ past = [a \in Jobs |-> NoPast]
    /\ changes = 0

JobStep(a) ==
    \/ Identify(a) \/ CheckStart(a) \/ OpenExe(a) \/ RestatExe(a)
    \/ (\E p \in Paths : OpenPath(a, p)) \/ RestatPath(a)
    \/ StatOpened(a) \/ Look(a) \/ Hit(a) \/ ReadFirst(a) \/ ReadSecond(a)
    \/ Verify(a) \/ Store(a) \/ Recheck(a) \/ Final(a) \/ Finish(a)

Environment ==
    \/ \E p \in Paths : Exec(p) \/ Recycle(p) \/ \E o \in Objects : Replace(p, o)
    \/ \E o \in Objects : Chmod(o) \/ \E c \in Contents : Write(o, c)

Next == (\E a \in Jobs : JobStep(a)) \/ Environment

Spec == Init /\ [][Next]_vars

-----------------------------------------------------------------------------
(* Properties                                                              *)

\* The type invariant: the cache keeps to its bound, with one entry for a key.
TypeOK ==
    /\ content \in [Objects -> Contents] /\ stamp \in [Objects -> Nat]
    /\ rooted \in [Objects -> BOOLEAN] /\ name \in [Paths -> Objects]
    /\ proc.start \in Nat /\ proc.exe \in Objects
    /\ cache \subseteq Entry /\ Cardinality(cache) <= MaxCache
    /\ \A d, e \in cache : d.key = e.key => d = e
    /\ \A a \in Jobs : Open(job[a]) => job[a].file \in Objects

Ends(a) == job[a].stage = "done"

\* "The returned hash always describes the opened object": it is the hash of
\* contents the file had, as a whole, at a moment after it was opened, whether
\* it was computed or found in the cache, while the file was being rewritten,
\* and while another job filled or flushed the cache.
HashDescribes == \A a \in Jobs : Ends(a) => Hash(job[a]) \in past[a].held

\* A cached hash that would be taken for a file is the hash of its contents.
CacheSound ==
    \A e \in cache, o \in Objects :
        /\ e.stamp = StampOf(o) /\ rooted[o]
        /\ \/ e.key = <<o, "object">>
           \/ \E p \in Paths : e.key = <<p, "path">> /\ name[p] = o
        => e.hash = content[o]

\* Together, with the types: hashes are those of the files they are given for.
HashesSound == TypeOK /\ HashDescribes /\ CacheSound

\* The start time and the executable of an identity belong together: the
\* process with that start time ran that executable at a moment of the
\* capture.  So a caller that still waits for its answer is the one that was
\* identified.
CapturedTogether ==
    \A a \in Jobs : Ends(a) /\ job[a].kind = "capture" =>
        [start |-> job[a].start, exe |-> job[a].file] \in past[a].ran
=============================================================================
