------------------------------ MODULE AuditLog ------------------------------
(***************************************************************************)
(* The audit log (logging.rs): decisions appended by the daemon's tasks,   *)
(* the reader of `log -f' (tail_log of control.rs) that follows the file   *)
(* with a cursor, and the rotation that renames the file away.             *)
(*                                                                         *)
(* A record is written in two pieces, the second one with the end of the   *)
(* line; a write that fails, or a daemon that dies, leaves the first.      *)
(* flock is held on the open file, not on the name: a writer that opened   *)
(* the file before a rotation goes on writing to it.  Cutting the file     *)
(* short instead of renaming it is unsupported (README) and not modelled.  *)
(***************************************************************************)
EXTENDS Naturals, Sequences, SequencesExt

CONSTANTS
    Entries,    \* decisions to log, each by a task of its own
    MaxRecent,  \* the number of entries `log' starts with
    MaxRead,    \* the length read at a time, in pieces
    MaxFiles,   \* bound: files
    MaxFaults   \* bound: failed writes and deaths of the daemon

ASSUME AuditLogAssumption ==
    {MaxRecent, MaxRead, MaxFiles, MaxFaults} \subseteq Nat /\ MaxRead > 1

VARIABLES
    files,    \* what each file holds
    log,      \* the file the path names, or NoLog
    task,     \* append_entry, for each entry
    fd,       \* the file it opened
    reader,   \* tail_log
    printed,  \* what the reader printed, in order
    faults    \* counter of the bound

writer == <<task, fd>>
logVars == <<files, log, writer, reader, printed, faults>>

NoLog == 0
Begin(e) == [entry |-> e, end |-> FALSE]
End(e)   == [entry |-> e, end |-> TRUE]
Piece    == [entry : Entries, end : BOOLEAN]

-----------------------------------------------------------------------------
(* Lines                                                                   *)

\* The ends of the lines of a text, and where the line of each begins.
Ends(text) == {i \in DOMAIN text : text[i].end}
LineStart(text, i) == 1 + Max({0} \cup {j \in Ends(text) : j < i})

\* A line that is one record can be parsed, any other is skipped.
Whole(text, i) ==
    i \in Ends(text) /\ SubSeq(text, LineStart(text, i), i) = <<Begin(text[i].entry), text[i]>>

\* The entries of a text, in order: of its first n pieces, for each n.
Parsed(text) ==
    LET upTo[n \in 0 .. Len(text)] ==
          IF n = 0 THEN <<>>
          ELSE IF Whole(text, n) THEN Append(upTo[n - 1], text[n].entry) ELSE upTo[n - 1]
    IN upTo[Len(text)]

\* The text up to the end of its last line.
CompleteLength(text) == Max({0} \cup Ends(text))

FirstOf(s, n) == IF Len(s) <= n THEN s ELSE SubSeq(s, 1, n)
LastOf(s, n)  == IF Len(s) <= n THEN s ELSE SubSeq(s, Len(s) - n + 1, Len(s))

-----------------------------------------------------------------------------
(* append_entry                                                            *)

Writing(e)  == task[e] \in {"locked", "begun", "written"}
LockedBy(f) == {e \in Entries : Writing(e) /\ fd[e] = f}

\* The log is opened for each entry, and created if it is missing.
Open(e) ==
    /\ task[e] = "idle"
    /\ \/ log # NoLog /\ UNCHANGED <<files, log>>
       \/ log = NoLog /\ Len(files) < MaxFiles
          /\ files' = Append(files, <<>>) /\ log' = Len(files) + 1
    /\ fd' = [fd EXCEPT ![e] = log'] /\ task' = [task EXCEPT ![e] = "opened"]
    /\ UNCHANGED <<reader, printed, faults>>

\* Mutant: the lock is shared.
LockShared(e) ==
    /\ task[e] = "opened"
    /\ task' = [task EXCEPT ![e] = "locked"]
    /\ UNCHANGED <<files, log, fd, reader, printed, faults>>

Lock(e) ==
    /\ task[e] = "opened" /\ LockedBy(fd[e]) = {}
    /\ task' = [task EXCEPT ![e] = "locked"]
    /\ UNCHANGED <<files, log, fd, reader, printed, faults>>

Writes(e, from, to, piece) ==
    /\ task[e] = from /\ task' = [task EXCEPT ![e] = to]
    /\ files' = [files EXCEPT ![fd[e]] = Append(@, piece)]
    /\ UNCHANGED <<log, fd, reader, printed, faults>>

WriteBegin(e) == Writes(e, "locked", "begun", Begin(e))
WriteEnd(e)   == Writes(e, "begun", "written", End(e))

Unlock(e) ==
    /\ task[e] = "written" /\ task' = [task EXCEPT ![e] = "done"]
    /\ UNCHANGED <<files, log, fd, reader, printed, faults>>

\* A lock or a write fails: the error is reported, the file is closed.  What the
\* writer had buffered may have come into the file all the same.
Fail(e) ==
    /\ task[e] = "opened" \/ Writing(e)
    /\ faults < MaxFaults
    /\ task' = [task EXCEPT ![e] = "failed"] /\ faults' = faults + 1
    /\ UNCHANGED <<files, log, fd, reader, printed>>

Dies ==
    /\ faults < MaxFaults /\ faults' = faults + 1
    /\ \E e \in Entries : Writing(e)
    /\ task' = [e \in Entries |-> IF Writing(e) \/ task[e] = "opened" THEN "failed" ELSE task[e]]
    /\ UNCHANGED <<files, log, fd, reader, printed>>

-----------------------------------------------------------------------------
(* Rotation: the log is renamed, and created anew unless a writer was first *)

Rename ==
    /\ log # NoLog /\ log' = NoLog
    /\ UNCHANGED <<files, writer, reader, printed, faults>>

Create ==
    /\ log = NoLog /\ Len(files) < MaxFiles
    /\ files' = Append(files, <<>>) /\ log' = Len(files) + 1
    /\ UNCHANGED <<writer, reader, printed, faults>>

-----------------------------------------------------------------------------
(* tail_log: what is there, then what comes                                *)

Reader(stage, file, at) == reader' = [reader EXCEPT !.stage = stage, !.file = file, !.at = at]

\* read_recent_batch opens the log.
Begins ==
    /\ reader.stage = "off"
    /\ Reader(IF log = NoLog THEN "polling" ELSE "recent", log, 0)
    /\ UNCHANGED <<files, log, writer, printed, faults>>

\* scan_recent, under a shared lock.
ReadRecent ==
    /\ reader.stage = "recent" /\ LockedBy(reader.file) = {}
    /\ LET text == files[reader.file] IN
          /\ printed' = LastOf(Parsed(text), MaxRecent)
          /\ reader' = [reader EXCEPT !.stage = "polling", !.at = CompleteLength(text),
                                      !.from = CompleteLength(text)]
    /\ UNCHANGED <<files, log, writer, faults>>

\* Mutant: the offset outlives the file it counts in.
PollKeeping ==
    /\ reader.stage = "polling" /\ log # NoLog
    /\ Reader("reading", log, reader.at)
    /\ UNCHANGED <<files, log, writer, printed, faults>>

\* Mutant: the file that is followed is followed for good.
PollStuck ==
    /\ reader.stage = "polling" /\ log # NoLog
    /\ IF reader.file # NoLog THEN Reader("reading", reader.file, reader.at)
       ELSE reader' = [stage |-> "reading", file |-> log, at |-> 0, from |-> 0]
    /\ UNCHANGED <<files, log, writer, printed, faults>>

\* read_new opens the log and compares it with the file it follows.
Poll ==
    /\ reader.stage = "polling" /\ log # NoLog
    /\ IF log = reader.file THEN Reader("reading", log, reader.at)
       ELSE reader' = [stage |-> "reading", file |-> log, at |-> 0, from |-> 0]
    /\ UNCHANGED <<files, log, writer, printed, faults>>

\* Mutant: the cursor moves past everything that was read.
CursorToEnd(chunk) == Len(chunk)

\* The cursor moves past complete lines only.
Advance(chunk) == CompleteLength(chunk)

\* A shared lock; at most MaxRead is read.
ReadNew ==
    LET text  == files[reader.file]
        bytes == FirstOf(SubSeq(text, reader.at + 1, Len(text)), MaxRead)
    IN
    /\ reader.stage = "reading" /\ LockedBy(reader.file) = {}
    /\ printed' = printed \o Parsed(bytes)
    /\ reader' = [reader EXCEPT
          !.stage = IF Len(bytes) = MaxRead /\ Ends(bytes) = {} THEN "failed" ELSE "polling",
          !.at = @ + Advance(bytes)]
    /\ UNCHANGED <<files, log, writer, faults>>

-----------------------------------------------------------------------------
(* The specification                                                       *)

LogInit ==
    /\ files = << <<>> >> /\ log = 1
    /\ task = [e \in Entries |-> "idle"] /\ fd = [e \in Entries |-> NoLog]
    /\ reader = [stage |-> "off", file |-> NoLog, at |-> 0, from |-> 0]
    /\ printed = <<>> /\ faults = 0

AppendStep(e) == Open(e) \/ Lock(e) \/ WriteBegin(e) \/ WriteEnd(e) \/ Unlock(e)

Follow == ReadRecent \/ Poll \/ ReadNew

LogNext == \/ \E e \in Entries : AppendStep(e) \/ Fail(e)
           \/ Dies \/ Rename \/ Create \/ Begins \/ Follow

LogSpec == LogInit /\ [][LogNext]_logVars

\* A writer that has begun goes on, and the reader polls; nobody has to log,
\* to rotate or to read.
LogFairSpec ==
    /\ LogSpec /\ WF_logVars(Follow)
    /\ \A e \in Entries : WF_logVars(WriteBegin(e) \/ WriteEnd(e) \/ Unlock(e))

-----------------------------------------------------------------------------
(* Properties                                                              *)

\* The type invariant.
LogTypeOK ==
    /\ files \in Seq(Seq(Piece)) /\ log \in 0 .. Len(files)
    /\ task \in [Entries -> {"idle", "opened", "locked", "begun", "written", "done", "failed"}]
    /\ fd \in [Entries -> 0 .. Len(files)]
    /\ reader.file \in 0 .. Len(files) /\ printed \in Seq(Entries)
    /\ reader.file # NoLog => reader.at <= Len(files[reader.file])

\* Tasks that log at the same time do not write into each other's records, in
\* the current file or in one renamed under them: the end of a record follows
\* its own beginning.
LockKeepsLines ==
    \A f \in DOMAIN files : \A i \in DOMAIN files[f] :
        files[f][i].end => i > 1 /\ files[f][i - 1] = Begin(files[f][i].entry)

\* Together: files hold pieces of records in order, and the cursor is within its file.
RecordsSound == LogTypeOK /\ LockKeepsLines

\* What `log -f' printed of the file it follows is exactly the records before
\* its cursor, in their order, whatever was incomplete when it looked; and
\* no entry is printed twice, across rotations too.
CursorExact ==
    /\ reader.stage \in {"polling", "reading"} /\ reader.file # NoLog =>
          IsSuffix(Parsed(SubSeq(files[reader.file], reader.from + 1, reader.at)), printed)
    /\ \A i, j \in DOMAIN printed : printed[i] = printed[j] => i = j

Recorded(e, f) == {i \in DOMAIN files[f] : Whole(files[f], i) /\ files[f][i].entry = e}
Printed(e)     == \E i \in DOMAIN printed : printed[i] = e

\* A record of the current log, after the ones the reader started with, is
\* printed one day, unless the log is rotated first.
Followed ==
    \A e \in Entries, f \in 1 .. MaxFiles :
        /\ log = f /\ reader.stage \in {"polling", "reading"}
        /\ \E i \in Recorded(e, f) : reader.file = f => i > reader.from
        ~> Printed(e) \/ log # f

\* "Audit following ... detects truncation or replacement without inode-reuse
\* ambiguity": a reader that turns to the new file has printed all the old one
\* holds.  What was appended after its last look is left behind.
RotationLosesNothing ==
    [][reader.file \notin {NoLog, reader'.file} =>
          \A e \in Entries : (\E i \in Recorded(e, reader.file) : i > reader.from)
                              => Printed(e)]_logVars

\* "one JSON object per line": an entry whose append succeeded is a record of
\* its own.  One that is appended after a failed append shares its line.
OneEntryPerLine ==
    \A e \in Entries : task[e] = "done" => \E f \in DOMAIN files : Recorded(e, f) # {}
=============================================================================
