---------------------------- MODULE PromptAgent -----------------------------
(***************************************************************************)
(* The way of a question to the user and back: PromptClient in the daemon  *)
(* (prompt/client.rs), PromptServer in the user's session (prompt/         *)
(* server.rs) with its rate limiter and its dialog lock, and the dialogs   *)
(* (prompt/gui.rs, prompt/terminal.rs).                                    *)
(*                                                                         *)
(* The server handles each connection in a task of its own.  A task that   *)
(* passes the rate limiter queues for the dialog lock, renders, and writes *)
(* the outcome; it does not notice that the client has given up.           *)
(*                                                                         *)
(* Time passes in ticks, and every timer is a countdown.  A tick does not  *)
(* pass a timer that is due, nor a message that can be taken: the program  *)
(* is fast compared with a tick (the shortest limit is two seconds).       *)
(***************************************************************************)
EXTENDS Integers, Sequences, FiniteSets

CONSTANTS
    Requests,   \* questions
    Choices,    \* what a user can answer
    Backends,   \* how questions are put: of "gui", "terminal", "log_only"
    Timeout,    \* prompt_timeout
    Grace,      \* the client's grace on top of it
    Backstop,   \* the grace of a graphical dialog
    MaxPrompts, Window,   \* the rate limiter's
    MaxDeaths,  \* bound: deaths of the agent
    MaxAhead    \* bound: lines typed before somebody reads them

ASSUME PromptAgentAssumption ==
    /\ {Timeout, Grace, Backstop, MaxPrompts, Window, MaxDeaths, MaxAhead} \subseteq Nat
    /\ Backends \subseteq {"gui", "terminal", "log_only"}
    /\ {"none", "no response", "swallowed", "idle", "waiting", "default"} \cap Choices = {}

\* The client's 5 s come after the dialog's 2 s.
ASSUME GraceAssumption == Backstop < Grace

VARIABLES
    client,     \* PromptClient::request, for each question
    left,       \* what is left of its hard limit
    task,       \* PromptServer::handle_conn, for each connection
    shown,      \* what is left of the time a dialog has
    reply,      \* the outcome written to the connection
    queue,      \* tasks that wait for dialog_lock, first in, first out
    stamps,     \* RateLimiter.timestamps, as ages
    readers,    \* threads that wait for a line of the terminal
    ahead,      \* lines the terminal holds, that nobody has read
    up,         \* the agent runs
    chosen,     \* history: what the user answered to each question, in time, or
                \* Swallowed if an earlier question's thread has the line
    found,      \* history: the line each question's thread found typed when it
                \* came to read, in time
    delayed,    \* history: the question did not reach the user at once
    admitted,   \* history: the ages of all questions this agent admitted
    deaths      \* counter of the bound

server == <<task, shown, queue, stamps, readers, ahead>>
vars == <<client, left, server, reply, up, chosen, found, delayed, admitted, deaths>>

None == "none"
NoResponse == "no response"
Swallowed == "swallowed"

Waits(r)  == client[r] = "waiting"
Shown(r)  == task[r] \in {"gui", "terminal", "log_only"}
Locked    == \E r \in Requests : Shown(r)
Decided(r) == client[r] \in Choices \cup {"default"}

-----------------------------------------------------------------------------
(* The client                                                              *)

\* Mutant: no grace.
NoGrace == Timeout

\* The agent renders for up to `timeout'.
HardLimit == Timeout + Grace

\* The answer of the agent, or the default action.
Take(r, outcome) ==
    /\ client' = [client EXCEPT ![r] = IF outcome = NoResponse THEN "default" ELSE outcome]
    /\ left' = [left EXCEPT ![r] = 0]

\* connect fails when nobody listens; with a socket of systemd's, a request
\* waits there for the agent.
Ask(r) ==
    /\ client[r] = "idle"
    /\ \/ /\ ~up /\ Take(r, NoResponse) /\ UNCHANGED <<task, delayed>>
       \/ /\ client' = [client EXCEPT ![r] = "waiting"] /\ left' = [left EXCEPT ![r] = HardLimit]
          /\ task' = [task EXCEPT ![r] = "sent"] /\ delayed' = [delayed EXCEPT ![r] = ~up]
    /\ UNCHANGED <<shown, queue, stamps, readers, ahead, reply, up, chosen, found, admitted,
                   deaths>>

\* Mutant: an answer that comes after the time the user was given is dropped.
ReceiveInTime(r) ==
    /\ Waits(r) /\ reply[r] # None
    /\ Take(r, IF left[r] > Grace THEN reply[r] ELSE NoResponse)
    /\ UNCHANGED <<server, reply, up, chosen, found, delayed, admitted, deaths>>

Receive(r) ==
    /\ Waits(r) /\ reply[r] # None
    /\ Take(r, reply[r])
    /\ UNCHANGED <<server, reply, up, chosen, found, delayed, admitted, deaths>>

GiveUp(r) ==
    /\ Waits(r) /\ left[r] = 0 /\ reply[r] = None
    /\ Take(r, NoResponse)
    /\ UNCHANGED <<server, reply, up, chosen, found, delayed, admitted, deaths>>

-----------------------------------------------------------------------------
(* The rate limiter                                                        *)

\* Mutant: timestamps are never dropped.
FreshTooLong(s) == s

\* Timestamps older than the window, which are the first ones, are dropped.
Fresh(s) == SubSeq(s, Cardinality({i \in DOMAIN s : s[i] >= Window}) + 1, Len(s))

Writes(r, outcome) == reply' = [reply EXCEPT ![r] = outcome]

Admit(r) ==
    /\ up /\ task[r] = "sent"
    /\ \/ /\ Len(Fresh(stamps)) < MaxPrompts
          /\ stamps' = Append(Fresh(stamps), 0) /\ admitted' = Append(admitted, 0)
          /\ task' = [task EXCEPT ![r] = "queued"] /\ queue' = Append(queue, r)
          /\ UNCHANGED reply
       \/ /\ Len(Fresh(stamps)) >= MaxPrompts
          /\ stamps' = Fresh(stamps)
          /\ task' = [task EXCEPT ![r] = "done"] /\ Writes(r, NoResponse)
          /\ UNCHANGED <<queue, admitted>>
    /\ UNCHANGED <<client, left, shown, readers, ahead, up, chosen, found, delayed, deaths>>

-----------------------------------------------------------------------------
(* Dialogs                                                                 *)

\* Mutant: the lock is dropped before the dialog is put.
NotLocked(r) == queue # <<>> /\ Head(queue) = r

\* dialog_lock is fair.
MayShow(r) == queue # <<>> /\ Head(queue) = r /\ ~Locked

\* What a dialog has before it is closed.
TimeOf(backend) == IF backend = "gui" THEN Timeout + Backstop ELSE Timeout

\* A graphical prompt without a backend is one of the terminal.
Show(r, backend) ==
    /\ MayShow(r)
    /\ queue' = Tail(queue)
    /\ task' = [task EXCEPT ![r] = backend] /\ shown' = [shown EXCEPT ![r] = TimeOf(backend)]
    /\ readers' = IF backend = "terminal" THEN Append(readers, r) ELSE readers
    /\ UNCHANGED <<client, left, stamps, ahead, reply, up, chosen, found, delayed,
                   admitted, deaths>>

Close(r, outcome) ==
    /\ task' = [task EXCEPT ![r] = "done"] /\ shown' = [shown EXCEPT ![r] = 0]
    /\ Writes(r, outcome)

\* The user's answer counts from the moment it is given, if somebody waits.
Says(r, choice) == chosen' = IF Waits(r) THEN [chosen EXCEPT ![r] = choice] ELSE chosen

Click(r, choice) ==
    /\ task[r] = "gui"
    /\ Close(r, choice) /\ Says(r, choice)
    /\ UNCHANGED <<client, left, queue, stamps, readers, ahead, up, found, delayed,
                   admitted, deaths>>

\* The dialog is closed, or closes itself, or says nothing that is a choice.
\* At the end of the terminal's input, every thread that waits for a line ends.
Dismiss(r) ==
    /\ \/ task[r] = "gui" /\ UNCHANGED readers
       \/ task[r] = "terminal" /\ ahead = <<>> /\ readers' = <<>>
    /\ Close(r, NoResponse)
    /\ UNCHANGED <<client, left, queue, stamps, ahead, up, chosen, found, delayed,
                   admitted, deaths>>

\* A thread has a line: its question's answer, if that is still on the screen.
Reads(r, line) == IF task[r] = "terminal" THEN Close(r, line)
                  ELSE UNCHANGED <<task, shown, reply>>

\* A line is typed, whatever is on the screen.  The first thread that waits for
\* one has it, even if its own question is gone; without a thread, or behind
\* another line, it stays in the terminal.
Type(choice) ==
    /\ up /\ "terminal" \in Backends
    /\ \/ /\ readers # <<>> /\ ahead = <<>>
          /\ readers' = Tail(readers) /\ Reads(Head(readers), choice)
          /\ chosen' = [r \in Requests |->
                          IF ~(task[r] = "terminal" /\ Waits(r)) THEN chosen[r]
                          ELSE IF r = Head(readers) THEN choice ELSE Swallowed]
          /\ UNCHANGED ahead
       \/ /\ readers = <<>> \/ ahead # <<>>
          /\ Len(ahead) < MaxAhead /\ ahead' = Append(ahead, choice)
          /\ UNCHANGED <<task, shown, reply, readers, chosen>>
    /\ UNCHANGED <<client, left, queue, stamps, up, found, delayed, admitted, deaths>>

\* A thread that comes to read finds a line that was typed before.
ReadAhead(r) ==
    /\ readers # <<>> /\ Head(readers) = r /\ ahead # <<>>
    /\ readers' = Tail(readers) /\ ahead' = Tail(ahead)
    /\ Reads(r, Head(ahead))
    /\ found' = IF task[r] = "terminal" /\ Waits(r) THEN [found EXCEPT ![r] = Head(ahead)]
                ELSE found
    /\ UNCHANGED <<client, left, queue, stamps, up, chosen, delayed, admitted, deaths>>

\* Mutant: a graphical dialog is left to close itself.
ExpireQuietly(r) ==
    /\ task[r] \in {"terminal", "log_only"} /\ shown[r] = 0
    /\ Close(r, NoResponse)
    /\ UNCHANGED <<client, left, queue, stamps, readers, ahead, up, chosen, found,
                   delayed, admitted, deaths>>

\* The dialog is killed, the wait for a line is given up (its thread is not),
\* the sleep is over.
Expire(r) ==
    /\ Shown(r) /\ shown[r] = 0
    /\ Close(r, NoResponse)
    /\ UNCHANGED <<client, left, queue, stamps, readers, ahead, up, chosen, found,
                   delayed, admitted, deaths>>

-----------------------------------------------------------------------------
(* The agent's process                                                     *)

\* Its connections are closed, but for those it had not accepted yet: a client
\* that still waits has an error.  What the process has buffered of the lines
\* nobody asked for is lost with it.
Die ==
    /\ up /\ deaths < MaxDeaths /\ deaths' = deaths + 1
    /\ up' = FALSE
    /\ \E kept \in SUBSET {r \in Requests : task[r] = "sent"} :
          LET lost == {r \in Requests \ kept : task[r] \notin {"idle", "done"}} IN
          /\ client' = [r \in Requests |-> IF Waits(r) /\ r \in lost THEN "default"
                                          ELSE client[r]]
          /\ left' = [r \in Requests |-> IF r \in lost THEN 0 ELSE left[r]]
          /\ shown' = [r \in Requests |-> 0]
          /\ task' = [r \in Requests |-> IF r \in lost THEN "done" ELSE task[r]]
    /\ queue' = <<>> /\ stamps' = <<>> /\ readers' = <<>> /\ admitted' = <<>>
    /\ \E lost \in 0 .. Len(ahead) : ahead' = SubSeq(ahead, lost + 1, Len(ahead))
    /\ chosen' = [r \in Requests |-> IF reply[r] = None THEN None ELSE chosen[r]]
    /\ UNCHANGED <<reply, found, delayed>>

Start ==
    /\ ~up /\ up' = TRUE
    /\ UNCHANGED <<client, left, server, reply, chosen, found, delayed, admitted, deaths>>

-----------------------------------------------------------------------------
(* Time                                                                    *)

\* Mutant: a countdown goes below zero.
TickingOn(t) == [r \in Requests |-> t[r] - 1]

Ticking(t) == [r \in Requests |-> IF t[r] = 0 THEN 0 ELSE t[r] - 1]
Ageing(s)  == [i \in DOMAIN s |-> IF s[i] < Window THEN s[i] + 1 ELSE Window]

\* Nothing is due.
Calm == \A r \in Requests :
           /\ Waits(r) => left[r] > 0 /\ reply[r] = None
           /\ Shown(r) => shown[r] > 0
           /\ up => task[r] # "sent"
           /\ up => ~MayShow(r)
           /\ readers = <<>> \/ ahead = <<>>

Tick ==
    /\ Calm
    /\ left' = Ticking(left) /\ shown' = Ticking(shown)
    /\ stamps' = Ageing(stamps) /\ admitted' = Ageing(admitted)
    /\ delayed' = [r \in Requests |-> delayed[r] \/ (Waits(r) /\ task[r] \in {"sent", "queued"})]
    /\ UNCHANGED <<client, task, queue, readers, ahead, reply, up, chosen, found, deaths>>

-----------------------------------------------------------------------------
(* The specification                                                       *)

Init ==
    /\ client = [r \in Requests |-> "idle"] /\ left = [r \in Requests |-> 0]
    /\ task = [r \in Requests |-> "idle"] /\ shown = [r \in Requests |-> 0]
    /\ reply = [r \in Requests |-> None]
    /\ chosen = [r \in Requests |-> None] /\ found = [r \in Requests |-> None]
    /\ delayed = [r \in Requests |-> FALSE]
    /\ queue = <<>> /\ stamps = <<>> /\ readers = <<>> /\ ahead = <<>> /\ admitted = <<>>
    /\ up = TRUE /\ deaths = 0

ClientStep(r) == Receive(r) \/ GiveUp(r)

ServerStep(r) == Admit(r) \/ ReadAhead(r) \/ Expire(r) \/ \E b \in Backends : Show(r, b)

User(r) == Dismiss(r) \/ \E c \in Choices : Click(r, c)

Next == \/ \E r \in Requests : Ask(r) \/ ClientStep(r) \/ ServerStep(r) \/ User(r)
        \/ \E c \in Choices : Type(c)
        \/ Die \/ Start \/ Tick

Spec == Init /\ [][Next]_vars

\* Time passes, and each side does what it can.  Nothing is assumed of the
\* user, nor of the agent's coming back.
FairSpec ==
    /\ Spec /\ WF_vars(Tick)
    /\ \A r \in Requests : WF_vars(ClientStep(r)) /\ WF_vars(ServerStep(r))

-----------------------------------------------------------------------------
(* Properties                                                              *)

\* The type invariant.
TypeOK ==
    /\ client \in [Requests -> {"idle", "waiting", "default"} \cup Choices]
    /\ left \in [Requests -> 0 .. HardLimit]
    /\ task \in [Requests -> {"idle", "sent", "queued", "done"} \cup Backends]
    /\ shown \in [Requests -> 0 .. Timeout + Backstop]
    /\ reply \in [Requests -> {None, NoResponse} \cup Choices]
    /\ queue \in Seq(Requests) /\ readers \in Seq(Requests)
    /\ ahead \in Seq(Choices) /\ Len(ahead) <= MaxAhead
    /\ Len(stamps) <= MaxPrompts

\* At most one dialog is on the screen, and a question waits in the queue once.
OneDialog ==
    /\ Cardinality({r \in Requests : Shown(r)}) <= 1
    /\ \A i, j \in DOMAIN queue : queue[i] = queue[j] => i = j

\* What counts for a question: the line its thread found, or else what the user
\* answered to it.
Given(r) == IF found[r] # None THEN found[r] ELSE chosen[r]

\* The decision the daemon acts on is what the user answered to that very
\* question while the daemon waited for it, and the default action exactly when
\* there was nothing: no answer is lost behind a limit, given to two questions,
\* or counted after the daemon has turned away.  On a terminal there are two
\* exceptions, and they are all: a line typed before the question's thread came
\* to read decides the question (Given), and a line that an abandoned reader
\* takes decides nothing (Swallowed); see LinesReachTheirQuestion.
AnswerCounts ==
    \A r \in Requests : Decided(r) =>
        client[r] = IF Given(r) \in Choices THEN Given(r) ELSE "default"

\* Together, with the types: one dialog at a time, and its answer counts.
DialogsSound == TypeOK /\ OneDialog /\ AnswerCounts

\* "Rendering is serialized so only one dialog is ever live (fixes
\* concurrent-stdin / popup-storm races)": nobody else reads the line that is
\* typed for the question on the screen, and no other line decides it.
LinesReachTheirQuestion == \A r \in Requests : chosen[r] # Swallowed /\ found[r] = None

Young == Cardinality({i \in DOMAIN admitted : admitted[i] < Window})

\* A question is put to the user if fewer than MaxPrompts were admitted within
\* the window, and only then; a question that was refused counts for nothing.
RateExact ==
    [][\A r \in Requests : task[r] = "sent" /\ task'[r] # "sent" /\ up' =>
          (task'[r] = "queued" <=> Young < MaxPrompts)]_vars

GivesUp(r) == Waits(r) /\ ~Waits(r)' /\ reply[r] = None /\ up'

\* The client's own limit ends a question only if it could not be put to the
\* user at once: otherwise the agent's limits, the graphical dialogs' grace
\* included, come first.
GraceSuffices == [][\A r \in Requests : GivesUp(r) => delayed[r]]_vars

\* Every question is decided, and every dialog that was queued is gone one
\* day, though the user may never answer and the agent die.
QuestionsEnd ==
    \A r \in Requests : /\ Waits(r) ~> Decided(r)
                       /\ task[r] = "queued" ~> task[r] = "done"

\* "allow a small grace so its own timeout wins over ours": as long as the
\* agent is there to answer, the client does not give up.  A question behind
\* another dialog has used its time up before it is put.
AgentTimeoutWins == [][\A r \in Requests : up => ~GivesUp(r)]_vars
=============================================================================
