---------------------------- MODULE RuleOwnership ----------------------------
(***************************************************************************)
(* Who owns the learned rules: the sidecar lease (RuleLease, in            *)
(* src/rule_store.rs), the control socket and the two ways a command takes *)
(* (src/control_api.rs), the rules in the database and in the daemon's     *)
(* memory (RuleManager, in src/policy/engine.rs), and the daemon that      *)
(* starts, stops, fails to start and dies around them (src/daemon.rs).     *)
(*                                                                         *)
(* A command takes effect in one step: the rules' write lock and the       *)
(* database transaction exclude everything else meanwhile, and a handler   *)
(* that runs while the daemon stops keeps the policy until it is done.     *)
(*                                                                         *)
(* Rules differ in one field, the action.  Configured rules, which nobody  *)
(* here changes, refused peers and `list' are left out.                    *)
(***************************************************************************)
EXTENDS Naturals

CONSTANTS
    Daemons, Clients,  \* processes; a client issues one command
    NoOne,             \* no process
    Actions,           \* what a rule says
    MaxRules,          \* bound: rules ever added
    MaxCrashes         \* bound: processes that die

ASSUME RuleOwnershipAssumption ==
    /\ {MaxRules, MaxCrashes} \subseteq Nat
    /\ NoOne \notin Daemons \cup Clients
    /\ Daemons \cap Clients = {}

VARIABLES
    db, nextId,         \* learned_rules: the action of each id; AUTOINCREMENT
    lease,              \* who holds the owner lock
    socket,             \* whose socket is at the control path
    dpc,                \* where each daemon is
    listening,          \* whether its listener is open
    policy,             \* whether its main thread holds the policy
    mem,                \* its active learned rules
    task,               \* whether one of its authorizations waits for the user
    cpc, cmd, answer,   \* where each client is, its command, and what it was told
    req,                \* its request at a daemon
    effects,            \* history: how often its command changed the rules
    failed,             \* history: a daemon failed in `start'
    crashes             \* counter of the bound

rules   == <<db, nextId>>
main    == <<dpc, listening, policy>>
daemon  == <<main, mem, task>>
client  == <<cpc, cmd, answer>>
history == <<failed, crashes>>
vars    == <<rules, lease, socket, daemon, client, req, effects, history>>

NoRules == << >>
NoCmd   == [kind |-> "none", id |-> 0, action |-> "none"]
NoReq   == [to |-> NoOne, result |-> "none"]

-----------------------------------------------------------------------------
(* Rules                                                                   *)

\* No rule other than `id' says the same.
Unique(r, id, action) == \A other \in DOMAIN r \ {id} : r[other] # action

\* Whether a set of rules can take the command k: the checks of RuleManager
\* against memory, and of the database against its rows.
Accepts(r, k) ==
    CASE k.kind = "add"    -> Unique(r, 0, k.action)
      [] k.kind = "edit"   -> k.id \in DOMAIN r /\ Unique(r, k.id, k.action)
      [] k.kind = "remove" -> k.id \in DOMAIN r

Changed(r, k) ==
    CASE k.kind = "add"    -> [id \in DOMAIN r \cup {nextId} |->
                                 IF id = nextId THEN k.action ELSE r[id]]
      [] k.kind = "edit"   -> [r EXCEPT ![k.id] = k.action]
      [] k.kind = "remove" -> [id \in DOMAIN r \ {k.id} |-> r[id]]

Room(k) == k.kind = "add" => nextId <= MaxRules

\* Mutant: an id is used again once its row is gone.
StoreReusing(k) ==
    /\ db' = Changed(db, k)
    /\ nextId' = CASE k.kind = "add"                         -> nextId + 1
                   [] k.kind = "remove" /\ k.id + 1 = nextId -> k.id
                   [] OTHER                                  -> nextId

\* The transaction.
Store(k) ==
    /\ db' = Changed(db, k)
    /\ nextId' = IF k.kind = "add" THEN nextId + 1 ELSE nextId

\* `add' of a rule that is there succeeds and says so.
Refusal(k) == IF k.kind = "add" THEN "already" ELSE "error"

\* A command, or the user's permanent choice, in a daemon: memory is asked,
\* the database changed, then memory.  An error before the commit leaves both.
\* One step, for the rules are locked meanwhile: nobody decides in between, and
\* a daemon that dies in between takes its memory along.
Perform(d, k, result) ==
    /\ Room(k)
    /\ \/ /\ Accepts(mem[d], k) /\ Accepts(db, k) /\ result = "ok"
          /\ Store(k) /\ mem' = [mem EXCEPT ![d] = Changed(mem[d], k)]
       \/ /\ ~(Accepts(mem[d], k) /\ Accepts(db, k)) /\ result = Refusal(k)
          /\ UNCHANGED <<rules, mem>>
       \/ result = "error" /\ UNCHANGED <<rules, mem>>

-----------------------------------------------------------------------------
(* The lease and the socket                                                *)

Live == socket # NoOne /\ listening[socket]

\* A lock is dropped by the process that holds it.
Dropped(p) == IF lease = p THEN NoOne ELSE lease

\* Connections to a listener that is closed are closed.
Closed(d) == req' = [c \in Clients |-> IF req[c].to = d THEN NoReq ELSE req[c]]

At(d, from, to) == dpc[d] = from /\ dpc' = [dpc EXCEPT ![d] = to]

-----------------------------------------------------------------------------
(* A daemon starts                                                         *)

Still == UNCHANGED <<rules, client, effects, crashes>>

\* `start' takes the lease before anything else.
Acquire(d) ==
    /\ At(d, "off", "leased") /\ lease = NoOne
    /\ lease' = d
    /\ Still /\ UNCHANGED <<socket, listening, policy, mem, task, req, failed>>

\* remove_existing_socket: a socket that answers is somebody's.
Probe(d) ==
    /\ \/ At(d, "leased", "bind") /\ socket = NoOne /\ UNCHANGED lease
       \/ At(d, "leased", "unlink") /\ socket # NoOne /\ ~Live /\ UNCHANGED lease
       \/ At(d, "leased", "off") /\ Live /\ lease' = Dropped(d)
    /\ Still /\ UNCHANGED <<socket, listening, policy, mem, task, req, failed>>

\* The name is removed, whatever it names by now.
Unlink(d) ==
    /\ \/ At(d, "unlink", "bind") /\ socket # NoOne /\ UNCHANGED lease
       \/ At(d, "unlink", "off") /\ socket = NoOne /\ lease' = Dropped(d)
    /\ socket' = NoOne
    /\ Still /\ UNCHANGED <<listening, policy, mem, task, req, failed>>

Bind(d) ==
    /\ \/ /\ At(d, "bind", "bound") /\ socket = NoOne
          /\ socket' = d /\ listening' = [listening EXCEPT ![d] = TRUE]
          /\ UNCHANGED lease
       \/ At(d, "bind", "off") /\ lease' = Dropped(d) /\ UNCHANGED <<socket, listening>>
    /\ Still /\ UNCHANGED <<policy, mem, task, req, failed>>

\* RuleStore::open, RuleManager::new.
Load(d) ==
    /\ At(d, "bound", "loaded")
    /\ mem' = [mem EXCEPT ![d] = db] /\ policy' = [policy EXCEPT ![d] = TRUE]
    /\ Still /\ UNCHANGED <<lease, socket, listening, task, req, failed>>

\* An error in Daemon::new.  The store drops the lease before the endpoint is
\* dropped; an error before the store was opened, after it.
LoadFails(d) ==
    /\ At(d, "bound", "drop")
    /\ lease' = Dropped(d) \/ UNCHANGED lease
    /\ Still /\ UNCHANGED <<socket, listening, policy, mem, task, req, failed>>

Start(d) ==
    /\ At(d, "loaded", "serving")
    /\ Still /\ UNCHANGED <<lease, socket, listening, policy, mem, task, req, failed>>

\* Mutant: the lease goes with the main thread's policy.
ReleasePolicyEarly(d) ==
    /\ policy' = [policy EXCEPT ![d] = FALSE]
    /\ lease' = Dropped(d)
    /\ mem' = IF task[d] THEN mem ELSE [mem EXCEPT ![d] = NoRules]

\* The main thread lets go of the policy; an authorization may still have it.
ReleasePolicy(d) ==
    /\ policy' = [policy EXCEPT ![d] = FALSE]
    /\ lease' = IF task[d] THEN lease ELSE Dropped(d)
    /\ mem' = IF task[d] THEN mem ELSE [mem EXCEPT ![d] = NoRules]

\* An error in Daemon::start: the listener, once taken, is dropped there, then
\* the fields of the daemon in their order, the policy before the endpoint.
StartFails(d) ==
    /\ At(d, "loaded", "drop")
    /\ \/ listening' = [listening EXCEPT ![d] = FALSE] /\ Closed(d)
       \/ UNCHANGED <<listening, req>>
    /\ ReleasePolicy(d)
    /\ failed' = TRUE
    /\ Still /\ UNCHANGED <<socket, task>>

-----------------------------------------------------------------------------
(* A daemon stops                                                          *)

\* Mutant: the policy is dropped with the control server.
StopReleasing(d) ==
    /\ At(d, "serving", "drop")
    /\ listening' = [listening EXCEPT ![d] = FALSE] /\ Closed(d)
    /\ ReleasePolicy(d)
    /\ Still /\ UNCHANGED <<socket, task, failed>>

\* The control server is aborted, with its connections; the mounts go.
Stop(d) ==
    /\ At(d, "serving", "drop")
    /\ listening' = [listening EXCEPT ![d] = FALSE] /\ Closed(d)
    /\ Still /\ UNCHANGED <<lease, socket, policy, mem, task, failed>>

\* ControlEndpoint::drop: is the socket at the path this one?
Inspect(d) ==
    /\ \/ At(d, "drop", "remove") /\ socket = d
       \/ At(d, "drop", "release") /\ socket # d
    /\ Still /\ UNCHANGED <<lease, socket, listening, policy, mem, task, req, failed>>

\* The name is removed, and a listener that was still open is dropped.
Remove(d) ==
    /\ At(d, "remove", "release")
    /\ socket' = NoOne
    /\ listening' = [listening EXCEPT ![d] = FALSE] /\ Closed(d)
    /\ Still /\ UNCHANGED <<lease, policy, mem, task, failed>>

\* drop(self.policy.take()).
Release(d) ==
    /\ At(d, "release", "gone")
    /\ ReleasePolicy(d)
    /\ listening' = [listening EXCEPT ![d] = FALSE] /\ Closed(d)
    /\ Still /\ UNCHANGED <<socket, task, failed>>

\* Nothing of a process survives it but its name at the socket's path.
Die(d) ==
    /\ dpc' = [dpc EXCEPT ![d] = "off"]
    /\ lease' = Dropped(d)
    /\ listening' = [listening EXCEPT ![d] = FALSE] /\ Closed(d)
    /\ policy' = [policy EXCEPT ![d] = FALSE] /\ task' = [task EXCEPT ![d] = FALSE]
    /\ mem' = [mem EXCEPT ![d] = NoRules]
    /\ UNCHANGED <<rules, socket, client, effects, failed>>

Exit(d)  == dpc[d] = "gone" /\ Die(d) /\ UNCHANGED crashes
Crash(d) == dpc[d] # "off" /\ crashes < MaxCrashes /\ crashes' = crashes + 1 /\ Die(d)

-----------------------------------------------------------------------------
(* What a daemon does                                                      *)

\* `accept' returns an error, and `serve' with it: the daemon goes on without
\* an endpoint.
ServerEnds(d) ==
    /\ dpc[d] = "serving" /\ listening[d]
    /\ listening' = [listening EXCEPT ![d] = FALSE] /\ Closed(d)
    /\ Still /\ UNCHANGED <<lease, socket, dpc, policy, mem, task, failed>>

\* (History.)
Counted(c) == effects' = [effects EXCEPT ![c] = IF db' # db THEN @ + 1 ELSE @]

\* handle_connection up to the response.
Serve(d, c) ==
    /\ dpc[d] = "serving" /\ req[c] = [to |-> d, result |-> "none"]
    /\ \E result \in {"ok", "already", "error"} :
         /\ Perform(d, cmd[c], result)
         /\ req' = [req EXCEPT ![c].result = result]
    /\ Counted(c)
    /\ UNCHANGED <<lease, socket, main, task, client, failed, crashes>>

\* An open that no rule decides.
Ask(d) ==
    /\ dpc[d] \in {"loaded", "serving"} /\ ~task[d]
    /\ task' = [task EXCEPT ![d] = TRUE]
    /\ Still /\ UNCHANGED <<lease, socket, main, mem, req, failed>>

\* The authorization ends, and drops the policy.
Decided(d) ==
    /\ task[d] /\ task' = [task EXCEPT ![d] = FALSE]
    /\ lease' = IF policy[d] THEN lease ELSE Dropped(d)

\* Once, for the session, or not at all.
Choose(d) ==
    /\ Decided(d)
    /\ mem' = IF policy[d] THEN mem ELSE [mem EXCEPT ![d] = NoRules]
    /\ Still /\ UNCHANGED <<socket, main, req, failed>>

\* For ever: persist_rule.
Persist(d, action) ==
    /\ policy[d] /\ Decided(d)
    /\ \E result \in {"ok", "already", "error"} :
         Perform(d, [kind |-> "add", id |-> 0, action |-> action], result)
    /\ UNCHANGED <<socket, main, client, req, effects, failed, crashes>>

\* For ever, when nobody else holds the policy any more.
PersistLast(d, action) ==
    LET k == [kind |-> "add", id |-> 0, action |-> action] IN
    /\ ~policy[d] /\ Decided(d) /\ Room(k)
    /\ mem' = [mem EXCEPT ![d] = NoRules]
    /\ \/ Accepts(mem[d], k) /\ Accepts(db, k) /\ Store(k)
       \/ UNCHANGED rules
    /\ UNCHANGED <<socket, main, client, req, effects, failed, crashes>>

-----------------------------------------------------------------------------
(* A client                                                                *)

Goto(c, to) == cpc' = [cpc EXCEPT ![c] = to] /\ UNCHANGED <<cmd, answer>>

End(c, what) ==
    /\ cpc' = [cpc EXCEPT ![c] = "done"] /\ answer' = [answer EXCEPT ![c] = what]
    /\ UNCHANGED cmd

Calm == UNCHANGED <<rules, daemon, effects, history>>

\* Edits and removals name the id of a rule that was there when it was listed.
Issue(c) ==
    /\ cpc[c] = "idle" /\ cpc' = [cpc EXCEPT ![c] = "stat"]
    /\ \E k \in [kind : {"add"}, id : {0}, action : Actions]
                \cup [kind : {"edit"}, id : DOMAIN db, action : Actions]
                \cup [kind : {"remove"}, id : DOMAIN db, action : {"none"}] :
         cmd' = [cmd EXCEPT ![c] = k]
    /\ Calm /\ UNCHANGED <<lease, socket, answer, req>>

\* dispatch.
Stat(c) ==
    /\ cpc[c] = "stat"
    /\ Goto(c, IF socket = NoOne THEN "offline" ELSE "request")
    /\ Calm /\ UNCHANGED <<lease, socket, req>>

\* A request that fails: dispatch_to_endpoint looks whether the owner is gone;
\* dispatch_without_endpoint gives up.
RequestFails(c) ==
    IF cpc[c] \in {"request", "waiting"} THEN Goto(c, "fallback") ELSE End(c, "error")

Connect(c) ==
    /\ cpc[c] \in {"request", "direct"}
    /\ IF Live
       THEN /\ req' = [req EXCEPT ![c] = [to |-> socket, result |-> "none"]]
            /\ Goto(c, IF cpc[c] = "request" THEN "waiting" ELSE "waitingDirect")
       ELSE RequestFails(c) /\ UNCHANGED req
    /\ Calm /\ UNCHANGED <<lease, socket>>

Waiting(c) == cpc[c] \in {"waiting", "waitingDirect"}

\* The response.  An error in it is an error of the request.
Receive(c) ==
    /\ Waiting(c) /\ req[c].result # "none"
    /\ IF req[c].result = "error" THEN RequestFails(c) ELSE End(c, req[c].result)
    /\ req' = [req EXCEPT ![c] = NoReq]
    /\ Calm /\ UNCHANGED <<lease, socket>>

\* The connection is closed, or IO_TIMEOUT has passed.  A request that was
\* sent stays with the daemon.
GiveUp(c) ==
    /\ Waiting(c)
    /\ RequestFails(c)
    /\ Calm /\ UNCHANGED <<lease, socket, req>>

\* Mutant: a daemon that does not answer is taken for dead.
FallbackBold(c) ==
    /\ cpc[c] = "fallback" /\ Goto(c, "execute")
    /\ Calm /\ UNCHANGED <<lease, socket, req>>

Fallback(c) ==
    /\ cpc[c] = "fallback"
    /\ IF lease = NoOne THEN Goto(c, "probe") /\ lease' = c
       ELSE End(c, "error") /\ UNCHANGED lease
    /\ Calm /\ UNCHANGED <<socket, req>>

\* dispatch_without_endpoint: take the lease, or look for a socket, until the
\* deadline.
Offline(c) ==
    /\ cpc[c] = "offline"
    /\ IF lease = NoOne THEN Goto(c, "probe") /\ lease' = c
       ELSE Goto(c, "look") /\ UNCHANGED lease
    /\ Calm /\ UNCHANGED <<socket, req>>

Look(c) ==
    /\ cpc[c] = "look"
    /\ IF socket # NoOne THEN Goto(c, "direct")
       ELSE Goto(c, "offline") \/ End(c, "error")
    /\ Calm /\ UNCHANGED <<lease, socket, req>>

\* remove_existing_socket.
ProbeOffline(c) ==
    /\ cpc[c] = "probe"
    /\ IF Live THEN End(c, "error") /\ lease' = NoOne
       ELSE Goto(c, IF socket = NoOne THEN "execute" ELSE "unlink") /\ UNCHANGED lease
    /\ Calm /\ UNCHANGED <<socket, req>>

UnlinkOffline(c) ==
    /\ cpc[c] = "unlink"
    /\ IF socket = NoOne THEN End(c, "error") /\ lease' = NoOne
       ELSE Goto(c, "execute") /\ UNCHANGED lease
    /\ socket' = NoOne
    /\ Calm /\ UNCHANGED req

\* execute_offline: load the rules, perform the command, drop the lease.
Execute(c) ==
    /\ cpc[c] = "execute" /\ lease' = NoOne
    /\ Room(cmd[c])
    /\ \E result \in {"ok", "already", "error"} :
         /\ \/ Accepts(db, cmd[c]) /\ Store(cmd[c]) /\ result = "ok"
            \/ ~Accepts(db, cmd[c]) /\ result = Refusal(cmd[c]) /\ UNCHANGED rules
            \/ result = "error" /\ UNCHANGED rules
         /\ End(c, result)
    /\ Counted(c)
    /\ UNCHANGED <<socket, daemon, req, failed, crashes>>

\* The command is killed.
Kill(c) ==
    /\ cpc[c] \notin {"idle", "done"} /\ crashes < MaxCrashes /\ crashes' = crashes + 1
    /\ cpc' = [cpc EXCEPT ![c] = "done"] /\ lease' = Dropped(c)
    /\ UNCHANGED <<rules, socket, daemon, cmd, answer, req, effects, failed>>

-----------------------------------------------------------------------------

Init ==
    /\ \E action \in Actions : db = [id \in {1} |-> action]
    /\ nextId = 2
    /\ lease = NoOne /\ socket = NoOne
    /\ dpc = [d \in Daemons |-> "off"]
    /\ listening = [d \in Daemons |-> FALSE]
    /\ policy = [d \in Daemons |-> FALSE]
    /\ mem = [d \in Daemons |-> NoRules]
    /\ task = [d \in Daemons |-> FALSE]
    /\ cpc = [c \in Clients |-> "idle"] /\ cmd = [c \in Clients |-> NoCmd]
    /\ answer = [c \in Clients |-> "none"]
    /\ req = [c \in Clients |-> NoReq] /\ effects = [c \in Clients |-> 0]
    /\ failed = FALSE /\ crashes = 0

DaemonStep(d) ==
    \/ Acquire(d) \/ Probe(d) \/ Unlink(d) \/ Bind(d) \/ Load(d) \/ LoadFails(d)
    \/ Start(d) \/ StartFails(d)
    \/ Stop(d) \/ Inspect(d) \/ Remove(d) \/ Release(d) \/ Exit(d) \/ Crash(d)
    \/ ServerEnds(d) \/ (\E c \in Clients : Serve(d, c))
    \/ Ask(d) \/ Choose(d) \/ (\E action \in Actions : Persist(d, action) \/ PersistLast(d, action))

ClientStep(c) ==
    \/ Issue(c) \/ Stat(c) \/ Connect(c) \/ Receive(c) \/ GiveUp(c) \/ Fallback(c)
    \/ Offline(c) \/ Look(c) \/ ProbeOffline(c) \/ UnlinkOffline(c) \/ Execute(c) \/ Kill(c)

Next == (\E d \in Daemons : DaemonStep(d)) \/ (\E c \in Clients : ClientStep(c))

Spec == Init /\ [][Next]_vars

-----------------------------------------------------------------------------
(* Properties                                                              *)

Command == [kind : {"none", "add", "edit", "remove"}, id : Nat, action : Actions \cup {"none"}]

Results == {"none", "ok", "already", "error"}

IsRules(r) == DOMAIN r \subseteq 1 .. nextId - 1 /\ \A id \in DOMAIN r : r[id] \in Actions

\* Every variable has the type its declaration names, and no rule has an id that
\* AUTOINCREMENT has yet to give.
TypeOK ==
    /\ nextId \in Nat /\ IsRules(db)
    /\ lease \in Daemons \cup Clients \cup {NoOne}
    /\ socket \in Daemons \cup {NoOne}
    /\ dpc \in [Daemons -> {"off", "leased", "unlink", "bind", "bound", "loaded", "serving",
                            "drop", "remove", "release", "gone"}]
    /\ {listening, policy, task} \subseteq [Daemons -> BOOLEAN]
    /\ DOMAIN mem = Daemons /\ \A d \in Daemons : IsRules(mem[d])
    /\ cpc \in [Clients -> {"idle", "stat", "request", "waiting", "direct", "waitingDirect",
                            "fallback", "offline", "look", "probe", "unlink", "execute", "done"}]
    /\ cmd \in [Clients -> Command] /\ answer \in [Clients -> Results]
    /\ req \in [Clients -> [to : Daemons \cup {NoOne}, result : Results]]
    /\ effects \in [Clients -> Nat] /\ failed \in BOOLEAN /\ crashes \in Nat

\* The daemon acts by rules it holds in memory: while its main thread or one
\* of its authorizations has the policy.
Owns(d) == policy[d] \/ task[d]

\* docs/architecture.md: the API "updates the database and active policy under the
\* same policy lock": what a daemon decides by is what is in the database, whoever
\* else has commands for it, takes it for dead, or starts beside it.
RulesAgree == \A d \in Daemons : Owns(d) => mem[d] = db

\* docs/architecture.md: the lease "is not released until every credential mount and
\* in-flight authorization task has dropped its policy state"; and then it is
\* released, also when the daemon failed to start.
LeaseFollowsPolicy ==
    \A d \in Daemons :
        /\ Owns(d) => lease = d
        /\ lease = d => Owns(d) \/ dpc[d] \notin {"off", "gone"}

\* control_api.rs: the socket of a daemon that serves is not removed as stale by a
\* client, nor by the exit of another daemon (a failed start is the exception:
\* it drops the lease before it looks at the path).
SocketStands == ~failed => \A d \in Daemons : dpc[d] = "serving" => socket = d

\* docs/architecture.md: edits and removals name a "stable learned-rule ID": a rule
\* that is added never gets an id that a command on its way means.
IdsAreStable ==
    [][\A id \in DOMAIN db' \ DOMAIN db : \A c \in Clients : cmd[c].id # id]_vars

\* docs/architecture.md: "Every successful learned-rule mutation is durable exactly
\* once": a command that reports success changed the rules once, and not at the
\* daemon and then, its response being lost, again by its own hand.
MutatesOnce == \A c \in Clients : answer[c] = "ok" => effects[c] <= 1

\* README.md: rule commands use the daemon's "socket while it is running": who listens
\* and serves can be found.
EndpointReachable == \A d \in Daemons : dpc[d] = "serving" /\ listening[d] => socket = d
=============================================================================
