----------------------------- MODULE RulePolicy -----------------------------
(***************************************************************************)
(* The decision about one open of the watched file: decide_open and the    *)
(* handlers of credential_fs.rs that ask for it, PolicyEngine::            *)
(* evaluate_open with its rules (policy/engine.rs, policy/rule.rs) and its *)
(* session grants (policy/session.rs), and the handle the decision ends    *)
(* in, up to its release.                                                  *)
(*                                                                         *)
(* Every decision is a task of its own.  It looks the rules up once for    *)
(* each direction the open needs, under a lock it takes anew each time,    *)
(* hashes the caller's script for each rule that pins it, which may fail,  *)
(* and may wait for the user.  Session grants, script and caller change    *)
(* meanwhile, and so do the rules while the lock is not held.              *)
(*                                                                         *)
(* Rules are those that name the watched file and the path of the caller's *)
(* binary; an image stands for the contents found there.  Two rules are    *)
(* never equal: they are a set, gone through in any order.                 *)
(* RuleOwnership has their database and the commands' way to the daemon,   *)
(* PromptAgent the way of the question to the user.                        *)
(***************************************************************************)
EXTENDS Naturals

CONSTANTS
    Opens,         \* opens under way or handles: the threads of the callers
    Procs,         \* process ids
    Images,        \* contents of the binary
    Interpreters,  \* the images among them that run a script
    Scripts,       \* paths of scripts
    Versions,      \* contents of a script
    Declared,      \* rules of the configuration: no command changes them
    Entries,       \* rules a command may add
    Edits,         \* changes a command may ask for
    Calls,         \* the kinds of call, of Kinds
    Default,       \* default_action, for this file
    MaxCalls,      \* bound: opens, and truncations by path
    MaxCommands,   \* bound: rule commands
    MaxChanges     \* bound: new processes and images, edits of scripts, restarts

NoScript == "no script"
Unpinned == "unpinned"
Absent   == "absent"
Dirs     == {"read", "write"}

Identity == [pid : Procs, start : 0 .. MaxChanges, image : Images, script : Scripts \cup {NoScript}]
Rule == [action : {"allow", "deny"}, access : Dirs \cup {"any"},
         image : Images \cup {Unpinned},
         script : Scripts \cup {NoScript}, pin : Versions \cup {Unpinned}]
Edit == [action : {"keep", "allow", "deny"}, access : {"keep", "any"} \cup Dirs,
         pin : {"keep", Unpinned} \cup Images]

ASSUME RulePolicyAssumption ==
    /\ Interpreters \subseteq Images /\ Declared \cup Entries \subseteq Rule
    /\ Edits \subseteq Edit /\ Default \in {"allow", "deny"}
    /\ Unpinned \notin Images \cup Versions  \* no hash: None, in the code
    /\ {MaxCalls, MaxCommands, MaxChanges} \subseteq Nat

VARIABLES
    rules,      \* RuleManager.rules
    sessions,   \* SessionState: the identities granted both directions
    proc,       \* the identity of each process
    script,     \* the contents of each script on disk
    open,       \* the decisions under way, and the handles; `rest' are the rules a
                \* look-up has still to hash for, `hit' is matched_allow, and `unread'
                \* (history) has the rules for which a hash failed
    said,       \* history: what users and administrators consented to
    seen,       \* history: what held all along each decision
    calls, commands, changes   \* counters of the bounds

vars == <<rules, sessions, proc, script, open, said, seen, calls, commands, changes>>

NoOpen == [stage |-> "none", id |-> [pid |-> "none"], needs |-> {}, path |-> FALSE,
           trunc |-> FALSE, dir |-> "read", pre |-> TRUE, live |-> TRUE,
           rest |-> {}, hit |-> FALSE, unread |-> {},
           choice |-> "none", asked |-> {}, canRead |-> FALSE, access |-> "read",
           decision |-> "none", basis |-> {}]
NoSeen == [denied |-> {}, torn |-> FALSE, allowed |-> {}, grants |-> {}, versions |-> {}]

-----------------------------------------------------------------------------
(* Rules                                                                   *)

\* Access::covers.
Covers(access, dir) == access \in {"any", dir}

\* RuleManager::identity_matches, as far as it reads no file: the caller's image
\* and the path of its script.  A mismatch is no match, not a denial.
Names(r, id) == r.image \in {Unpinned, id.image} /\ r.script \in {NoScript, id.script}

\* The rule pins the contents of the script: it is hashed.
Pins(r) == r.script # NoScript /\ r.pin # Unpinned

\* Mutant: a rule's script is compared by its path only.
PathOnly(r, id, disk) == TRUE

\* The hash that a rule expects is that of the script, if there is one.
HashMatches(r, id, disk) == disk[id.script] = r.pin /\ r.pin # Absent

\* The whole of identity_matches, were the file hashed at one moment.
IdentityMatches(r, id, disk) == Names(r, id) /\ (Pins(r) => HashMatches(r, id, disk))

\* apply_rule_edit: dropping the pin drops the script's too.
Edited(r, e) ==
    [action |-> IF e.action = "keep" THEN r.action ELSE e.action,
     access |-> IF e.access = "keep" THEN r.access ELSE e.access,
     image  |-> IF e.pin = "keep" THEN r.image ELSE e.pin,
     script |-> r.script,
     pin    |-> IF e.pin = Unpinned THEN Unpinned ELSE r.pin]

\* Mutant: an interpreter's rule leaves the script out.
LearnedWide(o, action) ==
    [action |-> action, access |-> "any", image |-> o.id.image,
     script |-> NoScript, pin |-> Unpinned]

\* The rule persist_rule makes of a permanent choice.
Learned(o, action) ==
    [action |-> action, access |-> "any", image |-> o.id.image, script |-> o.id.script,
     pin |-> IF o.id.script = NoScript THEN Unpinned ELSE script[o.id.script]]

\* What persist_rule refuses: an interpreter without a script, or a script
\* that cannot be read.
Pinnable(id) == IF id.script = NoScript THEN id.image \notin Interpreters
                ELSE script[id.script] # Absent

-----------------------------------------------------------------------------
(* Sessions.  A grant is recorded for both directions.                     *)

\* Mutant: a grant is looked for by process id and start time.
ProcessAllowed(id) == \E g \in sessions : g.pid = id.pid /\ g.start = id.start

\* Mutant: a grant, recorded for both directions, is looked for by one.
ByDirection(id) == FALSE

IsSessionAllowed(id) == id \in sessions

-----------------------------------------------------------------------------
(* What the rest of the system says of a decision, apart from its own      *)
(* steps.  `said' is never forgotten; `seen' is refreshed by every step,   *)
(* for the decisions under way after it.                                   *)

Deciding(o) == o.stage \in {"lookup", "hashing", "session", "asking", "persist"}

\* Somebody said that this identity may go in this direction: a rule of an
\* administrator, a permanent choice for these contents, or a session's.
Consented(id, versions, dir) ==
    \/ \E r \in said.rules :
          /\ r.action = "allow" /\ r.access \in {"any", dir}
          /\ r.image \in {Unpinned, id.image} /\ r.script \in {NoScript, id.script}
          /\ r.script = NoScript \/ r.pin \in versions \cup {Unpinned}
    \/ \E c \in said.always :
          c.image = id.image /\ c.script = id.script /\ c.pin \subseteq versions
    \/ id \in said.sessions

Matching(in, id, disk, action) == {r \in in : r.action = action /\ IdentityMatches(r, id, disk)}

\* The directions that matching rules deny; that they allow, and none denies.
Denied(in, id, disk)  ==
    {d \in Dirs : \E r \in Matching(in, id, disk, "deny") : Covers(r.access, d)}
Allowed(in, id, disk) ==
    {d \in Dirs : \E r \in Matching(in, id, disk, "allow") : Covers(r.access, d)}
        \ Denied(in, id, disk)

VersionOf(id, disk) == IF id.script = NoScript THEN {} ELSE {disk[id.script]}

\* A first look at what holds for the open, and one look more.
FirstSight(o, in, disk, granted) ==
    [denied   |-> Matching(in, o.id, disk, "deny"),
     torn     |-> Denied(in, o.id, disk) \cap o.needs # {},
     allowed  |-> Matching(in, o.id, disk, "allow"),
     grants   |-> {o.id} \cap granted,
     versions |-> VersionOf(o.id, disk)]
Sight(o, s, in, disk, granted) ==
    LET now == FirstSight(o, in, disk, granted)
    IN [denied |-> s.denied \cap now.denied, torn |-> s.torn /\ now.torn,
        allowed |-> s.allowed \cap now.allowed, grants |-> s.grants \cap now.grants,
        versions |-> s.versions \cup now.versions]

Observe ==
    seen' = [a \in Opens |->
               IF open'[a].stage = "granted" /\ open[a].stage # "granted" THEN seen[a]
               ELSE IF ~Deciding(open'[a]) THEN NoSeen
               ELSE IF ~Deciding(open[a]) THEN FirstSight(open'[a], rules', script', sessions')
               ELSE Sight(open'[a], seen[a], rules', script', sessions')]

-----------------------------------------------------------------------------
(* A call arrives.  Callers are the owner or root: others are refused      *)
(* before the policy is asked (uid_permitted, decide_open).                *)

\* open's flags, and the truncation by path of setattr: what each needs.
Kinds == [rdonly   |-> [needs |-> {"read"},  trunc |-> FALSE, path |-> FALSE],
          wronly   |-> [needs |-> {"write"}, trunc |-> FALSE, path |-> FALSE],
          rdwr     |-> [needs |-> Dirs,      trunc |-> FALSE, path |-> FALSE],
          rdtrunc  |-> [needs |-> Dirs,      trunc |-> TRUE,  path |-> FALSE],
          wrtrunc  |-> [needs |-> {"write"}, trunc |-> TRUE,  path |-> FALSE],
          truncate |-> [needs |-> {"write"}, trunc |-> TRUE,  path |-> TRUE]]

ASSUME CallsAssumption == Calls \subseteq DOMAIN Kinds

FirstDir(needs) == IF "read" \in needs THEN "read" ELSE "write"

Arrive(a, p, kind) ==
    /\ open[a].stage = "none" /\ calls < MaxCalls /\ calls' = calls + 1
    /\ open' = [open EXCEPT ![a] =
                 [NoOpen EXCEPT !.stage = "lookup", !.id = proc[p],
                                !.needs = Kinds[kind].needs, !.trunc = Kinds[kind].trunc,
                                !.path = Kinds[kind].path, !.dir = FirstDir(Kinds[kind].needs)]]
    /\ UNCHANGED <<rules, sessions, proc, script, said, commands, changes>> /\ Observe

-----------------------------------------------------------------------------
(* evaluate_open                                                           *)

\* The directions for which somebody consented to this open, by now.
Basis(o, s) == {d \in o.needs : d \in o.asked \/ Consented(o.id, s.versions, d)}

Granted(a, o, decision) ==
    open' = [open EXCEPT ![a] = [o EXCEPT !.stage = "granted", !.decision = decision,
                                          !.basis = Basis(o, seen[a])]]
Refused(a) == open' = [open EXCEPT ![a] = NoOpen]

\* Mutant: a direction that is authorized ends the loop.
FinishAny(a, o) ==
    IF o.pre THEN Granted(a, o, "AllowAlways")
    ELSE IF o.dir = "read" /\ "write" \in o.needs
    THEN open' = [open EXCEPT ![a] = [o EXCEPT !.stage = "lookup", !.dir = "write"]]
    ELSE open' = [open EXCEPT ![a] = [o EXCEPT !.stage = "asking"]]

\* The next direction, or the end of the loop.
Continue(a, o) ==
    IF o.dir = "read" /\ "write" \in o.needs
    THEN open' = [open EXCEPT ![a] = [o EXCEPT !.stage = "lookup", !.dir = "write"]]
    ELSE IF o.pre THEN Granted(a, o, "AllowAlways")
    ELSE open' = [open EXCEPT ![a] = [o EXCEPT !.stage = "asking"]]

\* Mutant: an allow that matches ends the look-up.
AllowFirst(a, o) ==
    IF o.hit THEN Continue(a, [o EXCEPT !.hit = FALSE, !.rest = {}])
    ELSE IF o.rest # {} THEN open' = [open EXCEPT ![a] = [o EXCEPT !.stage = "hashing"]]
    ELSE open' = [open EXCEPT ![a] = [o EXCEPT !.stage = "session"]]

\* The look-up goes on to the rules left, or ends and gives the lock back.
Proceed(a, o) ==
    IF o.rest # {} THEN open' = [open EXCEPT ![a] = [o EXCEPT !.stage = "hashing"]]
    ELSE IF o.hit THEN Continue(a, [o EXCEPT !.hit = FALSE])
    ELSE open' = [open EXCEPT ![a] = [o EXCEPT !.stage = "session"]]

\* RuleManager::lookup_rule takes the lock of the rules, and decides by those
\* that match without a hash.  The others it goes through one by one (Hash).
LookUp(a) ==
    LET o == open[a]
        bearing == {r \in rules : Covers(r.access, o.dir) /\ Names(r, o.id)}
        pinned == {r \in bearing : Pins(r)}
        plain == {r.action : r \in bearing \ pinned}
    IN
    /\ o.stage = "lookup"
    /\ \/ "deny" \in plain /\ Refused(a)
       \/ "deny" \notin plain /\ Proceed(a, [o EXCEPT !.rest = pinned, !.hit = "allow" \in plain])
    /\ UNCHANGED <<rules, sessions, proc, script, said, calls, commands, changes>> /\ Observe

\* The script is hashed for one rule.  Where it cannot be, as when it is changed
\* or replaced meanwhile or descriptors run out, the rule does not match.
Hash(a, r) ==
    LET o == [open[a] EXCEPT !.rest = @ \ {r}]
        matches == HashMatches(r, o.id, script)
    IN
    /\ open[a].stage = "hashing" /\ r \in open[a].rest
    /\ \/ matches /\ r.action = "deny" /\ Refused(a)
       \/ matches /\ r.action = "allow" /\ Proceed(a, [o EXCEPT !.hit = TRUE])
       \/ ~matches /\ Proceed(a, o)
       \/ Proceed(a, [o EXCEPT !.unread = @ \cup {r}])
    /\ UNCHANGED <<rules, sessions, proc, script, said, calls, commands, changes>> /\ Observe

\* Looking rules up excludes changing them.
Locked == \E a \in Opens : open[a].stage = "hashing"

CheckSession(a) ==
    /\ open[a].stage = "session"
    /\ Continue(a, [open[a] EXCEPT !.pre = @ /\ IsSessionAllowed(open[a].id)])
    /\ UNCHANGED <<rules, sessions, proc, script, said, calls, commands, changes>> /\ Observe

-----------------------------------------------------------------------------
(* prompt_and_apply.  The question names the directions the open needs.    *)

\* The open with the user's consent.
Agreed(a) == [open[a] EXCEPT !.asked = open[a].needs]

AnswerOnce(a) ==
    /\ open[a].stage = "asking"
    /\ Granted(a, Agreed(a), "AllowOnce") \/ Refused(a)
    /\ UNCHANGED <<rules, sessions, proc, script, said, calls, commands, changes>> /\ Observe

\* No answer: default_choice.
FallBack(a) ==
    /\ open[a].stage = "asking"
    /\ IF Default = "allow" THEN Granted(a, Agreed(a), "AllowOnce") ELSE Refused(a)
    /\ UNCHANGED <<rules, sessions, proc, script, said, calls, commands, changes>> /\ Observe

AnswerSession(a) ==
    /\ open[a].stage = "asking"
    /\ sessions' = sessions \cup {open[a].id}
    /\ said' = [said EXCEPT !.sessions = @ \cup {open[a].id}]
    /\ Granted(a, Agreed(a), "AllowSession")
    /\ UNCHANGED <<rules, proc, script, calls, commands, changes>> /\ Observe

AnswerAlways(a, choice) ==
    /\ open[a].stage = "asking"
    /\ open' = [open EXCEPT ![a].stage = "persist", ![a].choice = choice]
    /\ UNCHANGED <<rules, sessions, proc, script, said, calls, commands, changes>> /\ Observe

\* persist_rule: the script is hashed now; the database may refuse the rule.
\* Without a rule the choice holds once.
Persist(a) ==
    LET o == open[a]
        kept == rules' = rules \cup {Learned(o, o.choice)} /\ Pinnable(o.id) /\ ~Locked
        lost == rules' = rules
    IN
    /\ o.stage = "persist"
    /\ \/ kept /\ o.choice = "allow" /\ Granted(a, Agreed(a), "AllowAlways")
       \/ kept /\ o.choice = "deny" /\ Refused(a)
       \/ lost /\ o.choice = "allow" /\ Granted(a, Agreed(a), "AllowOnce")
       \/ lost /\ o.choice = "deny" /\ Refused(a)
    /\ said' = IF o.choice = "allow" /\ rules' # rules
               THEN [said EXCEPT !.always = @ \cup
                       {[image |-> o.id.image, script |-> o.id.script,
                         pin |-> VersionOf(o.id, script)]}]
               ELSE said
    /\ UNCHANGED <<sessions, proc, script, calls, commands, changes>> /\ Observe

-----------------------------------------------------------------------------
(* The end of the call                                                     *)

\* Mutant: every handle reads.
HandleReads(o) ==
    [NoOpen EXCEPT !.stage = "open", !.canRead = TRUE, !.basis = o.basis,
                   !.access = IF "write" \in o.needs THEN "write" ELSE "read"]

\* OpenHandle.
Handle(o) ==
    [NoOpen EXCEPT !.stage = "open", !.canRead = ("read" \in o.needs), !.basis = o.basis,
                   !.access = IF "write" \in o.needs THEN "write" ELSE "read"]

\* A truncation is carried out, or fails; a handle is registered, for nobody
\* when the thread that waited for it is gone.
Complete(a) ==
    LET o == open[a] IN
    /\ o.stage = "granted"
    /\ \/ ~o.path /\ o.live /\ open' = [open EXCEPT ![a] = Handle(o)]
       \/ (o.path \/ o.trunc \/ ~o.live) /\ open' = [open EXCEPT ![a] = NoOpen]
    /\ UNCHANGED <<rules, sessions, proc, script, said, calls, commands, changes>> /\ Observe

\* release.
Close(a) ==
    /\ open[a].stage = "open"
    /\ open' = [open EXCEPT ![a] = NoOpen]
    /\ UNCHANGED <<rules, sessions, proc, script, said, calls, commands, changes>> /\ Observe

-----------------------------------------------------------------------------
(* Rule commands                                                           *)

Commanded(new) ==
    /\ ~Locked /\ commands < MaxCommands /\ commands' = commands + 1
    /\ rules' = new
    /\ said' = [said EXCEPT !.rules = @ \cup (new \ rules)]
    /\ UNCHANGED <<sessions, proc, script, open, calls, changes>> /\ Observe

AddRule(r) == r \notin rules /\ Commanded(rules \cup {r})

\* A change that makes two rules equal is refused.
EditRule(r, e) ==
    /\ r \in rules \ Declared /\ Edited(r, e) \notin rules \ {r}
    /\ Commanded((rules \ {r}) \cup {Edited(r, e)})

RemoveRule(r) == r \in rules \ Declared /\ Commanded(rules \ {r})

-----------------------------------------------------------------------------
(* The callers' processes and scripts, and the daemon's end                *)

Changed == changes < MaxChanges /\ changes' = changes + 1

\* The threads of p that wait for an answer are gone; descriptors stay open.
Interrupted(p) == open' = [a \in Opens |->
                             IF open[a].id.pid = p THEN [open[a] EXCEPT !.live = FALSE]
                             ELSE open[a]]

\* Process start time survives exec.
Exec(p, image, s) ==
    /\ proc[p].image # image \/ proc[p].script # s
    /\ s # NoScript => image \in Interpreters
    /\ Changed
    /\ proc' = [proc EXCEPT ![p].image = image, ![p].script = s]
    /\ Interrupted(p)
    /\ UNCHANGED <<rules, sessions, script, said, calls, commands>> /\ Observe

\* The process ends, and its id is given to another.
Reuse(p) ==
    /\ Changed
    /\ proc' = [proc EXCEPT ![p].start = @ + 1]
    /\ Interrupted(p)
    /\ UNCHANGED <<rules, sessions, script, said, calls, commands>> /\ Observe

\* A script is edited, replaced or removed.
EditScript(s, version) ==
    /\ script[s] # version /\ Changed
    /\ script' = [script EXCEPT ![s] = version]
    /\ UNCHANGED <<rules, sessions, proc, open, said, calls, commands>> /\ Observe

\* The daemon ends, with its mounts and its tasks, and starts again.
Restart ==
    /\ Changed
    /\ sessions' = {} /\ open' = [a \in Opens |-> NoOpen]
    /\ said' = [said EXCEPT !.sessions = {}]
    /\ UNCHANGED <<rules, proc, script, calls, commands>> /\ Observe

-----------------------------------------------------------------------------
(* The specification                                                       *)

Init ==
    /\ rules = Declared /\ sessions = {}
    /\ proc \in [Procs -> Identity]
    /\ \A p \in Procs : /\ proc[p].pid = p /\ proc[p].start = 0
                        /\ proc[p].script # NoScript => proc[p].image \in Interpreters
    /\ script \in [Scripts -> Versions]
    /\ open = [a \in Opens |-> NoOpen] /\ seen = [a \in Opens |-> NoSeen]
    /\ said = [rules |-> Declared, always |-> {}, sessions |-> {}]
    /\ calls = 0 /\ commands = 0 /\ changes = 0

OpenStep(a) ==
    \/ \E p \in Procs, kind \in Calls : Arrive(a, p, kind)
    \/ LookUp(a) \/ (\E r \in open[a].rest : Hash(a, r)) \/ CheckSession(a)
    \/ AnswerOnce(a) \/ FallBack(a) \/ AnswerSession(a)
    \/ \E choice \in {"allow", "deny"} : AnswerAlways(a, choice)
    \/ Persist(a) \/ Complete(a) \/ Close(a)

Command ==
    \/ \E r \in Entries : AddRule(r)
    \/ \E r \in rules : RemoveRule(r) \/ \E e \in Edits : EditRule(r, e)

Environment ==
    \/ \E p \in Procs : \/ Reuse(p)
                       \/ \E image \in Images, s \in Scripts \cup {NoScript} : Exec(p, image, s)
    \/ \E s \in Scripts, version \in Versions \cup {Absent} : EditScript(s, version)
    \/ Restart

Next == (\E a \in Opens : OpenStep(a)) \/ Command \/ Environment

Spec == Init /\ [][Next]_vars

-----------------------------------------------------------------------------
(* Properties                                                              *)

\* The type invariant.
TypeOK ==
    /\ rules \subseteq Rule /\ sessions \subseteq Identity
    /\ proc \in [Procs -> Identity] /\ script \in [Scripts -> Versions \cup {Absent}]
    /\ \A a \in Opens :
          /\ open[a].stage \in {"none", "lookup", "hashing", "session", "asking", "persist",
                                "granted", "open"}
          /\ open[a].needs \subseteq Dirs /\ open[a].basis \subseteq Dirs
          /\ open[a].access \in Dirs /\ open[a].canRead \in BOOLEAN
          /\ open[a].rest \cup open[a].unread \cup seen[a].denied \cup seen[a].allowed
                \subseteq Rule

\* What a decision, or a handle, lets its caller do to the file.
Exercisable(o) ==
    IF o.stage = "granted" THEN IF o.trunc THEN {"write"} ELSE {}
    ELSE IF o.stage = "open"
    THEN (IF o.canRead THEN {"read"} ELSE {}) \cup (IF o.access = "write" THEN {"write"} ELSE {})
    ELSE {}

\* Whatever a handle, or a truncation, lets a caller do to the file, in either
\* direction, somebody consented to for that caller: the user who was asked
\* about this open, with the verb of the question; the user who allowed this
\* process instance for its session, with the same image and script; the user
\* who allowed this image and these contents of the script for good; or an
\* administrator's rule.  However rules, scripts and processes change between
\* the consent and its use.
Authorised == \A a \in Opens : Exercisable(open[a]) \subseteq open[a].basis

\* No open is allowed although a rule denied a direction it needs, and matched
\* its caller, at every moment of the decision: no allow rule, no session grant,
\* no order of the rules, no other direction and no change of other rules hides a
\* deny.  One thing does: the script's hash, which a rule with a pin needs, could
\* not be made when that rule's turn came.
DenyThroughout == \A a \in Opens : open[a].stage = "granted" =>
    \A r \in seen[a].denied \ open[a].unread : \A d \in open[a].needs : ~Covers(r.access, d)

\* The directions that the session allowed from the open's arrival on, or one
\* rule that matched all along and whose hash, if it needs one, did not fail.
Authorized(o, s) ==
    {d \in o.needs : o.id \in s.grants \/ \E r \in s.allowed \ o.unread : Covers(r.access, d)}

\* The user is not asked about an open whose directions were all authorized
\* throughout.
AskedWhenNeeded ==
    \A a \in Opens : open[a].stage = "asking" => Authorized(open[a], seen[a]) # open[a].needs

\* Together, with the types: where an open is, and whom it asks.
AskingSound == TypeOK /\ AskedWhenNeeded

Decides(a) == open'[a].stage = "granted" /\ open[a].stage # "granted"

\* docs/architecture.md: "A verification or persistence failure never weakens
\* authorization".  A deny with a script's hash is skipped when hashing fails.
FailuresWeakenNothing == \A a \in Opens : open[a].stage = "granted" =>
    \A r \in seen[a].denied : \A d \in open[a].needs : ~Covers(r.access, d)

\* "any matching deny wins": rules do not allow an open if, at every moment of
\* its decision, one of them denied a direction it needs.  The two directions
\* are looked up one after the other: a rule changed in between from the one
\* to the other is met by neither.
AnyDenyWins == \A a \in Opens :
    open[a].stage = "granted" /\ open[a].asked = {} /\ open[a].unread = {} => ~seen[a].torn

\* "a deny rule wins outright": no open is allowed while a rule denies it.  A
\* rule made while the user is asked is not looked at again.
DenyInForceWins ==
    [][\A a \in Opens : Decides(a) =>
          Denied(rules', open'[a].id, script') \cap open'[a].needs = {}]_vars

\* AllowAlways is "Allowed by a persistent rule": such a rule is there when the
\* decision is made.  A session's grant is reported with the same decision.
AlwaysIsARule ==
    [][\A a \in Opens : Decides(a) /\ open'[a].decision = "AllowAlways" =>
          Allowed(rules', open'[a].id, script') # {}]_vars
=============================================================================
