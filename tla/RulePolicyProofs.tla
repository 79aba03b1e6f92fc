-------------------------- MODULE RulePolicyProofs --------------------------
(***************************************************************************)
(* Proofs about RulePolicy, for every set of opens, processes, images,     *)
(* scripts, rules and changes.                                             *)
(*                                                                         *)
(* The invariant follows a decision through the loop over its directions,  *)
(* and a look-up through the rules it has to hash for.  The directions and *)
(* rules behind it were consented to, by a rule or a session, or the user  *)
(* is asked; a deny among them that matched all along is one whose hash    *)
(* failed.  What a hash finds is true of the decision's history because    *)
(* the history is refreshed by every step: it never says more than what    *)
(* holds now.  And a rule that allows has somebody behind it, also when it *)
(* is gone: whoever wrote it, or a user whose permanent choice it is,      *)
(* pinned as that user saw it.                                             *)
(***************************************************************************)
EXTENDS RulePolicy, TLAPS

-----------------------------------------------------------------------------
(* The invariant                                                           *)

Choices == [image : Images, script : Scripts \cup {NoScript},
            pin : SUBSET (Versions \cup {Absent})]

Opening == [stage : {"none", "lookup", "hashing", "session", "asking", "persist", "granted",
                     "open"},
            id : Identity \cup {NoOpen.id}, needs : SUBSET Dirs,
            path : BOOLEAN, trunc : BOOLEAN, dir : Dirs, pre : BOOLEAN, live : BOOLEAN,
            rest : SUBSET Rule, hit : BOOLEAN, unread : SUBSET Rule,
            choice : {"none", "allow", "deny"}, asked : SUBSET Dirs,
            canRead : BOOLEAN, access : Dirs,
            decision : {"none", "AllowAlways", "AllowOnce", "AllowSession"},
            basis : SUBSET Dirs]

Seeing == [denied : SUBSET Rule, torn : BOOLEAN, allowed : SUBSET Rule, grants : SUBSET Identity,
           versions : SUBSET (Versions \cup {Absent})]

Types ==
    /\ rules \subseteq Rule /\ sessions \subseteq Identity
    /\ proc \in [Procs -> Identity] /\ script \in [Scripts -> Versions \cup {Absent}]
    /\ open \in [Opens -> Opening] /\ seen \in [Opens -> Seeing]
    /\ said \in [rules : SUBSET Rule, always : SUBSET Choices, sessions : SUBSET Identity]
    /\ changes \in 0 .. MaxChanges

\* Only an interpreter runs a script.
Runs(id) == id.script # NoScript => id.image \in Interpreters

\* A process is at most as many lives old as there were changes.
Callers == \A p \in Procs : Runs(proc[p]) /\ proc[p].start <= changes

\* The rule is what persist_rule makes of the permanent choice.
MadeOf(r, c) ==
    /\ r.image = c.image /\ r.script = c.script
    /\ c.script = NoScript => c.image \notin Interpreters /\ c.pin = {}
    /\ c.script # NoScript => c.pin = {r.pin} /\ r.pin # Unpinned

\* A rule that allows is an administrator's or a user's permanent choice.
Backed(r) == r.action = "allow" =>
    r \in said.rules \/ \E c \in said.always : MadeOf(r, c)

Founded == (\A r \in rules : Backed(r)) /\ sessions \subseteq said.sessions

\* The directions the loop has left behind.
Passed(o) == IF o.dir = "write" THEN o.needs \ {"write"} ELSE {}

\* The history of a decision never says more than what holds now.
Fresh(o, s) ==
    /\ s.denied \subseteq Matching(rules, o.id, script, "deny")
    /\ s.allowed \subseteq Matching(rules, o.id, script, "allow")
    /\ s.grants \subseteq sessions
    /\ VersionOf(o.id, script) \subseteq s.versions

\* None of these rules bears on the direction.
Silent(some, dir) == \A r \in some : ~Covers(r.access, dir)

\* None denied one of these directions all along, unless its hash failed.
Undenied(o, s, dirs) == \A d \in dirs : Silent(s.denied \ o.unread, d)

\* The loop over the directions.
Looping(o, s) ==
    /\ o.dir \in o.needs
    /\ o.pre => \A d \in Passed(o) : Consented(o.id, s.versions, d)
    /\ Undenied(o, s, Passed(o))

\* A look-up of one of them, with these rules left.
Looking(o, s) ==
    /\ \A r \in o.rest : Covers(r.access, o.dir) /\ Names(r, o.id) /\ Pins(r) /\ Backed(r)
    /\ o.hit => Consented(o.id, s.versions, o.dir)
    /\ Silent(s.denied \ (o.unread \cup o.rest), o.dir)
    /\ ~o.hit => Silent(s.allowed \ (o.unread \cup o.rest), o.dir)

\* Every stage of a decision.
DecisionKept(o, s) ==
    /\ o.id \in Identity /\ Runs(o.id) /\ Fresh(o, s)
    /\ ~o.pre => Authorized(o, s) # o.needs
    /\ o.stage \in {"lookup", "hashing", "session"} => Looping(o, s)
    /\ o.stage = "hashing" => Looking(o, s)
    /\ o.stage = "session" => Undenied(o, s, {o.dir}) /\ Silent(s.allowed \ o.unread, o.dir)
    /\ o.stage \in {"asking", "persist"} => Undenied(o, s, o.needs) /\ ~o.pre
    /\ o.stage = "persist" => o.choice # "none"

\* What was consented to, and what it lets the caller do.
OutcomeKept(o, s) ==
    /\ o.stage # "none" /\ o.trunc => "write" \in o.needs
    /\ o.stage = "granted" => o.basis = o.needs /\ Undenied(o, s, o.needs)
    /\ o.stage = "open" => Exercisable(o) \subseteq o.basis

Decisions == \A a \in Opens : /\ Deciding(open[a]) => DecisionKept(open[a], seen[a])
                              /\ OutcomeKept(open[a], seen[a])

Kept == Types /\ Callers /\ Founded /\ Decisions

-----------------------------------------------------------------------------
(* Lemmas about the operators                                              *)

\* Kinds of call: what each needs, and that a truncation needs to write.
LEMMA KindsTyped ==
    ASSUME NEW kind \in Calls
    PROVE  /\ Kinds[kind].needs \in SUBSET Dirs /\ Kinds[kind].needs # {}
           /\ Kinds[kind].trunc \in BOOLEAN /\ Kinds[kind].path \in BOOLEAN
           /\ Kinds[kind].trunc => "write" \in Kinds[kind].needs
<1>1. kind \in {"rdonly", "wronly", "rdwr", "rdtrunc", "wrtrunc", "truncate"}
  BY CallsAssumption DEF Kinds
<1>2. CASE kind = "rdonly"
  BY <1>2 DEF Kinds, Dirs
<1>3. CASE kind = "wronly"
  BY <1>3 DEF Kinds, Dirs
<1>4. CASE kind = "rdwr"
  BY <1>4 DEF Kinds, Dirs
<1>5. CASE kind = "rdtrunc"
  BY <1>5 DEF Kinds, Dirs
<1>6. CASE kind = "wrtrunc"
  BY <1>6 DEF Kinds, Dirs
<1>7. CASE kind = "truncate"
  BY <1>7 DEF Kinds, Dirs
<1> QED
  BY <1>1, <1>2, <1>3, <1>4, <1>5, <1>6, <1>7

\* The less is held against them, the fewer directions are authorized.
LEMMA FewerAuthorized ==
    ASSUME NEW o, NEW n, NEW s, NEW t, n.needs = o.needs, o.unread \subseteq n.unread, n.id = o.id,
           t.allowed \subseteq s.allowed, t.grants \subseteq s.grants,
           Authorized(o, s) # o.needs
    PROVE  Authorized(n, t) # n.needs
<1>1. Authorized(n, t) \subseteq Authorized(o, s) /\ Authorized(o, s) \subseteq o.needs
  BY DEF Authorized
<1> QED
  BY <1>1

\* The same of the denials.
LEMMA FewerDenials ==
    ASSUME NEW o, NEW n, NEW s, NEW t, NEW D, NEW E, E \subseteq D, o.unread \subseteq n.unread,
           t.denied \subseteq s.denied, Undenied(o, s, D)
    PROVE  Undenied(n, t, E)
BY DEF Undenied, Silent

\* A rule that allows an identity has somebody's consent behind it.
LEMMA RuleConsents ==
    ASSUME Types, NEW id \in Identity, Runs(id), NEW dir \in Dirs, NEW versions,
           VersionOf(id, script) \subseteq versions,
           NEW r \in Rule, r.action = "allow", Backed(r), Covers(r.access, dir),
           IdentityMatches(r, id, script)
    PROVE  Consented(id, versions, dir)
<1>2. CASE r \in said.rules
  <2>1. /\ r.image \in {Unpinned, id.image} /\ r.script \in {NoScript, id.script}
        /\ r.script = NoScript \/ r.pin = Unpinned \/ r.pin = script[id.script]
    BY DEF IdentityMatches, Names, Pins, HashMatches
  <2>2. r.script = NoScript \/ r.pin \in versions \cup {Unpinned}
    BY <2>1 DEF VersionOf
  <2> QED
    BY <1>2, <2>1, <2>2 DEF Consented, Covers
<1>3. ASSUME NEW c \in said.always, MadeOf(r, c)
      PROVE  Consented(id, versions, dir)
  <2>1. c \in Choices
    BY DEF Types
  <2>2. c.image = id.image
    BY <1>3, <2>1, RulePolicyAssumption DEF MadeOf, IdentityMatches, Names, Choices
  <2>3. CASE c.script = NoScript
    <3>1. id.script = NoScript
      BY <1>3, <2>2, <2>3 DEF MadeOf, Runs
    <3> QED
      BY <1>3, <2>2, <2>3, <3>1 DEF MadeOf, Consented
  <2>4. CASE c.script # NoScript
    <3>1. /\ c.pin = {r.pin} /\ r.script = id.script /\ id.script # NoScript
          /\ r.pin = script[id.script]
      BY <1>3, <2>4 DEF MadeOf, IdentityMatches, Names, Pins, HashMatches
    <3>2. c.pin \subseteq versions
      BY <3>1 DEF VersionOf
    <3> QED
      BY <1>3, <2>2, <3>1, <3>2 DEF MadeOf, Consented
  <2> QED
    BY <2>3, <2>4
<1> QED
  BY <1>2, <1>3 DEF Backed

\* What people said, and the grants, only grow.
Growing == /\ said.rules \subseteq said'.rules /\ said.always \subseteq said'.always
           /\ said.sessions \subseteq said'.sessions /\ sessions \subseteq sessions'

\* A consent is not taken back.
LEMMA ConsentGrows ==
    ASSUME Growing, NEW id, NEW V, NEW W, V \subseteq W, NEW dir, Consented(id, V, dir)
    PROVE  Consented(id, W, dir)'
<1>1. CASE \E r \in said.rules :
              /\ r.action = "allow" /\ r.access \in {"any", dir}
              /\ r.image \in {Unpinned, id.image} /\ r.script \in {NoScript, id.script}
              /\ r.script = NoScript \/ r.pin \in V \cup {Unpinned}
  <2>1. PICK r \in said.rules :
              /\ r.action = "allow" /\ r.access \in {"any", dir}
              /\ r.image \in {Unpinned, id.image} /\ r.script \in {NoScript, id.script}
              /\ r.script = NoScript \/ r.pin \in V \cup {Unpinned}
    BY <1>1
  <2>2. r \in said'.rules /\ (r.script = NoScript \/ r.pin \in W \cup {Unpinned})
    BY <2>1 DEF Growing
  <2> QED
    BY <2>1, <2>2 DEF Consented
<1>2. CASE \E c \in said.always : c.image = id.image /\ c.script = id.script /\ c.pin \subseteq V
  <2>1. \E c \in said'.always : c.image = id.image /\ c.script = id.script /\ c.pin \subseteq W
    BY <1>2 DEF Growing
  <2> QED
    BY <2>1 DEF Consented
<1>3. CASE id \in said.sessions
  BY <1>3 DEF Consented, Growing
<1> QED
  BY <1>1, <1>2, <1>3 DEF Consented

-----------------------------------------------------------------------------
(* The history, which every step refreshes                                 *)

\* What the history of an open becomes.
LEMMA Seen ==
    ASSUME Observe, NEW a \in Opens
    PROVE  /\ Deciding(open'[a]) /\ Deciding(open[a]) =>
                 seen'[a] = Sight(open'[a], seen[a], rules', script', sessions')
           /\ Deciding(open'[a]) /\ ~Deciding(open[a]) =>
                 seen'[a] = FirstSight(open'[a], rules', script', sessions')
           /\ open'[a].stage = "granted" /\ open[a].stage # "granted" => seen'[a] = seen[a]
           /\ open'[a].stage = "granted" /\ open[a].stage = "granted" => seen'[a] = NoSeen
           /\ open'[a].stage \in {"none", "open"} => seen'[a] = NoSeen
BY DEF Observe, Deciding

\* The history of a decision says no more than what holds now.
LEMMA FreshNow ==
    ASSUME Observe, NEW a \in Opens, Deciding(open'[a])
    PROVE  Fresh(open[a], seen[a])'
<1>1. CASE ~Deciding(open[a])
  <2>1. seen'[a] = FirstSight(open'[a], rules', script', sessions')
    BY <1>1, Seen
  <2> QED
    BY <2>1 DEF Fresh, FirstSight
<1>2. CASE Deciding(open[a])
  <2>1. seen'[a] = Sight(open'[a], seen[a], rules', script', sessions')
    BY <1>2, Seen
  <2> QED
    BY <2>1 DEF Fresh, Sight, FirstSight
<1> QED
  BY <1>1, <1>2

\* While a decision goes on, less and less held all along it.
LEMMA SeenShrinks ==
    ASSUME Observe, NEW a \in Opens, Deciding(open'[a]), Deciding(open[a])
    PROVE  /\ seen'[a].denied \subseteq seen[a].denied
           /\ seen'[a].allowed \subseteq seen[a].allowed
           /\ seen'[a].grants \subseteq seen[a].grants
           /\ seen[a].versions \subseteq seen'[a].versions
<1>1. seen'[a] = Sight(open'[a], seen[a], rules', script', sessions')
  BY Seen
<1> QED
  BY <1>1 DEF Sight

\* A first look at an open, by the types.
LEMMA FirstSightTyped ==
    ASSUME NEW o, o.id \in Identity, NEW in \in SUBSET Rule, NEW granted,
           NEW disk \in [Scripts -> Versions \cup {Absent}]
    PROVE  FirstSight(o, in, disk, granted) \in Seeing
<1>1. /\ Matching(in, o.id, disk, "deny") \in SUBSET Rule
      /\ Matching(in, o.id, disk, "allow") \in SUBSET Rule
  BY DEF Matching
<1>2. VersionOf(o.id, disk) \in SUBSET (Versions \cup {Absent})
  BY DEF VersionOf, Identity
<1>3. (Denied(in, o.id, disk) \cap o.needs # {}) \in BOOLEAN /\ {o.id} \cap granted \in SUBSET Identity
  OBVIOUS
<1> QED
  BY <1>1, <1>2, <1>3 DEF FirstSight, Seeing

\* The history keeps its type.
LEMMA SeenTyped ==
    ASSUME Types, Observe, script' \in [Scripts -> Versions \cup {Absent}],
           rules' \subseteq Rule, open' \in [Opens -> Opening],
           \A a \in Opens : Deciding(open'[a]) => open'[a].id \in Identity
    PROVE  seen' \in [Opens -> Seeing]
<1>1. NoSeen \in Seeing
  BY DEF NoSeen, Seeing
<1>2. ASSUME NEW a \in Opens
      PROVE  seen'[a] \in Seeing
  <2>1. open'[a] \in Opening /\ seen[a] \in Seeing
    BY DEF Types
  <2>2. CASE ~Deciding(open'[a])
    <3>1. open'[a].stage \in {"none", "granted", "open"}
      BY <2>1, <2>2 DEF Opening, Deciding
    <3> QED
      BY <1>1, <2>1, <3>1, Seen
  <2>3. CASE Deciding(open'[a])
    <3> DEFINE now == FirstSight(open'[a], rules', script', sessions')
    <3>1. now \in Seeing
      BY <2>1, <2>3, FirstSightTyped DEF Opening
    <3>2. seen'[a] = now \/ seen'[a] = Sight(open'[a], seen[a], rules', script', sessions')
      BY <2>3, Seen
    <3>3. Sight(open'[a], seen[a], rules', script', sessions') =
             [denied |-> seen[a].denied \cap now.denied, torn |-> seen[a].torn /\ now.torn,
              allowed |-> seen[a].allowed \cap now.allowed,
              grants |-> seen[a].grants \cap now.grants,
              versions |-> seen[a].versions \cup now.versions]
      BY DEF Sight
    <3> HIDE DEF now
    <3>4. /\ seen[a].denied \cap now.denied \in SUBSET Rule
          /\ seen[a].allowed \cap now.allowed \in SUBSET Rule
          /\ seen[a].grants \cap now.grants \in SUBSET Identity
          /\ seen[a].versions \cup now.versions \in SUBSET (Versions \cup {Absent})
      BY <2>1, <3>1 DEF Seeing
    <3>5. (seen[a].torn /\ now.torn) \in BOOLEAN
      OBVIOUS
    <3>6. Sight(open'[a], seen[a], rules', script', sessions') \in Seeing
      BY <3>3, <3>4, <3>5 DEF Seeing
    <3> QED
      BY <3>1, <3>2, <3>6
  <2> QED
    BY <2>2, <2>3
<1>3. seen' = [a \in Opens |-> seen'[a]]
  BY DEF Observe
<1> QED
  BY <1>2, <1>3

-----------------------------------------------------------------------------
(* Opens that a step does not move                                         *)

\* The open is where it was, its caller's thread waiting or gone.
Same(a) == open'[a] = open[a] \/ open'[a] = [open[a] EXCEPT !.live = FALSE]

LEMMA SameFields ==
    ASSUME Types, NEW a \in Opens, Same(a)
    PROVE  /\ open'[a] \in Opening
           /\ open'[a].stage = open[a].stage /\ open'[a].id = open[a].id
           /\ open'[a].needs = open[a].needs /\ open'[a].trunc = open[a].trunc
           /\ open'[a].dir = open[a].dir /\ open'[a].pre = open[a].pre
           /\ open'[a].choice = open[a].choice /\ open'[a].canRead = open[a].canRead
           /\ open'[a].access = open[a].access /\ open'[a].basis = open[a].basis
           /\ open'[a].rest = open[a].rest /\ open'[a].hit = open[a].hit
           /\ open'[a].unread = open[a].unread
<1>1. open[a] \in Opening
  BY DEF Types
<1> QED
  BY <1>1 DEF Opening, Same

\* What holds of a decision holds of it while others, or the world, go on.
LEMMA SameDecision ==
    ASSUME Types, Observe, Growing, NEW a \in Opens, Same(a), Deciding(open[a]),
           DecisionKept(open[a], seen[a])
    PROVE  DecisionKept(open[a], seen[a])'
<1> DEFINE o == open[a]
           n == open'[a]
<1>1. /\ n.stage = o.stage /\ n.id = o.id /\ n.needs = o.needs /\ n.dir = o.dir
      /\ n.pre = o.pre /\ n.choice = o.choice /\ n.rest = o.rest /\ n.hit = o.hit
      /\ n.unread = o.unread
  BY SameFields
<1>2. Deciding(n)
  BY <1>1 DEF Deciding
<1>3. /\ seen'[a].denied \subseteq seen[a].denied
      /\ seen'[a].allowed \subseteq seen[a].allowed
      /\ seen'[a].grants \subseteq seen[a].grants
      /\ seen[a].versions \subseteq seen'[a].versions
  BY <1>2, SeenShrinks
<1>4. Fresh(open[a], seen[a])'
  BY <1>2, FreshNow
<1>5. o.id \in Identity /\ Runs(n.id)
  BY <1>1 DEF DecisionKept, Runs
<1>6. ~n.pre => Authorized(n, seen'[a]) # n.needs
  BY <1>1, <1>3, FewerAuthorized DEF DecisionKept
<1>7. ASSUME NEW d, Consented(o.id, seen[a].versions, d)
      PROVE  Consented(open[a].id, seen[a].versions, d)'
  <2>1. PICK id, V, W : id = o.id /\ V = seen[a].versions /\ W = seen'[a].versions
    OBVIOUS
  <2>2. Consented(id, V, d) /\ V \subseteq W
    BY <1>3, <1>7, <2>1
  <2>3. Consented(id, W, d)'
    BY <2>2, ConsentGrows
  <2> QED
    BY <1>1, <2>1, <2>3 DEF Consented
<1>8. ASSUME o.stage \in {"lookup", "hashing", "session"}
      PROVE  Looping(open[a], seen[a])'
  <2>1. Looping(o, seen[a])
    BY <1>8 DEF DecisionKept
  <2>2. Passed(n) = Passed(o)
    BY <1>1 DEF Passed
  <2>3. n.dir \in n.needs /\ Undenied(n, seen'[a], Passed(n))
    BY <1>1, <1>3, <2>1, <2>2, FewerDenials DEF Looping
  <2> QED
    BY <1>1, <1>7, <2>1, <2>2, <2>3 DEF Looping
<1>9. ASSUME o.stage = "hashing"
      PROVE  Looking(open[a], seen[a])'
  <2>1. Looking(o, seen[a])
    BY <1>9 DEF DecisionKept
  <2>2. ASSUME NEW r \in n.rest
        PROVE  Covers(r.access, n.dir) /\ Names(r, n.id) /\ Pins(r) /\ Backed(r)'
    <3>1. Covers(r.access, o.dir) /\ Names(r, o.id) /\ Pins(r) /\ Backed(r)
      BY <1>1, <2>1, <2>2 DEF Looking
    <3>2. Backed(r)'
      BY <3>1 DEF Backed, Growing, MadeOf
    <3> QED
      BY <1>1, <3>1, <3>2
  <2>3. n.hit => Consented(open[a].id, seen[a].versions, open[a].dir)'
    BY <1>1, <1>7, <2>1 DEF Looking
  <2>4. /\ Silent(seen'[a].denied \ (n.unread \cup n.rest), n.dir)
        /\ ~n.hit => Silent(seen'[a].allowed \ (n.unread \cup n.rest), n.dir)
    BY <1>1, <1>3, <2>1 DEF Looking, Silent
  <2> QED
    BY <2>2, <2>3, <2>4 DEF Looking, Names
<1>10. ASSUME o.stage = "session"
       PROVE  Undenied(n, seen'[a], {n.dir}) /\ Silent(seen'[a].allowed \ n.unread, n.dir)
  <2>1. Undenied(o, seen[a], {o.dir}) /\ Silent(seen[a].allowed \ o.unread, o.dir)
    BY <1>10 DEF DecisionKept
  <2>2. Silent(seen'[a].allowed \ n.unread, n.dir)
    BY <1>1, <1>3, <2>1 DEF Silent
  <2> QED
    BY <1>1, <1>3, <2>1, <2>2, FewerDenials
<1>11. n.stage \in {"asking", "persist"} => Undenied(n, seen'[a], n.needs) /\ ~n.pre
  BY <1>1, <1>3, FewerDenials DEF DecisionKept
<1>12. n.stage = "persist" => n.choice # "none"
  BY <1>1 DEF DecisionKept
<1> QED
  BY <1>1, <1>4, <1>5, <1>6, <1>8, <1>9, <1>10, <1>11, <1>12 DEF DecisionKept

LEMMA SameOutcome ==
    ASSUME Types, Observe, NEW a \in Opens, Same(a), OutcomeKept(open[a], seen[a])
    PROVE  OutcomeKept(open[a], seen[a])'
<1> DEFINE o == open[a]
           n == open'[a]
<1>1. /\ n.stage = o.stage /\ n.needs = o.needs /\ n.trunc = o.trunc
      /\ n.canRead = o.canRead /\ n.access = o.access /\ n.basis = o.basis
  BY SameFields
<1>2. ASSUME n.stage = "granted"
      PROVE  n.basis = n.needs /\ Undenied(n, seen'[a], n.needs)
  <2>1. seen'[a] = NoSeen
    BY <1>1, <1>2, Seen
  <2> QED
    BY <1>1, <1>2, <2>1 DEF OutcomeKept, NoSeen, Undenied, Silent
<1>3. Exercisable(n) = Exercisable(o)
  BY <1>1 DEF Exercisable
<1> QED
  BY <1>1, <1>2, <1>3 DEF OutcomeKept

-----------------------------------------------------------------------------
(* The open that a step moves                                              *)

Moves(b) == \E n \in Opening : open' = [open EXCEPT ![b] = n]

\* Where it comes to, the invariant holds of it.
Lands(b) == /\ Deciding(open'[b]) => DecisionKept(open[b], seen[b])'
            /\ OutcomeKept(open[b], seen[b])'

\* A step that moves one open, and may make a rule or a grant, keeps it all.
LEMMA MovedKept ==
    ASSUME Kept, Observe, Growing, NEW b \in Opens, Moves(b), Lands(b),
           rules' \subseteq Rule, sessions' \subseteq Identity,
           said' \in [rules : SUBSET Rule, always : SUBSET Choices, sessions : SUBSET Identity],
           UNCHANGED <<proc, script, changes>>, Founded'
    PROVE  Kept'
<1>1. open' \in [Opens -> Opening]
  BY DEF Moves, Kept, Types
<1>2. ASSUME NEW a \in Opens
      PROVE  /\ Deciding(open'[a]) => DecisionKept(open[a], seen[a])'
             /\ OutcomeKept(open[a], seen[a])'
  <2>1. CASE a = b
    BY <2>1 DEF Lands
  <2>2. CASE a # b
    <3>1. Same(a)
      BY <2>2 DEF Moves, Same, Kept, Types
    <3>2. Deciding(open'[a]) => Deciding(open[a])
      BY <3>1, SameFields DEF Deciding, Kept
    <3> QED
      BY <3>1, <3>2, SameDecision, SameOutcome DEF Kept, Decisions
  <2> QED
    BY <2>1, <2>2
<1>3. Decisions'
  BY <1>2 DEF Decisions
<1>4. \A a \in Opens : Deciding(open'[a]) => open'[a].id \in Identity
  BY <1>2 DEF DecisionKept
<1>5. script' \in [Scripts -> Versions \cup {Absent}]
  BY DEF Kept, Types
<1>6. seen' \in [Opens -> Seeing]
  BY <1>1, <1>4, <1>5, SeenTyped DEF Kept
<1>7. Types'
  BY <1>1, <1>5, <1>6 DEF Kept, Types
<1>8. Callers'
  BY DEF Kept, Callers
<1> QED
  BY <1>3, <1>7, <1>8 DEF Kept

\* The same of a step that only moves an open.
LEMMA QuietKept ==
    ASSUME Kept, Observe, NEW b \in Opens, Moves(b), Lands(b),
           UNCHANGED <<rules, sessions, proc, script, said, changes>>
    PROVE  Kept'
<1>1. Growing
  BY DEF Growing
<1>2. Founded'
  BY DEF Kept, Founded, Backed, MadeOf
<1>3. /\ rules' \subseteq Rule /\ sessions' \subseteq Identity
      /\ said' \in [rules : SUBSET Rule, always : SUBSET Choices, sessions : SUBSET Identity]
  BY DEF Kept, Types
<1> QED
  BY <1>1, <1>2, <1>3, MovedKept

LEMMA NoOpenTyped == NoOpen \in Opening /\ NoOpen.stage = "none" /\ NoOpen.unread = {}
BY DEF NoOpen, Opening, Dirs

\* A refused open is no more.
LEMMA RefusedLands ==
    ASSUME Kept, Observe, NEW b \in Opens, Refused(b)
    PROVE  Moves(b) /\ Lands(b)
<1>1. open' = [open EXCEPT ![b] = NoOpen] /\ open'[b] = NoOpen
  BY DEF Refused, Kept, Types
<1>2. Moves(b)
  BY <1>1, NoOpenTyped DEF Moves
<1>3. ~Deciding(open'[b]) /\ OutcomeKept(open[b], seen[b])'
  BY <1>1, NoOpenTyped DEF Deciding, OutcomeKept
<1> QED
  BY <1>2, <1>3 DEF Lands

\* An open is granted with the consent that all its directions have.
LEMMA GrantedLands ==
    ASSUME Kept, Observe, NEW b \in Opens, Deciding(open[b]), NEW o \in Opening,
           Undenied(o, seen[b], o.needs), NEW decision \in {"AllowAlways", "AllowOnce", "AllowSession"},
           Granted(b, o, decision), o.trunc => "write" \in o.needs,
           Basis(o, seen[b]) = o.needs
    PROVE  Moves(b) /\ Lands(b)
<1> DEFINE n == [o EXCEPT !.stage = "granted", !.decision = decision, !.basis = o.needs]
<1>1. /\ n \in Opening /\ n.stage = "granted" /\ n.basis = n.needs /\ n.needs = o.needs
      /\ n.unread = o.unread /\ (n.trunc => "write" \in n.needs)
  BY DEF Opening
<1>2. open' = [open EXCEPT ![b] = n]
  BY DEF Granted
<1> HIDE DEF n
<1>3. open'[b] = n /\ open[b].stage # "granted"
  BY <1>2 DEF Kept, Types, Deciding
<1>4. Moves(b)
  BY <1>1, <1>2 DEF Moves
<1>5. Undenied(n, seen'[b], n.needs)
  BY <1>1, <1>3, Seen DEF Undenied
<1>6. ~Deciding(open'[b]) /\ OutcomeKept(open[b], seen[b])'
  BY <1>1, <1>3, <1>5 DEF Deciding, OutcomeKept
<1> QED
  BY <1>4, <1>6 DEF Lands

-----------------------------------------------------------------------------
(* The loop over the directions                                            *)

Quiet == UNCHANGED <<rules, sessions, proc, script, said, changes>>

\* A decision's open, and what is known of it.
LEMMA Underway ==
    ASSUME Kept, NEW b \in Opens, Deciding(open[b])
    PROVE  /\ open[b] \in Opening /\ seen[b] \in Seeing
           /\ DecisionKept(open[b], seen[b])
           /\ open[b].trunc => "write" \in open[b].needs
BY DEF Kept, Types, Decisions, OutcomeKept, Deciding

\* A consent by now holds after a step that only moves an open.
LEMMA ConsentHolds ==
    ASSUME Quiet, NEW id, NEW V, NEW W, V \subseteq W, NEW dir, Consented(id, V, dir)
    PROVE  Consented(id, W, dir)'
<1>1. Growing
  BY DEF Quiet, Growing
<1> QED
  BY <1>1, ConsentGrows

\* From one direction to the next, or to the end of the loop.
LEMMA ContinueKept ==
    ASSUME Kept, Observe, Quiet, NEW b \in Opens, 
           open[b].stage \in {"lookup", "hashing", "session"},
           NEW o \in Opening, o.id = open[b].id, o.needs = open[b].needs,
           o.dir = open[b].dir, o.trunc = open[b].trunc, open[b].unread \subseteq o.unread,
           Undenied(o, seen[b], {o.dir}),
           o.pre => \A d \in Passed(o) \cup {o.dir} : Consented(o.id, seen[b].versions, d),
           ~o.pre => Authorized(o, seen[b]) # o.needs,
           Continue(b, o)
    PROVE  Kept'
<1>1. Deciding(open[b])
  BY DEF Deciding
<1>2. /\ seen[b] \in Seeing /\ DecisionKept(open[b], seen[b])
      /\ o.trunc => "write" \in o.needs
  BY <1>1, Underway
<1>3. o.id \in Identity /\ Runs(o.id) /\ o.dir \in o.needs /\ Undenied(o, seen[b], Passed(o))
  <2>1. Looping(open[b], seen[b]) /\ open[b].id \in Identity /\ Runs(open[b].id)
    BY <1>2 DEF DecisionKept
  <2>2. Passed(o) = Passed(open[b])
    BY DEF Passed
  <2>3. Undenied(o, seen[b], Passed(o))
    BY <2>1, <2>2, FewerDenials DEF Looping
  <2> QED
    BY <2>1, <2>3 DEF Looping
<1>4. o.needs \subseteq Dirs /\ o.dir \in Dirs
  BY DEF Opening
<1>5. CASE o.dir = "read" /\ "write" \in o.needs
  <2> DEFINE n == [o EXCEPT !.stage = "lookup", !.dir = "write"]
  <2>1. /\ n \in Opening /\ n.stage = "lookup" /\ n.dir = "write" /\ n.id = o.id
        /\ n.needs = o.needs /\ n.pre = o.pre /\ n.trunc = o.trunc /\ n.unread = o.unread
    BY <1>4, <1>5 DEF Opening
  <2>2. open' = [open EXCEPT ![b] = n]
    BY <1>5 DEF Continue
  <2> HIDE DEF n
  <2>3. open'[b] = n
    BY <2>2 DEF Kept, Types
  <2>4. Deciding(open'[b])
    BY <2>1, <2>3 DEF Deciding
  <2>5. /\ seen'[b].denied \subseteq seen[b].denied
        /\ seen'[b].allowed \subseteq seen[b].allowed
        /\ seen'[b].grants \subseteq seen[b].grants
        /\ seen[b].versions \subseteq seen'[b].versions
    BY <1>1, <2>4, SeenShrinks
  <2>6. Fresh(open[b], seen[b])'
    BY <2>4, FreshNow
  <2>7. Passed(n) \subseteq {o.dir}
    BY <1>4, <1>5, <2>1 DEF Passed, Dirs
  <2>8. ASSUME n.pre, NEW d \in Passed(n)
        PROVE  Consented(open[b].id, seen[b].versions, d)'
    <3>1. PICK id, V, W : id = o.id /\ V = seen[b].versions /\ W = seen'[b].versions
      OBVIOUS
    <3>2. Consented(id, V, d) /\ V \subseteq W
      BY <2>1, <2>5, <2>7, <2>8, <3>1
    <3>3. Consented(id, W, d)'
      BY <3>2, ConsentHolds
    <3> QED
      BY <2>1, <2>3, <3>1, <3>3 DEF Consented
  <2>9. Undenied(n, seen'[b], Passed(n)) /\ n.dir \in n.needs
    BY <1>5, <2>1, <2>5, <2>7, FewerDenials
  <2>10. Looping(open[b], seen[b])'
    BY <2>3, <2>8, <2>9 DEF Looping
  <2>11. ~n.pre => Authorized(n, seen'[b]) # n.needs
    BY <2>1, <2>5, FewerAuthorized
  <2>12. n.id \in Identity /\ Runs(n.id)
    BY <1>3, <2>1
  <2>13. DecisionKept(open[b], seen[b])'
    BY <2>1, <2>3, <2>6, <2>10, <2>11, <2>12 DEF DecisionKept, Runs
  <2>14. OutcomeKept(open[b], seen[b])'
    BY <1>2, <2>1, <2>3 DEF OutcomeKept
  <2>15. Moves(b) /\ Lands(b)
    BY <2>1, <2>2, <2>13, <2>14 DEF Moves, Lands
  <2> QED
    BY <2>15, QuietKept DEF Quiet
<1>6. CASE ~(o.dir = "read" /\ "write" \in o.needs)
  <2>1. o.needs \subseteq Passed(o) \cup {o.dir}
    BY <1>4, <1>6 DEF Passed, Dirs
  <2>2. Undenied(o, seen[b], o.needs)
    BY <1>3, <2>1 DEF Undenied
  <2>3. CASE o.pre
    <3>1. Granted(b, o, "AllowAlways")
      BY <1>6, <2>3 DEF Continue
    <3>2. Basis(o, seen[b]) = o.needs
      BY <2>1, <2>3 DEF Basis
    <3>3. Moves(b) /\ Lands(b)
      BY <1>1, <1>2, <2>2, <3>1, <3>2, GrantedLands
    <3> QED
      BY <3>3, QuietKept DEF Quiet
  <2>4. CASE ~o.pre
    <3> DEFINE n == [o EXCEPT !.stage = "asking"]
    <3>1. /\ n \in Opening /\ n.stage = "asking" /\ n.id = o.id /\ ~n.pre
          /\ n.needs = o.needs /\ n.trunc = o.trunc /\ n.unread = o.unread
      BY <2>4 DEF Opening
    <3>2. open' = [open EXCEPT ![b] = n]
      BY <1>6, <2>4 DEF Continue
    <3> HIDE DEF n
    <3>3. open'[b] = n
      BY <3>2 DEF Kept, Types
    <3>4. Deciding(open'[b])
      BY <3>1, <3>3 DEF Deciding
    <3>5. /\ seen'[b].denied \subseteq seen[b].denied
          /\ seen'[b].allowed \subseteq seen[b].allowed
          /\ seen'[b].grants \subseteq seen[b].grants
      BY <1>1, <3>4, SeenShrinks
    <3>6. Fresh(open[b], seen[b])'
      BY <3>4, FreshNow
    <3>7. Authorized(n, seen'[b]) # n.needs /\ Undenied(n, seen'[b], n.needs)
      BY <2>2, <2>4, <3>1, <3>5, FewerAuthorized, FewerDenials
    <3>8. DecisionKept(open[b], seen[b])'
      BY <1>3, <3>1, <3>3, <3>6, <3>7 DEF DecisionKept, Runs
    <3>9. OutcomeKept(open[b], seen[b])'
      BY <1>2, <3>1, <3>3 DEF OutcomeKept
    <3>10. Moves(b) /\ Lands(b)
      BY <3>1, <3>2, <3>8, <3>9 DEF Moves, Lands
    <3> QED
      BY <3>10, QuietKept DEF Quiet
  <2> QED
    BY <2>3, <2>4
<1> QED
  BY <1>5, <1>6

\* To the rules left, to the end of the look-up, or beyond it.
LEMMA ProceedKept ==
    ASSUME Kept, Observe, Quiet, NEW b \in Opens, open[b].stage \in {"lookup", "hashing"},
           NEW o \in Opening, o.id = open[b].id, o.needs = open[b].needs,
           o.dir = open[b].dir, o.trunc = open[b].trunc, o.pre = open[b].pre,
           open[b].unread \subseteq o.unread,
           Looking(o, seen[b]), Proceed(b, o)
    PROVE  Kept'
<1>1. Deciding(open[b])
  BY DEF Deciding
<1>2. /\ seen[b] \in Seeing /\ DecisionKept(open[b], seen[b])
      /\ o.trunc => "write" \in o.needs
  BY <1>1, Underway
<1>3. Looping(open[b], seen[b]) /\ o.id \in Identity /\ Runs(o.id)
  BY <1>2 DEF DecisionKept
<1>4. Passed(o) = Passed(open[b])
  BY DEF Passed
<1>5. ~o.pre => Authorized(o, seen[b]) # o.needs
  BY <1>2, FewerAuthorized DEF DecisionKept
<1>6. Undenied(o, seen[b], Passed(o))
  BY <1>3, <1>4, FewerDenials DEF Looping
<1>7. CASE o.rest = {} /\ o.hit
  <2>1. PICK n : n = [o EXCEPT !.hit = FALSE]
    OBVIOUS
  <2>2. /\ n \in Opening /\ n.id = o.id /\ n.needs = o.needs /\ n.dir = o.dir
        /\ n.trunc = o.trunc /\ n.pre = o.pre /\ n.unread = o.unread
    BY <2>1 DEF Opening
  <2>3. Continue(b, n)
    BY <1>7, <2>1 DEF Proceed
  <2>4. Undenied(n, seen[b], {n.dir})
    BY <1>7, <2>2 DEF Looking, Undenied, Silent
  <2>5. n.pre => \A d \in Passed(n) \cup {n.dir} : Consented(n.id, seen[b].versions, d)
    BY <1>3, <1>7, <2>2 DEF Looking, Looping, Passed
  <2>6. ~n.pre => Authorized(n, seen[b]) # n.needs
    BY <1>5, <2>2, FewerAuthorized
  <2> QED
    BY <2>2, <2>3, <2>4, <2>5, <2>6, ContinueKept
<1>8. CASE ~(o.rest = {} /\ o.hit)
  <2>1. PICK stage \in {"hashing", "session"} :
           /\ stage = IF o.rest # {} THEN "hashing" ELSE "session"
           /\ open' = [open EXCEPT ![b] = [o EXCEPT !.stage = stage]]
    BY <1>8 DEF Proceed
  <2>2. PICK n : n = [o EXCEPT !.stage = stage]
    OBVIOUS
  <2>3. /\ n \in Opening /\ n.stage = stage /\ n.id = o.id /\ n.needs = o.needs
        /\ n.dir = o.dir /\ n.pre = o.pre /\ n.trunc = o.trunc /\ n.unread = o.unread
        /\ n.rest = o.rest /\ n.hit = o.hit
    BY <2>2 DEF Opening
  <2>4. open' = [open EXCEPT ![b] = n] /\ open'[b] = n
    BY <2>1, <2>2 DEF Kept, Types
  <2>5. Deciding(open'[b])
    BY <2>3, <2>4 DEF Deciding
  <2>6. /\ seen'[b].denied \subseteq seen[b].denied
        /\ seen'[b].allowed \subseteq seen[b].allowed
        /\ seen'[b].grants \subseteq seen[b].grants
        /\ seen[b].versions \subseteq seen'[b].versions
    BY <1>1, <2>5, SeenShrinks
  <2>7. Fresh(open[b], seen[b])'
    BY <2>5, FreshNow
  <2>8. Passed(n) = Passed(o)
    BY <2>3 DEF Passed
  <2>9. ASSUME NEW d, Consented(o.id, seen[b].versions, d)
        PROVE  Consented(open[b].id, seen[b].versions, d)'
    <3>1. PICK id, V, W : id = o.id /\ V = seen[b].versions /\ W = seen'[b].versions
      OBVIOUS
    <3>2. Consented(id, V, d) /\ V \subseteq W
      BY <2>6, <2>9, <3>1
    <3>3. Consented(id, W, d)'
      BY <3>2, ConsentHolds
    <3> QED
      BY <2>3, <2>4, <3>1, <3>3 DEF Consented
  <2>10. Looping(open[b], seen[b])'
    <3>1. n.dir \in n.needs /\ Undenied(n, seen'[b], Passed(n))
      BY <1>3, <1>6, <2>3, <2>6, <2>8, FewerDenials DEF Looping
    <3>2. n.pre => \A d \in Passed(n) : Consented(open[b].id, seen[b].versions, d)'
      BY <1>3, <1>4, <2>3, <2>8, <2>9 DEF Looping
    <3> QED
      BY <2>4, <3>1, <3>2 DEF Looping
  <2>11. ASSUME stage = "hashing"
         PROVE  Looking(open[b], seen[b])'
    <3>1. ASSUME NEW r \in n.rest
          PROVE  Covers(r.access, n.dir) /\ Names(r, n.id) /\ Pins(r) /\ Backed(r)'
      <4>1. Covers(r.access, o.dir) /\ Names(r, o.id) /\ Pins(r) /\ Backed(r)
        BY <2>3, <3>1 DEF Looking
      <4> QED
        BY <2>3, <4>1 DEF Backed, Quiet, MadeOf
    <3>2. n.hit => Consented(open[b].id, seen[b].versions, open[b].dir)'
      BY <2>3, <2>4, <2>9 DEF Looking
    <3>3. /\ Silent(seen'[b].denied \ (n.unread \cup n.rest), n.dir)
          /\ ~n.hit => Silent(seen'[b].allowed \ (n.unread \cup n.rest), n.dir)
      BY <2>3, <2>6 DEF Looking, Silent
    <3> QED
      BY <2>4, <3>1, <3>2, <3>3 DEF Looking, Names
  <2>12. ASSUME stage = "session"
         PROVE  Undenied(n, seen'[b], {n.dir}) /\ Silent(seen'[b].allowed \ n.unread, n.dir)
    <3>1. o.rest = {} /\ ~o.hit
      BY <1>8, <2>1, <2>12
    <3> QED
      BY <2>3, <2>6, <3>1 DEF Looking, Undenied, Silent
  <2>13. ~n.pre => Authorized(n, seen'[b]) # n.needs
    BY <1>5, <2>3, <2>6, FewerAuthorized
  <2>14. DecisionKept(open[b], seen[b])'
    BY <1>3, <2>3, <2>4, <2>7, <2>10, <2>11, <2>12, <2>13 DEF DecisionKept, Runs
  <2>15. OutcomeKept(open[b], seen[b])'
    BY <1>2, <2>3, <2>4 DEF OutcomeKept
  <2>16. Moves(b) /\ Lands(b)
    BY <2>3, <2>4, <2>14, <2>15 DEF Moves, Lands
  <2> QED
    BY <2>16, QuietKept DEF Quiet
<1> QED
  BY <1>7, <1>8

-----------------------------------------------------------------------------
(* Actions that move one open                                              *)

LEMMA ArriveKept ==
    ASSUME Kept, NEW b \in Opens, NEW p \in Procs, NEW kind \in Calls, Arrive(b, p, kind)
    PROVE  Kept'
<1>1. open[b].stage = "none" /\ Observe /\ Quiet
  BY DEF Arrive, Quiet
<1>2. PICK needs \in SUBSET Dirs, trunc \in BOOLEAN, path \in BOOLEAN :
         /\ needs = Kinds[kind].needs /\ trunc = Kinds[kind].trunc /\ path = Kinds[kind].path
         /\ needs # {} /\ (trunc => "write" \in needs)
  BY KindsTyped
<1>3. PICK id \in Identity : id = proc[p] /\ Runs(id)
  BY DEF Kept, Types, Callers
<1>4. PICK dir \in Dirs : dir = FirstDir(needs)
  BY DEF FirstDir, Dirs
<1>5. dir \in needs /\ (dir = "write" => needs = {"write"})
  BY <1>2, <1>4 DEF FirstDir, Dirs
<1>6. PICK n : n = [NoOpen EXCEPT !.stage = "lookup", !.id = id, !.needs = needs,
                                  !.trunc = trunc, !.path = path, !.dir = dir]
  OBVIOUS
<1>7. open' = [open EXCEPT ![b] = n]
  BY <1>2, <1>3, <1>4, <1>6 DEF Arrive
<1>8. /\ n \in Opening /\ n.stage = "lookup" /\ n.id = id /\ n.needs = needs
      /\ n.trunc = trunc /\ n.dir = dir /\ n.pre /\ n.unread = {}
  <2>1. NoOpen \in Opening /\ NoOpen.pre
    BY NoOpenTyped DEF NoOpen
  <2>2. NoOpen.unread = {}
    BY NoOpenTyped
  <2>3. n.unread = {}
    BY <1>6, <2>1, <2>2 DEF Opening
  <2> QED
    BY <1>6, <2>1, <2>3 DEF Opening
<1>9. open'[b] = n
  BY <1>7 DEF Kept, Types
<1>10. Deciding(open'[b])
  BY <1>8, <1>9 DEF Deciding
<1>11. Fresh(open[b], seen[b])'
  BY <1>1, <1>10, FreshNow
<1>12. Passed(n) = {}
  BY <1>5, <1>8 DEF Passed
<1>13. Looping(open[b], seen[b])'
  BY <1>5, <1>8, <1>9, <1>12 DEF Looping, Undenied
<1>14. DecisionKept(open[b], seen[b])'
  BY <1>3, <1>8, <1>9, <1>11, <1>13 DEF DecisionKept, Runs
<1>15. OutcomeKept(open[b], seen[b])'
  BY <1>2, <1>8, <1>9 DEF OutcomeKept
<1>16. Moves(b) /\ Lands(b)
  BY <1>7, <1>8, <1>14, <1>15 DEF Moves, Lands
<1> QED
  BY <1>1, <1>16, QuietKept DEF Quiet

LEMMA LookUpKept ==
    ASSUME Kept, NEW b \in Opens, LookUp(b)
    PROVE  Kept'
<1> DEFINE o == open[b]
           bearing == {r \in rules : Covers(r.access, o.dir) /\ Names(r, o.id)}
           pinned == {r \in bearing : Pins(r)}
           plain == {r.action : r \in bearing \ pinned}
           n == [o EXCEPT !.rest = pinned, !.hit = "allow" \in plain]
<1>1. o.stage = "lookup" /\ Observe /\ Quiet /\ Deciding(o)
  BY DEF LookUp, Quiet, Deciding
<1>2. /\ o \in Opening /\ seen[b] \in Seeing /\ DecisionKept(o, seen[b])
      /\ rules \in SUBSET Rule
  BY <1>1, Underway DEF Kept, Types
<1>3. Fresh(o, seen[b]) /\ Looping(o, seen[b]) /\ o.id \in Identity /\ Runs(o.id)
  BY <1>1, <1>2 DEF DecisionKept
<1>4. CASE Refused(b)
  <2>1. Moves(b) /\ Lands(b)
    BY <1>1, <1>4, RefusedLands
  <2> QED
    BY <1>1, <2>1, QuietKept DEF Quiet
<1>5. CASE "deny" \notin plain /\ Proceed(b, n)
  <2>1. pinned \in SUBSET Rule /\ ("allow" \in plain) \in BOOLEAN
    BY <1>2
  <2>2. PICK found \in BOOLEAN : found = ("allow" \in plain)
    BY <2>1
  <2>3. PICK m : m = [o EXCEPT !.rest = pinned, !.hit = found]
    OBVIOUS
  <2>4. Proceed(b, m)
    BY <1>5, <2>2, <2>3
  <2>5. /\ m \in Opening /\ m.id = o.id /\ m.needs = o.needs /\ m.dir = o.dir
        /\ m.trunc = o.trunc /\ m.pre = o.pre /\ m.unread = o.unread
        /\ m.rest = pinned /\ m.hit = found
    BY <1>2, <2>1, <2>3 DEF Opening
  <2>6. \A r \in m.rest : Covers(r.access, o.dir) /\ Names(r, o.id) /\ Pins(r) /\ Backed(r)
    BY <2>5 DEF Kept, Founded
  <2>7. ASSUME NEW r \in rules, Covers(r.access, o.dir), IdentityMatches(r, o.id, script),
               r \notin m.rest
        PROVE  r.action \in plain
    BY <2>5, <2>7 DEF IdentityMatches
  <2>8. Silent(seen[b].denied \ (m.unread \cup m.rest), m.dir)
    BY <1>3, <1>5, <2>5, <2>7 DEF Silent, Fresh, Matching
  <2>9. ~m.hit => Silent(seen[b].allowed \ (m.unread \cup m.rest), m.dir)
    BY <1>3, <2>2, <2>5, <2>7 DEF Silent, Fresh, Matching
  <2>10. ASSUME m.hit
         PROVE  Consented(m.id, seen[b].versions, m.dir)
    <3> HIDE DEF plain
    <3>4. "allow" \in plain
      BY <2>2, <2>5, <2>10, Zenon
    <3>1. PICK r \in bearing \ pinned : r.action = "allow"
      BY <3>4 DEF plain
    <3>2. r \in Rule /\ Covers(r.access, o.dir) /\ IdentityMatches(r, o.id, script) /\ Backed(r)
      BY <1>2, <3>1 DEF IdentityMatches, Kept, Founded
    <3>3. o.dir \in Dirs /\ VersionOf(o.id, script) \subseteq seen[b].versions
      BY <1>2, <1>3 DEF Opening, Fresh
    <3> QED
      BY <1>3, <2>5, <3>1, <3>2, <3>3, RuleConsents DEF Kept
  <2>11. Looking(m, seen[b])
    BY <2>5, <2>6, <2>8, <2>9, <2>10 DEF Looking
  <2> QED
    BY <1>1, <2>4, <2>5, <2>11, ProceedKept
<1> QED
  BY <1>4, <1>5 DEF LookUp

LEMMA HashKept ==
    ASSUME Kept, NEW b \in Opens, NEW r \in open[b].rest, Hash(b, r)
    PROVE  Kept'
<1> DEFINE o == open[b]
           n == [o EXCEPT !.rest = o.rest \ {r}]
           matches == HashMatches(r, o.id, script)
<1>1. /\ o.stage = "hashing" /\ Observe /\ Quiet /\ Deciding(o)
      /\ \/ matches /\ r.action = "deny" /\ Refused(b)
         \/ matches /\ r.action = "allow" /\ Proceed(b, [n EXCEPT !.hit = TRUE])
         \/ ~matches /\ Proceed(b, n)
         \/ Proceed(b, [n EXCEPT !.unread = n.unread \cup {r}])
  BY DEF Hash, Quiet, Deciding
<1>2. o \in Opening /\ seen[b] \in Seeing /\ DecisionKept(o, seen[b]) /\ r \in Rule
  BY <1>1, Underway DEF Opening
<1>3. /\ Fresh(o, seen[b]) /\ Looking(o, seen[b]) /\ o.id \in Identity /\ Runs(o.id)
      /\ o.dir \in Dirs
  BY <1>1, <1>2 DEF DecisionKept, Opening
<1>4. Covers(r.access, o.dir) /\ Names(r, o.id) /\ Pins(r) /\ Backed(r)
  BY <1>3 DEF Looking
<1>5. /\ n \in Opening /\ n.id = o.id /\ n.needs = o.needs /\ n.dir = o.dir
      /\ n.trunc = o.trunc /\ n.pre = o.pre /\ n.unread = o.unread
      /\ n.rest = o.rest \ {r} /\ n.hit = o.hit
  BY <1>2 DEF Opening
<1> HIDE DEF n
<1>6. CASE Refused(b)
  <2>1. Moves(b) /\ Lands(b)
    BY <1>1, <1>6, RefusedLands
  <2> QED
    BY <1>1, <2>1, QuietKept DEF Quiet
<1>7. CASE matches /\ r.action = "allow" /\ Proceed(b, [n EXCEPT !.hit = TRUE])
  <2>1. PICK m : m = [n EXCEPT !.hit = TRUE]
    OBVIOUS
  <2>2. /\ m \in Opening /\ m.id = o.id /\ m.needs = o.needs /\ m.dir = o.dir
        /\ m.trunc = o.trunc /\ m.pre = o.pre /\ m.unread = o.unread
        /\ m.rest = o.rest \ {r} /\ m.hit
    BY <1>5, <2>1 DEF Opening
  <2>3. IdentityMatches(r, o.id, script)
    BY <1>4, <1>7 DEF IdentityMatches
  <2>4. VersionOf(o.id, script) \subseteq seen[b].versions
    BY <1>3 DEF Fresh
  <2>5. Consented(o.id, seen[b].versions, o.dir)
    BY <1>2, <1>3, <1>4, <1>7, <2>3, <2>4, RuleConsents DEF Kept
  <2>6. r \notin seen[b].denied
    BY <1>3, <1>7 DEF Fresh, Matching
  <2>7. Silent(seen[b].denied \ (m.unread \cup m.rest), m.dir)
    BY <1>3, <2>2, <2>6 DEF Looking, Silent
  <2>8. Looking(m, seen[b])
    BY <1>3, <2>2, <2>5, <2>7 DEF Looking
  <2> QED
    BY <1>1, <1>7, <2>1, <2>2, <2>8, ProceedKept
<1>8. CASE ~matches /\ Proceed(b, n)
  <2>1. ~IdentityMatches(r, o.id, script)
    BY <1>4, <1>8 DEF IdentityMatches
  <2>2. r \notin seen[b].denied /\ r \notin seen[b].allowed
    BY <1>3, <2>1 DEF Fresh, Matching
  <2>3. Looking(n, seen[b])
    BY <1>3, <1>5, <2>2 DEF Looking, Silent
  <2> QED
    BY <1>1, <1>5, <1>8, <2>3, ProceedKept
<1>9. CASE Proceed(b, [n EXCEPT !.unread = n.unread \cup {r}])
  <2>1. PICK m : m = [n EXCEPT !.unread = n.unread \cup {r}]
    OBVIOUS
  <2>2. /\ m \in Opening /\ m.id = o.id /\ m.needs = o.needs /\ m.dir = o.dir
        /\ m.trunc = o.trunc /\ m.pre = o.pre /\ m.unread = o.unread \cup {r}
        /\ m.rest = o.rest \ {r} /\ m.hit = o.hit
    BY <1>2, <1>5, <2>1 DEF Opening
  <2>3. Looking(m, seen[b])
    BY <1>3, <2>2 DEF Looking, Silent
  <2> QED
    BY <1>1, <1>9, <2>1, <2>2, <2>3, ProceedKept
<1> QED
  BY <1>1, <1>6, <1>7, <1>8, <1>9

LEMMA CheckSessionKept ==
    ASSUME Kept, NEW b \in Opens, CheckSession(b)
    PROVE  Kept'
<1> DEFINE o == open[b]
           n == [o EXCEPT !.pre = o.pre /\ IsSessionAllowed(o.id)]
<1>1. o.stage = "session" /\ Observe /\ Quiet /\ Deciding(o) /\ Continue(b, n)
  BY DEF CheckSession, Quiet, Deciding
<1>2. o \in Opening /\ DecisionKept(o, seen[b])
  BY <1>1, Underway
<1>3. o.pre \in BOOLEAN /\ IsSessionAllowed(o.id) \in BOOLEAN
  BY <1>2 DEF Opening, IsSessionAllowed
<1>4. /\ n \in Opening /\ n.id = o.id /\ n.needs = o.needs /\ n.dir = o.dir
      /\ n.trunc = o.trunc /\ n.unread = o.unread /\ n.pre = (o.pre /\ o.id \in sessions)
  BY <1>2, <1>3 DEF Opening, IsSessionAllowed
<1> HIDE DEF n
<1>5. /\ Looping(o, seen[b]) /\ Undenied(o, seen[b], {o.dir}) /\ Fresh(o, seen[b])
      /\ Silent(seen[b].allowed \ o.unread, o.dir)
  BY <1>1, <1>2 DEF DecisionKept
<1>6. ASSUME n.pre, NEW d \in Passed(n) \cup {n.dir}
      PROVE  Consented(n.id, seen[b].versions, d)
  BY <1>4, <1>6 DEF Consented, Kept, Founded
<1>7. ~n.pre => Authorized(n, seen[b]) # n.needs
  <2>1. CASE o.id \notin sessions
    <3>1. o.id \notin seen[b].grants /\ o.dir \in o.needs
      BY <1>5, <2>1 DEF Fresh, Looping
    <3>2. o.dir \notin Authorized(n, seen[b])
      BY <1>4, <1>5, <3>1 DEF Authorized, Silent
    <3> QED
      BY <1>4, <3>1, <3>2
  <2>2. CASE ~o.pre
    BY <1>2, <1>4, <2>2, FewerAuthorized DEF DecisionKept
  <2> QED
    BY <1>4, <2>1, <2>2
<1>8. Undenied(n, seen[b], {n.dir})
  BY <1>4, <1>5, FewerDenials
<1> QED
  BY <1>1, <1>4, <1>6, <1>7, <1>8, ContinueKept

-----------------------------------------------------------------------------
(* The user's answer                                                       *)

\* An open that the user allows is granted with the user's consent.
LEMMA AgreedLands ==
    ASSUME Kept, Observe, NEW b \in Opens, open[b].stage \in {"asking", "persist"},
           NEW decision \in {"AllowAlways", "AllowOnce", "AllowSession"},
           Granted(b, Agreed(b), decision)
    PROVE  Moves(b) /\ Lands(b)
<1> DEFINE o == Agreed(b)
<1>1. Deciding(open[b])
  BY DEF Deciding
<1>2. /\ open[b] \in Opening /\ Undenied(open[b], seen[b], open[b].needs)
      /\ open[b].trunc => "write" \in open[b].needs
  BY <1>1, Underway DEF DecisionKept
<1>3. /\ o \in Opening /\ o.needs = open[b].needs /\ o.trunc = open[b].trunc
      /\ o.asked = o.needs /\ o.unread = open[b].unread
  BY <1>2 DEF Agreed, Opening
<1> HIDE DEF o
<1>4. Basis(o, seen[b]) = o.needs
  BY <1>3 DEF Basis
<1>5. Granted(b, o, decision)
  BY DEF o
<1>6. (o.trunc => "write" \in o.needs) /\ Undenied(o, seen[b], o.needs)
  BY <1>2, <1>3, FewerDenials
<1> QED
  BY <1>1, <1>3, <1>4, <1>5, <1>6, GrantedLands

LEMMA AnswerOnceKept ==
    ASSUME Kept, NEW b \in Opens, AnswerOnce(b) \/ FallBack(b)
    PROVE  Kept'
<1>1. /\ open[b].stage = "asking" /\ Observe /\ Quiet
      /\ Granted(b, Agreed(b), "AllowOnce") \/ Refused(b)
  BY DEF AnswerOnce, FallBack, Quiet
<1>2. Moves(b) /\ Lands(b)
  BY <1>1, AgreedLands, RefusedLands
<1> QED
  BY <1>1, <1>2, QuietKept DEF Quiet

LEMMA AnswerSessionKept ==
    ASSUME Kept, NEW b \in Opens, AnswerSession(b)
    PROVE  Kept'
<1> DEFINE id == open[b].id
<1>1. /\ open[b].stage = "asking" /\ Observe /\ UNCHANGED <<rules, proc, script, changes>>
      /\ Granted(b, Agreed(b), "AllowSession")
      /\ sessions' = sessions \cup {id}
      /\ said' = [said EXCEPT !.sessions = @ \cup {id}]
  BY DEF AnswerSession
<1>2. Moves(b) /\ Lands(b)
  BY <1>1, AgreedLands
<1>3. id \in Identity
  BY <1>1, Underway DEF Deciding, DecisionKept
<1>4. said \in [rules : SUBSET Rule, always : SUBSET Choices, sessions : SUBSET Identity]
  BY DEF Kept, Types
<1>5. /\ said' \in [rules : SUBSET Rule, always : SUBSET Choices, sessions : SUBSET Identity]
      /\ said'.rules = said.rules /\ said'.always = said.always
      /\ said'.sessions = said.sessions \cup {id}
  BY <1>1, <1>3, <1>4
<1>6. Growing
  BY <1>1, <1>5 DEF Growing
<1>7. Founded'
  BY <1>1, <1>5 DEF Kept, Founded, Backed
<1>8. rules' \subseteq Rule /\ sessions' \subseteq Identity
  BY <1>1, <1>3 DEF Kept, Types
<1> QED
  BY <1>1, <1>2, <1>5, <1>6, <1>7, <1>8, MovedKept

LEMMA AnswerAlwaysKept ==
    ASSUME Kept, NEW b \in Opens, NEW choice \in {"allow", "deny"}, AnswerAlways(b, choice)
    PROVE  Kept'
<1> DEFINE o == open[b]
           n == [o EXCEPT !.stage = "persist", !.choice = choice]
<1>1. o.stage = "asking" /\ Observe /\ Quiet /\ Deciding(o)
  BY DEF AnswerAlways, Quiet, Deciding
<1>2. /\ o \in Opening /\ DecisionKept(o, seen[b])
      /\ o.trunc => "write" \in o.needs
  BY <1>1, Underway
<1>3. open' = [open EXCEPT ![b] = n]
  <2>1. open' = [open EXCEPT ![b].stage = "persist", ![b].choice = choice]
    BY DEF AnswerAlways
  <2> QED
    BY <1>2, <2>1 DEF Opening, Kept, Types
<1>4. /\ n \in Opening /\ n.stage = "persist" /\ n.choice = choice /\ n.id = o.id
      /\ n.needs = o.needs /\ n.pre = o.pre /\ n.trunc = o.trunc /\ n.unread = o.unread
  BY <1>2 DEF Opening
<1> HIDE DEF n
<1>5. open'[b] = n
  BY <1>3 DEF Kept, Types
<1>6. Deciding(open'[b])
  BY <1>4, <1>5 DEF Deciding
<1>7. /\ seen'[b].denied \subseteq seen[b].denied
      /\ seen'[b].allowed \subseteq seen[b].allowed
      /\ seen'[b].grants \subseteq seen[b].grants
  BY <1>1, <1>6, SeenShrinks
<1>8. Fresh(open[b], seen[b])'
  BY <1>1, <1>6, FreshNow
<1>9. /\ n.id \in Identity /\ Runs(n.id) /\ ~n.pre /\ Undenied(n, seen'[b], n.needs)
      /\ Authorized(n, seen'[b]) # n.needs
  BY <1>1, <1>2, <1>4, <1>7, FewerAuthorized, FewerDenials DEF DecisionKept
<1>10. DecisionKept(open[b], seen[b])'
  BY <1>4, <1>5, <1>8, <1>9 DEF DecisionKept, Runs
<1>11. OutcomeKept(open[b], seen[b])'
  BY <1>2, <1>4, <1>5 DEF OutcomeKept
<1>12. Moves(b) /\ Lands(b)
  BY <1>3, <1>4, <1>10, <1>11 DEF Moves, Lands
<1> QED
  BY <1>1, <1>12, QuietKept DEF Quiet

\* A rule made of a permanent choice: it is pinned as the user saw it.
LEMMA LearnedRule ==
    ASSUME Kept, NEW o \in Opening, o.id \in Identity, Runs(o.id), Pinnable(o.id),
           o.choice \in {"allow", "deny"},
           NEW c, c = [image |-> o.id.image, script |-> o.id.script,
                       pin |-> VersionOf(o.id, script)]
    PROVE  /\ Learned(o, o.choice) \in Rule /\ c \in Choices
           /\ Learned(o, o.choice).action = o.choice
           /\ MadeOf(Learned(o, o.choice), c)
<1> DEFINE r == Learned(o, o.choice)
<1>1. /\ o.id.image \in Images /\ o.id.script \in Scripts \cup {NoScript}
      /\ script \in [Scripts -> Versions \cup {Absent}]
  BY DEF Identity, Kept, Types
<1>2. CASE o.id.script = NoScript
  <2>1. r = [action |-> o.choice, access |-> "any", image |-> o.id.image,
             script |-> NoScript, pin |-> Unpinned]
    BY <1>2 DEF Learned
  <2>2. c = [image |-> o.id.image, script |-> NoScript, pin |-> {}]
    BY <1>2 DEF VersionOf
  <2>3. o.id.image \notin Interpreters
    BY <1>2 DEF Pinnable
  <2>4. r \in Rule /\ c \in Choices /\ r.action = o.choice
    BY <1>1, <2>1, <2>2 DEF Rule, Choices
  <2>5. MadeOf(r, c)
    BY <2>1, <2>2, <2>3 DEF MadeOf
  <2> QED
    BY <2>4, <2>5
<1>3. CASE o.id.script # NoScript
  <2> DEFINE version == script[o.id.script]
  <2>1. version \in Versions /\ version # Unpinned
    BY <1>1, <1>3, RulePolicyAssumption DEF Pinnable
  <2>2. r = [action |-> o.choice, access |-> "any", image |-> o.id.image,
             script |-> o.id.script, pin |-> version]
    BY <1>3 DEF Learned
  <2>3. c = [image |-> o.id.image, script |-> o.id.script, pin |-> {version}]
    BY <1>3 DEF VersionOf
  <2> HIDE DEF version
  <2>4. r \in Rule /\ c \in Choices /\ r.action = o.choice
    BY <1>1, <2>1, <2>2, <2>3 DEF Rule, Choices
  <2>5. MadeOf(r, c)
    BY <1>3, <2>1, <2>2, <2>3 DEF MadeOf
  <2> QED
    BY <2>4, <2>5
<1> QED
  BY <1>2, <1>3

LEMMA PersistKept ==
    ASSUME Kept, NEW b \in Opens, Persist(b)
    PROVE  Kept'
<1> DEFINE o == open[b]
           r == Learned(o, o.choice)
           c == [image |-> o.id.image, script |-> o.id.script,
                 pin |-> VersionOf(o.id, script)]
<1>1. /\ o.stage = "persist" /\ Observe /\ UNCHANGED <<sessions, proc, script, changes>>
      /\ Deciding(o)
      /\ \/ Granted(b, Agreed(b), "AllowAlways") \/ Granted(b, Agreed(b), "AllowOnce")
         \/ Refused(b)
      /\ (rules' = rules \cup {r} /\ Pinnable(o.id)) \/ rules' = rules
      /\ said' = IF o.choice = "allow" /\ rules' # rules
                 THEN [said EXCEPT !.always = @ \cup {c}] ELSE said
  BY DEF Persist, Deciding
<1>2. o \in Opening /\ o.id \in Identity /\ Runs(o.id) /\ o.choice \in {"allow", "deny"}
  BY <1>1, Underway DEF DecisionKept, Opening
<1>3. Moves(b) /\ Lands(b)
  BY <1>1, AgreedLands, RefusedLands
<1>4. /\ said \in [rules : SUBSET Rule, always : SUBSET Choices, sessions : SUBSET Identity]
      /\ rules \subseteq Rule /\ sessions \subseteq Identity /\ Founded
  BY DEF Kept, Types
<1>5. CASE rules' = rules
  <2>1. said' = said
    BY <1>1, <1>5
  <2>2. Growing /\ Founded'
    BY <1>1, <1>4, <1>5, <2>1 DEF Growing, Founded, Backed
  <2> QED
    BY <1>1, <1>3, <1>4, <1>5, <2>1, <2>2, MovedKept
<1>6. CASE rules' = rules \cup {r} /\ Pinnable(o.id) /\ rules' # rules
  <2>1. r \in Rule /\ c \in Choices /\ r.action = o.choice /\ MadeOf(r, c)
    BY <1>2, <1>6, LearnedRule
  <2> HIDE DEF r, c
  <2>2. /\ said' \in [rules : SUBSET Rule, always : SUBSET Choices, sessions : SUBSET Identity]
        /\ said'.rules = said.rules /\ said.always \subseteq said'.always
        /\ said'.sessions = said.sessions /\ (o.choice = "allow" => c \in said'.always)
    BY <1>1, <1>4, <1>6, <2>1
  <2>3. Growing
    BY <1>1, <2>2 DEF Growing
  <2>4. ASSUME NEW q \in rules', q.action = "allow"
        PROVE  q \in said'.rules \/ \E d \in said'.always : MadeOf(q, d)
    <3>1. CASE q \in rules
      BY <1>4, <2>2, <2>4, <3>1 DEF Founded, Backed
    <3>2. CASE q = r
      BY <2>1, <2>2, <2>4, <3>2
    <3> QED
      BY <1>6, <3>1, <3>2
  <2>5. Founded'
    BY <1>1, <1>4, <2>2, <2>4 DEF Founded, Backed
  <2>6. rules' \subseteq Rule /\ sessions' \subseteq Identity
    BY <1>1, <1>4, <1>6, <2>1
  <2> QED
    BY <1>1, <1>3, <2>2, <2>3, <2>5, <2>6, MovedKept
<1> QED
  BY <1>1, <1>5, <1>6

-----------------------------------------------------------------------------
(* The end of the call                                                     *)

LEMMA CloseKept ==
    ASSUME Kept, NEW b \in Opens, Close(b)
    PROVE  Kept'
<1>1. Refused(b) /\ Observe /\ Quiet
  BY DEF Close, Refused, Quiet
<1> QED
  BY <1>1, RefusedLands, QuietKept DEF Quiet

LEMMA CompleteKept ==
    ASSUME Kept, NEW b \in Opens, Complete(b)
    PROVE  Kept'
<1> DEFINE o == open[b]
<1>1. o.stage = "granted" /\ Observe /\ Quiet
  BY DEF Complete, Quiet
<1>2. o \in Opening /\ o.basis = o.needs
  BY <1>1 DEF Kept, Types, Decisions, OutcomeKept
<1>3. CASE open' = [open EXCEPT ![b] = NoOpen]
  <2>1. Refused(b)
    BY <1>3 DEF Refused
  <2> QED
    BY <1>1, <2>1, RefusedLands, QuietKept DEF Quiet
<1>4. CASE open' = [open EXCEPT ![b] = Handle(o)]
  <2> DEFINE n == Handle(o)
  <2>1. /\ n \in Opening /\ n.stage = "open" /\ n.basis = o.needs
        /\ n.canRead => "read" \in o.needs
        /\ n.access = "write" => "write" \in o.needs
        /\ n.trunc = FALSE
    <3> DEFINE as(reads, access) ==
                 [NoOpen EXCEPT !.stage = "open", !.canRead = reads, !.basis = o.basis,
                                !.access = access]
    <3>1. NoOpen \in Opening /\ NoOpen.trunc = FALSE
      BY NoOpenTyped DEF NoOpen
    <3>2. PICK access \in Dirs : /\ access = IF "write" \in o.needs THEN "write" ELSE "read"
                                 /\ (access = "write" => "write" \in o.needs)
      BY DEF Dirs
    <3>3. n = as("read" \in o.needs, access)
      BY <3>2 DEF Handle
    <3>4. CASE ("read" \in o.needs) = TRUE
      <4>1. n = as(TRUE, access)
        BY <3>3, <3>4
      <4> QED
        BY <1>2, <3>1, <3>2, <3>4, <4>1 DEF Opening
    <3>5. CASE ("read" \in o.needs) = FALSE
      <4>1. n = as(FALSE, access)
        BY <3>3, <3>5
      <4> QED
        BY <1>2, <3>1, <3>2, <4>1 DEF Opening
    <3>6. ("read" \in o.needs) = TRUE \/ ("read" \in o.needs) = FALSE
      OBVIOUS
    <3> QED
      BY <3>4, <3>5, <3>6
  <2> HIDE DEF n
  <2>2. open' = [open EXCEPT ![b] = n]
    BY <1>4 DEF n
  <2>3. open'[b] = n
    BY <2>2 DEF Kept, Types
  <2>4. Exercisable(n) \subseteq n.basis
    BY <2>1 DEF Exercisable
  <2>5. ~Deciding(open'[b]) /\ OutcomeKept(open[b], seen[b])'
    BY <2>1, <2>3, <2>4 DEF Deciding, OutcomeKept
  <2>6. Moves(b) /\ Lands(b)
    BY <2>1, <2>2, <2>5 DEF Moves, Lands
  <2> QED
    BY <1>1, <2>6, QuietKept DEF Quiet
<1> QED
  BY <1>3, <1>4 DEF Complete

-----------------------------------------------------------------------------
(* Commands and the callers' world                                         *)

\* A step that moves no open keeps it all, if the rules stay founded and the
\* callers what they can be.
LEMMA WorldKept ==
    ASSUME Kept, Observe, Growing, \A a \in Opens : Same(a), open' \in [Opens -> Opening],
           rules' \subseteq Rule, sessions' = sessions,
           proc' \in [Procs -> Identity], script' \in [Scripts -> Versions \cup {Absent}],
           said' \in [rules : SUBSET Rule, always : SUBSET Choices, sessions : SUBSET Identity],
           changes' \in 0 .. MaxChanges, Callers', Founded'
    PROVE  Kept'
<1>1. ASSUME NEW a \in Opens
      PROVE  /\ Deciding(open'[a]) => DecisionKept(open[a], seen[a])'
             /\ OutcomeKept(open[a], seen[a])'
  <2>1. Deciding(open'[a]) => Deciding(open[a])
    BY SameFields DEF Deciding, Kept
  <2> QED
    BY <2>1, SameDecision, SameOutcome DEF Kept, Decisions
<1>2. Decisions'
  BY <1>1 DEF Decisions
<1>3. \A a \in Opens : Deciding(open'[a]) => open'[a].id \in Identity
  BY <1>1 DEF DecisionKept
<1>4. seen' \in [Opens -> Seeing]
  BY <1>3, SeenTyped DEF Kept
<1>5. Types'
  BY <1>4 DEF Kept, Types
<1> QED
  BY <1>2, <1>5 DEF Kept

LEMMA CommandedKept ==
    ASSUME Kept, NEW new \in SUBSET Rule, Commanded(new)
    PROVE  Kept'
<1>1. /\ Observe /\ UNCHANGED <<sessions, proc, script, open, changes>> /\ rules' = new
      /\ said' = [said EXCEPT !.rules = @ \cup (new \ rules)]
  BY DEF Commanded
<1>2. /\ said \in [rules : SUBSET Rule, always : SUBSET Choices, sessions : SUBSET Identity]
      /\ Founded
  BY DEF Kept, Types
<1>3. /\ said' \in [rules : SUBSET Rule, always : SUBSET Choices, sessions : SUBSET Identity]
      /\ said'.rules = said.rules \cup (new \ rules) /\ said'.always = said.always
      /\ said'.sessions = said.sessions
  BY <1>1, <1>2
<1>4. Growing
  BY <1>1, <1>3 DEF Growing
<1>5. ASSUME NEW r \in rules', r.action = "allow"
      PROVE  r \in said'.rules \/ \E c \in said'.always : MadeOf(r, c)
  <2>1. CASE r \in rules
    BY <1>2, <1>3, <1>5, <2>1 DEF Founded, Backed
  <2>2. CASE r \notin rules
    BY <1>1, <1>3, <2>2
  <2> QED
    BY <2>1, <2>2
<1>6. Founded'
  BY <1>1, <1>2, <1>3, <1>5 DEF Founded, Backed
<1>7. (\A a \in Opens : Same(a)) /\ Callers'
  BY <1>1 DEF Same, Kept, Callers
<1> QED
  BY <1>1, <1>3, <1>4, <1>6, <1>7, WorldKept DEF Kept, Types

\* A changed rule is a rule.
LEMMA EditedTyped ==
    ASSUME NEW r \in Rule, NEW e \in Edit
    PROVE  Edited(r, e) \in Rule
BY DEF Edited, Rule, Edit

LEMMA CommandKept ==
    ASSUME Kept, Command
    PROVE  Kept'
<1>1. rules \in SUBSET Rule
  BY DEF Kept, Types
<1>2. ASSUME NEW r \in Entries, AddRule(r)
      PROVE  Kept'
  <2>1. rules \cup {r} \in SUBSET Rule
    BY <1>1, RulePolicyAssumption
  <2> QED
    BY <1>2, <2>1, CommandedKept DEF AddRule
<1>3. ASSUME NEW r \in rules, RemoveRule(r)
      PROVE  Kept'
  <2>1. rules \ {r} \in SUBSET Rule
    BY <1>1
  <2> QED
    BY <1>3, <2>1, CommandedKept DEF RemoveRule
<1>4. ASSUME NEW r \in rules, NEW e \in Edits, EditRule(r, e)
      PROVE  Kept'
  <2>1. Edited(r, e) \in Rule
    BY <1>1, RulePolicyAssumption, EditedTyped
  <2>2. (rules \ {r}) \cup {Edited(r, e)} \in SUBSET Rule
    BY <1>1, <2>1
  <2> QED
    BY <1>4, <2>2, CommandedKept DEF EditRule
<1> QED
  BY <1>2, <1>3, <1>4 DEF Command

\* The threads of a process are gone.
LEMMA InterruptedSame ==
    ASSUME Kept, NEW p \in Procs, Interrupted(p)
    PROVE  open' \in [Opens -> Opening] /\ \A a \in Opens : Same(a)
<1>1. ASSUME NEW a \in Opens
      PROVE  open'[a] \in Opening /\ Same(a)
  <2>1. open[a] \in Opening
    BY DEF Kept, Types
  <2>2. open'[a] = IF open[a].id.pid = p THEN [open[a] EXCEPT !.live = FALSE] ELSE open[a]
    BY DEF Interrupted
  <2>3. [open[a] EXCEPT !.live = FALSE] \in Opening
    BY <2>1 DEF Opening
  <2> QED
    BY <2>1, <2>2, <2>3 DEF Same
<1>2. open' = [a \in Opens |-> open'[a]]
  BY DEF Interrupted
<1> QED
  BY <1>1, <1>2

\* A process becomes another caller.
LEMMA CallerKept ==
    ASSUME Kept, NEW p \in Procs, Changed, Interrupted(p), Observe,
           UNCHANGED <<rules, sessions, script, said>>,
           NEW id \in Identity, Runs(id), id.start <= changes + 1,
           proc' = [proc EXCEPT ![p] = id]
    PROVE  Kept'
<1>1. proc' \in [Procs -> Identity] /\ proc'[p] = id /\ \A q \in Procs \ {p} : proc'[q] = proc[q]
  BY DEF Kept, Types
<1>2. changes \in Nat /\ changes' = changes + 1 /\ changes' \in 0 .. MaxChanges
  BY RulePolicyAssumption DEF Changed, Kept, Types
<1>3. ASSUME NEW q \in Procs
      PROVE  Runs(proc'[q]) /\ proc'[q].start <= changes'
  <2>1. CASE q = p
    BY <1>1, <1>2, <2>1
  <2>2. CASE q # p
    <3>1. Runs(proc[q]) /\ proc[q].start <= changes /\ proc[q].start \in Nat
      BY DEF Kept, Callers, Types, Identity
    <3> QED
      BY <1>1, <1>2, <2>2, <3>1
  <2> QED
    BY <2>1, <2>2
<1>4. Callers'
  BY <1>3 DEF Callers, Runs
<1>5. Growing /\ Founded'
  BY DEF Growing, Kept, Founded, Backed
<1> QED
  BY <1>1, <1>2, <1>4, <1>5, InterruptedSame, WorldKept DEF Kept, Types

LEMMA ExecKept ==
    ASSUME Kept, NEW p \in Procs, NEW image \in Images, NEW s \in Scripts \cup {NoScript},
           Exec(p, image, s)
    PROVE  Kept'
<1> DEFINE id == [proc[p] EXCEPT !.image = image, !.script = s]
<1>1. proc[p] \in Identity /\ proc[p].start <= changes /\ changes \in Nat
  BY RulePolicyAssumption DEF Kept, Types, Callers
<1>2. id \in Identity /\ id.image = image /\ id.script = s /\ id.start = proc[p].start
  BY <1>1 DEF Identity
<1>3. proc' = [proc EXCEPT ![p] = id]
  <2>1. proc' = [proc EXCEPT ![p].image = image, ![p].script = s]
    BY DEF Exec
  <2> QED
    BY <1>1, <2>1 DEF Identity, Kept, Types
<1> HIDE DEF id
<1>4. Runs(id) /\ id.start <= changes + 1
  <2>1. proc[p].start \in Nat
    BY <1>1 DEF Identity
  <2> QED
    BY <1>1, <1>2, <2>1 DEF Exec, Runs
<1>5. /\ Changed /\ Interrupted(p) /\ Observe
      /\ UNCHANGED <<rules, sessions, script, said>>
  BY DEF Exec
<1> QED
  BY <1>2, <1>3, <1>4, <1>5, CallerKept

LEMMA ReuseKept ==
    ASSUME Kept, NEW p \in Procs, Reuse(p)
    PROVE  Kept'
<1> DEFINE id == [proc[p] EXCEPT !.start = proc[p].start + 1]
<1>1. /\ proc[p] \in Identity /\ Runs(proc[p])
      /\ proc[p].start <= changes /\ proc[p].start \in Nat
      /\ changes \in Nat /\ changes < MaxChanges /\ MaxChanges \in Nat
  BY RulePolicyAssumption DEF Kept, Types, Callers, Identity, Reuse, Changed
<1>2. proc[p].start + 1 \in 0 .. MaxChanges /\ proc[p].start + 1 <= changes + 1
  BY <1>1
<1>3. /\ id \in Identity /\ id.image = proc[p].image /\ id.script = proc[p].script
      /\ id.start = proc[p].start + 1
  BY <1>1, <1>2 DEF Identity
<1>4. proc' = [proc EXCEPT ![p] = id]
  BY DEF Reuse
<1> HIDE DEF id
<1>5. Runs(id) /\ id.start <= changes + 1
  BY <1>1, <1>2, <1>3 DEF Runs
<1>6. /\ Changed /\ Interrupted(p) /\ Observe
      /\ UNCHANGED <<rules, sessions, script, said>>
  BY DEF Reuse
<1> QED
  BY <1>3, <1>4, <1>5, <1>6, CallerKept

LEMMA EditScriptKept ==
    ASSUME Kept, NEW s \in Scripts, NEW version \in Versions \cup {Absent},
           EditScript(s, version)
    PROVE  Kept'
<1>1. /\ Observe /\ script' = [script EXCEPT ![s] = version]
      /\ UNCHANGED <<rules, sessions, proc, open, said>>
  BY DEF EditScript
<1>2. changes \in Nat /\ changes' = changes + 1 /\ changes' \in 0 .. MaxChanges
  BY RulePolicyAssumption DEF EditScript, Changed, Kept, Types
<1>3. script' \in [Scripts -> Versions \cup {Absent}]
  BY <1>1 DEF Kept, Types
<1>4. ASSUME NEW q \in Procs
      PROVE  Runs(proc'[q]) /\ proc'[q].start <= changes'
  <2>1. Runs(proc[q]) /\ proc[q].start <= changes /\ proc[q].start \in Nat
    BY DEF Kept, Callers, Types, Identity
  <2> QED
    BY <1>1, <1>2, <2>1
<1>5. Callers'
  BY <1>4 DEF Callers, Runs
<1>6. Growing /\ Founded' /\ \A a \in Opens : Same(a)
  BY <1>1 DEF Growing, Kept, Founded, Backed, Same
<1> QED
  BY <1>1, <1>2, <1>3, <1>5, <1>6, WorldKept DEF Kept, Types

\* The daemon starts again without decisions, handles and grants.
LEMMA RestartKept ==
    ASSUME Kept, Restart
    PROVE  Kept'
<1>1. /\ Observe /\ sessions' = {} /\ open' = [a \in Opens |-> NoOpen]
      /\ said' = [said EXCEPT !.sessions = {}] /\ UNCHANGED <<rules, proc, script>>
  BY DEF Restart
<1>2. changes \in Nat /\ changes' = changes + 1 /\ changes' \in 0 .. MaxChanges
  BY RulePolicyAssumption DEF Restart, Changed, Kept, Types
<1>3. said \in [rules : SUBSET Rule, always : SUBSET Choices, sessions : SUBSET Identity]
  BY DEF Kept, Types
<1>4. /\ said' \in [rules : SUBSET Rule, always : SUBSET Choices, sessions : SUBSET Identity]
      /\ said'.rules = said.rules /\ said'.always = said.always
  BY <1>1, <1>3
<1>5. open' \in [Opens -> Opening] /\ \A a \in Opens : open'[a].stage = "none"
  BY <1>1, NoOpenTyped
<1>6. /\ script' \in [Scripts -> Versions \cup {Absent}] /\ proc' \in [Procs -> Identity]
      /\ rules' \subseteq Rule
  BY <1>1 DEF Kept, Types
<1>7. \A a \in Opens : ~Deciding(open'[a])
  BY <1>5 DEF Deciding
<1>8. seen' \in [Opens -> Seeing]
  BY <1>1, <1>5, <1>6, <1>7, SeenTyped DEF Kept
<1>9. Types'
  BY <1>1, <1>2, <1>4, <1>5, <1>6, <1>8 DEF Kept, Types
<1>10. ASSUME NEW q \in Procs
       PROVE  Runs(proc'[q]) /\ proc'[q].start <= changes'
  <2>1. Runs(proc[q]) /\ proc[q].start <= changes /\ proc[q].start \in Nat
    BY DEF Kept, Callers, Types, Identity
  <2> QED
    BY <1>1, <1>2, <2>1
<1>11. Callers'
  BY <1>10 DEF Callers, Runs
<1>12. Founded'
  BY <1>1, <1>4 DEF Kept, Founded, Backed
<1>13. Decisions'
  BY <1>5, <1>7 DEF Decisions, OutcomeKept
<1> QED
  BY <1>9, <1>11, <1>12, <1>13 DEF Kept

-----------------------------------------------------------------------------
(* The theorems                                                            *)

LEMMA InitKept == Init => Kept
<1> SUFFICES ASSUME Init
             PROVE  Kept
  OBVIOUS
<1>1. /\ rules = Declared /\ sessions = {} /\ changes = 0
      /\ said = [rules |-> Declared, always |-> {}, sessions |-> {}]
      /\ proc \in [Procs -> Identity] /\ script \in [Scripts -> Versions]
      /\ open = [a \in Opens |-> NoOpen] /\ seen = [a \in Opens |-> NoSeen]
      /\ Declared \in SUBSET Rule
  BY RulePolicyAssumption DEF Init
<1>2. said \in [rules : SUBSET Rule, always : SUBSET Choices, sessions : SUBSET Identity]
  BY <1>1
<1>3. /\ open \in [Opens -> Opening] /\ seen \in [Opens -> Seeing]
      /\ \A a \in Opens : open[a].stage = "none"
  <2>1. NoSeen \in Seeing
    BY DEF NoSeen, Seeing
  <2> QED
    BY <1>1, <2>1, NoOpenTyped
<1>4. changes \in 0 .. MaxChanges
  BY <1>1, RulePolicyAssumption
<1>5. script \in [Scripts -> Versions \cup {Absent}]
  BY <1>1
<1>6. Types
  BY <1>1, <1>2, <1>3, <1>4, <1>5 DEF Types
<1>7. Callers
  BY <1>1 DEF Init, Callers, Runs
<1>8. Founded
  BY <1>1 DEF Founded, Backed
<1>9. Decisions
  BY <1>3 DEF Decisions, OutcomeKept, Deciding
<1> QED
  BY <1>6, <1>7, <1>8, <1>9 DEF Kept

LEMMA NextKept == Kept /\ [Next]_vars => Kept'
<1> SUFFICES ASSUME Kept, [Next]_vars
             PROVE  Kept'
  OBVIOUS
<1>1. ASSUME NEW a \in Opens, OpenStep(a)
      PROVE  Kept'
  <2>1. ASSUME NEW p \in Procs, NEW kind \in Calls, Arrive(a, p, kind)
        PROVE  Kept'
    BY <2>1, ArriveKept
  <2>2. CASE LookUp(a) \/ \E r \in open[a].rest : Hash(a, r)
    BY <2>2, LookUpKept, HashKept
  <2>3. CASE CheckSession(a)
    BY <2>3, CheckSessionKept
  <2>4. CASE AnswerOnce(a) \/ FallBack(a)
    BY <2>4, AnswerOnceKept
  <2>5. CASE AnswerSession(a)
    BY <2>5, AnswerSessionKept
  <2>6. ASSUME NEW choice \in {"allow", "deny"}, AnswerAlways(a, choice)
        PROVE  Kept'
    BY <2>6, AnswerAlwaysKept
  <2>7. CASE Persist(a)
    BY <2>7, PersistKept
  <2>8. CASE Complete(a)
    BY <2>8, CompleteKept
  <2>9. CASE Close(a)
    BY <2>9, CloseKept
  <2> QED
    BY <1>1, <2>1, <2>2, <2>3, <2>4, <2>5, <2>6, <2>7, <2>8, <2>9 DEF OpenStep
<1>2. CASE Command
  BY <1>2, CommandKept
<1>3. CASE Environment
  BY <1>3, ReuseKept, ExecKept, EditScriptKept, RestartKept DEF Environment
<1>4. CASE UNCHANGED vars
  <2>1. /\ Types' /\ Callers' /\ Founded'
    BY <1>4 DEF vars, Kept, Types, Callers, Founded, Backed
  <2>2. ASSUME NEW a \in Opens
        PROVE  /\ Deciding(open'[a]) => DecisionKept(open[a], seen[a])'
               /\ OutcomeKept(open[a], seen[a])'
    <3>1. /\ Deciding(open[a]) => DecisionKept(open[a], seen[a])
          /\ OutcomeKept(open[a], seen[a])
      BY DEF Kept, Decisions
    <3>2. Fresh(open[a], seen[a])' <=> Fresh(open[a], seen[a])
      BY <1>4 DEF vars, Fresh
    <3>3. Looping(open[a], seen[a])' <=> Looping(open[a], seen[a])
      BY <1>4 DEF vars, Looping, Consented
    <3>4. Looking(open[a], seen[a])' <=> Looking(open[a], seen[a])
      BY <1>4 DEF vars, Looking, Consented, Backed
    <3>5. open'[a] = open[a] /\ seen'[a] = seen[a]
      BY <1>4 DEF vars
    <3>6. DecisionKept(open[a], seen[a])' <=> DecisionKept(open[a], seen[a])
      BY <3>2, <3>3, <3>4, <3>5 DEF DecisionKept
    <3> QED
      BY <3>1, <3>5, <3>6 DEF OutcomeKept, Deciding
  <2>3. Decisions'
    BY <2>2 DEF Decisions
  <2> QED
    BY <2>1, <2>3 DEF Kept
<1> QED
  BY <1>1, <1>2, <1>3, <1>4 DEF Next

LEMMA AlwaysKept == Spec => []Kept
<1> QED
  BY InitKept, NextKept, PTL DEF Spec

\* What a handle, or a truncation, lets a caller do to the file, somebody
\* consented to for that caller: by the question about this open, for the
\* session of this process instance, for good with these contents of its
\* script, or with an administrator's rule; however rules, scripts and
\* processes change meanwhile.
THEOREM AlwaysAuthorised == Spec => []Authorised
<1>1. Kept => Authorised
  <2> SUFFICES ASSUME Kept, NEW a \in Opens
               PROVE  Exercisable(open[a]) \subseteq open[a].basis
    BY DEF Authorised
  <2>1. OutcomeKept(open[a], seen[a]) /\ open[a] \in Opening
    BY DEF Kept, Decisions, Types
  <2>2. CASE open[a].stage = "granted"
    BY <2>1, <2>2 DEF OutcomeKept, Exercisable
  <2>3. CASE open[a].stage = "open"
    BY <2>1, <2>3 DEF OutcomeKept
  <2>4. CASE open[a].stage \notin {"granted", "open"}
    BY <2>4 DEF Exercisable
  <2> QED
    BY <2>2, <2>3, <2>4
<1> QED
  BY <1>1, AlwaysKept, PTL

\* No decision allows an open although a rule that matches denied it at every
\* moment: neither a rule that allows, nor a session's grant, nor the order of
\* the rules, nor a change of another rule hides a deny, unless its own script's
\* hash fails.
THEOREM DenialsHold == Spec => []DenyThroughout
<1>1. Kept => DenyThroughout
  BY DEF Kept, Decisions, OutcomeKept, Undenied, Silent, DenyThroughout
<1> QED
  BY <1>1, AlwaysKept, PTL

\* The types; and a user is asked only about an open that rules whose hashes did
\* not fail, and sessions, did not authorize, in all its directions, throughout.
THEOREM AskedSoundly == Spec => []AskingSound
<1>1. Kept => TypeOK
  <2> SUFFICES ASSUME Kept
               PROVE  TypeOK
    OBVIOUS
  <2>1. \A a \in Opens : open[a] \in Opening /\ seen[a] \in Seeing
    BY DEF Kept, Types
  <2> QED
    BY <2>1 DEF Kept, Types, Opening, Seeing, TypeOK
<1>2. Kept => AskedWhenNeeded
  BY DEF Kept, Decisions, DecisionKept, Deciding, AskedWhenNeeded
<1> QED
  BY <1>1, <1>2, AlwaysKept, PTL DEF AskingSound
=============================================================================
