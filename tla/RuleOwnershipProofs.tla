------------------------ MODULE RuleOwnershipProofs ------------------------
(***************************************************************************)
(* Proofs about RuleOwnership: the type invariant, LeaseFollowsPolicy,     *)
(* RulesAgree and IdsAreStable, for every number of daemons and clients    *)
(* and every bound.                                                        *)
(*                                                                         *)
(* RulesAgree needs to know that nobody but the holder of the lease        *)
(* touches the database, and who holds it where (Custody).                 *)
(***************************************************************************)
EXTENDS RuleOwnership, TLAPS

Issued == [kind : {"add"}, id : {0}, action : Actions]
            \cup [kind : {"edit"}, id : Nat, action : Actions]
            \cup [kind : {"remove"}, id : Nat, action : {"none"}]

Starting == {"leased", "unlink", "bind", "bound"}

\* Who holds the lease, and the policy, where.
Custody ==
    /\ \A d \in Daemons :
         /\ dpc[d] \in Starting => lease = d
         /\ dpc[d] \in Starting \cup {"off"} => ~Owns(d)
         /\ dpc[d] \in {"loaded", "serving"} => policy[d]
    /\ \A c \in Clients : cpc[c] \in {"probe", "unlink", "execute"} => lease = c

\* Commands are commands from when they are issued, and mean ids that were given.
Commands ==
    /\ nextId > 0
    /\ \A c \in Clients : cmd[c].id < nextId
    /\ \A c \in Clients : cpc[c] # "idle" => cmd[c] \in Issued
    /\ \A c \in Clients : req[c].to # NoOne => cpc[c] # "idle"

IInv == TypeOK /\ Commands /\ Custody /\ LeaseFollowsPolicy /\ RulesAgree

-----------------------------------------------------------------------------
(* Rules                                                                   *)

\* A change that a set of rules accepts leaves rules, below the next id.
LEMMA ChangedType ==
    ASSUME NEW r, IsRules(r), nextId \in Nat, nextId > 0,
           NEW k \in Issued, Accepts(r, k)
    PROVE  /\ DOMAIN Changed(r, k) \subseteq 1 .. (IF k.kind = "add" THEN nextId + 1 ELSE nextId) - 1
           /\ \A id \in DOMAIN Changed(r, k) : Changed(r, k)[id] \in Actions
           /\ DOMAIN Changed(r, k) \subseteq DOMAIN r \cup {nextId}
  <1>1. CASE k.kind = "add"
    <2>1. k.action \in Actions
      BY <1>1 DEF Issued
    <2>2. Changed(r, k) = [id \in DOMAIN r \cup {nextId} |-> IF id = nextId THEN k.action ELSE r[id]]
      BY <1>1 DEF Changed
    <2> QED
      BY <1>1, <2>1, <2>2 DEF IsRules
  <1>2. CASE k.kind = "edit"
    <2>1. k.action \in Actions /\ k.id \in DOMAIN r
      BY <1>2 DEF Issued, Accepts
    <2>2. Changed(r, k) = [r EXCEPT ![k.id] = k.action]
      BY <1>2 DEF Changed
    <2> QED
      BY <1>2, <2>1, <2>2 DEF IsRules
  <1>3. CASE k.kind = "remove"
    <2>1. Changed(r, k) = [id \in DOMAIN r \ {k.id} |-> r[id]]
      BY <1>3 DEF Changed
    <2> QED
      BY <1>3, <2>1 DEF IsRules
  <1> QED
    BY <1>1, <1>2, <1>3 DEF Issued

\* The transaction keeps rules rules, in the database and in every memory, and
\* adds the next id or none.
LEMMA StoreType ==
    ASSUME nextId \in Nat, nextId > 0, NEW k \in Issued, IsRules(db), Accepts(db, k), Store(k)
    PROVE  /\ IsRules(db)' /\ nextId' \in Nat /\ nextId' >= nextId
           /\ DOMAIN db' \subseteq DOMAIN db \cup {nextId}
           /\ \A r : IsRules(r) => DOMAIN r \subseteq 1 .. nextId' - 1
           /\ \A r : IsRules(r) /\ Accepts(r, k) =>
                /\ DOMAIN Changed(r, k) \subseteq 1 .. nextId' - 1
                /\ \A id \in DOMAIN Changed(r, k) : Changed(r, k)[id] \in Actions
  <1>1. db' = Changed(db, k) /\ nextId' = IF k.kind = "add" THEN nextId + 1 ELSE nextId
    BY DEF Store
  <1>2. \A r : IsRules(r) => DOMAIN r \subseteq 1 .. nextId' - 1
    BY <1>1 DEF IsRules
  <1>3. \A r : IsRules(r) /\ Accepts(r, k) =>
          /\ DOMAIN Changed(r, k) \subseteq 1 .. nextId' - 1
          /\ \A id \in DOMAIN Changed(r, k) : Changed(r, k)[id] \in Actions
          /\ DOMAIN Changed(r, k) \subseteq DOMAIN r \cup {nextId}
    BY <1>1, ChangedType
  <1> QED
    BY <1>1, <1>2, <1>3 DEF IsRules

-----------------------------------------------------------------------------
(* Steps that leave the rules alone                                        *)

\* A daemon's start, its stop, its death, and an authorization that changes no rule.
LEMMA ControlStep ==
    ASSUME IInv, NEW d \in Daemons,
           \/ Acquire(d) \/ Probe(d) \/ Unlink(d) \/ Bind(d) \/ Load(d) \/ LoadFails(d)
           \/ Start(d) \/ StartFails(d) \/ Stop(d) \/ Inspect(d) \/ Remove(d) \/ Release(d)
           \/ Exit(d) \/ Crash(d) \/ ServerEnds(d) \/ Ask(d) \/ Choose(d)
    PROVE  IInv'
  <1> USE RuleOwnershipAssumption DEF IInv, Custody, LeaseFollowsPolicy, RulesAgree, Owns, Starting,
          At, Still, Dropped, client, rules, main, TypeOK, Commands
  <1>1. CASE Acquire(d)
    <2>1. TypeOK'
      BY <1>1 DEF Acquire, IsRules, Results, NoRules
    <2>2. Commands'
      BY <1>1 DEF Acquire
    <2>3. Custody'
      BY <1>1 DEF Acquire
    <2>4. LeaseFollowsPolicy'
      BY <1>1 DEF Acquire
    <2>5. RulesAgree'
      BY <1>1 DEF Acquire
    <2> QED
      BY <2>1, <2>2, <2>3, <2>4, <2>5
  <1>2. CASE Probe(d)
    <2>1. TypeOK'
      BY <1>2 DEF Probe, IsRules, Results, NoRules
    <2>2. Commands'
      BY <1>2 DEF Probe
    <2>3. Custody'
      BY <1>2 DEF Probe
    <2>4. LeaseFollowsPolicy'
      BY <1>2 DEF Probe
    <2>5. RulesAgree'
      BY <1>2 DEF Probe
    <2> QED
      BY <2>1, <2>2, <2>3, <2>4, <2>5
  <1>3. CASE Unlink(d)
    <2>1. TypeOK'
      BY <1>3 DEF Unlink, IsRules, Results, NoRules
    <2>2. Commands'
      BY <1>3 DEF Unlink
    <2>3. Custody'
      BY <1>3 DEF Unlink
    <2>4. LeaseFollowsPolicy'
      BY <1>3 DEF Unlink
    <2>5. RulesAgree'
      BY <1>3 DEF Unlink
    <2> QED
      BY <2>1, <2>2, <2>3, <2>4, <2>5
  <1>4. CASE Bind(d)
    <2>1. TypeOK'
      <3>1. listening' \in [Daemons -> BOOLEAN] /\ socket' \in Daemons \cup {NoOne}
        BY <1>4 DEF Bind
      <3>2. dpc' \in [Daemons -> {"off", "leased", "unlink", "bind", "bound", "loaded", "serving",
                                  "drop", "remove", "release", "gone"}]
        BY <1>4 DEF Bind
      <3>3. lease' \in Daemons \cup Clients \cup {NoOne}
        BY <1>4 DEF Bind
      <3> QED
        BY <1>4, <3>1, <3>2, <3>3 DEF Bind, IsRules
    <2>2. Commands'
      BY <1>4 DEF Bind
    <2>3. Custody'
      BY <1>4 DEF Bind
    <2>4. LeaseFollowsPolicy'
      BY <1>4 DEF Bind
    <2>5. RulesAgree'
      BY <1>4 DEF Bind
    <2> QED
      BY <2>1, <2>2, <2>3, <2>4, <2>5
  <1>5. CASE Load(d)
    <2>1. TypeOK'
      BY <1>5 DEF Load, IsRules, Results, NoRules
    <2>2. Commands'
      BY <1>5 DEF Load
    <2>3. Custody'
      BY <1>5 DEF Load
    <2>4. LeaseFollowsPolicy'
      BY <1>5 DEF Load
    <2>5. RulesAgree'
      BY <1>5 DEF Load
    <2> QED
      BY <2>1, <2>2, <2>3, <2>4, <2>5
  <1>6. CASE LoadFails(d)
    <2>1. TypeOK'
      BY <1>6 DEF LoadFails, IsRules, Results, NoRules
    <2>2. Commands'
      BY <1>6 DEF LoadFails
    <2>3. Custody'
      BY <1>6 DEF LoadFails
    <2>4. LeaseFollowsPolicy'
      BY <1>6 DEF LoadFails
    <2>5. RulesAgree'
      BY <1>6 DEF LoadFails
    <2> QED
      BY <2>1, <2>2, <2>3, <2>4, <2>5
  <1>7. CASE Start(d)
    <2>1. TypeOK'
      BY <1>7 DEF Start, IsRules, Results, NoRules
    <2>2. Commands'
      BY <1>7 DEF Start
    <2>3. Custody'
      BY <1>7 DEF Start
    <2>4. LeaseFollowsPolicy'
      BY <1>7 DEF Start
    <2>5. RulesAgree'
      BY <1>7 DEF Start
    <2> QED
      BY <2>1, <2>2, <2>3, <2>4, <2>5
  <1>8. CASE StartFails(d)
    <2>1. TypeOK'
      <3>1. listening' \in [Daemons -> BOOLEAN] /\ policy' \in [Daemons -> BOOLEAN]
        BY <1>8 DEF StartFails, ReleasePolicy
      <3>2. dpc' \in [Daemons -> {"off", "leased", "unlink", "bind", "bound", "loaded", "serving",
                                  "drop", "remove", "release", "gone"}]
        BY <1>8 DEF StartFails
      <3>3. lease' \in Daemons \cup Clients \cup {NoOne}
        BY <1>8 DEF StartFails, ReleasePolicy
      <3>4. DOMAIN mem' = Daemons /\ \A e \in Daemons : IsRules(mem[e])'
        BY <1>8 DEF StartFails, ReleasePolicy, IsRules, NoRules
      <3>5. req' \in [Clients -> [to : Daemons \cup {NoOne}, result : Results]]
        BY <1>8 DEF StartFails, Closed, NoReq, Results
      <3> QED
        BY <1>8, <3>1, <3>2, <3>3, <3>4, <3>5 DEF StartFails, IsRules
    <2>2. Commands'
      BY <1>8 DEF StartFails, ReleasePolicy, Closed, NoReq
    <2>3. Custody'
      BY <1>8 DEF StartFails, ReleasePolicy, Closed, NoReq
    <2>4. LeaseFollowsPolicy'
      BY <1>8 DEF StartFails, ReleasePolicy, Closed, NoReq
    <2>5. RulesAgree'
      BY <1>8 DEF StartFails, ReleasePolicy, Closed, NoReq
    <2> QED
      BY <2>1, <2>2, <2>3, <2>4, <2>5
  <1>9. CASE Stop(d)
    <2>1. TypeOK'
      BY <1>9 DEF Stop, Closed, NoReq, IsRules, Results, NoRules
    <2>2. Commands'
      BY <1>9 DEF Stop, Closed, NoReq
    <2>3. Custody'
      BY <1>9 DEF Stop, Closed, NoReq
    <2>4. LeaseFollowsPolicy'
      BY <1>9 DEF Stop, Closed, NoReq
    <2>5. RulesAgree'
      BY <1>9 DEF Stop, Closed, NoReq
    <2> QED
      BY <2>1, <2>2, <2>3, <2>4, <2>5
  <1>10. CASE Inspect(d)
    <2>1. TypeOK'
      BY <1>10 DEF Inspect, IsRules, Results, NoRules
    <2>2. Commands'
      BY <1>10 DEF Inspect
    <2>3. Custody'
      BY <1>10 DEF Inspect
    <2>4. LeaseFollowsPolicy'
      BY <1>10 DEF Inspect
    <2>5. RulesAgree'
      BY <1>10 DEF Inspect
    <2> QED
      BY <2>1, <2>2, <2>3, <2>4, <2>5
  <1>11. CASE Remove(d)
    <2>1. TypeOK'
      BY <1>11 DEF Remove, Closed, NoReq, IsRules, Results, NoRules
    <2>2. Commands'
      BY <1>11 DEF Remove, Closed, NoReq
    <2>3. Custody'
      BY <1>11 DEF Remove, Closed, NoReq
    <2>4. LeaseFollowsPolicy'
      BY <1>11 DEF Remove, Closed, NoReq
    <2>5. RulesAgree'
      BY <1>11 DEF Remove, Closed, NoReq
    <2> QED
      BY <2>1, <2>2, <2>3, <2>4, <2>5
  <1>12. CASE Release(d)
    <2>1. TypeOK'
      BY <1>12 DEF Release, ReleasePolicy, Closed, NoReq, IsRules, Results, NoRules
    <2>2. Commands'
      BY <1>12 DEF Release, ReleasePolicy, Closed, NoReq
    <2>3. Custody'
      BY <1>12 DEF Release, ReleasePolicy, Closed, NoReq
    <2>4. LeaseFollowsPolicy'
      BY <1>12 DEF Release, ReleasePolicy, Closed, NoReq
    <2>5. RulesAgree'
      BY <1>12 DEF Release, ReleasePolicy, Closed, NoReq
    <2> QED
      BY <2>1, <2>2, <2>3, <2>4, <2>5
  <1>13. CASE Exit(d)
    <2>1. TypeOK'
      BY <1>13 DEF Exit, Die, Closed, NoReq, IsRules, Results, NoRules
    <2>2. Commands'
      BY <1>13 DEF Exit, Die, Closed, NoReq
    <2>3. Custody'
      BY <1>13 DEF Exit, Die, Closed, NoReq
    <2>4. LeaseFollowsPolicy'
      BY <1>13 DEF Exit, Die, Closed, NoReq
    <2>5. RulesAgree'
      BY <1>13 DEF Exit, Die, Closed, NoReq
    <2> QED
      BY <2>1, <2>2, <2>3, <2>4, <2>5
  <1>14. CASE Crash(d)
    <2>1. TypeOK'
      BY <1>14 DEF Crash, Die, Closed, NoReq, IsRules, Results, NoRules
    <2>2. Commands'
      BY <1>14 DEF Crash, Die, Closed, NoReq
    <2>3. Custody'
      BY <1>14 DEF Crash, Die, Closed, NoReq
    <2>4. LeaseFollowsPolicy'
      BY <1>14 DEF Crash, Die, Closed, NoReq
    <2>5. RulesAgree'
      BY <1>14 DEF Crash, Die, Closed, NoReq
    <2> QED
      BY <2>1, <2>2, <2>3, <2>4, <2>5
  <1>15. CASE ServerEnds(d)
    <2>1. TypeOK'
      BY <1>15 DEF ServerEnds, Closed, NoReq, IsRules, Results, NoRules
    <2>2. Commands'
      BY <1>15 DEF ServerEnds, Closed, NoReq
    <2>3. Custody'
      BY <1>15 DEF ServerEnds, Closed, NoReq
    <2>4. LeaseFollowsPolicy'
      BY <1>15 DEF ServerEnds, Closed, NoReq
    <2>5. RulesAgree'
      BY <1>15 DEF ServerEnds, Closed, NoReq
    <2> QED
      BY <2>1, <2>2, <2>3, <2>4, <2>5
  <1>16. CASE Ask(d)
    <2>1. TypeOK'
      BY <1>16 DEF Ask, IsRules, Results, NoRules
    <2>2. Commands'
      BY <1>16 DEF Ask
    <2>3. Custody'
      BY <1>16 DEF Ask
    <2>4. LeaseFollowsPolicy'
      BY <1>16 DEF Ask
    <2>5. RulesAgree'
      BY <1>16 DEF Ask
    <2> QED
      BY <2>1, <2>2, <2>3, <2>4, <2>5
  <1>17. CASE Choose(d)
    <2>1. TypeOK'
      BY <1>17 DEF Choose, Decided, IsRules, Results, NoRules
    <2>2. Commands'
      BY <1>17 DEF Choose, Decided
    <2>3. Custody'
      BY <1>17 DEF Choose, Decided
    <2>4. LeaseFollowsPolicy'
      BY <1>17 DEF Choose, Decided
    <2>5. RulesAgree'
      BY <1>17 DEF Choose, Decided
    <2> QED
      BY <2>1, <2>2, <2>3, <2>4, <2>5
  <1> QED
    BY <1>1, <1>2, <1>3, <1>4, <1>5, <1>6, <1>7, <1>8, <1>9, <1>10, <1>11, <1>12, <1>13,
       <1>14, <1>15, <1>16, <1>17

-----------------------------------------------------------------------------
(* Steps of a client                                                       *)

Places == {"idle", "stat", "request", "waiting", "direct", "waitingDirect", "fallback",
           "offline", "look", "probe", "unlink", "execute", "done"}

\* A client moves on, or ends with an answer.
LEMMA ClientMoves ==
    ASSUME TypeOK, NEW c \in Clients, NEW to \in Places, NEW what \in Results,
           Goto(c, to) \/ End(c, what)
    PROVE  cpc' \in [Clients -> Places] /\ answer' \in [Clients -> Results] /\ cmd' = cmd
  <1>1. cpc \in [Clients -> Places] /\ answer \in [Clients -> Results]
    BY DEF TypeOK, Places
  <1>2. "done" \in Places
    BY DEF Places
  <1>3. \/ cpc' = [cpc EXCEPT ![c] = to] /\ UNCHANGED <<cmd, answer>>
        \/ /\ cpc' = [cpc EXCEPT ![c] = "done"] /\ answer' = [answer EXCEPT ![c] = what]
           /\ UNCHANGED cmd
    BY DEF Goto, End
  <1> QED
    BY ONLY <1>1, <1>2, <1>3, c \in Clients, to \in Places, what \in Results

\* A step of a client leaves the types of what it does not touch.
LEMMA ClientTyped ==
    ASSUME TypeOK, UNCHANGED <<rules, daemon, cmd, effects, history>>,
           cpc' \in [Clients -> Places], answer' \in [Clients -> Results],
           req' \in [Clients -> [to : Daemons \cup {NoOne}, result : Results]],
           lease' \in Daemons \cup Clients \cup {NoOne}, socket' \in Daemons \cup {NoOne}
    PROVE  TypeOK'
  BY DEF TypeOK, Places, rules, daemon, main, history, IsRules

\* A client that neither issues nor executes.
LEMMA ClientQuiet ==
    ASSUME IInv, NEW c \in Clients,
           \/ Stat(c) \/ Connect(c) \/ Receive(c) \/ GiveUp(c) \/ Fallback(c) \/ Offline(c)
           \/ Look(c) \/ ProbeOffline(c) \/ UnlinkOffline(c) \/ Kill(c)
    PROVE  IInv'
  <1> USE RuleOwnershipAssumption DEF IInv, Custody, LeaseFollowsPolicy, RulesAgree, Owns, Starting,
          Dropped, client, daemon, rules, main, history, TypeOK, Commands, Calm, Goto, End
  <1>1. CASE Stat(c)
    <2>1. TypeOK'
      <3>1. \E to \in Places, what \in Results : Goto(c, to) \/ End(c, what)
        BY ONLY <1>1, TypeOK, c \in Clients DEF Stat, Places, Results, TypeOK
      <3>2. req' \in [Clients -> [to : Daemons \cup {NoOne}, result : Results]]
        BY <1>1 DEF Stat, Results, NoReq, Live
      <3>3. lease' \in Daemons \cup Clients \cup {NoOne} /\ socket' \in Daemons \cup {NoOne}
        BY <1>1 DEF Stat
      <3> QED
        BY ONLY <1>1, <3>1, <3>2, <3>3, TypeOK, c \in Clients, ClientMoves, ClientTyped
        DEF Stat, Calm
    <2>2. Commands'
      BY <1>1 DEF Stat
    <2>3. Custody'
      BY <1>1 DEF Stat
    <2>4. LeaseFollowsPolicy' /\ RulesAgree'
      BY <1>1 DEF Stat
    <2> QED
      BY <2>1, <2>2, <2>3, <2>4
  <1>2. CASE Connect(c)
    <2>1. TypeOK'
      <3>1. \E to \in Places, what \in Results : Goto(c, to) \/ End(c, what)
        BY ONLY <1>2, TypeOK, c \in Clients DEF Connect, RequestFails, Places, Results, TypeOK
      <3>2. req' \in [Clients -> [to : Daemons \cup {NoOne}, result : Results]]
        <4>1. req \in [Clients -> [to : Daemons \cup {NoOne}, result : Results]]
              /\ socket \in Daemons \cup {NoOne}
          OBVIOUS
        <4>2. req' = [req EXCEPT ![c] = [to |-> socket, result |-> "none"]] \/ req' = req
          BY ONLY <1>2 DEF Connect
        <4> QED
          BY ONLY <4>1, <4>2, c \in Clients DEF Results
      <3>3. lease' \in Daemons \cup Clients \cup {NoOne} /\ socket' \in Daemons \cup {NoOne}
        BY <1>2 DEF Connect
      <3> QED
        BY ONLY <1>2, <3>1, <3>2, <3>3, TypeOK, c \in Clients, ClientMoves, ClientTyped
        DEF Connect, Calm
    <2>2. Commands'
      <3>1. cpc[c] # "idle" /\ UNCHANGED <<cmd, nextId>>
        BY ONLY <1>2 DEF Connect, RequestFails, Goto, End, Calm, rules
      <3>2. \A b \in Clients : b # c => cpc'[b] = cpc[b] /\ req'[b] = req[b]
        BY ONLY <1>2, TypeOK, c \in Clients DEF Connect, RequestFails, Goto, End, TypeOK
      <3>3. cpc'[c] # "idle"
        BY ONLY <1>2, TypeOK, c \in Clients DEF Connect, RequestFails, Goto, End, TypeOK
      <3> QED
        BY <3>1, <3>2, <3>3
    <2>3. Custody'
      BY <1>2 DEF Connect, RequestFails, Live
    <2>4. LeaseFollowsPolicy' /\ RulesAgree'
      BY <1>2 DEF Connect, RequestFails, Live
    <2> QED
      BY <2>1, <2>2, <2>3, <2>4
  <1>3. CASE Receive(c)
    <2>1. TypeOK'
      <3>1. \E to \in Places, what \in Results : Goto(c, to) \/ End(c, what)
        BY ONLY <1>3, TypeOK, c \in Clients DEF Receive, RequestFails, Places, Results, TypeOK
      <3>2. req' \in [Clients -> [to : Daemons \cup {NoOne}, result : Results]]
        BY <1>3 DEF Receive, Results, NoReq, Live
      <3>3. lease' \in Daemons \cup Clients \cup {NoOne} /\ socket' \in Daemons \cup {NoOne}
        BY <1>3 DEF Receive
      <3> QED
        BY ONLY <1>3, <3>1, <3>2, <3>3, TypeOK, c \in Clients, ClientMoves, ClientTyped
        DEF Receive, Calm
    <2>2. Commands'
      BY <1>3 DEF Receive, RequestFails, Waiting, NoReq
    <2>3. Custody'
      BY <1>3 DEF Receive, RequestFails, Waiting, NoReq
    <2>4. LeaseFollowsPolicy' /\ RulesAgree'
      BY <1>3 DEF Receive, RequestFails, Waiting, NoReq
    <2> QED
      BY <2>1, <2>2, <2>3, <2>4
  <1>4. CASE GiveUp(c)
    <2>1. TypeOK'
      <3>1. \E to \in Places, what \in Results : Goto(c, to) \/ End(c, what)
        BY ONLY <1>4, TypeOK, c \in Clients DEF GiveUp, RequestFails, Places, Results, TypeOK
      <3>2. req' \in [Clients -> [to : Daemons \cup {NoOne}, result : Results]]
        BY <1>4 DEF GiveUp, Results, NoReq, Live
      <3>3. lease' \in Daemons \cup Clients \cup {NoOne} /\ socket' \in Daemons \cup {NoOne}
        BY <1>4 DEF GiveUp
      <3> QED
        BY ONLY <1>4, <3>1, <3>2, <3>3, TypeOK, c \in Clients, ClientMoves, ClientTyped
        DEF GiveUp, Calm
    <2>2. Commands'
      BY <1>4 DEF GiveUp, RequestFails, Waiting
    <2>3. Custody'
      BY <1>4 DEF GiveUp, RequestFails, Waiting
    <2>4. LeaseFollowsPolicy' /\ RulesAgree'
      BY <1>4 DEF GiveUp, RequestFails, Waiting
    <2> QED
      BY <2>1, <2>2, <2>3, <2>4
  <1>5. CASE Fallback(c)
    <2>1. TypeOK'
      <3>1. \E to \in Places, what \in Results : Goto(c, to) \/ End(c, what)
        BY ONLY <1>5, TypeOK, c \in Clients DEF Fallback, Places, Results, TypeOK
      <3>2. req' \in [Clients -> [to : Daemons \cup {NoOne}, result : Results]]
        BY <1>5 DEF Fallback, Results, NoReq, Live
      <3>3. lease' \in Daemons \cup Clients \cup {NoOne} /\ socket' \in Daemons \cup {NoOne}
        BY <1>5 DEF Fallback
      <3> QED
        BY ONLY <1>5, <3>1, <3>2, <3>3, TypeOK, c \in Clients, ClientMoves, ClientTyped
        DEF Fallback, Calm
    <2>2. Commands'
      BY <1>5 DEF Fallback
    <2>3. Custody'
      BY <1>5 DEF Fallback
    <2>4. LeaseFollowsPolicy' /\ RulesAgree'
      BY <1>5 DEF Fallback
    <2> QED
      BY <2>1, <2>2, <2>3, <2>4
  <1>6. CASE Offline(c)
    <2>1. TypeOK'
      <3>1. \E to \in Places, what \in Results : Goto(c, to) \/ End(c, what)
        BY ONLY <1>6, TypeOK, c \in Clients DEF Offline, Places, Results, TypeOK
      <3>2. req' \in [Clients -> [to : Daemons \cup {NoOne}, result : Results]]
        BY <1>6 DEF Offline, Results, NoReq, Live
      <3>3. lease' \in Daemons \cup Clients \cup {NoOne} /\ socket' \in Daemons \cup {NoOne}
        BY <1>6 DEF Offline
      <3> QED
        BY ONLY <1>6, <3>1, <3>2, <3>3, TypeOK, c \in Clients, ClientMoves, ClientTyped
        DEF Offline, Calm
    <2>2. Commands'
      BY <1>6 DEF Offline
    <2>3. Custody'
      BY <1>6 DEF Offline
    <2>4. LeaseFollowsPolicy' /\ RulesAgree'
      BY <1>6 DEF Offline
    <2> QED
      BY <2>1, <2>2, <2>3, <2>4
  <1>7. CASE Look(c)
    <2>1. TypeOK'
      <3>1. \E to \in Places, what \in Results : Goto(c, to) \/ End(c, what)
        BY ONLY <1>7, TypeOK, c \in Clients DEF Look, Places, Results, TypeOK
      <3>2. req' \in [Clients -> [to : Daemons \cup {NoOne}, result : Results]]
        BY <1>7 DEF Look, Results, NoReq, Live
      <3>3. lease' \in Daemons \cup Clients \cup {NoOne} /\ socket' \in Daemons \cup {NoOne}
        BY <1>7 DEF Look
      <3> QED
        BY ONLY <1>7, <3>1, <3>2, <3>3, TypeOK, c \in Clients, ClientMoves, ClientTyped
        DEF Look, Calm
    <2>2. Commands'
      BY <1>7 DEF Look
    <2>3. Custody'
      BY <1>7 DEF Look
    <2>4. LeaseFollowsPolicy' /\ RulesAgree'
      BY <1>7 DEF Look
    <2> QED
      BY <2>1, <2>2, <2>3, <2>4
  <1>8. CASE ProbeOffline(c)
    <2>1. TypeOK'
      <3>1. \E to \in Places, what \in Results : Goto(c, to) \/ End(c, what)
        BY ONLY <1>8, TypeOK, c \in Clients DEF ProbeOffline, Places, Results, TypeOK
      <3>2. req' \in [Clients -> [to : Daemons \cup {NoOne}, result : Results]]
        BY <1>8 DEF ProbeOffline, Results, NoReq, Live
      <3>3. lease' \in Daemons \cup Clients \cup {NoOne} /\ socket' \in Daemons \cup {NoOne}
        BY <1>8 DEF ProbeOffline
      <3> QED
        BY ONLY <1>8, <3>1, <3>2, <3>3, TypeOK, c \in Clients, ClientMoves, ClientTyped
        DEF ProbeOffline, Calm
    <2>2. Commands'
      BY <1>8 DEF ProbeOffline
    <2>3. Custody'
      BY <1>8 DEF ProbeOffline
    <2>4. LeaseFollowsPolicy' /\ RulesAgree'
      BY <1>8 DEF ProbeOffline
    <2> QED
      BY <2>1, <2>2, <2>3, <2>4
  <1>9. CASE UnlinkOffline(c)
    <2>1. TypeOK'
      <3>1. \E to \in Places, what \in Results : Goto(c, to) \/ End(c, what)
        BY ONLY <1>9, TypeOK, c \in Clients DEF UnlinkOffline, Places, Results, TypeOK
      <3>2. req' \in [Clients -> [to : Daemons \cup {NoOne}, result : Results]]
        BY <1>9 DEF UnlinkOffline, Results, NoReq, Live
      <3>3. lease' \in Daemons \cup Clients \cup {NoOne} /\ socket' \in Daemons \cup {NoOne}
        BY <1>9 DEF UnlinkOffline
      <3> QED
        BY ONLY <1>9, <3>1, <3>2, <3>3, TypeOK, c \in Clients, ClientMoves, ClientTyped
        DEF UnlinkOffline, Calm
    <2>2. Commands'
      BY <1>9 DEF UnlinkOffline
    <2>3. Custody'
      BY <1>9 DEF UnlinkOffline
    <2>4. LeaseFollowsPolicy' /\ RulesAgree'
      BY <1>9 DEF UnlinkOffline
    <2> QED
      BY <2>1, <2>2, <2>3, <2>4
  <1>10. CASE Kill(c)
    <2>1. TypeOK'
      BY <1>10 DEF Kill, IsRules, Results
    <2>2. Commands'
      BY <1>10 DEF Kill
    <2>3. Custody'
      BY <1>10 DEF Kill
    <2>4. LeaseFollowsPolicy' /\ RulesAgree'
      BY <1>10 DEF Kill
    <2> QED
      BY <2>1, <2>2, <2>3, <2>4
  <1> QED
    BY <1>1, <1>2, <1>3, <1>4, <1>5, <1>6, <1>7, <1>8, <1>9, <1>10

\* A client names a rule that is there, or a new one.
LEMMA IssueStep ==
    ASSUME IInv, NEW c \in Clients, Issue(c)
    PROVE  IInv'
  <1> USE DEF IInv, Issue, Calm, rules, daemon, main, history
  <1>1. PICK k \in Issued : /\ cmd' = [cmd EXCEPT ![c] = k]
                            /\ k.id = 0 \/ k.id \in DOMAIN db
    <2>1. DOMAIN db \subseteq Nat
      BY DEF TypeOK, IsRules
    <2>2. PICK k \in [kind : {"add"}, id : {0}, action : Actions]
                       \cup [kind : {"edit"}, id : DOMAIN db, action : Actions]
                       \cup [kind : {"remove"}, id : DOMAIN db, action : {"none"}] :
            cmd' = [cmd EXCEPT ![c] = k]
      OBVIOUS
    <2>3. k \in Issued /\ (k.id = 0 \/ k.id \in DOMAIN db)
      BY <2>1, <2>2 DEF Issued
    <2> QED
      BY <2>2, <2>3
  <1>2. k \in Command /\ k.id < nextId
    BY <1>1 DEF Issued, Command, TypeOK, IsRules, Commands
  <1>3. TypeOK'
    BY <1>1, <1>2 DEF TypeOK, IsRules
  <1>4. Commands'
    BY <1>1, <1>2 DEF TypeOK, Commands
  <1>5. Custody' /\ LeaseFollowsPolicy' /\ RulesAgree'
    BY DEF TypeOK, Custody, LeaseFollowsPolicy, RulesAgree, Owns
  <1> QED
    BY <1>3, <1>4, <1>5

-----------------------------------------------------------------------------
(* Steps that change the rules                                             *)

\* What the database and the memories are after a transaction, or none.
Stored(k) == (Accepts(db, k) /\ Store(k)) \/ UNCHANGED rules

LEMMA StoredType ==
    ASSUME IInv, NEW k \in Issued, Stored(k)
    PROVE  /\ IsRules(db)' /\ nextId' \in Nat /\ nextId' >= nextId
           /\ \A r : IsRules(r) => DOMAIN r \subseteq 1 .. nextId' - 1
           /\ DOMAIN db' \subseteq DOMAIN db \cup {nextId}
  BY StoreType DEF IInv, TypeOK, Commands, Stored, rules, IsRules

\* A command, or a permanent choice, in a daemon that holds the policy: memory
\* and database were the same, and change alike.
LEMMA PerformKeeps ==
    ASSUME IInv, NEW d \in Daemons, Owns(d), NEW k \in Issued, NEW result, Perform(d, k, result)
    PROVE  /\ Stored(k)
           /\ DOMAIN mem' = Daemons
           /\ \A e \in Daemons : IsRules(mem[e])'
           /\ mem'[d] = db'
           /\ \A e \in Daemons : e # d => mem'[e] = mem[e]
  <1> USE DEF IInv, TypeOK
  <1>1. CASE UNCHANGED <<rules, mem>>
    BY <1>1 DEF Stored, rules, RulesAgree, IsRules
  <1>2. CASE /\ Accepts(mem[d], k) /\ Accepts(db, k) /\ Store(k)
             /\ mem' = [mem EXCEPT ![d] = Changed(mem[d], k)]
    <2>1. mem[d] = db /\ db' = Changed(db, k)
      BY <1>2 DEF RulesAgree, Store
    <2>2. mem' = [mem EXCEPT ![d] = db']
      BY <1>2, <2>1
    <2>3. Stored(k)
      BY <1>2 DEF Stored
    <2>4. IsRules(db)' /\ \A r : IsRules(r) => DOMAIN r \subseteq 1 .. nextId' - 1
      BY <2>3, StoredType
    <2>5. \A e \in Daemons : IsRules(mem[e])'
      BY <2>2, <2>4 DEF IsRules
    <2> QED
      BY <2>2, <2>3, <2>5
  <1> QED
    BY <1>1, <1>2 DEF Perform

\* The rules belong to the holder of the lease: no other memory is in use.
LEMMA OthersIdle ==
    ASSUME IInv, NEW p \in Daemons \cup Clients, lease = p, NEW e \in Daemons, e # p
    PROVE  ~Owns(e)
  BY DEF IInv, LeaseFollowsPolicy

LEMMA ServeStep ==
    ASSUME IInv, NEW d \in Daemons, NEW c \in Clients, Serve(d, c)
    PROVE  IInv'
  <1> USE RuleOwnershipAssumption DEF IInv
  <1>1. cmd[c] \in Issued
    BY DEF Serve, Commands
  <1>2. policy[d] /\ Owns(d) /\ lease = d
    BY DEF Serve, Custody, LeaseFollowsPolicy, Owns
  <1>3. PICK result \in {"ok", "already", "error"} :
          Perform(d, cmd[c], result) /\ req' = [req EXCEPT ![c].result = result]
    BY DEF Serve
  <1>4. /\ Stored(cmd[c]) /\ DOMAIN mem' = Daemons /\ \A e \in Daemons : IsRules(mem[e])'
        /\ mem'[d] = db'
    BY <1>1, <1>2, <1>3, PerformKeeps
  <1>5. IsRules(db)' /\ nextId' \in Nat /\ nextId' >= nextId
    BY <1>1, <1>4, StoredType
  <1>6. effects' \in [Clients -> Nat]
    BY DEF Serve, Counted, TypeOK
  <1>7. req' \in [Clients -> [to : Daemons \cup {NoOne}, result : Results]]
        /\ \A b \in Clients : req'[b].to = req[b].to
    BY <1>3 DEF TypeOK, Results
  <1>8. UNCHANGED <<lease, socket, dpc, listening, policy, task, cpc, cmd, answer, failed, crashes>>
    BY DEF Serve, main, client
  <1>9. TypeOK'
    BY <1>4, <1>5, <1>6, <1>7, <1>8 DEF TypeOK
  <1>10. Commands'
    BY <1>5, <1>7, <1>8 DEF Commands, TypeOK, Command
  <1>11. Custody' /\ LeaseFollowsPolicy'
    BY <1>8 DEF Custody, LeaseFollowsPolicy, Owns
  <1>12. RulesAgree'
    BY <1>2, <1>4, <1>8, OthersIdle DEF RulesAgree, Owns
  <1> QED
    BY <1>9, <1>10, <1>11, <1>12

\* The user's permanent choice.
LEMMA PersistStep ==
    ASSUME IInv, NEW d \in Daemons, NEW action \in Actions, Persist(d, action)
    PROVE  IInv'
  <1> DEFINE k == [kind |-> "add", id |-> 0, action |-> action]
  <1> USE RuleOwnershipAssumption DEF IInv
  <1>1. k \in Issued
    BY DEF Issued
  <1>2. policy[d] /\ Owns(d) /\ lease = d
    BY DEF Persist, LeaseFollowsPolicy, Owns
  <1>3. PICK result : Perform(d, k, result)
    BY DEF Persist
  <1>4. /\ Stored(k) /\ DOMAIN mem' = Daemons /\ \A e \in Daemons : IsRules(mem[e])'
        /\ mem'[d] = db'
    BY <1>1, <1>2, <1>3, PerformKeeps
  <1>5. IsRules(db)' /\ nextId' \in Nat /\ nextId' >= nextId
    BY <1>1, <1>4, StoredType
  <1>6. UNCHANGED <<lease, socket, dpc, listening, policy, cpc, cmd, answer, req, effects,
                    failed, crashes>>
    BY <1>2 DEF Persist, Decided, main, client
  <1>7. task' = [task EXCEPT ![d] = FALSE]
    BY DEF Persist, Decided
  <1>8. TypeOK'
    BY <1>4, <1>5, <1>6, <1>7 DEF TypeOK
  <1>9. Commands'
    BY <1>5, <1>6 DEF Commands, TypeOK, Command
  <1>10. Custody' /\ LeaseFollowsPolicy'
    BY <1>2, <1>6, <1>7 DEF Custody, LeaseFollowsPolicy, Owns, TypeOK
  <1>11. RulesAgree'
    BY <1>2, <1>4, <1>6, <1>7, OthersIdle DEF RulesAgree, Owns, TypeOK
  <1> QED
    BY <1>8, <1>9, <1>10, <1>11

\* The same, after which nobody holds the policy.
LEMMA PersistLastStep ==
    ASSUME IInv, NEW d \in Daemons, NEW action \in Actions, PersistLast(d, action)
    PROVE  IInv'
  <1> DEFINE k == [kind |-> "add", id |-> 0, action |-> action]
  <1> USE RuleOwnershipAssumption DEF IInv
  <1>1. k \in Issued
    BY DEF Issued
  <1>2. ~policy[d] /\ Owns(d) /\ lease = d
    BY DEF PersistLast, Decided, LeaseFollowsPolicy, Owns
  <1>3. Stored(k)
    BY DEF PersistLast, Stored
  <1>4. /\ IsRules(db)' /\ nextId' \in Nat /\ nextId' >= nextId
        /\ \A r : IsRules(r) => DOMAIN r \subseteq 1 .. nextId' - 1
    BY <1>1, <1>3, StoredType
  <1>5. UNCHANGED <<socket, dpc, listening, policy, cpc, cmd, answer, req, effects,
                    failed, crashes>>
    BY DEF PersistLast, main, client
  <1>6. /\ task' = [task EXCEPT ![d] = FALSE] /\ mem' = [mem EXCEPT ![d] = NoRules]
        /\ lease' = NoOne
    BY <1>2 DEF PersistLast, Decided, Dropped
  <1>7. DOMAIN mem' = Daemons /\ \A e \in Daemons : IsRules(mem[e])'
    BY <1>4, <1>6 DEF TypeOK, IsRules, NoRules
  <1>8. TypeOK'
    BY <1>4, <1>5, <1>6, <1>7 DEF TypeOK
  <1>9. Commands'
    BY <1>4, <1>5 DEF Commands, TypeOK, Command
  <1>10. ~Owns(d)' /\ \A e \in Daemons : e # d => Owns(e)' = Owns(e)
    BY <1>2, <1>5, <1>6 DEF Owns, TypeOK
  <1>11. \A e \in Daemons : ~Owns(e)'
    BY <1>2, <1>10, OthersIdle
  <1>12. Custody'
    BY <1>2, <1>5, <1>6, <1>11 DEF Custody, TypeOK, Starting
  <1>13. LeaseFollowsPolicy' /\ RulesAgree'
    BY <1>6, <1>11 DEF LeaseFollowsPolicy, RulesAgree
  <1> QED
    BY <1>8, <1>9, <1>12, <1>13

\* A command executed by its client.
LEMMA ExecuteStep ==
    ASSUME IInv, NEW c \in Clients, Execute(c)
    PROVE  IInv'
  <1> USE RuleOwnershipAssumption DEF IInv
  <1>1. lease = c /\ cpc[c] = "execute" /\ lease' = NoOne
    BY DEF Execute, Custody
  <1>2. cmd[c] \in Issued
    BY <1>1 DEF Commands
  <1>3. PICK result \in {"ok", "already", "error"} : Stored(cmd[c]) /\ End(c, result)
    BY DEF Execute, Stored
  <1>4. /\ IsRules(db)' /\ nextId' \in Nat /\ nextId' >= nextId
        /\ \A r : IsRules(r) => DOMAIN r \subseteq 1 .. nextId' - 1
    BY <1>2, <1>3, StoredType
  <1>5. UNCHANGED <<socket, dpc, listening, policy, mem, task, cmd, req, failed, crashes>>
    BY <1>3 DEF Execute, End, daemon, main
  <1>6. effects' \in [Clients -> Nat]
    BY DEF Execute, Counted, TypeOK
  <1>7. cpc' = [cpc EXCEPT ![c] = "done"] /\ answer' = [answer EXCEPT ![c] = result]
    BY <1>3 DEF End
  <1>8. TypeOK'
    BY <1>1, <1>4, <1>5, <1>6, <1>7 DEF TypeOK, Results, IsRules
  <1>9. Commands'
    BY <1>1, <1>4, <1>5, <1>7 DEF Commands, TypeOK, Command
  <1>10. \A e \in Daemons : ~Owns(e)'
    BY <1>1, <1>5, OthersIdle DEF Owns
  <1>11. Custody'
    BY <1>1, <1>5, <1>7, <1>10 DEF Custody, TypeOK, Starting
  <1>12. LeaseFollowsPolicy' /\ RulesAgree'
    BY <1>1, <1>10 DEF LeaseFollowsPolicy, RulesAgree
  <1> QED
    BY <1>8, <1>9, <1>11, <1>12

-----------------------------------------------------------------------------
(* The theorems                                                            *)

LEMMA InitInv == Init => IInv
  <1> SUFFICES ASSUME Init PROVE IInv
    OBVIOUS
  <1> USE RuleOwnershipAssumption DEF Init
  <1>1. TypeOK
    <2>1. IsRules(db) /\ \A e \in Daemons : IsRules(mem[e])
      BY DEF IsRules, NoRules
    <2>2. cmd \in [Clients -> Command]
      BY DEF NoCmd, Command
    <2>3. req \in [Clients -> [to : Daemons \cup {NoOne}, result : Results]]
      BY DEF NoReq, Results
    <2>4. {listening, policy, task} \subseteq [Daemons -> BOOLEAN]
      OBVIOUS
    <2> QED
      BY <2>1, <2>2, <2>3, <2>4 DEF TypeOK, Results
  <1>2. Commands
    BY DEF Commands, NoCmd, NoReq
  <1>3. Custody /\ LeaseFollowsPolicy /\ RulesAgree
    BY DEF Custody, Starting, LeaseFollowsPolicy, RulesAgree, Owns
  <1> QED
    BY <1>1, <1>2, <1>3 DEF IInv

LEMMA NextInv == IInv /\ [Next]_vars => IInv'
  <1> SUFFICES ASSUME IInv, [Next]_vars PROVE IInv'
    OBVIOUS
  <1>1. CASE UNCHANGED vars
    BY <1>1 DEF vars, rules, daemon, main, client, history, IInv, TypeOK, IsRules, Commands, Custody,
               LeaseFollowsPolicy, RulesAgree, Owns
  <1>2. CASE \E d \in Daemons : DaemonStep(d)
    <2>1. PICK d \in Daemons : DaemonStep(d)
      BY <1>2
    <2>2. CASE \E c \in Clients : Serve(d, c)
      BY <2>2, ServeStep
    <2>3. CASE \E action \in Actions : Persist(d, action)
      BY <2>3, PersistStep
    <2>4. CASE \E action \in Actions : PersistLast(d, action)
      BY <2>4, PersistLastStep
    <2> QED
      BY <2>1, <2>2, <2>3, <2>4, ControlStep DEF DaemonStep
  <1>3. CASE \E c \in Clients : ClientStep(c)
    BY <1>3, IssueStep, ExecuteStep, ClientQuiet DEF ClientStep
  <1> QED
    BY <1>1, <1>2, <1>3 DEF Next

LEMMA Inductive == Spec => []IInv
  BY InitInv, NextInv, PTL DEF Spec

\* The types, for every number of daemons and clients and every bound; with them,
\* that no rule has an id AUTOINCREMENT has yet to give.
THEOREM TypeCorrect == Spec => []TypeOK
  BY Inductive, PTL DEF IInv

\* docs/architecture.md, rule ownership: the lease is held as long as anybody in the
\* daemon can decide by the rules, and not for ever after.
THEOREM LeaseHeld == Spec => []LeaseFollowsPolicy
  BY Inductive, PTL DEF IInv

\* docs/architecture.md: database and active policy are the same to everyone who
\* decides by them, whatever other daemons and offline commands do.
THEOREM RulesStayEqual == Spec => []RulesAgree
  BY Inductive, PTL DEF IInv

\* A rule that is added has an id that no command under way means.
LEMMA IdsStep ==
    ASSUME IInv, IInv', [Next]_vars
    PROVE  [\A id \in DOMAIN db' \ DOMAIN db : \A c \in Clients : cmd[c].id # id]_vars
  <1> SUFFICES ASSUME NEW id \in DOMAIN db' \ DOMAIN db, NEW c \in Clients
               PROVE  cmd[c].id # id
    OBVIOUS
  <1>1. DOMAIN db' \subseteq DOMAIN db \cup {nextId}
    <2>1. CASE \E k \in Issued : Stored(k)
      BY <2>1, StoredType
    <2>2. CASE UNCHANGED rules
      BY <2>2 DEF rules
    <2>3. CASE \E d \in Daemons, b \in Clients : Serve(d, b)
      <3>1. PICK d \in Daemons, b \in Clients : Serve(d, b)
        BY <2>3
      <3>2. cmd[b] \in Issued
        BY <3>1, RuleOwnershipAssumption DEF Serve, Commands, IInv
      <3>3. \E result : Perform(d, cmd[b], result)
        BY <3>1 DEF Serve
      <3>4. Stored(cmd[b])
        BY <3>3 DEF Perform, Stored, rules
      <3> QED
        BY <2>1, <3>2, <3>4
    <2>4. CASE \E d \in Daemons, action \in Actions : Persist(d, action) \/ PersistLast(d, action)
      <3>1. \A action \in Actions : [kind |-> "add", id |-> 0, action |-> action] \in Issued
        BY DEF Issued
      <3> QED
        BY <2>1, <2>4, <3>1 DEF Persist, PersistLast, Perform, Stored
    <2>5. CASE \E b \in Clients : Execute(b)
      BY <2>1, <2>5 DEF Execute, Stored, Commands, IInv
    <2> QED
      BY <2>2, <2>3, <2>4, <2>5
      DEF Next, DaemonStep, ClientStep, vars, Still, Calm, Acquire, Probe, Unlink, Bind, Load, LoadFails,
          Start, StartFails, Stop, Inspect, Remove, Release, Exit, Crash, Die, ServerEnds, Ask, Choose,
          Issue, Stat, Connect, Receive, GiveUp, Fallback, Offline, Look, ProbeOffline, UnlinkOffline, Kill
  <1> QED
    BY <1>1 DEF IInv, Commands, TypeOK, Command

\* docs/architecture.md, "stable learned-rule ID": a command under way never means
\* a rule that was added after it was issued.
THEOREM IdsStable == Spec => IdsAreStable
  BY Inductive, IdsStep, PTL DEF Spec, IdsAreStable

-----------------------------------------------------------------------------
(* The socket                                                              *)

\* While no start has failed: who is past `bind' has the socket, who is about to
\* remove a dead one holds the lease and it is dead, and an endpoint that is being
\* dropped without the lease is still alive, so that nobody takes it for dead.
Sockets ==
    ~failed =>
      /\ \A d \in Daemons :
           /\ dpc[d] \in {"bound", "loaded", "serving", "remove"} => socket = d
           /\ dpc[d] \in {"bound", "loaded"} => listening[d]
           /\ dpc[d] \in {"drop", "remove"} /\ lease # d => socket = d /\ listening[d]
           /\ dpc[d] \in {"drop", "remove"} /\ task[d] => policy[d]
           /\ dpc[d] = "unlink" => ~Live
      /\ \A c \in Clients : cpc[c] = "unlink" => ~Live

\* A daemon that has bound its socket holds the lease.
LEMMA BoundHolds ==
    ASSUME IInv, NEW d \in Daemons, dpc[d] \in {"unlink", "bind", "bound", "loaded", "serving"}
    PROVE  lease = d
  BY DEF IInv, Custody, LeaseFollowsPolicy, Owns, Starting

LEMMA SocketsDaemon ==
    ASSUME IInv, Sockets, NEW d \in Daemons,
           \/ Acquire(d) \/ Probe(d) \/ Unlink(d) \/ Bind(d) \/ Load(d) \/ LoadFails(d)
           \/ Start(d) \/ StartFails(d) \/ Stop(d) \/ Inspect(d) \/ Remove(d) \/ Release(d)
           \/ Exit(d) \/ Crash(d) \/ ServerEnds(d) \/ Ask(d) \/ Choose(d)
    PROVE  Sockets'
  <1> USE RuleOwnershipAssumption, BoundHolds
      DEF IInv, TypeOK, Custody, Owns, Starting, Sockets, Live, At, Still, Dropped, client, main
  <1>1. CASE Acquire(d)
    BY <1>1 DEF Acquire
  <1>2. CASE Probe(d)
    BY <1>2 DEF Probe, Live
  <1>3. CASE Unlink(d)
    BY <1>3 DEF Unlink
  <1>4. CASE Bind(d)
    BY <1>4 DEF Bind
  <1>5. CASE Load(d)
    BY <1>5 DEF Load
  <1>6. CASE LoadFails(d)
    BY <1>6 DEF LoadFails
  <1>7. CASE Start(d)
    BY <1>7 DEF Start
  <1>8. CASE StartFails(d)
    BY <1>8 DEF StartFails, ReleasePolicy
  <1>9. CASE Stop(d)
    BY <1>9 DEF Stop
  <1>10. CASE Inspect(d)
    BY <1>10 DEF Inspect
  <1>11. CASE Remove(d)
    BY <1>11 DEF Remove
  <1>12. CASE Release(d)
    BY <1>12 DEF Release, ReleasePolicy
  <1>13. CASE Exit(d)
    BY <1>13 DEF Exit, Die
  <1>14. CASE Crash(d)
    BY <1>14 DEF Crash, Die
  <1>15. CASE ServerEnds(d)
    BY <1>15 DEF ServerEnds
  <1>16. CASE Ask(d)
    BY <1>16 DEF Ask
  <1>17. CASE Choose(d)
    BY <1>17 DEF Choose, Decided
  <1> QED
    BY <1>1, <1>2, <1>3, <1>4, <1>5, <1>6, <1>7, <1>8, <1>9, <1>10, <1>11, <1>12, <1>13,
       <1>14, <1>15, <1>16, <1>17

\* Commands and permanent choices leave the sockets alone, but for the last holder
\* of the policy, who drops the lease.
LEMMA SocketsRules ==
    ASSUME IInv, Sockets, NEW d \in Daemons,
           \/ \E c \in Clients : Serve(d, c)
           \/ \E action \in Actions : Persist(d, action) \/ PersistLast(d, action)
    PROVE  Sockets'
  <1> USE RuleOwnershipAssumption DEF IInv, TypeOK, Sockets, Live, client, main
  <1>1. CASE \E c \in Clients : Serve(d, c)
    BY <1>1 DEF Serve
  <1>2. CASE \E action \in Actions : Persist(d, action)
    BY <1>2 DEF Persist, Decided
  <1>3. CASE \E action \in Actions : PersistLast(d, action)
    BY <1>3 DEF PersistLast, Decided, Dropped
  <1> QED
    BY <1>1, <1>2, <1>3

LEMMA SocketsClient ==
    ASSUME IInv, Sockets, NEW c \in Clients, ClientStep(c)
    PROVE  Sockets'
  <1> USE RuleOwnershipAssumption, BoundHolds
      DEF IInv, TypeOK, Custody, Sockets, Live, Calm, Goto, End, daemon, main, history, Dropped
  <1>1. CASE Issue(c)
    BY <1>1 DEF Issue
  <1>2. CASE Stat(c)
    BY <1>2 DEF Stat
  <1>3. CASE Connect(c)
    BY <1>3 DEF Connect, RequestFails
  <1>4. CASE Receive(c)
    BY <1>4 DEF Receive, RequestFails, Waiting
  <1>5. CASE GiveUp(c)
    BY <1>5 DEF GiveUp, RequestFails, Waiting
  <1>6. CASE Fallback(c)
    BY <1>6 DEF Fallback
  <1>7. CASE Offline(c)
    BY <1>7 DEF Offline
  <1>8. CASE Look(c)
    BY <1>8 DEF Look
  <1>9. CASE ProbeOffline(c)
    BY <1>9 DEF ProbeOffline
  <1>10. CASE UnlinkOffline(c)
    BY <1>10 DEF UnlinkOffline
  <1>11. CASE Execute(c)
    BY <1>11 DEF Execute
  <1>12. CASE Kill(c)
    BY <1>12 DEF Kill
  <1> QED
    BY <1>1, <1>2, <1>3, <1>4, <1>5, <1>6, <1>7, <1>8, <1>9, <1>10, <1>11, <1>12 DEF ClientStep

LEMMA SocketsNext == IInv /\ Sockets /\ [Next]_vars => Sockets'
  <1> SUFFICES ASSUME IInv, Sockets, [Next]_vars PROVE Sockets'
    OBVIOUS
  <1>1. CASE UNCHANGED vars
    BY <1>1 DEF vars, daemon, main, client, history, Sockets, Live
  <1>2. CASE \E d \in Daemons : DaemonStep(d)
    BY <1>2, SocketsDaemon, SocketsRules DEF DaemonStep
  <1>3. CASE \E c \in Clients : ClientStep(c)
    BY <1>3, SocketsClient
  <1> QED
    BY <1>1, <1>2, <1>3 DEF Next

\* control_api.rs, remove_existing_socket and ControlEndpoint::drop: nobody removes
\* the socket of a daemon that serves, unless a start failed before.
THEOREM SocketKept == Spec => []SocketStands
  <1>1. Init => Sockets
    BY DEF Init, Sockets
  <1>2. Sockets => SocketStands
    BY DEF Sockets, SocketStands
  <1> QED
    BY <1>1, <1>2, Inductive, SocketsNext, PTL DEF Spec

============================================================================
