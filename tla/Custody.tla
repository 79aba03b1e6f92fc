------------------------------ MODULE Custody ------------------------------
(***************************************************************************)
(* What the coordinator promises about one credential, without files,      *)
(* namespaces, identities, revisions or crashes: it has one keeper, it     *)
(* changes hands in a fixed order, and in custody its contents are changed *)
(* by nothing but a write through the mount.                               *)
(*                                                                         *)
(*    owned -> taken -> guarded <-> served -> fenced                       *)
(*      ^        |         |                     |                         *)
(*      |        v         v                     |                         *)
(*      |     leaving   returning <--------------+                         *)
(*      |        |         ^  |                                            *)
(*      |        v         |  v                                            *)
(*      +---  offline -----+ handing ---> owned                            *)
(***************************************************************************)
CONSTANTS Credentials,  \* what a credential can be
          Absent,       \* no file: also something to keep
          Nobody        \* what custody holds of a credential its owner has

VARIABLES stage,        \* where the credential is: a name of the picture above
          held,         \* what custody holds, Nobody exactly while it is owned
          stuck         \* a conflict was recorded: only a person goes on from here

custody == <<stage, held, stuck>>

Init == stage = "owned" /\ held = Nobody /\ stuck = FALSE

Move(from, to) == /\ ~stuck /\ stage \in from /\ stage' = to
                  /\ UNCHANGED stuck

Keep(from, to) == Move(from, to) /\ UNCHANGED held

\* Custody begins with whatever the owner has.
Take     == Move({"owned"}, "taken") /\ held' \in Credentials

\* The credential is replaced by a placeholder, and a mount put over it ...
Guard    == Keep({"taken"}, "guarded")
Serve    == Keep({"guarded"}, "served")

\* ... through which, and only while it is there, it is written.
Write    == Move({"served"}, "served") /\ held' \in Credentials \ {Absent}

\* The end of the mount, announced first or found when it is gone.
Fence    == Keep({"served"}, "fenced")
Unserve  == Keep({"served", "fenced"}, "guarded")

\* Instead it may be moved out of the owner's sight.
Leave    == Keep({"taken"}, "leaving")
Depart   == Keep({"leaving"}, "offline")

\* The way back is not turned round.
GiveBack == Keep({"guarded", "fenced", "offline"}, "returning")
HandOver == Keep({"returning"}, "handing")
Finish   == Move({"handing"}, "owned") /\ held' = Nobody

\* Whatever is not as it was left ends everything at once.
Conflict == /\ ~stuck /\ stage \notin {"owned", "handing"}
            /\ stuck' = TRUE
            /\ UNCHANGED <<stage, held>>

Next == \/ Take \/ Guard \/ Serve \/ Write \/ Fence \/ Unserve
        \/ Leave \/ Depart \/ GiveBack \/ HandOver \/ Finish \/ Conflict

Spec == Init /\ [][Next]_custody
=============================================================================
