------------------------- MODULE CustodyRefinement -------------------------
(***************************************************************************)
(* The storage-v2 coordinator implements Custody: the stage is read off    *)
(* the phase of the store's entry, what is held off its contents.          *)
(***************************************************************************)
EXTENDS Lifecycle

Stage(e) ==
    CASE e.phase = "missing"                        -> "owned"
      [] e.phase \in {"captured", "installIntent"}  -> "taken"
      [] e.phase = "installed"                      -> "guarded"
      [] e.phase = "mountIntent"                    -> "served"
      [] e.phase = "unmountIntent"                  -> "fenced"
      [] e.phase = "storeIntent"                    -> "leaving"
      [] e.phase = "stored"                         -> "offline"
      [] e.phase \in {"restoreIntent", "restored",
                      "deleteIntent"}               -> "returning"
      [] e.phase = "finalizing"                     -> "handing"

Credential(e) == [there |-> e.logical, body |-> e.body]

\* Custody of nobody's credential.
NotHeld == [there |-> FALSE, body |-> 1]

Held(e) == IF e.phase = "missing" THEN NotHeld ELSE Credential(e)

Promise == INSTANCE Custody WITH
               Credentials <- [there : BOOLEAN, body : Nat] \ {NotHeld},
               Absent      <- [there |-> FALSE, body |-> Empty],
               Nobody      <- NotHeld,
               stage       <- Stage(db),
               held        <- Held(db),
               stuck       <- db.blocked # "no"

\* Every behaviour of the coordinator, with its commands in any order, its errors,
\* its crashes, the power losses and the owner's interference, is one of Custody:
\* what TransactionManager commits goes through the stages in order, and only
\* update_contents changes what is held.
CustodyKept == Promise!Spec

\* The credential, whoever keeps it: what custody holds, or what is at the path.
TheCredential ==
    IF db.phase # "missing" THEN Credential(db)
    ELSE [there |-> There("target"), body |-> fs["target"].body]

\* As long as the owner leaves the files alone, the credential is the same before
\* and after every step that is no acknowledged write through the mount: capture
\* takes what is there, finalization leaves what was held, and no error, crash or
\* power loss on the way changes either.
CredentialKept ==
    [][edits' = 0 /\ moves' = 0 /\ writes' = writes => TheCredential' = TheCredential]_vars
=============================================================================
