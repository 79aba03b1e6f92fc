------------------------ MODULE MountedWritesProofs ------------------------
(***************************************************************************)
(* Proofs about MountedWrites: the type invariant, NoLostUpdate,           *)
(* NoDirtyRead, ReadYourWrites, and the action properties FencedIsFinal    *)
(* and NoSpuriousFailure, for every set of clients and every bound.        *)
(*                                                                         *)
(* The invariant behind all of them says what the mutation lock is for:    *)
(* whoever holds it carries a copy of what the mount serves (Based), so a  *)
(* commit that the store accepts was made of the row as it is.             *)
(***************************************************************************)
EXTENDS MountedWrites, TLAPS

Mutates(c) == call[c].stage \in {"waiting", "locked", "reload", "publish"}

\* At most one mutation holds the lock.
Exclusive == \A c, d \in Clients : Holding(c) /\ Holding(d) => c = d

\* A dead process has no calls; a live one serves a mounted record; one that is
\* past the fence has a row that is no longer mounted.
Process == /\ main = "down" => call = [c \in Clients |-> NoCall]
           /\ main # "down" => content.phase = "mounted"
           /\ main = "loaded" => loaded.phase = "mounted"
           /\ main \in {"fenced", "detached", "reconciled"} => row.phase # "mounted"

\* Nothing is or becomes larger than the cap.
Bounded == /\ Len(content.contents) <= MaxContent
           /\ Len(loaded.contents) <= MaxContent
           /\ \A c \in Clients : Mutates(c) =>
                call[c].at + (IF call[c].kind = "write" THEN 1 ELSE 0) <= MaxContent
           /\ \A c \in Clients : call[c].stage = "deciding" => call[c].kind # "write"

\* The holder of the lock carries what the mount serves.
Based == \A c \in Clients : Holding(c) => call[c].base = content

\* What is about to be published has been committed.
Committed == \A c \in Clients : call[c].stage = "publish" =>
                /\ Successor(c).rev <= row.rev
                /\ Successor(c).rev = row.rev => row = Successor(c)

\* While the store has not failed, memory and row differ only between the
\* commit of a mutation and its publication, or by the phase.
Faultless ==
    faults = 0 /\ main # "down" =>
      /\ \A c \in Clients : call[c].stage # "reload"
      /\ \A c \in Clients : call[c].stage = "publish" =>
           /\ row.contents = Successor(c).contents
           /\ row.phase = "mounted" => row = Successor(c)
      /\ (\A c \in Clients : call[c].stage # "publish") =>
           /\ content.contents = row.contents
           /\ row.phase = "mounted" => content = row

\* Handles are numbered upwards, and no two clients share one.
Handles == /\ nextFh > 0
           /\ \A f \in DOMAIN handles : f < nextFh
           /\ \A c, d \in Clients : fh[c] = fh[d] /\ fh[c] # 0 => c = d

Locks == Exclusive /\ Process /\ Based
Store == NoLostUpdate /\ NoDirtyRead /\ Committed /\ Faultless
IInv  == TypeOK /\ Handles /\ Bounded /\ Locks /\ Store

-----------------------------------------------------------------------------
(* Contents                                                                *)

\* A resized sequence is a sequence of bytes of that length.
LEMMA ResizedType ==
    ASSUME NEW s \in Seq(Nat), NEW n \in Nat
    PROVE  Resized(s, n) \in Seq(Nat) /\ Len(Resized(s, n)) = n
  BY DEF Resized

\* A byte laid over a sequence extends it to that byte at most.
LEMMA OverlaidType ==
    ASSUME NEW s \in Seq(Nat), NEW i \in Nat, NEW byte \in Nat
    PROVE  /\ Overlaid(s, i, byte) \in Seq(Nat)
           /\ Len(Overlaid(s, i, byte)) = IF Len(s) < i + 1 THEN i + 1 ELSE Len(s)
  <1> DEFINE n == IF Len(s) < i + 1 THEN i + 1 ELSE Len(s)
  <1>1. n \in Nat
    OBVIOUS
  <1>2. Resized(s, n) \in Seq(Nat) /\ Len(Resized(s, n)) = n
    BY <1>1, ResizedType
  <1> QED
    BY <1>2 DEF Overlaid

\* What a mutation makes of contents within the cap is within the cap.
LEMMA MutatedType ==
    ASSUME TypeOK, NEW c \in Clients, NEW s \in Seq(Nat)
    PROVE  /\ Mutated(c, s) \in Seq(Nat)
           /\ Bounded /\ Mutates(c) /\ Len(s) <= MaxContent => Len(Mutated(c, s)) <= MaxContent
  <1>1. call[c].at \in Nat /\ call[c].byte \in Nat
    BY DEF TypeOK, Call
  <1>2. CASE call[c].kind = "write"
    <2>1. Mutated(c, s) = Overlaid(s, call[c].at, call[c].byte)
      BY <1>2 DEF Mutated
    <2>2. Bounded /\ Mutates(c) => call[c].at + 1 <= MaxContent
      BY <1>2 DEF Bounded
    <2> QED
      BY <1>1, <2>1, <2>2, OverlaidType
  <1>3. CASE call[c].kind # "write"
    <2>1. Mutated(c, s) = Resized(s, call[c].at)
      BY <1>3 DEF Mutated
    <2>2. Bounded /\ Mutates(c) => call[c].at <= MaxContent
      BY <1>1, <1>3 DEF Bounded
    <2> QED
      BY <1>1, <2>1, <2>2, ResizedType
  <1> QED
    BY <1>2, <1>3

\* The record a mutation commits is one revision on, and within the cap.
LEMMA SuccessorType ==
    ASSUME TypeOK, Bounded, Based, NEW c \in Clients, Holding(c)
    PROVE  /\ Successor(c) = [rev |-> content.rev + 1, phase |-> content.phase,
                              contents |-> Mutated(c, content.contents)]
           /\ Successor(c) \in Record
           /\ Len(Successor(c).contents) <= MaxContent
  <1>1. content \in Record /\ call[c].base = content
    BY DEF TypeOK, Based
  <1>2. content.contents \in Seq(Nat) /\ content.rev \in Nat
    BY <1>1 DEF Record
  <1>3. Mutated(c, content.contents) \in Seq(Nat)
        /\ Len(Mutated(c, content.contents)) <= MaxContent
    BY <1>2, MutatedType DEF Bounded, Mutates, Holding
  <1> QED
    BY <1>1, <1>2, <1>3 DEF Successor, Revised, Record

-----------------------------------------------------------------------------
(* Steps that leave the row and the mount's record alone                   *)

\* A call that begins, is refused, is passed on, or fails before its
\* publication disturbs neither the lock nor the store.
LEMMA QuietStep ==
    ASSUME IInv, main # "down",
           NEW c \in Clients, NEW x \in Call,
           call' = [call EXCEPT ![c] = x],
           call[c].stage # "publish",
           x.stage \in {"none", "deciding", "waiting"},
           x.stage = "waiting" => x.at + (IF x.kind = "write" THEN 1 ELSE 0) <= MaxContent,
           x.stage = "deciding" => x.kind # "write",
           UNCHANGED <<row, content, main, loaded, expected>>,
           faults' = faults \/ faults' = faults + 1
    PROVE  Bounded' /\ Locks' /\ Store' /\ call' \in [Clients -> Call]
  <1>1. call \in [Clients -> Call] /\ faults \in Nat
    BY DEF IInv, TypeOK
  <1>2. /\ \A d \in Clients : call'[d] = IF d = c THEN x ELSE call[d]
        /\ call' \in [Clients -> Call]
    BY <1>1
  <1>3. \A d \in Clients : Holding(d)' => Holding(d) /\ call'[d] = call[d]
    BY <1>2 DEF Holding
  <1>4. \A d \in Clients : call'[d] = call[d] => Successor(d)' = Successor(d)
    BY DEF Successor, Revised, Mutated
  <1>5. Bounded'
    BY <1>2 DEF IInv, Bounded, Mutates
  <1>6. Locks'
    BY <1>3 DEF IInv, Locks, Exclusive, Process, Based
  <1>7. NoLostUpdate' /\ NoDirtyRead'
    BY DEF IInv, Store, NoLostUpdate, NoDirtyRead
  <1>8. Committed'
    BY <1>3, <1>4 DEF IInv, Store, Committed, Holding
  <1>9. Faultless'
    <2> SUFFICES ASSUME faults' = 0 PROVE Faultless'
      BY DEF Faultless
    <2>1. faults = 0
      BY <1>1
    <2>2. \A d \in Clients : call'[d].stage = "publish" => call[d].stage = "publish"
      BY <1>3 DEF Holding
    <2>3. (\A d \in Clients : call'[d].stage # "publish")
            => (\A d \in Clients : call[d].stage # "publish")
      BY <1>2
    <2> QED
      BY <1>3, <1>4, <2>1, <2>2, <2>3 DEF IInv, Store, Faultless, Holding
  <1> QED
    BY <1>2, <1>5, <1>6, <1>7, <1>8, <1>9 DEF Store

\* A new handle is typed, fresh, and its client's alone.
LEMMA OpenedType ==
    ASSUME IInv, NEW c \in Clients, Opened(c)
    PROVE  /\ Handles'
           /\ \A f \in DOMAIN handles' : f \in Nat /\ handles'[f] \in BOOLEAN
           /\ nextFh' \in Nat /\ fh' \in [Clients -> Nat]
           /\ \A d \in Clients : fh'[d] \in DOMAIN handles' \cup {0}
  <1>1. /\ nextFh \in Nat /\ fh \in [Clients -> Nat]
        /\ \A d \in Clients : fh[d] \in DOMAIN handles \cup {0}
        /\ \A f \in DOMAIN handles : f \in Nat /\ handles[f] \in BOOLEAN
        /\ call[c].write \in BOOLEAN
    BY DEF IInv, TypeOK, Call
  <1>2. /\ nextFh > 0 /\ \A f \in DOMAIN handles : f < nextFh
        /\ \A d, e \in Clients : fh[d] = fh[e] /\ fh[d] # 0 => d = e
    BY DEF IInv, Handles
  <1>3. /\ DOMAIN handles' = DOMAIN handles \cup {nextFh}
        /\ \A f \in DOMAIN handles' :
             handles'[f] = IF f = nextFh THEN call[c].write ELSE handles[f]
        /\ nextFh' = nextFh + 1
    BY DEF Opened
  <1>4. /\ fh' \in [Clients -> Nat]
        /\ \A d \in Clients : fh'[d] = IF d = c THEN IF Attached THEN nextFh ELSE 0 ELSE fh[d]
    BY <1>1 DEF Opened
  <1>5. \A d \in Clients : fh[d] # 0 => fh[d] < nextFh
    BY <1>1, <1>2
  <1>6. \A d, e \in Clients : fh'[d] = fh'[e] /\ fh'[d] # 0 => d = e
    <2> SUFFICES ASSUME NEW d \in Clients, NEW e \in Clients, fh'[d] = fh'[e], fh'[d] # 0
                 PROVE  d = e
      OBVIOUS
    <2>1. CASE d = c /\ e # c
      BY <1>1, <1>4, <1>5, <2>1
    <2>2. CASE d # c /\ e = c
      BY <1>1, <1>4, <1>5, <2>2
    <2>3. CASE d # c /\ e # c
      BY <1>2, <1>4, <2>3
    <2> QED
      BY <2>1, <2>2, <2>3
  <1>7. Handles'
    <2>1. \A f \in DOMAIN handles' : f < nextFh'
      BY <1>1, <1>2, <1>3
    <2> QED
      BY <1>1, <1>3, <1>6, <2>1 DEF Handles
  <1> QED
    BY <1>1, <1>3, <1>4, <1>7

-----------------------------------------------------------------------------
(* Initial states                                                          *)

LEMMA NeutralTypes == NoRecord \in Record /\ NoCall \in Call
  BY DEF NoRecord, NoCall, Record, Call

LEMMA InitInv == ASSUME Init PROVE IInv
  <1>1. PICK n \in 0 .. MaxContent :
          row = [rev |-> 1, phase |-> "mounted", contents |-> [i \in 1 .. n |-> 1]]
    BY DEF Init
  <1>2. n \in Nat /\ [i \in 1 .. n |-> 1] \in Seq(Nat) /\ Len([i \in 1 .. n |-> 1]) = n
    BY MountedWritesAssumption DEF MountedWritesAssumption
  <1>3. /\ row \in Record /\ row.contents \in Seq(Nat) /\ Len(row.contents) <= MaxContent
        /\ row.phase = "mounted" /\ row.rev = 1
    BY <1>1, <1>2, MountedWritesAssumption DEF Record, MountedWritesAssumption
  <1>4. /\ content = row /\ expected = row.contents /\ handles = << >> /\ nextFh = 1
        /\ fh = [c \in Clients |-> 0] /\ call = [c \in Clients |-> NoCall]
        /\ main = "serving" /\ loaded = NoRecord /\ calls = 0 /\ mounts = 1 /\ faults = 0
    BY DEF Init
  <1>5. /\ \A c \in Clients : call[c] = NoCall /\ call[c].stage = "none" /\ fh[c] = 0
        /\ DOMAIN handles = {}
    BY <1>4 DEF NoCall
  <1>6. loaded.contents = << >> /\ Len(loaded.contents) <= MaxContent
    BY <1>4, MountedWritesAssumption DEF NoRecord, MountedWritesAssumption
  <1>7. TypeOK
    BY <1>3, <1>4, <1>5, NeutralTypes DEF TypeOK
  <1>8. Handles /\ Bounded /\ Locks
    BY <1>3, <1>4, <1>5, <1>6 DEF Handles, Bounded, Mutates, Locks, Exclusive, Process, Based, Holding
  <1>9. Store
    BY <1>3, <1>4, <1>5 DEF Store, NoLostUpdate, NoDirtyRead, Committed, Faultless
  <1> QED
    BY <1>7, <1>8, <1>9 DEF IInv

-----------------------------------------------------------------------------
(* The session thread                                                      *)

\* A step that opens and closes no handle.
LEMMA SameHandles ==
    ASSUME IInv, UNCHANGED <<handles, nextFh, fh>>
    PROVE  /\ Handles'
           /\ \A f \in DOMAIN handles' : f \in Nat /\ handles'[f] \in BOOLEAN
           /\ nextFh' \in Nat /\ fh' \in [Clients -> Nat]
           /\ \A d \in Clients : fh'[d] \in DOMAIN handles' \cup {0}
  BY DEF IInv, TypeOK, Handles

\* A call that arrives waits for a decision, or has been bounded.
LEMMA ArrivesStep ==
    ASSUME IInv, NEW c \in Clients, NEW kind \in {"open", "write", "ftruncate", "truncate"},
           NEW write \in BOOLEAN, NEW trunc \in BOOLEAN, NEW at \in Nat,
           NEW stage \in {"deciding", "waiting"},
           stage = "waiting" => at + (IF kind = "write" THEN 1 ELSE 0) <= MaxContent,
           stage = "deciding" => kind # "write",
           Arrives(c, kind, write, trunc, at, stage), UNCHANGED <<handles, fh>>
    PROVE  IInv'
  <1> DEFINE x == [kind |-> kind, write |-> write, trunc |-> trunc, at |-> at,
                   byte |-> calls + 2, base |-> NoRecord, stage |-> stage]
  <1>1. /\ call' = [call EXCEPT ![c] = x] /\ call[c].stage = "none" /\ main # "down"
        /\ calls' = calls + 1
        /\ UNCHANGED <<row, content, nextFh, main, loaded, mounts, expected, faults>>
    BY DEF Arrives, Attached, NoCall, stop
  <1>2. x \in Call /\ calls' \in Nat
    BY <1>1, NeutralTypes DEF IInv, TypeOK, Call
  <1>3. Bounded' /\ Locks' /\ Store' /\ call' \in [Clients -> Call]
    BY <1>1, <1>2, QuietStep
  <1>4. TypeOK' /\ Handles'
    BY <1>1, <1>2, <1>3, SameHandles DEF IInv, TypeOK
  <1> QED
    BY <1>3, <1>4 DEF IInv

LEMMA HandlerStep == ASSUME IInv, NEW c \in Clients, Handler(c) PROVE IInv'
  <1>1. CASE \E write, trunc \in BOOLEAN : Open(c, write, trunc)
    BY <1>1, ArrivesStep DEF Open
  <1>2. CASE \E offset \in 0 .. MaxContent : Write(c, offset)
    <2>1. PICK offset \in Nat : Write(c, offset)
      BY <1>2
    <2>2. offset + (IF "write" = "write" THEN 1 ELSE 0) <= MaxContent
      BY <2>1 DEF Write
    <2> QED
      BY <2>1, <2>2, ArrivesStep DEF Write
  <1>3. CASE \E size \in 0 .. MaxContent + 1 : TruncateHandle(c, size) \/ TruncatePath(c, size)
    <2>1. PICK size \in Nat : TruncateHandle(c, size) \/ TruncatePath(c, size)
      BY <1>3
    <2>2. CASE TruncateHandle(c, size)
      <3>1. size + (IF "ftruncate" = "write" THEN 1 ELSE 0) <= MaxContent
        BY <2>2 DEF TruncateHandle
      <3> QED
        BY <2>2, <3>1, ArrivesStep DEF TruncateHandle
    <2>3. CASE TruncatePath(c, size)
      BY <2>3, ArrivesStep DEF TruncatePath
    <2> QED
      BY <2>1, <2>2, <2>3
  <1>4. CASE Release(c)
    <2>1. /\ call' = [call EXCEPT ![c] = NoCall] /\ call[c].stage = "none" /\ main # "down"
          /\ UNCHANGED <<row, content, nextFh, calls, main, loaded, mounts, expected, faults>>
      BY <1>4 DEF Release, Attached, NoCall, stop, IInv, TypeOK
    <2>2. Bounded' /\ Locks' /\ Store' /\ call' \in [Clients -> Call]
      BY <2>1, NeutralTypes, QuietStep DEF NoCall
    <2>3. /\ DOMAIN handles' = DOMAIN handles \ {fh[c]}
          /\ \A f \in DOMAIN handles' : handles'[f] = handles[f]
          /\ fh' \in [Clients -> Nat]
          /\ \A d \in Clients : fh'[d] = IF d = c THEN 0 ELSE fh[d]
      BY <1>4 DEF Release, IInv, TypeOK
    <2>4. \A d \in Clients : fh'[d] \in DOMAIN handles' \cup {0}
      BY <1>4, <2>3 DEF Release, IInv, TypeOK, Handles
    <2>5. TypeOK' /\ Handles'
      BY <2>1, <2>2, <2>3, <2>4 DEF IInv, TypeOK, Handles
    <2> QED
      BY <2>2, <2>5 DEF IInv
  <1> QED
    BY <1>1, <1>2, <1>3, <1>4 DEF Handler

-----------------------------------------------------------------------------
(* Tasks                                                                   *)

\* Only a live process has calls.
LEMMA Alive ==
    ASSUME IInv, NEW c \in Clients, call[c].stage # "none"
    PROVE  main # "down"
  BY DEF IInv, Locks, Process, NoCall

\* A call that is answered without having been published.
LEMMA AnsweredStep ==
    ASSUME IInv, NEW c \in Clients, call[c].stage \notin {"none", "publish"}, Answered(c),
           UNCHANGED <<row, content, calls, stop, expected>>,
           faults' = faults \/ faults' = faults + 1,
           UNCHANGED <<handles, nextFh, fh>> \/ Opened(c)
    PROVE  IInv'
  <1>1. main # "down" /\ UNCHANGED <<main, loaded, mounts>>
    BY Alive DEF stop
  <1>2. Bounded' /\ Locks' /\ Store' /\ call' \in [Clients -> Call]
    BY <1>1, NeutralTypes, QuietStep DEF Answered, NoCall
  <1>3. /\ Handles'
        /\ \A f \in DOMAIN handles' : f \in Nat /\ handles'[f] \in BOOLEAN
        /\ nextFh' \in Nat /\ fh' \in [Clients -> Nat]
        /\ \A d \in Clients : fh'[d] \in DOMAIN handles' \cup {0}
    BY SameHandles, OpenedType
  <1>4. TypeOK'
    BY <1>1, <1>2, <1>3 DEF IInv, TypeOK
  <1> QED
    BY <1>2, <1>3, <1>4 DEF IInv

LEMMA DecideStep ==
    ASSUME IInv, NEW c \in Clients, NEW allowed \in BOOLEAN, Decide(c, allowed)
    PROVE  IInv'
  <1>1. /\ call[c].stage = "deciding" /\ UNCHANGED <<row, content, calls, stop, expected, faults>>
    BY DEF Decide
  <1>2. CASE Answered(c)
    BY <1>1, <1>2, AnsweredStep DEF Decide
  <1>3. CASE Stage(c, "waiting") /\ call[c].at <= MaxContent /\ UNCHANGED <<handles, nextFh, fh>>
    <2> DEFINE x == [call[c] EXCEPT !.stage = "waiting"]
    <2>1. call[c] \in Call /\ call[c].kind # "write" /\ main # "down"
      BY <1>1, Alive DEF IInv, TypeOK, Bounded
    <2>2. x \in Call /\ x.stage = "waiting" /\ x.at = call[c].at /\ x.kind = call[c].kind
      BY <2>1 DEF Call
    <2>3. call' = [call EXCEPT ![c] = x]
      BY <1>3 DEF Stage
    <2>4. x.at + (IF x.kind = "write" THEN 1 ELSE 0) <= MaxContent
      BY <1>3, <2>1, <2>2 DEF Call
    <2>5. Bounded' /\ Locks' /\ Store' /\ call' \in [Clients -> Call]
      BY <1>1, <2>1, <2>2, <2>3, <2>4, QuietStep DEF stop
    <2>6. TypeOK' /\ Handles'
      BY <1>1, <1>3, <2>5, SameHandles DEF stop, IInv, TypeOK
    <2> QED
      BY <2>5, <2>6 DEF IInv
  <1>4. allowed /\ call[c].kind = "open" /\ ~call[c].trunc => Answered(c)
    BY DEF Decide
  <1> QED
    BY <1>2, <1>3, <1>4 DEF Decide

\* The lock is taken by one task, which copies what the mount serves.
LEMMA LockStep == ASSUME IInv, NEW c \in Clients, Lock(c) PROVE IInv'
  <1> DEFINE x == [call[c] EXCEPT !.stage = "locked", !.base = content]
  <1>1. /\ call[c].stage = "waiting" /\ main # "down"
        /\ \A d \in Clients : ~Holding(d)
        /\ UNCHANGED <<row, content, handles, nextFh, fh, calls, main, loaded, mounts, expected, faults>>
    BY Alive DEF Lock, LockFree, shared, stop
  <1>2. call \in [Clients -> Call] /\ call[c] \in Call /\ content \in Record
    BY DEF IInv, TypeOK
  <1>3. /\ x \in Call /\ x.stage = "locked" /\ x.base = content
        /\ x.at = call[c].at /\ x.kind = call[c].kind
    BY <1>2 DEF Call
  <1>4. call' = [call EXCEPT ![c] = x]
    BY DEF Lock
  <1>5. /\ \A d \in Clients : call'[d] = IF d = c THEN x ELSE call[d]
        /\ call' \in [Clients -> Call]
    BY <1>2, <1>3, <1>4
  <1>6. \A d \in Clients : Holding(d)' => d = c
    BY <1>1, <1>5 DEF Holding
  <1>7. \A d \in Clients : call[d].stage # "publish" /\ call'[d].stage # "publish"
    BY <1>1, <1>3, <1>5 DEF Holding
  <1>8. Bounded'
    BY <1>1, <1>3, <1>5 DEF IInv, Bounded, Mutates
  <1>9. Locks'
    BY <1>1, <1>3, <1>5, <1>6 DEF IInv, Locks, Exclusive, Process, Based
  <1>10. Store'
    <2>1. \A d \in Clients : call'[d].stage # "reload"
      BY <1>1, <1>3, <1>5 DEF Holding
    <2> QED
      BY <1>1, <1>7, <2>1 DEF IInv, Store, NoLostUpdate, NoDirtyRead, Committed, Faultless
  <1>11. TypeOK' /\ Handles'
    BY <1>1, <1>5, SameHandles DEF IInv, TypeOK
  <1> QED
    BY <1>8, <1>9, <1>10, <1>11 DEF IInv

\* The holder of the lock goes on holding it.
LEMMA StageStep ==
    ASSUME IInv, NEW c \in Clients, NEW stage \in {"reload", "publish"},
           Holding(c), Stage(c, stage), UNCHANGED <<content, main, loaded>>,
           main \in {"fenced", "detached", "reconciled"} => row'.phase # "mounted"
    PROVE  /\ call' \in [Clients -> Call] /\ call'[c].stage = stage
           /\ Bounded' /\ Locks' /\ main # "down"
           /\ \A d \in Clients : d # c => call'[d] = call[d] /\ ~Holding(d)
           /\ Successor(c)' = Successor(c)
  <1> DEFINE x == [call[c] EXCEPT !.stage = stage]
  <1>1. call \in [Clients -> Call] /\ call[c] \in Call /\ main # "down"
    BY Alive DEF IInv, TypeOK, Holding
  <1>2. x \in Call /\ x.stage = stage /\ x.at = call[c].at /\ x.kind = call[c].kind
        /\ x.byte = call[c].byte /\ x.base = call[c].base
    BY <1>1 DEF Call
  <1>3. /\ \A d \in Clients : call'[d] = IF d = c THEN x ELSE call[d]
        /\ call' \in [Clients -> Call]
    BY <1>1, <1>2 DEF Stage
  <1>4. \A d \in Clients : d # c => call'[d] = call[d] /\ ~Holding(d)
    BY <1>3 DEF IInv, Locks, Exclusive
  <1>5. Bounded'
    BY <1>2, <1>3 DEF IInv, Bounded, Mutates, Holding
  <1>6. \A d \in Clients : Holding(d)' => d = c
    BY <1>4 DEF Holding
  <1>7. Locks'
    BY <1>1, <1>2, <1>3, <1>6 DEF IInv, Locks, Exclusive, Process, Based
  <1>8. Successor(c)' = Successor(c)
    BY <1>2, <1>3 DEF Successor, Revised, Mutated
  <1> QED
    BY <1>1, <1>2, <1>3, <1>4, <1>5, <1>7, <1>8

\* A commit that the store accepts replaces the row the mount serves.
LEMMA ReplaceStep ==
    ASSUME IInv, NEW c \in Clients, call[c].stage = "locked", Accepted(call[c].base),
           Replace(c), NEW stage \in {"reload", "publish"}, Stage(c, stage),
           UNCHANGED <<shared, fh, calls, stop>>,
           faults' = faults \/ faults' = faults + 1,
           stage = "reload" => faults' = faults + 1
    PROVE  IInv'
  <1>1. Holding(c) /\ row = content /\ row.contents = expected /\ content \in Record /\ faults \in Nat
    BY DEF Holding, IInv, Locks, Based, Accepted, Store, NoLostUpdate, TypeOK
  <1>2. UNCHANGED <<content, handles, nextFh, fh, calls, main, loaded, mounts>>
    BY DEF shared, stop
  <1>3. /\ Successor(c) = [rev |-> content.rev + 1, phase |-> content.phase,
                           contents |-> Mutated(c, content.contents)]
        /\ Successor(c) \in Record
        /\ Len(Successor(c).contents) <= MaxContent
    BY <1>1, SuccessorType DEF IInv, Locks
  <1>4. row' = Successor(c) /\ expected' = Mutated(c, expected)
    BY DEF Replace
  <1>5. main # "down" /\ content.phase = "mounted"
    BY Alive DEF IInv, Locks, Process
  <1>6. main \notin {"fenced", "detached", "reconciled"}
    BY <1>1, <1>5 DEF IInv, Locks, Process
  <1>7. /\ call' \in [Clients -> Call] /\ call'[c].stage = stage
        /\ Bounded' /\ Locks'
        /\ \A d \in Clients : d # c => call'[d] = call[d] /\ ~Holding(d)
        /\ Successor(c)' = Successor(c)
    BY <1>1, <1>2, <1>6, StageStep
  <1>8. NoLostUpdate' /\ expected' = row'.contents
    BY <1>1, <1>3, <1>4 DEF NoLostUpdate
  <1>9. content.rev \in Nat /\ row'.rev = content.rev + 1 /\ row'.contents \in Seq(Nat)
    BY <1>1, <1>3, <1>4 DEF Record
  <1>10. NoDirtyRead'
    BY <1>2, <1>9 DEF NoDirtyRead
  <1>11. \A d \in Clients : call'[d].stage = "publish" => d = c
    BY <1>7 DEF Holding
  <1>12. Committed'
    BY <1>3, <1>4, <1>7, <1>9, <1>11 DEF Committed
  <1>13. Faultless'
    <2> SUFFICES ASSUME faults' = 0 PROVE Faultless'
      BY DEF Faultless
    <2>1. stage = "publish" /\ \A d \in Clients : call'[d].stage # "reload"
      BY <1>1, <1>7 DEF Holding
    <2> QED
      BY <1>4, <1>7, <1>11, <2>1 DEF Faultless
  <1>14. TypeOK' /\ Handles'
    BY <1>2, <1>3, <1>4, <1>7, <1>8, <1>9, <1>1, SameHandles DEF IInv, TypeOK
  <1> QED
    BY <1>7, <1>8, <1>10, <1>12, <1>13, <1>14 DEF IInv, Store

LEMMA CommitStep == ASSUME IInv, NEW c \in Clients, Commit(c) \/ CommitFails(c) PROVE IInv'
  <1>1. call[c].stage = "locked"
    BY DEF Commit, CommitFails
  <1>2. CASE Commit(c) /\ Accepted(call[c].base)
    BY <1>1, <1>2, ReplaceStep DEF Commit
  <1>3. CASE Commit(c) /\ ~Accepted(call[c].base)
    BY <1>1, <1>3, AnsweredStep DEF Commit, shared
  <1>4. CASE CommitFails(c)
    BY <1>1, <1>4, AnsweredStep DEF CommitFails, Fault, shared
  <1> QED
    BY <1>2, <1>3, <1>4

\* After an uncertain commit the lock is kept and the row is as it was or as it
\* should be.
LEMMA UncertainStep == ASSUME IInv, NEW c \in Clients, CommitUncertain(c) PROVE IInv'
  <1>1. /\ call[c].stage = "locked" /\ Stage(c, "reload") /\ faults' = faults + 1
        /\ Accepted(call[c].base) /\ UNCHANGED <<shared, fh, calls, stop>>
    BY DEF CommitUncertain, Fault
  <1>2. CASE Replace(c)
    BY <1>1, <1>2, ReplaceStep
  <1>3. CASE UNCHANGED <<row, expected>>
    <2>1. UNCHANGED <<content, handles, nextFh, fh, calls, main, loaded, mounts>> /\ Holding(c)
      BY <1>1 DEF shared, stop, Holding
    <2>2. /\ call' \in [Clients -> Call] /\ call'[c].stage = "reload"
          /\ Bounded' /\ Locks'
          /\ \A d \in Clients : d # c => call'[d] = call[d] /\ ~Holding(d)
      BY <1>1, <1>3, <2>1, StageStep DEF IInv, Locks, Process
    <2>3. faults' # 0 /\ faults' \in Nat
      BY <1>1 DEF IInv, TypeOK
    <2>4. \A d \in Clients : call'[d].stage # "publish"
      BY <2>2 DEF Holding
    <2>5. Store'
      BY <1>3, <2>1, <2>3, <2>4 DEF IInv, Store, NoLostUpdate, NoDirtyRead, Committed, Faultless
    <2>6. TypeOK' /\ Handles'
      BY <1>3, <2>1, <2>2, <2>3, SameHandles DEF IInv, TypeOK
    <2> QED
      BY <2>2, <2>5, <2>6 DEF IInv
  <1> QED
    BY <1>2, <1>3 DEF CommitUncertain

LEMMA ReloadStep == ASSUME IInv, NEW c \in Clients, Reload(c) \/ ReloadFails(c) PROVE IInv'
  <1>1. call[c].stage = "reload" /\ UNCHANGED <<row, shared, fh, calls, stop, expected>>
    BY DEF Reload, ReloadFails
  <1>2. CASE Answered(c)
    BY <1>1, <1>2, AnsweredStep DEF Reload, ReloadFails, Fault, shared
  <1>3. CASE Reload(c) /\ row = Successor(c) /\ Stage(c, "publish")
    <2>1. /\ UNCHANGED <<content, handles, nextFh, fh, calls, main, loaded, mounts, expected, faults>>
          /\ Holding(c)
      BY <1>1, <1>3 DEF shared, stop, Holding, Reload
    <2>2. /\ call' \in [Clients -> Call] /\ call'[c].stage = "publish"
          /\ Bounded' /\ Locks' /\ main # "down"
          /\ \A d \in Clients : d # c => call'[d] = call[d] /\ ~Holding(d)
          /\ Successor(c)' = Successor(c)
      BY <1>1, <1>3, <2>1, StageStep DEF IInv, Locks, Process
    <2>3. faults # 0
      BY <1>1, <2>2 DEF IInv, Store, Faultless
    <2>4. \A d \in Clients : call'[d].stage = "publish" => d = c
      BY <2>2 DEF Holding
    <2>5. Committed'
      BY <1>1, <1>3, <2>2, <2>4 DEF Committed, IInv, TypeOK, Record
    <2>6. Store'
      BY <1>1, <2>1, <2>3, <2>5 DEF IInv, Store, NoLostUpdate, NoDirtyRead, Faultless
    <2>7. TypeOK' /\ Handles'
      BY <1>1, <2>1, <2>2, SameHandles DEF IInv, TypeOK
    <2> QED
      BY <2>2, <2>6, <2>7 DEF IInv
  <1> QED
    BY <1>2, <1>3 DEF Reload, ReloadFails

\* A publication makes memory what was committed, and gives the lock back.
LEMMA PublishStep == ASSUME IInv, NEW c \in Clients, Publish(c) PROVE IInv'
  <1>1. /\ call[c].stage = "publish" /\ Holding(c) /\ Answered(c) /\ content' = Successor(c)
        /\ UNCHANGED <<row, calls, main, loaded, mounts, expected, faults>> /\ main # "down"
    BY Alive DEF Publish, Holding, stop
  <1>2. /\ Successor(c).phase = content.phase /\ Successor(c) \in Record
        /\ Len(Successor(c).contents) <= MaxContent
    BY <1>1, SuccessorType DEF IInv, Locks
  <1>3. call \in [Clients -> Call]
    BY DEF IInv, TypeOK
  <1>4. /\ \A d \in Clients : call'[d] = IF d = c THEN NoCall ELSE call[d]
        /\ call' \in [Clients -> Call]
    BY <1>1, <1>3, NeutralTypes DEF Answered
  <1>5. \A d \in Clients : ~Holding(d)'
    BY <1>1, <1>4 DEF IInv, Locks, Exclusive, Holding, NoCall
  <1>6. Bounded'
    BY <1>1, <1>2, <1>4 DEF IInv, Bounded, Mutates, NoCall
  <1>7. Locks'
    BY <1>1, <1>2, <1>5 DEF IInv, Locks, Exclusive, Process, Based
  <1>8. Store'
    <2>1. NoLostUpdate' /\ NoDirtyRead'
      BY <1>1 DEF IInv, Store, NoLostUpdate, NoDirtyRead, Committed
    <2>2. Committed'
      BY <1>5 DEF Committed, Holding
    <2>3. Faultless'
      BY <1>1, <1>5 DEF IInv, Store, Faultless, Holding
    <2> QED
      BY <2>1, <2>2, <2>3 DEF Store
  <1>9. /\ Handles'
        /\ \A f \in DOMAIN handles' : f \in Nat /\ handles'[f] \in BOOLEAN
        /\ nextFh' \in Nat /\ fh' \in [Clients -> Nat]
        /\ \A d \in Clients : fh'[d] \in DOMAIN handles' \cup {0}
    BY SameHandles, OpenedType DEF Publish
  <1>10. TypeOK'
    BY <1>1, <1>2, <1>4, <1>9 DEF IInv, TypeOK
  <1> QED
    BY <1>6, <1>7, <1>8, <1>9, <1>10 DEF IInv

LEMMA TaskStep == ASSUME IInv, NEW c \in Clients, Task(c) PROVE IInv'
  BY DecideStep, LockStep, CommitStep, ReloadStep, PublishStep DEF Task

-----------------------------------------------------------------------------
(* Shutdown                                                                *)

\* A step of the shutdown either leaves the row alone, or takes it one revision
\* on, past the mounted phase, with the contents it has.
LEMMA StoppingStep ==
    ASSUME IInv, UNCHANGED <<shared, call, calls, mounts, expected>>,
           main # "down", faults' = faults \/ faults' = faults + 1,
           main' \in {"loaded", "retry", "fenced", "detached", "reconciled"},
           loaded' \in Record, Len(loaded'.contents) <= MaxContent,
           main' = "loaded" => loaded'.phase = "mounted",
           \/ UNCHANGED row
           \/ /\ row' \in Record /\ row'.rev = row.rev + 1 /\ row'.phase # "mounted"
              /\ row'.contents = row.contents,
           main' \in {"fenced", "detached", "reconciled"} => row'.phase # "mounted",
           UNCHANGED fh \/ fh' = [c \in Clients |-> 0]
    PROVE  IInv'
  <1>1. UNCHANGED <<content, handles, nextFh>>
    BY DEF shared
  <1>2. row.rev \in Nat /\ content.rev \in Nat /\ faults \in Nat
    BY DEF IInv, TypeOK, Record
  <1>3. \A c \in Clients : /\ Holding(c)' = Holding(c) /\ Mutates(c)' = Mutates(c)
                           /\ Successor(c)' = Successor(c)
    BY DEF Holding, Mutates, Successor, Revised, Mutated
  <1>4. \A c \in Clients : Holding(c) => Successor(c).rev \in Nat
    BY SuccessorType DEF IInv, Locks, Record
  <1>5. Bounded' /\ Locks'
    BY <1>1, <1>3 DEF IInv, Bounded, Locks, Exclusive, Process, Based
  <1>6. NoLostUpdate' /\ NoDirtyRead'
    BY <1>1, <1>2 DEF IInv, Store, NoLostUpdate, NoDirtyRead
  <1>7. Committed'
    BY <1>2, <1>3, <1>4 DEF IInv, Store, Committed, Holding
  <1>8. Faultless'
    BY <1>1, <1>2, <1>3 DEF IInv, Store, Faultless
  <1>9. Handles'
    BY <1>1 DEF IInv, Handles
  <1>10. fh' \in [Clients -> Nat] /\ \A c \in Clients : fh'[c] \in DOMAIN handles' \cup {0}
    BY <1>1 DEF IInv, TypeOK
  <1>11. TypeOK'
    BY <1>1, <1>2, <1>10 DEF IInv, TypeOK, NoLostUpdate
  <1> QED
    BY <1>5, <1>6, <1>7, <1>8, <1>9, <1>11 DEF IInv, Store

\* A record taken one revision on.
LEMMA RevisedType ==
    ASSUME NEW r \in Record, NEW p \in {"mounted", "unmounting", "installed"}
    PROVE  /\ Revised(r, p, r.contents) \in Record
           /\ Revised(r, p, r.contents).rev = r.rev + 1
           /\ Revised(r, p, r.contents).phase = p
           /\ Revised(r, p, r.contents).contents = r.contents
  BY DEF Revised, Record

\* The record the fence commits.
LEMMA FencedType ==
    ASSUME IInv, main = "loaded", Accepted(loaded)
    PROVE  /\ Fenced \in Record /\ Fenced.rev = row.rev + 1 /\ Fenced.phase = "unmounting"
           /\ Fenced.contents = row.contents
  <1>1. row \in Record /\ row = loaded
    BY DEF IInv, TypeOK, Accepted
  <1> QED
    BY <1>1, RevisedType DEF Fenced

LEMMA ShutdownStep == ASSUME IInv, Shutdown \/ FenceFails PROVE IInv' \/ Exit
  <1>1. /\ row \in Record /\ Len(row.contents) <= MaxContent
        /\ loaded \in Record /\ Len(loaded.contents) <= MaxContent
        /\ NoRecord \in Record /\ Len(NoRecord.contents) <= MaxContent
    BY NeutralTypes, MountedWritesAssumption
       DEF IInv, TypeOK, Bounded, NoRecord, MountedWritesAssumption
  <1>2. CASE FenceLoad
    BY <1>1, <1>2, StoppingStep DEF FenceLoad, Stopping, client
  <1>3. CASE FenceCommit
    BY <1>1, <1>3, StoppingStep, FencedType DEF FenceCommit, Stopping, client
  <1>4. CASE FenceFails
    BY <1>1, <1>4, StoppingStep, FencedType DEF FenceFails, Fault, Stopping, client
  <1>5. CASE Detach
    <2>1. row.phase # "mounted"
      BY <1>5 DEF Detach, IInv, Locks, Process
    <2> QED
      BY <1>1, <1>5, <2>1, StoppingStep DEF Detach
  <1>6. CASE Reconcile
    <2>1. /\ row' \in Record /\ row'.rev = row.rev + 1 /\ row'.phase # "mounted"
          /\ row'.contents = row.contents
      BY <1>1, <1>6, RevisedType DEF Reconcile
    <2> QED
      BY <1>1, <1>6, <2>1, StoppingStep DEF Reconcile, Stopping, client
  <1> QED
    BY <1>2, <1>3, <1>4, <1>5, <1>6 DEF Shutdown

-----------------------------------------------------------------------------
(* The process                                                             *)

LEMMA DieStep == ASSUME IInv, Exit \/ Crash PROVE IInv'
  <1>1. Die /\ (faults' = faults \/ faults' = faults + 1)
    BY DEF Exit, Crash, Fault
  <1>2. /\ \A c \in Clients : call'[c] = NoCall /\ call'[c].stage = "none" /\ fh'[c] = 0
        /\ call' \in [Clients -> Call] /\ fh' \in [Clients -> Nat]
        /\ call' = [c \in Clients |-> NoCall]
    BY <1>1, NeutralTypes DEF Die, NoCall
  <1>3. /\ main' = "down" /\ loaded' = NoRecord /\ content' = NoRecord
        /\ handles' = << >> /\ DOMAIN handles' = {} /\ nextFh' = 1
        /\ UNCHANGED <<row, expected, calls, mounts>>
    BY <1>1 DEF Die
  <1>4. NoRecord \in Record /\ Len(NoRecord.contents) <= MaxContent
    BY NeutralTypes, MountedWritesAssumption DEF NoRecord, MountedWritesAssumption
  <1>5. TypeOK'
    BY <1>1, <1>2, <1>3, <1>4 DEF IInv, TypeOK
  <1>6. Handles' /\ Bounded' /\ Locks'
    BY <1>2, <1>3, <1>4
       DEF Handles, Bounded, Mutates, Locks, Exclusive, Process, Based, Holding
  <1>7. Store'
    BY <1>2, <1>3 DEF IInv, Store, NoLostUpdate, NoDirtyRead, Committed, Faultless
  <1> QED
    BY <1>5, <1>6, <1>7 DEF IInv

LEMMA MountStep == ASSUME IInv, Mount PROVE IInv'
  <1>1. /\ main = "down" /\ main' = "serving" /\ mounts' = mounts + 1 /\ content' = row'
        /\ row' = Revised(row, "mounted", row.contents)
        /\ UNCHANGED <<handles, nextFh, fh, call, calls, loaded, expected, faults>>
    BY DEF Mount, client
  <1>2. \A c \in Clients : call[c].stage = "none"
    BY <1>1 DEF IInv, Locks, Process, NoCall
  <1>3. /\ row' \in Record /\ row'.contents = row.contents /\ row'.phase = "mounted"
        /\ row'.rev \in Nat
    <2>1. row \in Record /\ row.rev \in Nat
      BY DEF IInv, TypeOK, Record
    <2> QED
      BY <1>1, <2>1, RevisedType DEF Record
  <1>4. TypeOK' /\ Handles'
    BY <1>1, <1>3, SameHandles DEF IInv, TypeOK
  <1>5. Bounded' /\ Locks'
    BY <1>1, <1>2, <1>3
       DEF IInv, TypeOK, Bounded, Mutates, Locks, Exclusive, Process, Based, Holding
  <1>6. Store'
    BY <1>1, <1>2, <1>3 DEF IInv, Store, NoLostUpdate, NoDirtyRead, Committed, Faultless
  <1> QED
    BY <1>4, <1>5, <1>6 DEF IInv

LEMMA Stutter == ASSUME IInv, UNCHANGED vars PROVE IInv'
  <1>1. UNCHANGED <<row, content, handles, nextFh, fh, call, calls, main, loaded, mounts,
                    expected, faults>>
    BY DEF vars, shared, client, stop
  <1>2. TypeOK' /\ Handles'
    BY <1>1 DEF IInv, TypeOK, Handles
  <1>3. Bounded' /\ Locks'
    BY <1>1 DEF IInv, Bounded, Mutates, Locks, Exclusive, Process, Based, Holding
  <1>4. Store'
    BY <1>1 DEF IInv, Store, NoLostUpdate, NoDirtyRead, Committed, Faultless, Successor, Revised, Mutated
  <1> QED
    BY <1>2, <1>3, <1>4 DEF IInv

LEMMA NextInv == ASSUME IInv, [Next]_vars PROVE IInv'
  <1>1. CASE UNCHANGED vars
    BY <1>1, Stutter
  <1>2. CASE \E c \in Clients : \/ Handler(c) \/ Task(c)
                                \/ CommitFails(c) \/ CommitUncertain(c) \/ ReloadFails(c)
    BY <1>2, HandlerStep, TaskStep, CommitStep, UncertainStep, ReloadStep
  <1>3. CASE Shutdown \/ FenceFails
    BY <1>3, ShutdownStep, DieStep
  <1>4. CASE Crash \/ Mount
    BY <1>4, DieStep, MountStep
  <1> QED
    BY <1>1, <1>2, <1>3, <1>4 DEF Next

-----------------------------------------------------------------------------
(* Theorems                                                                *)

LEMMA Inductive == Spec => []IInv
  BY InitInv, NextInv, PTL DEF Spec

\* credential_fs.rs: no call makes the contents longer than MAX_CONTENT_LEN, no
\* client holds a handle that is not registered, and every variable has its type.
THEOREM TypeCorrect == Spec => []TypeOK
  <1>1. IInv => TypeOK
    BY DEF IInv
  <1> QED
    BY <1>1, Inductive, PTL

\* transaction.rs, update_contents: the row is what the committed mutations make
\* of the original, one after the other, through any number of concurrent
\* truncations, uncertain commits, shutdowns and crashes.
THEOREM UpdatesKept == Spec => []NoLostUpdate
  <1>1. IInv => NoLostUpdate
    BY DEF IInv, Store
  <1> QED
    BY <1>1, Inductive, PTL

\* credential_fs.rs, read: the mount never serves what was not committed.
THEOREM ReadsCommitted == Spec => []NoDirtyRead
  <1>1. IInv => NoDirtyRead
    BY DEF IInv, Store
  <1> QED
    BY <1>1, Inductive, PTL

\* credential_fs.rs, apply_write and apply_truncate: what was acknowledged is what
\* is read, as long as the store does not fail.
THEOREM WritesRead == Spec => []ReadYourWrites
  <1>1. IInv => ReadYourWrites
    BY DEF IInv, Store, Faultless, ReadYourWrites, LockFree, Holding
  <1> QED
    BY <1>1, Inductive, PTL

\* A mutation that is past the lock was made of a mounted record.
LEMMA HolderMounted ==
    ASSUME IInv, NEW c \in Clients, Holding(c)
    PROVE  call[c].base = content /\ content.phase = "mounted" /\ main # "down"
  <1>1. main # "down"
    BY Alive DEF Holding
  <1> QED
    BY <1>1 DEF IInv, Locks, Based, Process

\* transaction.rs, begin_unmount: no write lands after the fence.
THEOREM FenceHolds == Spec => FencedIsFinal
  <1> DEFINE Final == row.phase # "mounted" => /\ row'.contents = row.contents
                                               /\ row'.phase = "mounted" => main = "down"
  <1>1. ASSUME IInv, [Next]_vars PROVE Final
    <2> SUFFICES ASSUME row.phase # "mounted" PROVE Final
      OBVIOUS
    <2>1. CASE UNCHANGED row
      BY <2>1
    <2>2. ASSUME NEW c \in Clients, Commit(c) \/ CommitUncertain(c) PROVE Final
      <3>1. Holding(c)
        BY <2>2 DEF Commit, CommitUncertain, Holding
      <3>2. ~Accepted(call[c].base)
        BY <1>1, <3>1, HolderMounted DEF Accepted
      <3> QED
        BY <2>1, <2>2, <3>2 DEF Commit, CommitUncertain
    <2>3. CASE FenceCommit \/ FenceFails
      BY <1>1, <2>1, <2>3, FencedType DEF FenceCommit, FenceFails
    <2>4. CASE Reconcile
      BY <2>4 DEF Reconcile, Revised
    <2>5. CASE Mount
      BY <2>5 DEF Mount, Revised
    <2>6. ASSUME NEW c \in Clients,
                 \/ Handler(c) \/ CommitFails(c) \/ ReloadFails(c) \/ Reload(c) \/ Publish(c)
                 \/ Lock(c) \/ \E allowed \in BOOLEAN : Decide(c, allowed)
          PROVE  UNCHANGED row
      BY <2>6 DEF Handler, Open, Write, TruncateHandle, TruncatePath, Arrives, Release,
                  CommitFails, ReloadFails, Reload, Publish, Lock, Decide
    <2>7. ASSUME FenceLoad \/ Detach \/ Exit \/ Crash \/ UNCHANGED vars PROVE UNCHANGED row
      BY <2>7 DEF FenceLoad, Detach, Exit, Crash, Die, vars
    <2> QED
      BY <1>1, <2>1, <2>2, <2>3, <2>4, <2>5, <2>6, <2>7 DEF Next, Task, Shutdown
  <1>2. Spec => [][Final]_vars
    BY <1>1, Inductive, PTL DEF Spec
  <1> QED
    BY <1>2 DEF FencedIsFinal

\* Only the client's own steps change its call, while the process lives.
LEMMA OthersCalls ==
    ASSUME IInv, NEW c \in Clients, NEW d \in Clients, c # d,
           Handler(d) \/ Task(d) \/ CommitFails(d) \/ CommitUncertain(d) \/ ReloadFails(d)
    PROVE  call'[c] = call[c]
  <1>1. call \in [Clients -> Call]
    BY DEF IInv, TypeOK
  <1>2. PICK x : call' = [call EXCEPT ![d] = x] \/ call' = call
    BY DEF Handler, Open, Write, TruncateHandle, TruncatePath, Arrives, Release, Task, Decide,
           Lock, Commit, CommitFails, CommitUncertain, Reload, ReloadFails, Publish,
           Answered, Stage
  <1> QED
    BY <1>1, <1>2

\* A commit is refused only past the fence, while the store has not failed.
LEMMA CommitAccepted ==
    ASSUME IInv, NEW c \in Clients, call[c].stage = "locked",
           faults = 0, row.phase = "mounted"
    PROVE  Accepted(call[c].base)
  <1>1. Holding(c)
    BY DEF Holding
  <1>2. \A d \in Clients : call[d].stage # "publish"
    BY <1>1 DEF IInv, Locks, Exclusive, Holding
  <1> QED
    BY <1>1, <1>2, HolderMounted DEF IInv, Store, Faultless, Accepted

\* transaction.rs, update_contents under the mutation lock: concurrent calls never
\* make one another fail; EIO means the store failed or the mount is going.
THEOREM FailuresExplained == Spec => NoSpuriousFailure
  <1> DEFINE Explained == \A c \in Clients :
                call[c].stage \in {"locked", "reload"} /\ call'[c].stage = "none"
                  => faults' > 0 \/ row.phase # "mounted"
  <1>1. ASSUME IInv, [Next]_vars PROVE Explained
    <2> SUFFICES ASSUME NEW c \in Clients, call[c].stage \in {"locked", "reload"},
                        faults' = 0, row.phase = "mounted"
                 PROVE  call'[c].stage # "none"
      <3>1. faults' \in Nat
        BY <1>1, NextInv DEF IInv, TypeOK
      <3> QED
        BY <3>1
    <2>1. faults \in Nat /\ call \in [Clients -> Call] /\ call[c] \in Call /\ Holding(c)
      BY <1>1 DEF IInv, TypeOK, Holding
    <2>2. ASSUME faults = 0 PROVE call[c].stage = "locked" /\ Accepted(call[c].base)
      <3>1. main # "down"
        BY <1>1, <2>1, HolderMounted
      <3>2. call[c].stage # "reload"
        BY <1>1, <2>2, <3>1 DEF IInv, Store, Faultless
      <3> QED
        BY <1>1, <2>2, <3>2, CommitAccepted
    <2>3. CASE UNCHANGED call
      BY <2>3
    <2>4. ASSUME NEW d \in Clients, d # c,
                 Handler(d) \/ Task(d) \/ CommitFails(d) \/ CommitUncertain(d) \/ ReloadFails(d)
          PROVE  call'[c].stage # "none"
      BY <1>1, <2>4, OthersCalls
    <2>5. CASE Handler(c) \/ Task(c) \/ CommitFails(c) \/ CommitUncertain(c) \/ ReloadFails(c)
      <3>1. CASE Handler(c)
        BY <2>1, <3>1 DEF Handler, Open, Write, TruncateHandle, TruncatePath, Arrives, Release,
                          NoCall
      <3>2. CASE Commit(c)
        BY <2>1, <2>2, <3>2 DEF Commit, Stage, Call
      <3>3. CASE CommitFails(c) \/ CommitUncertain(c) \/ ReloadFails(c)
        BY <2>1, <3>3 DEF CommitFails, CommitUncertain, ReloadFails, Fault
      <3>4. CASE Reload(c)
        BY <2>2, <3>4 DEF Reload
      <3>5. CASE Publish(c) \/ Lock(c) \/ \E allowed \in BOOLEAN : Decide(c, allowed)
        BY <3>5 DEF Publish, Lock, Decide
      <3> QED
        BY <2>5, <3>1, <3>2, <3>3, <3>4, <3>5 DEF Task
    <2>6. CASE Shutdown \/ FenceFails \/ Crash \/ Mount
      <3>1. ~Exit
        BY <1>1 DEF Exit, IInv, Locks, Process
      <3>2. ~Crash
        BY <2>1 DEF Crash, Fault
      <3> QED
        BY <2>3, <2>6, <3>1, <3>2
           DEF Shutdown, FenceLoad, FenceCommit, FenceFails, Detach, Reconcile, Mount, Stopping,
               client
    <2>7. CASE UNCHANGED vars
      BY <2>3, <2>7 DEF vars, client
    <2> QED
      BY <1>1, <2>4, <2>5, <2>6, <2>7 DEF Next
  <1>2. Spec => [][Explained]_vars
    BY <1>1, Inductive, PTL DEF Spec
  <1> QED
    BY <1>2 DEF NoSpuriousFailure

=============================================================================
