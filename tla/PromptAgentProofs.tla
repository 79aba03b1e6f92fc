------------------------- MODULE PromptAgentProofs --------------------------
(***************************************************************************)
(* Proofs about PromptAgent, for every number of questions and every value *)
(* of the limits that keeps their order.                                   *)
(*                                                                         *)
(* Where the connection of a question is says what its client can have:    *)
(* nothing is written before the task is done, and an answer that counts   *)
(* is the one that was written.  The rate limiter's timestamps are the     *)
(* youngest of all admissions, in order, so that the first of them are the *)
(* old ones.  And the client's limit runs beside the dialog's, a grace     *)
(* behind it, from the moment at which the dialog is put.                  *)
(***************************************************************************)
EXTENDS PromptAgent, FiniteSetTheorems, SequenceTheorems, TLAPS

-----------------------------------------------------------------------------
(* The invariant                                                           *)

Types ==
    /\ client \in [Requests -> {"idle", "waiting", "default"} \cup Choices]
    /\ left \in [Requests -> 0 .. HardLimit]
    /\ task \in [Requests -> {"idle", "sent", "queued", "done"} \cup Backends]
    /\ shown \in [Requests -> 0 .. Timeout + Backstop]
    /\ reply \in [Requests -> {None, NoResponse} \cup Choices]
    /\ queue \in Seq(Requests) /\ readers \in Seq(Requests)
    /\ ahead \in Seq(Choices) /\ Len(ahead) <= MaxAhead
    /\ chosen \in [Requests -> {None, Swallowed} \cup Choices]
    /\ found \in [Requests -> {None} \cup Choices]
    /\ delayed \in [Requests -> BOOLEAN] /\ up \in BOOLEAN

\* One dialog at most, and the queue has questions that wait, each once.
Serial ==
    /\ \A r, s \in Requests : Shown(r) /\ Shown(s) => r = s
    /\ \A i \in DOMAIN queue : task[queue[i]] = "queued"
    /\ \A i, j \in DOMAIN queue : queue[i] = queue[j] => i = j

\* Nothing is written to a connection before its task is done, and a client
\* that waits then has something to take.
Place(r) ==
    /\ client[r] = "idle" => task[r] = "idle"
    /\ task[r] = "idle" => client[r] \in {"idle", "default"}
    /\ task[r] # "done" => reply[r] = None /\ client[r] \notin Choices
    /\ task[r] = "done" /\ Waits(r) => reply[r] # None

\* An answer that counts was given while the client waited, and is the reply.
Answer(r) ==
    /\ reply[r] = None => found[r] = None
    /\ Given(r) \in Choices => reply[r] = Given(r) /\ client[r] # "default"
    /\ Waits(r) /\ reply[r] \in Choices => Given(r) = reply[r]
    /\ client[r] \in Choices => Given(r) = client[r]

\* A question that came up at once has as much time left as its dialog, and
\* what the client's grace is longer than the dialog's.
Timely(r) ==
    Waits(r) /\ ~delayed[r] =>
      /\ task[r] \in {"sent", "queued"} => left[r] = HardLimit
      /\ Shown(r) => left[r] >= shown[r] + (Grace - Backstop)

Questions == \A r \in Requests : Place(r) /\ Answer(r) /\ Timely(r)

\* Ages of admissions, the oldest first.
Ages(s) == /\ s \in Seq(0 .. Window)
           /\ \A i, j \in 1 .. Len(s) : i <= j => s[i] >= s[j]

\* What was dropped from the timestamps is as old as the window.
Limiter ==
    /\ Ages(stamps) /\ Ages(admitted)
    /\ Len(stamps) <= MaxPrompts /\ Len(stamps) <= Len(admitted)
    /\ \A i \in 1 .. Len(stamps) : stamps[i] = admitted[Len(admitted) - Len(stamps) + i]
    /\ \A i \in 1 .. Len(admitted) - Len(stamps) : admitted[i] = Window

Kept == Types /\ Serial /\ Questions /\ Limiter

-----------------------------------------------------------------------------
(* What a step leaves alone                                                *)

LEMMA Limits ==
    /\ {Timeout, Grace, Backstop, MaxPrompts, Window, MaxDeaths, MaxAhead, HardLimit} \subseteq Nat
    /\ HardLimit = Timeout + Grace /\ Backstop < Grace
    /\ Backends \subseteq {"gui", "terminal", "log_only"}
    /\ {None, NoResponse, Swallowed, "idle", "waiting", "default"} \cap Choices = {}
    /\ None # NoResponse /\ None # Swallowed
<1>1. {Timeout, Grace, Backstop, MaxPrompts, Window, MaxDeaths, MaxAhead} \subseteq Nat
  BY PromptAgentAssumption
<1>2. HardLimit = Timeout + Grace /\ HardLimit \in Nat
  BY <1>1 DEF HardLimit
<1> QED
  BY <1>1, <1>2, PromptAgentAssumption, GraceAssumption DEF None, NoResponse, Swallowed

\* A question whose client, connection and answer do not change.
LEMMA QuestionStands ==
    ASSUME NEW r \in Requests, Place(r) /\ Answer(r) /\ Timely(r),
           client'[r] = client[r], left'[r] = left[r], task'[r] = task[r],
           shown'[r] = shown[r], reply'[r] = reply[r], chosen'[r] = chosen[r],
           found'[r] = found[r], delayed'[r] = delayed[r]
    PROVE  Place(r)' /\ Answer(r)' /\ Timely(r)'
BY DEF Place, Answer, Given, Timely, Waits, Shown

\* All questions but one stand.
LEMMA OthersStand ==
    ASSUME Questions, NEW r \in Requests,
           \A s \in Requests \ {r} :
              /\ client'[s] = client[s] /\ left'[s] = left[s] /\ task'[s] = task[s]
              /\ shown'[s] = shown[s] /\ reply'[s] = reply[s] /\ chosen'[s] = chosen[s]
              /\ found'[s] = found[s] /\ delayed'[s] = delayed[s],
           Place(r)' /\ Answer(r)' /\ Timely(r)'
    PROVE  Questions'
<1>1. ASSUME NEW s \in Requests PROVE Place(s)' /\ Answer(s)' /\ Timely(s)'
  <2>1. CASE s = r
    BY <2>1
  <2>2. CASE s # r
    <3>1. Place(s) /\ Answer(s) /\ Timely(s)
      BY DEF Questions
    <3> QED
      BY <2>2, <3>1, QuestionStands
  <2> QED
    BY <2>1, <2>2
<1> QED
  BY <1>1 DEF Questions

LEMMA LimiterStands == ASSUME Limiter, UNCHANGED <<stamps, admitted>> PROVE Limiter'
BY DEF Limiter, Ages

\* No task joins the queue or comes to the screen.
LEMMA SerialStands ==
    ASSUME Types, Serial, queue' = queue,
           \A r \in Requests : \/ task'[r] = task[r]
                               \/ task[r] # "queued" /\ task'[r] \in {"sent", "done"}
    PROVE  Serial'
<1>1. \A r \in Requests : Shown(r)' => Shown(r)
  BY DEF Shown
<1>2. \A i \in DOMAIN queue : queue[i] \in Requests
  BY DEF Types
<1> QED
  BY <1>1, <1>2 DEF Serial

-----------------------------------------------------------------------------
(* The client                                                              *)

LEMMA InitKept == Init => Kept
<1> SUFFICES ASSUME Init PROVE Kept
  OBVIOUS
<1>1. Types
  BY Limits DEF Init, Types
<1>2. Serial
  BY DEF Init, Serial, Shown
<1>3. Questions
  BY Limits DEF Init, Questions, Place, Answer, Given, Timely, Waits, Shown
<1>4. Limiter
  BY Limits DEF Init, Limiter, Ages
<1> QED
  BY <1>1, <1>2, <1>3, <1>4 DEF Kept

LEMMA AskKept == ASSUME Kept, NEW r \in Requests, Ask(r) PROVE Kept'
<1> USE Limits DEF Kept
<1>1. Place(r) /\ Answer(r) /\ Timely(r)
  BY DEF Questions
<1>2. client[r] = "idle" /\ task[r] = "idle" /\ reply[r] = None /\ Given(r) \notin Choices
  BY <1>1 DEF Ask, Place, Answer, Given, Types
<1>3. UNCHANGED <<shown, queue, stamps, readers, ahead, reply, up, chosen, found, admitted>>
  BY DEF Ask
<1>4. CASE ~up /\ Take(r, NoResponse) /\ UNCHANGED <<task, delayed>>
  <2>1. /\ client' = [client EXCEPT ![r] = "default"] /\ left' = [left EXCEPT ![r] = 0]
        /\ UNCHANGED <<task, delayed>>
    BY <1>4 DEF Take
  <2>2. Types'
    <3>1. client' \in [Requests -> {"idle", "waiting", "default"} \cup Choices]
      BY <2>1 DEF Types
    <3>2. left' \in [Requests -> 0 .. HardLimit]
      BY <2>1 DEF Types
    <3> QED
      BY <1>3, <2>1, <3>1, <3>2 DEF Types
  <2>3. Place(r)' /\ Answer(r)' /\ Timely(r)'
    BY <1>1, <1>2, <1>3, <2>1 DEF Types, Place, Answer, Given, Timely, Waits, Shown
  <2>4. Questions'
    BY <1>3, <2>1, <2>3, OthersStand DEF Types
  <2> QED
    BY <1>3, <2>1, <2>2, <2>4, SerialStands, LimiterStands
<1>5. CASE /\ client' = [client EXCEPT ![r] = "waiting"]
           /\ left' = [left EXCEPT ![r] = HardLimit]
           /\ task' = [task EXCEPT ![r] = "sent"]
           /\ delayed' = [delayed EXCEPT ![r] = ~up]
  <2>1. Types'
    <3>1. client' \in [Requests -> {"idle", "waiting", "default"} \cup Choices]
      BY <1>5 DEF Types
    <3>2. left' \in [Requests -> 0 .. HardLimit]
      BY <1>5 DEF Types
    <3>3. task' \in [Requests -> {"idle", "sent", "queued", "done"} \cup Backends]
      BY <1>5 DEF Types
    <3>4. delayed' \in [Requests -> BOOLEAN]
      BY <1>5 DEF Types
    <3> QED
      BY <1>3, <3>1, <3>2, <3>3, <3>4 DEF Types
  <2>2. Place(r)' /\ Answer(r)' /\ Timely(r)'
    BY <1>1, <1>2, <1>3, <1>5 DEF Types, Place, Answer, Given, Timely, Waits, Shown
  <2>3. Questions'
    BY <1>3, <1>5, <2>2, OthersStand DEF Types
  <2>4. Serial'
    BY <1>2, <1>3, <1>5, SerialStands DEF Types
  <2> QED
    BY <1>3, <2>1, <2>3, <2>4, LimiterStands
<1> QED
  BY <1>4, <1>5 DEF Ask

\* The client has its decision.
LEMMA TakeKept ==
    ASSUME Kept, NEW r \in Requests, Waits(r),
           NEW outcome \in {NoResponse} \cup Choices, Take(r, outcome),
           outcome \in Choices => Given(r) = outcome,
           outcome = NoResponse => Given(r) \notin Choices,
           outcome \in Choices => task[r] = "done",
           UNCHANGED <<server, reply, up, chosen, found, delayed, admitted>>
    PROVE  Kept'
<1> USE Limits DEF Kept
<1>1. Place(r) /\ Answer(r) /\ Timely(r)
  BY DEF Questions
<1>2. /\ client' = [client EXCEPT ![r] = IF outcome = NoResponse THEN "default" ELSE outcome]
      /\ left' = [left EXCEPT ![r] = 0]
      /\ UNCHANGED <<task, shown, queue, stamps, readers, ahead, reply, up, chosen, found,
                     delayed, admitted>>
  BY DEF Take, server
<1>3. Types'
  <2>1. client' \in [Requests -> {"idle", "waiting", "default"} \cup Choices]
    BY <1>2 DEF Types
  <2>2. left' \in [Requests -> 0 .. HardLimit]
    BY <1>2 DEF Types
  <2> QED
    BY <1>2, <2>1, <2>2 DEF Types
<1>4. client'[r] = (IF outcome = NoResponse THEN "default" ELSE outcome) /\ client'[r] # "waiting"
  BY <1>2 DEF Types
<1>5. Place(r)' /\ Answer(r)' /\ Timely(r)'
  <2>1. Place(r)'
    BY <1>1, <1>2, <1>4 DEF Place, Waits
  <2>2. Answer(r)'
    BY <1>1, <1>2, <1>4 DEF Answer, Given, Waits
  <2>3. Timely(r)'
    BY <1>4 DEF Timely, Waits
  <2> QED
    BY <2>1, <2>2, <2>3
<1>6. Questions'
  BY <1>2, <1>5, OthersStand DEF Types
<1> QED
  BY <1>2, <1>3, <1>6, SerialStands, LimiterStands

LEMMA ReceiveKept == ASSUME Kept, NEW r \in Requests, Receive(r) PROVE Kept'
<1> USE Limits DEF Kept
<1>1. Place(r) /\ Answer(r) /\ reply[r] \in {NoResponse} \cup Choices
  BY DEF Receive, Questions, Types
<1>2. reply[r] # NoResponse => reply[r] \in Choices
  BY <1>1
<1> QED
  BY <1>1, <1>2, TakeKept DEF Receive, Place, Answer, Given

LEMMA GiveUpKept == ASSUME Kept, NEW r \in Requests, GiveUp(r) PROVE Kept'
<1> USE Limits DEF Kept
<1>1. Answer(r)
  BY DEF Questions
<1> QED
  BY <1>1, TakeKept DEF GiveUp, Answer, Given

-----------------------------------------------------------------------------
(* The rate limiter                                                        *)

LEMMA Interval ==
    ASSUME NEW a \in Nat, NEW b \in Nat, a <= b + 1
    PROVE  IsFiniteSet(a .. b) /\ Cardinality(a .. b) = b + 1 - a
<1>1. a \in Int /\ b \in Int /\ (a > b => b + 1 - a = 0) /\ b - a + 1 = b + 1 - a
  OBVIOUS
<1>2. IsFiniteSet(a .. b) /\ Cardinality(a .. b) = IF a > b THEN 0 ELSE b - a + 1
  BY <1>1, FS_Interval
<1> QED
  BY <1>1, <1>2

\* A sequence without its first elements.
LEMMA Dropped ==
    ASSUME NEW S, NEW s \in Seq(S), NEW k \in 0 .. Len(s)
    PROVE  /\ SubSeq(s, k + 1, Len(s)) \in Seq(S)
           /\ Len(SubSeq(s, k + 1, Len(s))) = Len(s) - k
           /\ \A i \in 1 .. Len(s) - k : SubSeq(s, k + 1, Len(s))[i] = s[k + i]
<1>1. Len(s) \in Nat /\ k \in Nat /\ k <= Len(s) /\ k + 1 \in Int
  OBVIOUS
<1>2. \A i \in k + 1 .. Len(s) : s[i] \in S
  BY <1>1
<1>3. /\ SubSeq(s, k + 1, Len(s)) \in Seq(S)
      /\ Len(SubSeq(s, k + 1, Len(s))) =
            IF k + 1 <= Len(s) THEN Len(s) - (k + 1) + 1 ELSE 0
      /\ \A i \in 1 .. Len(s) - (k + 1) + 1 : SubSeq(s, k + 1, Len(s))[i] = s[(k + 1) + i - 1]
  BY <1>1, <1>2, SubSeqProperties
<1>4. Len(s) - (k + 1) + 1 = Len(s) - k /\ (k + 1 > Len(s) => Len(s) - k = 0)
  BY <1>1
<1>5. ASSUME NEW i \in 1 .. Len(s) - k PROVE SubSeq(s, k + 1, Len(s))[i] = s[k + i]
  <2>1. i \in 1 .. Len(s) - (k + 1) + 1 /\ (k + 1) + i - 1 = k + i
    BY <1>1
  <2>2. SubSeq(s, k + 1, Len(s))[i] = s[(k + 1) + i - 1]
    BY <1>3, <2>1
  <2> QED
    BY <2>1, <2>2
<1> DEFINE rest == SubSeq(s, k + 1, Len(s))
<1>6. Len(rest) = Len(s) - k
  <2>1. Len(rest) = IF k + 1 <= Len(s) THEN Len(s) - (k + 1) + 1 ELSE 0
    BY <1>3
  <2> HIDE DEF rest
  <2>2. CASE k + 1 <= Len(s)
    BY <1>4, <2>1, <2>2
  <2>3. CASE ~(k + 1 <= Len(s))
    BY <1>1, <2>1, <2>3
  <2> QED
    BY <2>2, <2>3
<1> QED
  BY <1>3, <1>5, <1>6

\* As many timestamps as are old are dropped, and these are the old ones.
LEMMA FreshKeepsYoung ==
    ASSUME NEW s, Ages(s)
    PROVE  \E k \in 0 .. Len(s) :
              /\ Fresh(s) = SubSeq(s, k + 1, Len(s))
              /\ Fresh(s) \in Seq(0 .. Window) /\ Len(Fresh(s)) = Len(s) - k
              /\ \A i \in 1 .. Len(s) - k : Fresh(s)[i] = s[k + i]
              /\ \A i \in 1 .. k : s[i] = Window
              /\ \A i \in k + 1 .. Len(s) : s[i] < Window
<1> DEFINE old == {i \in DOMAIN s : s[i] >= Window}
           k == Cardinality(old)
<1>1. /\ s \in Seq(0 .. Window) /\ Len(s) \in Nat /\ DOMAIN s = 1 .. Len(s) /\ Window \in Nat
      /\ \A i \in 1 .. Len(s) : s[i] \in 0 .. Window
  <2>1. s \in Seq(0 .. Window) /\ Len(s) \in Nat /\ DOMAIN s = 1 .. Len(s) /\ Window \in Nat
    BY Limits DEF Ages
  <2> QED
    BY <2>1, ElementOfSeq
<1>2. IsFiniteSet(1 .. Len(s))
  BY <1>1, Interval
<1>3. old \in SUBSET (1 .. Len(s))
  BY <1>1
<1>4. IsFiniteSet(old) /\ k <= Len(s) /\ k \in Nat
  <2>1. Cardinality(1 .. Len(s)) = Len(s)
    BY <1>1, Interval
  <2> HIDE DEF old
  <2> QED
    BY <1>2, <1>3, <2>1, FS_Subset, FS_CardinalityType
<1>5. ASSUME NEW i \in old PROVE i <= k
  <2>1. i \in 1 .. Len(s) /\ s[i] >= Window
    BY <1>3
  <2>2. \A j \in 1 .. i : s[j] >= Window
    BY <1>1, <2>1 DEF Ages
  <2>3. 1 .. i \in SUBSET old
    BY <1>1, <2>1, <2>2
  <2>4. i \in Nat /\ Cardinality(1 .. i) = i
    BY <2>1, Interval
  <2> HIDE DEF old
  <2>5. Cardinality(1 .. i) <= k
    BY <1>4, <2>3, FS_Subset
  <2> QED
    BY <2>4, <2>5
<1>6. old = 1 .. k
  <2>1. old \in SUBSET (1 .. k)
    BY <1>3, <1>4, <1>5
  <2>2. IsFiniteSet(1 .. k) /\ Cardinality(1 .. k) = k
    BY <1>4, Interval
  <2> HIDE DEF old
  <2> QED
    BY <2>1, <2>2, FS_Subset
<1>7. Fresh(s) = SubSeq(s, k + 1, Len(s))
  BY DEF Fresh
<1> HIDE DEF k
<1>8. k \in 0 .. Len(s)
  BY <1>1, <1>4
<1>9. /\ SubSeq(s, k + 1, Len(s)) \in Seq(0 .. Window)
      /\ Len(SubSeq(s, k + 1, Len(s))) = Len(s) - k
      /\ \A i \in 1 .. Len(s) - k : SubSeq(s, k + 1, Len(s))[i] = s[k + i]
  BY <1>1, <1>8, Dropped
<1>10. \A i \in 1 .. k : s[i] = Window
  BY <1>1, <1>4, <1>6
<1>11. \A i \in k + 1 .. Len(s) : s[i] < Window
  <2> SUFFICES ASSUME NEW i \in k + 1 .. Len(s) PROVE s[i] < Window
    OBVIOUS
  <2>1. i \notin old /\ i \in DOMAIN s /\ s[i] \in 0 .. Window
    BY <1>1, <1>4, <1>6
  <2> QED
    BY <1>1, <2>1
<1> HIDE DEF old
<1> QED
  BY <1>7, <1>8, <1>9, <1>10, <1>11

\* Dropping the old timestamps leaves the limiter in order.
LEMMA FreshLimiter ==
    ASSUME Limiter
    PROVE  LET kept == Fresh(stamps) IN
           /\ Ages(kept)
           /\ Len(kept) <= MaxPrompts /\ Len(kept) <= Len(admitted)
           /\ \A i \in 1 .. Len(kept) : kept[i] = admitted[Len(admitted) - Len(kept) + i]
           /\ \A i \in 1 .. Len(admitted) - Len(kept) : admitted[i] = Window
<1> DEFINE s == stamps  n == Len(admitted)  m == Len(stamps)
<1>1. PICK k \in 0 .. Len(s) :
              /\ Fresh(s) = SubSeq(s, k + 1, Len(s))
              /\ Fresh(s) \in Seq(0 .. Window) /\ Len(Fresh(s)) = Len(s) - k
              /\ \A i \in 1 .. Len(s) - k : Fresh(s)[i] = s[k + i]
              /\ \A i \in 1 .. k : s[i] = Window
              /\ \A i \in k + 1 .. Len(s) : s[i] < Window
  BY FreshKeepsYoung DEF Limiter
<1> DEFINE kept == Fresh(stamps)
<1>2. n \in Nat /\ m \in Nat /\ m <= n /\ k <= m /\ k \in Nat /\ MaxPrompts \in Nat
  BY <1>1, Limits DEF Limiter, Ages
<1>3. kept \in Seq(0 .. Window) /\ Len(kept) = m - k /\ \A i \in 1 .. m - k : kept[i] = s[k + i]
  BY <1>1
<1> HIDE DEF kept
<1>4. ASSUME NEW i \in 1 .. m - k, NEW j \in 1 .. m - k, i <= j PROVE kept[i] >= kept[j]
  <2>1. k + i \in 1 .. m /\ k + j \in 1 .. m /\ k + i <= k + j
    BY <1>2, <1>4
  <2>2. s[k + i] >= s[k + j]
    BY <2>1 DEF Limiter, Ages
  <2> QED
    BY <1>3, <2>2
<1>5. Ages(kept)
  BY <1>3, <1>4 DEF Ages
<1>6. ASSUME NEW i \in 1 .. m - k PROVE kept[i] = admitted[n - (m - k) + i]
  <2>1. k + i \in 1 .. m /\ n - m + (k + i) = n - (m - k) + i
    BY <1>2
  <2>2. s[k + i] = admitted[n - m + (k + i)]
    BY <2>1 DEF Limiter
  <2> QED
    BY <1>3, <2>1, <2>2
<1>7. ASSUME NEW i \in 1 .. n - (m - k) PROVE admitted[i] = Window
  <2>1. CASE i <= n - m
    BY <1>2, <2>1 DEF Limiter
  <2>2. CASE i > n - m
    <3>1. i - (n - m) \in 1 .. k /\ i - (n - m) \in 1 .. m /\ n - m + (i - (n - m)) = i
      BY <1>2, <2>2
    <3>2. s[i - (n - m)] = Window /\ s[i - (n - m)] = admitted[n - m + (i - (n - m))]
      BY <1>1, <3>1 DEF Limiter
    <3> QED
      BY <3>1, <3>2
  <2> QED
    BY <1>2, <2>1, <2>2
<1>8. Len(kept) <= MaxPrompts /\ Len(kept) <= n
  BY <1>2, <1>3 DEF Limiter
<1> QED
  BY <1>3, <1>5, <1>6, <1>7, <1>8 DEF kept


\* A new timestamp is one of age 0.
LEMMA StampedAges ==
    ASSUME NEW s, Ages(s)
    PROVE  /\ Ages(Append(s, 0)) /\ Len(Append(s, 0)) = Len(s) + 1
           /\ \A i \in 1 .. Len(s) : Append(s, 0)[i] = s[i]
           /\ Append(s, 0)[Len(s) + 1] = 0
<1>1. s \in Seq(0 .. Window) /\ Len(s) \in Nat /\ 0 \in 0 .. Window
  BY Limits DEF Ages
<1>2. /\ Append(s, 0) \in Seq(0 .. Window) /\ Len(Append(s, 0)) = Len(s) + 1
      /\ \A i \in 1 .. Len(s) : Append(s, 0)[i] = s[i]
      /\ Append(s, 0)[Len(s) + 1] = 0
  BY <1>1, AppendProperties
<1>3. ASSUME NEW i \in 1 .. Len(s) + 1, NEW j \in 1 .. Len(s) + 1, i <= j
      PROVE  Append(s, 0)[i] >= Append(s, 0)[j]
  <2>1. CASE j = Len(s) + 1
    <3>1. Append(s, 0)[i] \in 0 .. Window
      BY <1>1, <1>2, ElementOfSeq
    <3> QED
      BY <1>2, <2>1, <3>1, Limits
  <2>2. CASE j # Len(s) + 1
    <3>1. i \in 1 .. Len(s) /\ j \in 1 .. Len(s)
      BY <1>1, <1>3, <2>2
    <3> QED
      BY <1>2, <1>3, <3>1 DEF Ages
  <2> QED
    BY <2>1, <2>2
<1> QED
  BY <1>2, <1>3 DEF Ages

\* The limiter counts the admissions within the window.
LEMMA FreshCounts == ASSUME Limiter PROVE Len(Fresh(stamps)) = Young
<1> DEFINE s == stamps  n == Len(admitted)  m == Len(stamps)
           young == {i \in DOMAIN admitted : admitted[i] < Window}
<1>1. PICK k \in 0 .. Len(s) :
              /\ Fresh(s) = SubSeq(s, k + 1, Len(s))
              /\ Fresh(s) \in Seq(0 .. Window) /\ Len(Fresh(s)) = Len(s) - k
              /\ \A i \in 1 .. Len(s) - k : Fresh(s)[i] = s[k + i]
              /\ \A i \in 1 .. k : s[i] = Window
              /\ \A i \in k + 1 .. Len(s) : s[i] < Window
  BY FreshKeepsYoung DEF Limiter
<1>2. /\ n \in Nat /\ m \in Nat /\ m <= n /\ k <= m /\ k \in Nat /\ Window \in Nat
      /\ DOMAIN admitted = 1 .. n
  BY <1>1, Limits DEF Limiter, Ages
<1>3. ASSUME NEW i \in 1 .. n PROVE admitted[i] < Window <=> i \in n - m + k + 1 .. n
  <2>1. CASE i <= n - m
    <3>1. admitted[i] = Window
      BY <1>2, <2>1 DEF Limiter
    <3> QED
      BY <1>2, <2>1, <3>1
  <2>2. CASE i > n - m
    <3>1. i - (n - m) \in 1 .. m /\ n - m + (i - (n - m)) = i
      BY <1>2, <2>2
    <3>2. s[i - (n - m)] = admitted[i]
      BY <3>1 DEF Limiter
    <3>3. CASE i - (n - m) <= k
      <4>1. i - (n - m) \in 1 .. k /\ i \notin n - m + k + 1 .. n
        BY <1>2, <3>1, <3>3
      <4>2. admitted[i] = Window
        BY <1>1, <3>2, <4>1
      <4> QED
        BY <1>2, <4>1, <4>2
    <3>4. CASE i - (n - m) > k
      <4>1. i - (n - m) \in k + 1 .. m
        BY <1>2, <3>1, <3>4
      <4>2. admitted[i] < Window
        BY <1>1, <3>2, <4>1
      <4> QED
        BY <1>2, <3>4, <4>2
    <3> QED
      BY <1>2, <3>3, <3>4
  <2> QED
    BY <1>2, <2>1, <2>2
<1>4. young = n - m + k + 1 .. n
  BY <1>2, <1>3
<1>5. /\ n - m + k + 1 \in Nat /\ n - m + k + 1 <= n + 1
      /\ n + 1 - (n - m + k + 1) = m - k
  BY <1>2
<1>6. Cardinality(n - m + k + 1 .. n) = m - k
  BY <1>2, <1>5, Interval
<1> QED
  BY <1>1, <1>4, <1>6 DEF Young

LEMMA AdmitKept == ASSUME Kept, NEW r \in Requests, Admit(r) PROVE Kept'
<1> USE Limits DEF Kept
<1> DEFINE kept == Fresh(stamps)
<1>1. Place(r) /\ Answer(r) /\ Timely(r) /\ task[r] = "sent"
  BY DEF Admit, Questions
<1>2. UNCHANGED <<client, left, shown, readers, ahead, up, chosen, found, delayed>>
  BY DEF Admit
<1>3. /\ Ages(kept)
      /\ Len(kept) <= MaxPrompts /\ Len(kept) <= Len(admitted)
      /\ \A i \in 1 .. Len(kept) : kept[i] = admitted[Len(admitted) - Len(kept) + i]
      /\ \A i \in 1 .. Len(admitted) - Len(kept) : admitted[i] = Window
  BY FreshLimiter
<1> HIDE DEF kept
<1>4. CASE /\ Len(kept) < MaxPrompts
           /\ stamps' = Append(kept, 0) /\ admitted' = Append(admitted, 0)
           /\ task' = [task EXCEPT ![r] = "queued"] /\ queue' = Append(queue, r)
           /\ UNCHANGED reply
  <2>1. queue \in Seq(Requests) /\ Len(queue) \in Nat
    BY DEF Types
  <2>2. /\ queue' \in Seq(Requests) /\ Len(queue') = Len(queue) + 1
        /\ \A i \in 1 .. Len(queue) : queue'[i] = queue[i]
        /\ queue'[Len(queue) + 1] = r
    BY <1>4, <2>1, AppendProperties
  <2>3. Types'
    BY <1>2, <1>4, <2>2 DEF Types
  <2>4. Serial'
    <3>1. \A p \in Requests : Shown(p)' => Shown(p)
      BY <1>4 DEF Shown, Types
    <3>2. ASSUME NEW i \in 1 .. Len(queue) + 1 PROVE task'[queue'[i]] = "queued"
      <4>1. CASE i = Len(queue) + 1
        BY <1>4, <2>2, <4>1 DEF Types
      <4>2. CASE i # Len(queue) + 1
        <5>1. i \in 1 .. Len(queue) /\ queue[i] \in Requests /\ DOMAIN queue = 1 .. Len(queue)
          BY <2>1, <4>2
        <5>2. task[queue[i]] = "queued" /\ queue'[i] = queue[i]
          BY <2>2, <5>1 DEF Serial
        <5> QED
          BY <1>4, <5>1, <5>2 DEF Types
      <4> QED
        BY <4>1, <4>2
    <3>3. \A i \in 1 .. Len(queue) : queue[i] # r
      BY <1>1, <2>1 DEF Serial
    <3>4. ASSUME NEW i \in 1 .. Len(queue) + 1, NEW j \in 1 .. Len(queue) + 1,
                 queue'[i] = queue'[j]
          PROVE  i = j
      <4>1. CASE i \in 1 .. Len(queue) /\ j \in 1 .. Len(queue)
        <5>1. queue[i] = queue[j]
          BY <2>2, <3>4, <4>1
        <5>2. i \in DOMAIN queue /\ j \in DOMAIN queue
          BY <2>1, <4>1
        <5> QED
          BY <5>1, <5>2 DEF Serial
      <4>2. CASE i = Len(queue) + 1 /\ j \in 1 .. Len(queue)
        BY <2>2, <3>3, <3>4, <4>2
      <4>3. CASE i \in 1 .. Len(queue) /\ j = Len(queue) + 1
        BY <2>2, <3>3, <3>4, <4>3
      <4>4. CASE i = Len(queue) + 1 /\ j = Len(queue) + 1
        BY <4>4
      <4> QED
        BY <2>1, <4>1, <4>2, <4>3, <4>4
    <3>5. DOMAIN queue' = 1 .. Len(queue) + 1
      BY <2>2
    <3> QED
      BY <3>1, <3>2, <3>4, <3>5 DEF Serial
  <2>5. Place(r)' /\ Answer(r)' /\ Timely(r)'
    BY <1>1, <1>2, <1>4 DEF Types, Place, Answer, Given, Timely, Waits, Shown
  <2>6. Questions'
    BY <1>2, <1>4, <2>5, OthersStand DEF Types
  <2>7. Limiter'
    <3>1. Ages(admitted) /\ Len(admitted) \in Nat /\ Len(kept) \in Nat
      <4>1. Ages(admitted)
        BY DEF Limiter
      <4> QED
        BY <1>3, <4>1 DEF Ages
    <3>2. /\ Ages(stamps') /\ Len(stamps') = Len(kept) + 1
          /\ \A i \in 1 .. Len(kept) : stamps'[i] = kept[i]
          /\ stamps'[Len(kept) + 1] = 0
      BY <1>3, <1>4, StampedAges
    <3>3. /\ Ages(admitted') /\ Len(admitted') = Len(admitted) + 1
          /\ \A i \in 1 .. Len(admitted) : admitted'[i] = admitted[i]
          /\ admitted'[Len(admitted) + 1] = 0
      BY <1>4, <3>1, StampedAges
    <3>4. Len(admitted') - Len(stamps') = Len(admitted) - Len(kept)
      BY <3>1, <3>2, <3>3
    <3>5. ASSUME NEW i \in 1 .. Len(stamps')
          PROVE  stamps'[i] = admitted'[Len(admitted') - Len(stamps') + i]
      <4>1. CASE i = Len(kept) + 1
        <5>1. (Len(admitted) - Len(kept)) + (Len(kept) + 1) = Len(admitted) + 1
          BY <3>1
        <5>2. Len(admitted') - Len(stamps') + i = Len(admitted) + 1
          BY <3>4, <4>1, <5>1
        <5> QED
          BY <3>2, <3>3, <4>1, <5>2
      <4>2. CASE i # Len(kept) + 1
        <5>1. i \in 1 .. Len(kept) /\ Len(admitted) - Len(kept) + i \in 1 .. Len(admitted)
          BY <1>3, <3>1, <3>2, <4>2
        <5>2. stamps'[i] = kept[i] /\ kept[i] = admitted[Len(admitted) - Len(kept) + i]
          BY <1>3, <3>2, <5>1
        <5>3. admitted'[Len(admitted) - Len(kept) + i] = admitted[Len(admitted) - Len(kept) + i]
          BY <3>3, <5>1
        <5> QED
          BY <3>4, <5>2, <5>3
      <4> QED
        BY <4>1, <4>2
    <3>6. ASSUME NEW i \in 1 .. Len(admitted') - Len(stamps') PROVE admitted'[i] = Window
      <4>1. i \in 1 .. Len(admitted) - Len(kept) /\ i \in 1 .. Len(admitted)
        BY <1>3, <3>1, <3>4
      <4> QED
        BY <1>3, <3>3, <4>1
    <3>7. Len(stamps') <= MaxPrompts /\ Len(stamps') <= Len(admitted')
      BY <1>3, <1>4, <3>1, <3>2, <3>3
    <3> QED
      BY <3>2, <3>3, <3>5, <3>6, <3>7 DEF Limiter, Ages
  <2> QED
    BY <2>3, <2>4, <2>6, <2>7
<1>5. CASE /\ stamps' = kept /\ task' = [task EXCEPT ![r] = "done"]
           /\ Writes(r, NoResponse) /\ UNCHANGED <<queue, admitted>>
  <2>1. reply' = [reply EXCEPT ![r] = NoResponse]
    BY <1>5 DEF Writes
  <2>2. Types'
    BY <1>2, <1>5, <2>1 DEF Types
  <2>3. Serial'
    BY <1>1, <1>5, SerialStands DEF Types
  <2>4. Place(r)' /\ Answer(r)' /\ Timely(r)'
    <3>1. task'[r] = "done" /\ reply'[r] = NoResponse
      BY <1>5, <2>1 DEF Types
    <3>2. reply[r] = None /\ Given(r) \notin Choices /\ client[r] \notin Choices
      BY <1>1 DEF Place, Answer, Given
    <3>3. Place(r)'
      BY <1>1, <1>2, <3>1 DEF Place, Waits
    <3>4. Answer(r)'
      BY <1>2, <3>1, <3>2 DEF Answer, Given, Waits
    <3>5. Timely(r)'
      BY <3>1 DEF Timely, Shown
    <3> QED
      BY <3>3, <3>4, <3>5
  <2>5. Questions'
    BY <1>2, <1>5, <2>1, <2>4, OthersStand DEF Types
  <2>6. Limiter'
    BY <1>3, <1>5 DEF Limiter, Ages
  <2> QED
    BY <2>2, <2>3, <2>5, <2>6
<1> QED
  BY <1>4, <1>5 DEF Admit, kept


-----------------------------------------------------------------------------
(* Dialogs                                                                 *)

LEMMA ShowKept ==
    ASSUME Kept, NEW r \in Requests, NEW b \in Backends, Show(r, b) PROVE Kept'
<1> USE Limits DEF Kept
<1>1. /\ queue # <<>> /\ Head(queue) = r /\ ~Locked
      /\ queue' = Tail(queue)
      /\ task' = [task EXCEPT ![r] = b] /\ shown' = [shown EXCEPT ![r] = TimeOf(b)]
      /\ readers' \in {readers, Append(readers, r)}
      /\ UNCHANGED <<client, left, stamps, ahead, reply, up, chosen, found, delayed, admitted>>
  BY DEF Show, MayShow
<1>2. queue \in Seq(Requests) /\ Len(queue) \in Nat \ {0} /\ queue[1] = r
  BY <1>1, EmptySeq DEF Types
<1>3. /\ Tail(queue) \in Seq(Requests) /\ Len(Tail(queue)) = Len(queue) - 1
      /\ \A i \in 1 .. Len(Tail(queue)) : Tail(queue)[i] = queue[i + 1]
  BY <1>1, <1>2, HeadTailProperties
<1>4. task[r] = "queued" /\ Place(r) /\ Answer(r) /\ Timely(r)
  BY <1>2 DEF Serial, Questions
<1>5. TimeOf(b) \in 0 .. Timeout + Backstop /\ Backstop \in Nat /\ Timeout \in Nat
  BY DEF TimeOf
<1>6. Types'
  <2>1. readers \in Seq(Requests) /\ Append(readers, r) \in Seq(Requests)
    BY AppendProperties DEF Types
  <2> QED
    BY <1>1, <1>3, <1>5, <2>1 DEF Types
<1>7. Serial'
  <2>1. \A p, q \in Requests : Shown(p)' /\ Shown(q)' => p = q
    BY <1>1 DEF Types, Locked, Shown
  <2>2. ASSUME NEW i \in 1 .. Len(Tail(queue))
        PROVE  /\ i + 1 \in DOMAIN queue /\ queue'[i] = queue[i + 1]
               /\ task'[queue'[i]] = "queued"
    <3>1. i + 1 \in 1 .. Len(queue) /\ queue'[i] = queue[i + 1] /\ DOMAIN queue = 1 .. Len(queue)
      BY <1>1, <1>2, <1>3
    <3>2. queue[i + 1] \in Requests
      BY <1>2, <3>1, ElementOfSeq
    <3>3. task[queue[i + 1]] = "queued"
      BY <3>1 DEF Serial
    <3>4. queue[i + 1] # r
      <4>1. 1 \in DOMAIN queue /\ i + 1 \in DOMAIN queue /\ i + 1 # 1
        BY <1>2, <3>1
      <4>2. queue[i + 1] # queue[1]
        BY <4>1 DEF Serial
      <4> QED
        BY <1>2, <4>2
    <3> QED
      BY <1>1, <3>1, <3>2, <3>3, <3>4 DEF Types
  <2>3. ASSUME NEW i \in 1 .. Len(Tail(queue)), NEW j \in 1 .. Len(Tail(queue)),
               queue'[i] = queue'[j]
        PROVE  i = j
    <3>1. i + 1 = j + 1
      BY <2>2, <2>3 DEF Serial
    <3> QED
      BY <1>2, <1>3, <3>1
  <2>4. DOMAIN queue' = 1 .. Len(Tail(queue))
    BY <1>1, <1>3
  <2> QED
    BY <2>1, <2>2, <2>3, <2>4 DEF Serial
<1>8. Place(r)' /\ Answer(r)' /\ Timely(r)'
  <2>1. task'[r] = b /\ shown'[r] = TimeOf(b) /\ b \in {"gui", "terminal", "log_only"}
    BY <1>1 DEF Types
  <2>2. Place(r)' /\ Answer(r)'
    BY <1>1, <1>4, <2>1 DEF Place, Answer, Given, Waits
  <2>3. Timely(r)'
    <3>1. Waits(r) /\ ~delayed[r] => left[r] = HardLimit
      BY <1>4 DEF Timely
    <3>2. HardLimit >= TimeOf(b) + (Grace - Backstop)
      BY DEF TimeOf
    <3> QED
      BY <1>1, <2>1, <3>1, <3>2 DEF Timely, Waits
  <2> QED
    BY <2>2, <2>3
<1>9. Questions'
  BY <1>1, <1>8, OthersStand DEF Types
<1> QED
  BY <1>1, <1>6, <1>7, <1>9, LimiterStands

\* A dialog ends, with an answer or without: if somebody waits, an answer counts.
LEMMA CloseKept ==
    ASSUME Kept, NEW r \in Requests, Shown(r),
           NEW outcome \in {NoResponse} \cup Choices, Close(r, outcome),
           chosen' \in [Requests -> {None, Swallowed} \cup Choices],
           found' \in [Requests -> {None} \cup Choices],
           \A s \in Requests \ {r} : chosen'[s] = chosen[s] /\ found'[s] = found[s],
           Waits(r) /\ outcome \in Choices =>
               (IF found'[r] # None THEN found'[r] ELSE chosen'[r]) = outcome,
           ~(Waits(r) /\ outcome \in Choices) =>
               chosen'[r] = chosen[r] /\ found'[r] = found[r],
           readers' \in Seq(Requests), ahead' \in Seq(Choices), Len(ahead') <= MaxAhead,
           UNCHANGED <<client, left, queue, stamps, up, delayed, admitted>>
    PROVE  Kept'
<1> USE Limits DEF Kept
<1>1. /\ task' = [task EXCEPT ![r] = "done"] /\ shown' = [shown EXCEPT ![r] = 0]
      /\ reply' = [reply EXCEPT ![r] = outcome]
  BY DEF Close, Writes
<1>2. /\ Place(r) /\ reply[r] = None /\ Given(r) \notin Choices /\ client[r] \notin Choices
      /\ client[r] # "idle"
  BY DEF Questions, Place, Answer, Shown
<1>3. task[r] # "queued"
  BY DEF Shown
<1>4. Types'
  <2>1. task' \in [Requests -> {"idle", "sent", "queued", "done"} \cup Backends]
    BY <1>1 DEF Types
  <2>2. shown' \in [Requests -> 0 .. Timeout + Backstop]
    BY <1>1 DEF Types
  <2>3. reply' \in [Requests -> {None, NoResponse} \cup Choices]
    BY <1>1 DEF Types
  <2> QED
    BY <2>1, <2>2, <2>3 DEF Types
<1>5. Serial'
  BY <1>1, <1>3, SerialStands DEF Types
<1>6. task'[r] = "done" /\ reply'[r] = outcome /\ client'[r] = client[r] /\ outcome # None
  BY <1>1 DEF Types
<1>7. Place(r)'
  BY <1>2, <1>6 DEF Place, Waits
<1>8. Answer(r)'
  <2>1. CASE Waits(r) /\ outcome \in Choices
    <3>1. Given(r)' = outcome
      BY <2>1 DEF Given
    <3> QED
      BY <1>6, <2>1, <3>1 DEF Answer, Waits
  <2>2. CASE ~(Waits(r) /\ outcome \in Choices)
    <3>1. Given(r)' = Given(r)
      BY <2>2 DEF Given
    <3> QED
      BY <1>2, <1>6, <2>2, <3>1 DEF Answer, Waits
  <2> QED
    BY <2>1, <2>2
<1>9. Timely(r)'
  BY <1>6 DEF Timely, Shown
<1>10. Questions'
  BY <1>1, <1>7, <1>8, <1>9, OthersStand DEF Types
<1> QED
  BY <1>4, <1>5, <1>10, LimiterStands

LEMMA ClickKept ==
    ASSUME Kept, NEW r \in Requests, NEW choice \in Choices, Click(r, choice) PROVE Kept'
<1> USE Limits
<1>1. Shown(r) /\ choice # NoResponse /\ choice \in {NoResponse} \cup Choices
  BY DEF Click, Shown
<1>2. readers' \in Seq(Requests) /\ ahead' \in Seq(Choices) /\ Len(ahead') <= MaxAhead
  BY DEF Click, Kept, Types
<1>3. /\ chosen' = IF Waits(r) THEN [chosen EXCEPT ![r] = choice] ELSE chosen
      /\ found' = found /\ Close(r, choice)
      /\ UNCHANGED <<client, left, queue, stamps, up, delayed, admitted>>
  BY DEF Click, Says
<1>4. found[r] = None
  BY DEF Click, Kept, Questions, Place, Answer
<1>5. /\ chosen' \in [Requests -> {None, Swallowed} \cup Choices]
      /\ found' \in [Requests -> {None} \cup Choices]
      /\ \A s \in Requests \ {r} : chosen'[s] = chosen[s] /\ found'[s] = found[s]
      /\ Waits(r) => found'[r] = None /\ chosen'[r] = choice
      /\ ~Waits(r) => chosen'[r] = chosen[r] /\ found'[r] = found[r]
  BY <1>3, <1>4 DEF Kept, Types
<1> QED
  BY <1>1, <1>2, <1>3, <1>5, CloseKept

LEMMA DismissKept == ASSUME Kept, NEW r \in Requests, Dismiss(r) PROVE Kept'
<1>1. Shown(r) /\ NoResponse \notin Choices
  BY Limits DEF Dismiss, Shown
<1>2. readers' \in Seq(Requests) /\ ahead' \in Seq(Choices) /\ Len(ahead') <= MaxAhead
  BY EmptySeq DEF Dismiss, Kept, Types
<1>3. /\ chosen' \in [Requests -> {None, Swallowed} \cup Choices]
      /\ found' \in [Requests -> {None} \cup Choices]
  BY DEF Dismiss, Kept, Types
<1> QED
  BY <1>1, <1>2, <1>3, CloseKept DEF Dismiss

LEMMA ExpireKept == ASSUME Kept, NEW r \in Requests, Expire(r) PROVE Kept'
<1>1. NoResponse \notin Choices
  BY Limits
<1>2. readers' \in Seq(Requests) /\ ahead' \in Seq(Choices) /\ Len(ahead') <= MaxAhead
  BY DEF Expire, Kept, Types
<1>3. /\ chosen' \in [Requests -> {None, Swallowed} \cup Choices]
      /\ found' \in [Requests -> {None} \cup Choices]
  BY DEF Expire, Kept, Types
<1> QED
  BY <1>1, <1>2, <1>3, CloseKept DEF Expire

\* No dialog is closed, and what changes of the answers is that a line is lost
\* for a question that is still open.
LEMMA OpenKept ==
    ASSUME Kept, chosen' \in [Requests -> {None, Swallowed} \cup Choices],
           \A r \in Requests : \/ chosen'[r] = chosen[r]
                               \/ task[r] = "terminal" /\ chosen'[r] = Swallowed,
           readers' \in Seq(Requests), ahead' \in Seq(Choices), Len(ahead') <= MaxAhead,
           UNCHANGED <<client, left, task, shown, queue, stamps, reply, up, found, delayed,
                       admitted>>
    PROVE  Kept'
<1> USE Limits DEF Kept
<1>1. Types'
  BY DEF Types
<1>2. ASSUME NEW r \in Requests PROVE Place(r)' /\ Answer(r)' /\ Timely(r)'
  <2>1. Place(r) /\ Answer(r) /\ Timely(r)
    BY DEF Questions
  <2>2. CASE chosen'[r] = chosen[r]
    BY <2>1, <2>2, QuestionStands
  <2>3. CASE task[r] = "terminal" /\ chosen'[r] = Swallowed
    <3>1. reply[r] = None /\ found[r] = None /\ client[r] \notin Choices
      BY <2>1, <2>3 DEF Place, Answer
    <3>2. Given(r)' = Swallowed
      BY <2>3, <3>1 DEF Given
    <3>3. Answer(r)'
      BY <3>1, <3>2 DEF Answer
    <3> QED
      BY <2>1, <3>3 DEF Place, Timely, Waits, Shown
  <2> QED
    BY <2>2, <2>3
<1>3. Questions'
  BY <1>2 DEF Questions
<1> QED
  BY <1>1, <1>3, SerialStands, LimiterStands

\* A thread whose own question is on the screen has the line for it.
LEMMA TypeKept == ASSUME Kept, NEW choice \in Choices, Type(choice) PROVE Kept'
<1> USE Limits
<1>1. /\ readers \in Seq(Requests) /\ ahead \in Seq(Choices) /\ Len(ahead) <= MaxAhead
      /\ Len(ahead) \in Nat
      /\ UNCHANGED <<client, left, queue, stamps, up, found, delayed, admitted>>
  BY DEF Type, Kept, Types
<1> DEFINE r == Head(readers)
<1>2. CASE /\ readers # <<>> /\ ahead = <<>>
           /\ readers' = Tail(readers) /\ Reads(Head(readers), choice)
           /\ chosen' = [s \in Requests |->
                            IF ~(task[s] = "terminal" /\ Waits(s)) THEN chosen[s]
                            ELSE IF s = Head(readers) THEN choice ELSE Swallowed]
           /\ UNCHANGED ahead
  <2>1. r \in Requests /\ readers' \in Seq(Requests)
    BY <1>1, <1>2, HeadTailProperties
  <2>2. chosen' \in [Requests -> {None, Swallowed} \cup Choices]
    BY <1>2 DEF Kept, Types
  <2>3. /\ \A s \in Requests \ {r} :
              \/ chosen'[s] = chosen[s]
              \/ task[s] = "terminal" /\ chosen'[s] = Swallowed
        /\ task[r] = "terminal" /\ Waits(r) => chosen'[r] = choice
        /\ ~(task[r] = "terminal" /\ Waits(r)) => chosen'[r] = chosen[r]
    BY <1>2, <2>1
  <2> HIDE DEF r
  <2>4. CASE task[r] = "terminal"
    <3>1. Shown(r) /\ Close(r, choice)
      BY <1>2, <2>4 DEF Shown, Reads, r
    <3>2. \A s \in Requests \ {r} : chosen'[s] = chosen[s]
      <4>1. \A s \in Requests \ {r} : task[s] # "terminal"
        BY <2>1, <2>4 DEF Kept, Serial, Shown
      <4> QED
        BY <2>3, <4>1
    <3>3. found[r] = None /\ found' = found /\ found \in [Requests -> {None} \cup Choices]
      BY <1>1, <2>1, <2>4 DEF Kept, Questions, Place, Answer, Types
    <3> QED
      BY <1>1, <1>2, <2>1, <2>2, <2>3, <2>4, <3>1, <3>2, <3>3, CloseKept
  <2>5. CASE task[r] # "terminal"
    <3>1. UNCHANGED <<task, shown, reply>>
      BY <1>2, <2>5 DEF Reads, r
    <3>2. \A s \in Requests : \/ chosen'[s] = chosen[s]
                              \/ task[s] = "terminal" /\ chosen'[s] = Swallowed
      BY <2>3, <2>5
    <3> QED
      BY <1>1, <1>2, <2>1, <2>2, <3>1, <3>2, OpenKept
  <2> QED
    BY <2>4, <2>5
<1>3. CASE /\ Len(ahead) < MaxAhead /\ ahead' = Append(ahead, choice)
           /\ UNCHANGED <<task, shown, reply, readers, chosen>>
  <2>1. ahead' \in Seq(Choices) /\ Len(ahead') = Len(ahead) + 1
    BY <1>1, <1>3, AppendProperties
  <2>2. Len(ahead') <= MaxAhead
    BY <1>1, <1>3, <2>1
  <2>3. chosen' \in [Requests -> {None, Swallowed} \cup Choices]
    BY <1>3 DEF Kept, Types
  <2> QED
    BY <1>1, <1>3, <2>1, <2>2, <2>3, OpenKept
<1> QED
  BY <1>2, <1>3 DEF Type

\* A line that was there is what counts for the question whose thread has it.
LEMMA ReadAheadKept == ASSUME Kept, NEW r \in Requests, ReadAhead(r) PROVE Kept'
<1> USE Limits
<1> DEFINE line == Head(ahead)
<1>1. /\ readers' = Tail(readers) /\ ahead' = Tail(ahead) /\ Reads(r, line)
      /\ found' = IF task[r] = "terminal" /\ Waits(r) THEN [found EXCEPT ![r] = line]
                  ELSE found
      /\ UNCHANGED <<client, left, queue, stamps, up, chosen, delayed, admitted>>
  BY DEF ReadAhead
<1>2. /\ readers \in Seq(Requests) /\ readers # <<>>
      /\ ahead \in Seq(Choices) /\ ahead # <<>> /\ Len(ahead) <= MaxAhead
  BY DEF ReadAhead, Kept, Types
<1>3. readers' \in Seq(Requests)
  BY <1>1, <1>2, HeadTailProperties
<1>4. line \in Choices /\ ahead' \in Seq(Choices) /\ Len(ahead') = Len(ahead) - 1
  BY <1>1, <1>2, HeadTailProperties
<1>5. Len(ahead') <= MaxAhead /\ line # NoResponse /\ line # None
  BY <1>2, <1>4
<1>6. chosen' \in [Requests -> {None, Swallowed} \cup Choices]
  BY <1>1 DEF Kept, Types
<1> HIDE DEF line
<1>7. CASE task[r] = "terminal"
  <2>1. Shown(r) /\ Close(r, line)
    BY <1>1, <1>7 DEF Shown, Reads
  <2>2. /\ found' \in [Requests -> {None} \cup Choices]
        /\ \A s \in Requests \ {r} : chosen'[s] = chosen[s] /\ found'[s] = found[s]
        /\ Waits(r) => found'[r] = line
        /\ ~Waits(r) => chosen'[r] = chosen[r] /\ found'[r] = found[r]
    BY <1>1, <1>4, <1>7 DEF Kept, Types
  <2> QED
    BY <1>1, <1>3, <1>4, <1>5, <1>6, <2>1, <2>2, CloseKept
<1>8. CASE task[r] # "terminal"
  <2>1. UNCHANGED <<task, shown, reply, found>>
    BY <1>1, <1>8 DEF Reads
  <2> QED
    BY <1>1, <1>3, <1>4, <1>5, <1>6, <2>1, OpenKept
<1> QED
  BY <1>7, <1>8

-----------------------------------------------------------------------------
(* The agent's process, and time                                           *)

LEMMA DieKept == ASSUME Kept, Die PROVE Kept'
<1> USE Limits DEF Kept
<1>1. PICK kept \in SUBSET {r \in Requests : task[r] = "sent"} :
          LET lost == {r \in Requests \ kept : task[r] \notin {"idle", "done"}} IN
          /\ client' = [r \in Requests |-> IF Waits(r) /\ r \in lost THEN "default"
                                          ELSE client[r]]
          /\ left' = [r \in Requests |-> IF r \in lost THEN 0 ELSE left[r]]
          /\ shown' = [r \in Requests |-> 0]
          /\ task' = [r \in Requests |-> IF r \in lost THEN "done" ELSE task[r]]
  BY DEF Die
<1> DEFINE lost == {r \in Requests \ kept : task[r] \notin {"idle", "done"}}
<1>2. /\ queue' = <<>> /\ stamps' = <<>> /\ readers' = <<>> /\ admitted' = <<>>
      /\ chosen' = [r \in Requests |-> IF reply[r] = None THEN None ELSE chosen[r]]
      /\ up' = FALSE /\ UNCHANGED <<reply, found, delayed>>
  BY DEF Die
<1> PICK gone \in 0 .. Len(ahead) : ahead' = SubSeq(ahead, gone + 1, Len(ahead))
  BY DEF Die
<1>3. Types'
  <2>1. client' \in [Requests -> {"idle", "waiting", "default"} \cup Choices]
    BY <1>1 DEF Types
  <2>2. left' \in [Requests -> 0 .. HardLimit] /\ shown' \in [Requests -> 0 .. Timeout + Backstop]
    BY <1>1 DEF Types
  <2>3. task' \in [Requests -> {"idle", "sent", "queued", "done"} \cup Backends]
    BY <1>1 DEF Types
  <2>4. chosen' \in [Requests -> {None, Swallowed} \cup Choices]
    BY <1>2 DEF Types
  <2>5. ahead' \in Seq(Choices) /\ Len(ahead') <= MaxAhead
    <3>1. ahead \in Seq(Choices) /\ Len(ahead) \in Nat /\ Len(ahead) <= MaxAhead
      BY DEF Types
    <3>2. ahead' \in Seq(Choices) /\ Len(ahead') = Len(ahead) - gone
      BY <3>1, Dropped
    <3> QED
      BY <3>1, <3>2
  <2> QED
    BY <1>2, <2>1, <2>2, <2>3, <2>4, <2>5, EmptySeq DEF Types
<1>4. ASSUME NEW r \in Requests PROVE ~Shown(r)' /\ Place(r)' /\ Answer(r)' /\ Timely(r)'
  <2>1. Place(r) /\ Answer(r) /\ Timely(r)
    BY DEF Questions
  <2>2. CASE r \in lost
    <3>1. /\ client'[r] = (IF Waits(r) THEN "default" ELSE client[r])
          /\ task'[r] = "done" /\ task[r] \notin {"idle", "done"} /\ client'[r] # "waiting"
      BY <1>1, <2>2 DEF Waits
    <3>2. /\ reply'[r] = None /\ chosen'[r] = None /\ found'[r] = None
          /\ client[r] \notin Choices
      BY <1>2, <2>1, <3>1 DEF Place, Answer
    <3> QED
      BY <2>1, <3>1, <3>2 DEF Place, Answer, Given, Timely, Waits, Shown
  <2>3. CASE r \notin lost
    <3>1. /\ client'[r] = client[r] /\ task'[r] = task[r] /\ left'[r] = left[r]
          /\ task[r] \in {"idle", "sent", "done"}
          /\ reply'[r] = reply[r] /\ delayed'[r] = delayed[r] /\ found'[r] = found[r]
      BY <1>1, <1>2, <2>3
    <3>2. chosen'[r] = (IF reply[r] = None THEN None ELSE chosen[r])
      BY <1>2
    <3>3. Answer(r)'
      <4>1. Given(r) \in Choices => reply[r] # None
        BY <2>1 DEF Answer, Given
      <4>2. client[r] \in Choices => Given(r) \in Choices
        BY <2>1 DEF Answer, Given
      <4> QED
        BY <2>1, <3>1, <3>2, <4>1, <4>2 DEF Answer, Given, Waits
    <3> QED
      BY <2>1, <3>1, <3>3 DEF Place, Timely, Waits, Shown
  <2> QED
    BY <2>2, <2>3
<1>5. Serial'
  BY <1>2, <1>4 DEF Serial
<1>6. Limiter'
  BY <1>2 DEF Limiter, Ages
<1> QED
  BY <1>3, <1>4, <1>5, <1>6 DEF Questions

LEMMA StartKept == ASSUME Kept, Start PROVE Kept'
<1> USE DEF Kept
<1>1. UNCHANGED <<client, left, task, shown, queue, stamps, readers, ahead, reply, chosen, found,
                  delayed, admitted>> /\ up' = TRUE
  BY DEF Start, server
<1>2. Types'
  BY <1>1 DEF Types
<1>3. Questions'
  BY <1>1, QuestionStands DEF Questions
<1> QED
  BY <1>1, <1>2, <1>3, SerialStands, LimiterStands

\* Ages grow up to the window, and keep their order.
LEMMA AgeingAges ==
    ASSUME NEW s, Ages(s)
    PROVE  /\ Ages(Ageing(s)) /\ Len(Ageing(s)) = Len(s)
           /\ \A i \in 1 .. Len(s) : Ageing(s)[i] = IF s[i] < Window THEN s[i] + 1 ELSE Window
<1>1. s \in Seq(0 .. Window) /\ Len(s) \in Nat /\ DOMAIN s = 1 .. Len(s) /\ Window \in Nat
  BY Limits DEF Ages
<1>2. Ageing(s) = [i \in 1 .. Len(s) |-> IF s[i] < Window THEN s[i] + 1 ELSE Window]
  BY <1>1 DEF Ageing
<1>3. \A i \in 1 .. Len(s) : s[i] \in 0 .. Window
  BY <1>1, ElementOfSeq
<1>4. \A i \in 1 .. Len(s) : (IF s[i] < Window THEN s[i] + 1 ELSE Window) \in 0 .. Window
  BY <1>1, <1>3
<1>5. Ageing(s) \in [1 .. Len(s) -> 0 .. Window]
  BY <1>2, <1>4
<1>6. Ageing(s) \in Seq(0 .. Window) /\ Len(Ageing(s)) = Len(s)
  BY <1>1, <1>5
<1>7. ASSUME NEW i \in 1 .. Len(s), NEW j \in 1 .. Len(s), i <= j
      PROVE  Ageing(s)[i] >= Ageing(s)[j]
  <2>1. s[i] >= s[j] /\ s[i] \in Nat /\ s[j] \in Nat /\ s[i] <= Window /\ s[j] <= Window
    BY <1>1, <1>3, <1>7 DEF Ages
  <2> QED
    BY <1>1, <1>2, <2>1
<1> QED
  BY <1>2, <1>6, <1>7 DEF Ages

LEMMA TickKept == ASSUME Kept, Tick PROVE Kept'
<1> USE Limits DEF Kept
<1>1. /\ left' = Ticking(left) /\ shown' = Ticking(shown)
      /\ stamps' = Ageing(stamps) /\ admitted' = Ageing(admitted)
      /\ delayed' = [r \in Requests |->
                        delayed[r] \/ (Waits(r) /\ task[r] \in {"sent", "queued"})]
      /\ UNCHANGED <<client, task, queue, readers, ahead, reply, up, chosen, found>>
  BY DEF Tick
<1>2. \A r \in Requests : /\ left'[r] = IF left[r] = 0 THEN 0 ELSE left[r] - 1
                          /\ shown'[r] = IF shown[r] = 0 THEN 0 ELSE shown[r] - 1
  BY <1>1 DEF Ticking
<1>3. Types'
  <2>1. left' \in [Requests -> 0 .. HardLimit]
    BY <1>1 DEF Ticking, Types
  <2>2. shown' \in [Requests -> 0 .. Timeout + Backstop]
    BY <1>1 DEF Ticking, Types
  <2>3. delayed' \in [Requests -> BOOLEAN]
    <3>1. \A r \in Requests : (delayed[r] \/ (Waits(r) /\ task[r] \in {"sent", "queued"})) \in BOOLEAN
      OBVIOUS
    <3> QED
      BY <1>1, <3>1
  <2> QED
    BY <1>1, <2>1, <2>2, <2>3 DEF Types
<1>4. ASSUME NEW r \in Requests PROVE Place(r)' /\ Answer(r)' /\ Timely(r)'
  <2>1. Place(r) /\ Answer(r) /\ Timely(r)
    BY DEF Questions
  <2>2. Place(r)' /\ Answer(r)'
    BY <1>1, <2>1 DEF Place, Answer, Given, Waits
  <2>3. ASSUME Waits(r)', ~delayed'[r]
        PROVE  /\ task'[r] \notin {"sent", "queued"}
               /\ Shown(r)' => left'[r] >= shown'[r] + (Grace - Backstop)
    <3>1. Waits(r) /\ ~delayed[r] /\ task[r] \notin {"sent", "queued"}
      BY <1>1, <2>3 DEF Waits
    <3>2. CASE Shown(r)
      <4>1. left[r] >= shown[r] + (Grace - Backstop) /\ left[r] > 0 /\ shown[r] > 0
        BY <2>1, <3>1, <3>2 DEF Timely, Tick, Calm
      <4>2. left[r] \in Nat /\ shown[r] \in Nat
        BY DEF Types
      <4>3. left'[r] = left[r] - 1 /\ shown'[r] = shown[r] - 1
        BY <1>2, <4>1, <4>2
      <4> QED
        BY <1>1, <3>1, <4>1, <4>2, <4>3
    <3>3. CASE ~Shown(r)
      BY <1>1, <3>1, <3>3 DEF Shown
    <3> QED
      BY <3>2, <3>3
  <2> QED
    BY <2>2, <2>3 DEF Timely
<1>5. Limiter'
  <2>1. Ages(stamps) /\ Ages(admitted) /\ Len(stamps) \in Nat /\ Len(admitted) \in Nat
    BY DEF Limiter, Ages
  <2>2. /\ Ages(stamps') /\ Len(stamps') = Len(stamps)
        /\ \A i \in 1 .. Len(stamps) :
              stamps'[i] = IF stamps[i] < Window THEN stamps[i] + 1 ELSE Window
    BY <1>1, <2>1, AgeingAges
  <2>3. /\ Ages(admitted') /\ Len(admitted') = Len(admitted)
        /\ \A i \in 1 .. Len(admitted) :
              admitted'[i] = IF admitted[i] < Window THEN admitted[i] + 1 ELSE Window
    BY <1>1, <2>1, AgeingAges
  <2>4. ASSUME NEW i \in 1 .. Len(stamps)
        PROVE  stamps'[i] = admitted'[Len(admitted) - Len(stamps) + i]
    <3>1. Len(admitted) - Len(stamps) + i \in 1 .. Len(admitted)
      BY <2>1 DEF Limiter
    <3>2. stamps[i] = admitted[Len(admitted) - Len(stamps) + i]
      BY DEF Limiter
    <3> QED
      BY <2>2, <2>3, <3>1, <3>2
  <2>5. ASSUME NEW i \in 1 .. Len(admitted) - Len(stamps) PROVE admitted'[i] = Window
    <3>1. i \in 1 .. Len(admitted) /\ admitted[i] = Window
      BY <2>1 DEF Limiter
    <3> QED
      BY <2>3, <3>1
  <2> QED
    BY <2>2, <2>3, <2>4, <2>5 DEF Limiter
<1>6. Serial'
  BY <1>1, SerialStands
<1> QED
  BY <1>3, <1>4, <1>5, <1>6 DEF Questions


-----------------------------------------------------------------------------
(* The theorems                                                            *)

LEMMA NextKept == ASSUME Kept, [Next]_vars PROVE Kept'
<1>1. ASSUME NEW r \in Requests, Ask(r) \/ ClientStep(r) \/ ServerStep(r) \/ User(r)
      PROVE  Kept'
  BY <1>1, AskKept, ReceiveKept, GiveUpKept, AdmitKept, ExpireKept, ShowKept, DismissKept,
     ClickKept, ReadAheadKept DEF ClientStep, ServerStep, User
<1>2. CASE UNCHANGED vars
  <2>1. UNCHANGED <<client, left, task, shown, queue, stamps, readers, ahead, reply, up, chosen,
                    found, delayed, admitted>>
    BY <1>2 DEF vars, server
  <2> QED
    BY <2>1, SerialStands, LimiterStands, QuestionStands DEF Kept, Types, Questions
<1> QED
  BY <1>1, <1>2, TypeKept, DieKept, StartKept, TickKept DEF Next

LEMMA AlwaysKept == Spec => []Kept
<1>1. Init => Kept
  BY InitKept
<1>2. Kept /\ [Next]_vars => Kept'
  BY NextKept
<1> QED
  BY <1>1, <1>2, PTL DEF Spec

\* Whatever the timers, the user and the agent's process do, in any order: one
\* dialog is on the screen at a time, and the decision the daemon acts on is
\* the answer given to that very question while it waited -- or the line its
\* thread found typed on the terminal --, the default action exactly when there
\* was none.
THEOREM DialogsAreSound == Spec => []DialogsSound
<1>1. Kept => DialogsSound
  <2> SUFFICES ASSUME Kept PROVE DialogsSound
    OBVIOUS
  <2> DEFINE live == {r \in Requests : Shown(r)}
  <2>1. Cardinality(live) <= 1
    <3>1. CASE live = {}
      BY <3>1, FS_EmptySet
    <3>2. CASE live # {}
      <4>1. PICK r \in Requests : live = {r}
        BY <3>2 DEF Kept, Serial
      <4>2. Cardinality(live) = 1
        BY <4>1, FS_Singleton
      <4> QED
        BY <4>2
    <3> QED
      BY <3>1, <3>2
  <2>2. OneDialog
    BY <2>1 DEF OneDialog, Kept, Serial
  <2>3. AnswerCounts
    BY Limits DEF AnswerCounts, Decided, Kept, Questions, Answer, Given
  <2>4. TypeOK
    BY DEF TypeOK, Kept, Types, Limiter
  <2> QED
    BY <2>2, <2>3, <2>4 DEF DialogsSound
<1> QED
  BY <1>1, AlwaysKept, PTL

\* A question is put to the user if and only if fewer than the limit were
\* admitted within the window, whatever was refused before.
THEOREM LimiterExact == Spec => RateExact
<1>1. ASSUME Kept, [Next]_vars, NEW r \in Requests,
             task[r] = "sent", task'[r] # "sent", up'
      PROVE  task'[r] = "queued" <=> Young < MaxPrompts
  <2>1. CASE Admit(r)
    <3>1. Len(Fresh(stamps)) = Young
      BY <1>1, FreshCounts DEF Kept
    <3>2. /\ Len(Fresh(stamps)) \in Nat /\ MaxPrompts \in Nat
      BY <1>1, FreshLimiter, Limits DEF Kept, Ages
    <3> QED
      BY <1>1, <2>1, <3>1, <3>2 DEF Admit, Kept, Types
  <2>2. ASSUME NEW s \in Requests, s # r, Admit(s) PROVE FALSE
    BY <1>1, <2>2 DEF Admit, Kept, Types
  <2>3. ASSUME NEW s \in Requests, Ask(s) PROVE FALSE
    <3>1. client[s] = "idle" => task[s] = "idle"
      BY <1>1 DEF Kept, Questions, Place
    <3> QED
      BY <1>1, <2>3, <3>1 DEF Ask, Kept, Types
  <2>4. ASSUME NEW s \in Requests, ClientStep(s) PROVE FALSE
    BY <1>1, <2>4 DEF ClientStep, Receive, GiveUp, server
  <2>5. ASSUME NEW s \in Requests, NEW b \in Backends, Show(s, b) PROVE FALSE
    <3>1. queue \in Seq(Requests) /\ queue # <<>> /\ s = Head(queue)
      BY <1>1, <2>5 DEF Show, MayShow, Kept, Types
    <3>2. 1 \in DOMAIN queue /\ queue[1] = s
      BY <3>1, EmptySeq
    <3>3. task[s] = "queued"
      BY <1>1, <3>2 DEF Kept, Serial
    <3> QED
      BY <1>1, <2>5, <3>3 DEF Show, Kept, Types
  <2>6. ASSUME NEW s \in Requests, Shown(s), NEW outcome, Close(s, outcome) PROVE FALSE
    BY <1>1, <2>6, Limits DEF Close, Shown, Kept, Types
  <2>7. ASSUME NEW s \in Requests, User(s) PROVE FALSE
    <3>1. CASE Dismiss(s)
      BY <2>6, <3>1 DEF Dismiss, Shown
    <3>2. ASSUME NEW choice \in Choices, Click(s, choice) PROVE FALSE
      BY <2>6, <3>2 DEF Click, Shown
    <3> QED
      BY <2>7, <3>1, <3>2 DEF User
  <2>8. ~Die
    BY <1>1 DEF Die
  <2>9. ~Start /\ ~Tick /\ ~UNCHANGED vars
    BY <1>1 DEF Start, Tick, vars, server
  <2>10. ASSUME NEW s \in Requests, Expire(s) PROVE FALSE
    BY <2>6, <2>10 DEF Expire
  <2>11. ASSUME NEW s \in Requests, NEW line, Reads(s, line) PROVE FALSE
    <3>1. CASE task[s] = "terminal"
      BY <2>6, <2>11, <3>1 DEF Reads, Shown
    <3>2. CASE task[s] # "terminal"
      BY <1>1, <2>11, <3>2 DEF Reads
    <3> QED
      BY <3>1, <3>2
  <2>12. ASSUME NEW s \in Requests, ReadAhead(s) PROVE FALSE
    BY <2>11, <2>12 DEF ReadAhead
  <2>13. ASSUME NEW choice \in Choices, Type(choice) PROVE FALSE
    <3>1. readers # <<>> => Head(readers) \in Requests
      BY <1>1, HeadTailProperties DEF Kept, Types
    <3> QED
      BY <1>1, <2>11, <2>13, <3>1 DEF Type
  <2> QED
    BY <1>1, <2>1, <2>2, <2>3, <2>4, <2>5, <2>7, <2>8, <2>9, <2>10, <2>12, <2>13
       DEF Next, ServerStep
<1>2. Kept /\ [Next]_vars =>
         [\A r \in Requests : task[r] = "sent" /\ task'[r] # "sent" /\ up' =>
             (task'[r] = "queued" <=> Young < MaxPrompts)]_vars
  BY <1>1
<1> QED
  BY <1>2, AlwaysKept, PTL DEF Spec, RateExact

\* The client's own limit ends a question only if it could not be put to the
\* user at once: the time a dialog has, with the grace of a graphical one, is
\* over before the client's.
THEOREM GraceIsEnough == Spec => GraceSuffices
<1>1. ASSUME Kept, [Next]_vars, NEW r \in Requests, GivesUp(r) PROVE delayed[r]
  <2>1. Waits(r) /\ client'[r] # "waiting" /\ reply[r] = None /\ up'
    BY <1>1 DEF GivesUp, Waits
  <2>2. GiveUp(r)
    <3>1. ASSUME NEW s \in Requests, Ask(s) PROVE FALSE
      BY <1>1, <2>1, <3>1 DEF Ask, Take, Waits, Kept, Types
    <3>2. ASSUME NEW s \in Requests, Receive(s) PROVE FALSE
      BY <1>1, <2>1, <3>2 DEF Receive, Take, Waits, Kept, Types
    <3>3. ASSUME NEW s \in Requests, GiveUp(s), s # r PROVE FALSE
      BY <1>1, <2>1, <3>3 DEF GiveUp, Take, Waits, Kept, Types
    <3>4. ASSUME NEW s \in Requests, ServerStep(s) \/ User(s) PROVE client' = client
      BY <3>4 DEF ServerStep, Admit, ReadAhead, Expire, Show, User, Dismiss, Click
    <3>5. ~Die
      BY <2>1 DEF Die
    <3>6. /\ Start \/ Tick \/ UNCHANGED vars => client' = client
          /\ \A choice \in Choices : Type(choice) => client' = client
      BY DEF Start, Tick, Type, vars
    <3> QED
      BY <1>1, <2>1, <3>1, <3>2, <3>3, <3>4, <3>5, <3>6 DEF Next, ClientStep, Waits
  <2>3. left[r] = 0 /\ Place(r) /\ Timely(r) /\ Types
    BY <1>1, <2>2 DEF GiveUp, Kept, Questions
  <2>4. task[r] \in {"sent", "queued"} \/ Shown(r)
    BY <2>1, <2>3, Limits DEF Place, Types, Waits, Shown
  <2>5. ASSUME ~delayed[r] PROVE FALSE
    <3>1. CASE task[r] \in {"sent", "queued"}
      BY <2>1, <2>3, <2>5, <3>1, Limits DEF Timely
    <3>2. CASE Shown(r)
      <4>1. 0 >= shown[r] + (Grace - Backstop) /\ shown[r] \in Nat
        BY <2>1, <2>3, <2>5, <3>2, Limits DEF Timely, Types
      <4> QED
        BY <4>1, Limits
    <3> QED
      BY <2>4, <3>1, <3>2
  <2> QED
    BY <2>5
<1>2. Kept /\ [Next]_vars => [\A r \in Requests : GivesUp(r) => delayed[r]]_vars
  BY <1>1
<1> QED
  BY <1>2, AlwaysKept, PTL DEF Spec, GraceSuffices
=============================================================================
