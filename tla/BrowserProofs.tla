------------------------------ MODULE BrowserProofs ------------------------------
(***************************************************************************)
(* Proofs about what users see and answer.                                 *)
(*                                                                         *)
(* About Approvals, for any prompts, browsers and stream bound: the ledger *)
(* of prompts (asked, pending, outcome, allowed) stays sound, and browsers *)
(* show of them what was asked and keep it shown while it is pending.      *)
(*                                                                         *)
(* About SessionSwitch (here View, whose names would clash), for any       *)
(* sessions and bounds that SessionSwitchAssumption admits: snapshots show *)
(* the choice.                                                             *)
(***************************************************************************)
EXTENDS Approvals, FiniteSetTheorems, TLAPS

-------------------------------------------------------------------------------
(* The ledger of prompts *)

(* The part of the state the ledger depends on. *)
LedgerType ==
    /\ life \in {"registered", "removed", "disposed"}
    /\ asked \subseteq Prompts
    /\ pending \subseteq Prompts
    /\ outcome \in [Prompts -> Answers \union {None}]
    /\ post \in [Browsers -> [phase : {"none", "sent", "ok", "failed"},
                              on : Prompts \union {None}, value : Answers]]
    /\ allowed \subseteq Prompts

(* Only what was asked is pending or resolved, ... *)
OnlyAsked ==
    /\ pending \subseteq asked
    /\ \A q \in Prompts : outcome[q] # None => q \in asked

(* ... and an answer under way is the answer somebody gave. *)
PostsHonest ==
    \A b \in Browsers :
        post[b].phase # "none" =>
            post[b].on \in Prompts /\ (post[b].value = "allow" => post[b].on \in allowed)

LedgerInv ==
    /\ LedgerType /\ OnlyAsked /\ PostsHonest /\ NoPromptForgotten /\ OnlyUsersAllow

LEMMA InitLedger == Init => LedgerInv
BY ApprovalsAssumption DEF Init, LedgerInv, LedgerType, OnlyAsked, PostsHonest,
     NoPromptForgotten, OnlyUsersAllow, NoPost, Answers

(* Resolving pending prompts, with an answer somebody gave when it allows. *)
LEMMA ResolveKeepsLedger ==
    ASSUME LedgerInv, NEW S \in SUBSET pending, NEW value \in Answers, Resolve(S, value),
           value = "allow" => S \subseteq allowed, UNCHANGED <<asked, allowed>>
    PROVE  /\ pending' \subseteq asked'
           /\ outcome' \in [Prompts -> Answers \union {None}]
           /\ \A q \in Prompts : outcome'[q] # None => q \in asked'
           /\ NoPromptForgotten'
           /\ OnlyUsersAllow'
           /\ \A q \in Prompts : outcome[q] # None => outcome'[q] = outcome[q]
  <1> None \notin Answers
    BY ApprovalsAssumption DEF Answers
  <1>1. \A q \in Prompts : outcome'[q] = IF q \in S THEN value ELSE outcome[q]
    BY DEF Resolve
  <1>2. outcome' \in [Prompts -> Answers \union {None}]
    BY DEF Resolve, LedgerInv, LedgerType
  <1>3. NoPromptForgotten'
    BY <1>1 DEF Resolve, LedgerInv, LedgerType, OnlyAsked, NoPromptForgotten
  <1>4. OnlyUsersAllow'
    BY <1>1 DEF LedgerInv, LedgerType, OnlyUsersAllow
  <1>5. \A q \in Prompts : outcome[q] # None => outcome'[q] = outcome[q]
    BY <1>1 DEF LedgerInv, LedgerType, OnlyAsked, NoPromptForgotten
  <1> QED
    BY <1>1, <1>2, <1>3, <1>4, <1>5 DEF Resolve, LedgerInv, LedgerType, OnlyAsked

(* Every step keeps the ledger, and no step changes a resolution. *)
LEMMA StepLedger ==
    ASSUME LedgerInv, [Next]_vars
    PROVE  LedgerInv' /\ \A q \in Prompts : outcome[q] # None => outcome'[q] = outcome[q]
  <1> DEFINE Kept == LedgerInv' /\ \A q \in Prompts : outcome[q] # None
        => outcome'[q] = outcome[q]
  <1> USE DEF LedgerInv
  <1> SUFFICES Kept
    OBVIOUS
  (* A step that leaves the posts alone and resolves some pending prompts. *)
  <1>0. ASSUME NEW S \in SUBSET pending, Resolve(S, "deny"),
               life' \in {"registered", "removed", "disposed"},
               UNCHANGED <<asked, post, allowed>>
        PROVE  Kept
    <2>1. "deny" \in Answers
      BY DEF Answers
    <2>2. pending' \subseteq Prompts
      BY <1>0 DEF Resolve, LedgerType
    <2>3. PostsHonest'
      BY <1>0 DEF PostsHonest
    <2> QED
      BY <1>0, <2>1, <2>2, <2>3, ResolveKeepsLedger DEF LedgerType, OnlyAsked
  (* A step that leaves the prompts alone. *)
  <1>1. ASSUME UNCHANGED <<life, asked, pending, outcome, post, allowed>>
        PROVE  Kept
    BY <1>1 DEF LedgerType, OnlyAsked, PostsHonest, NoPromptForgotten, OnlyUsersAllow
  <1>2. ASSUME NEW q \in Prompts, Raise(q)
        PROVE  Kept
    <2>1. outcome[q] = None
      BY <1>2 DEF Raise, OnlyAsked
    <2> QED
      BY <1>2, <2>1 DEF Raise, LedgerType, OnlyAsked, PostsHonest, NoPromptForgotten,
                        OnlyUsersAllow
  <1>3. ASSUME NEW q \in Prompts, Lapse(q)
        PROVE  Kept
    BY <1>3, <1>0 DEF Lapse, LedgerType
  <1>4. CASE Abort
    BY <1>4, <1>0 DEF Abort, CancelAll, LedgerType
  <1>5. CASE Remove
    BY <1>5, <1>0 DEF Remove, CancelAll
  <1>6. CASE Disposed
    <2>1. life' = "disposed"
      BY <1>6 DEF Disposed
    <2> QED
      BY <1>6, <2>1 DEF Disposed, LedgerType, OnlyAsked, PostsHonest, NoPromptForgotten,
                        OnlyUsersAllow
  <1>7. CASE StateChanged
    BY <1>7, <1>1 DEF StateChanged
  <1>8. ASSUME NEW b \in Browsers, Handle(b)
        PROVE  Kept
    <2> DEFINE q == post[b].on
               S == {q} \intersect pending
    <2>1. post[b].phase = "sent" /\ UNCHANGED <<life, asked, allowed>>
      BY <1>8 DEF Handle
    <2>2. q \in Prompts /\ (post[b].value = "allow" => q \in allowed) /\ post[b].value \in Answers
      BY <2>1 DEF PostsHonest, LedgerType
    <2>3. CASE UNCHANGED <<pending, outcome>> /\ post' = [post EXCEPT ![b].phase = "failed"]
      <3>1. post' \in [Browsers -> [phase : {"none", "sent", "ok", "failed"},
                                    on : Prompts \union {None}, value : Answers]]
        BY <2>3 DEF LedgerType
      <3>2. PostsHonest'
        BY <2>1, <2>2, <2>3 DEF PostsHonest, LedgerType
      <3> QED
        BY <2>1, <2>3, <3>1, <3>2 DEF LedgerType, OnlyAsked, NoPromptForgotten, OnlyUsersAllow
    <2>4. CASE Answer(q, post[b].value) /\ post' = [post EXCEPT ![b].phase = "ok"]
      <3>1. post' \in [Browsers -> [phase : {"none", "sent", "ok", "failed"},
                                    on : Prompts \union {None}, value : Answers]]
        BY <2>4 DEF LedgerType
      <3>2. PostsHonest'
        BY <2>1, <2>2, <2>4 DEF PostsHonest, LedgerType
      <3>3. Resolve(S, post[b].value) /\ S \in SUBSET pending
        BY <2>4 DEF Answer
      <3>4. post[b].value = "allow" => S \subseteq allowed
        BY <2>2
      <3>5. pending' \subseteq Prompts
        BY <3>3 DEF Resolve, LedgerType
      <3> HIDE DEF q, S
      <3> QED
        BY <2>1, <2>2, <3>1, <3>2, <3>3, <3>4, <3>5, ResolveKeepsLedger
           DEF LedgerType, OnlyAsked
    <2> QED
      BY <1>8, <2>3, <2>4 DEF Handle
  <1>9. ASSUME NEW b \in Browsers,
               \/ Connect(b) \/ Greet(b) \/ Disconnect(b) \/ Deliver(b)
               \/ Reply(b) \/ ApplyState(b)
        PROVE  Kept
    BY <1>9, <1>1 DEF Connect, Greet, Disconnect, Deliver, Reply, ApplyState, server
  <1>10. ASSUME NEW b \in Browsers, NEW q \in Prompts, NEW value \in Answers, Respond(b, q, value)
         PROVE  Kept
    <2>1. post' \in [Browsers -> [phase : {"none", "sent", "ok", "failed"},
                                  on : Prompts \union {None}, value : Answers]]
      BY <1>10 DEF Respond, LedgerType
    <2>2. allowed \subseteq allowed' /\ allowed' \subseteq Prompts
            /\ (value = "allow" => q \in allowed')
      BY <1>10 DEF Respond, LedgerType
    <2>3. PostsHonest'
      BY <1>10, <2>2 DEF Respond, PostsHonest, LedgerType
    <2>4. UNCHANGED <<life, asked, pending, outcome>>
      BY <1>10 DEF Respond, server
    <2> QED
      BY <2>1, <2>2, <2>3, <2>4 DEF LedgerType, OnlyAsked, NoPromptForgotten, OnlyUsersAllow
  <1>11. ASSUME NEW b \in Browsers, Responded(b)
         PROVE  Kept
    <2>1. post' = [post EXCEPT ![b] = NoPost] /\ UNCHANGED <<life, asked, pending, outcome,
            allowed>>
      BY <1>11 DEF Responded, server
    <2>2. post' \in [Browsers -> [phase : {"none", "sent", "ok", "failed"},
                                  on : Prompts \union {None}, value : Answers]]
      BY <2>1 DEF LedgerType, NoPost, Answers
    <2>3. PostsHonest'
      BY <2>1 DEF PostsHonest, LedgerType, NoPost
    <2> QED
      BY <2>1, <2>2, <2>3 DEF LedgerType, OnlyAsked, NoPromptForgotten, OnlyUsersAllow
  <1>12. CASE UNCHANGED vars
    BY <1>12, <1>1 DEF vars
  <1> HIDE DEF Kept, LedgerInv
  <1> QED
    BY <1>2, <1>3, <1>4, <1>5, <1>6, <1>7, <1>8, <1>9, <1>10, <1>11, <1>12 DEF Next

(* The ledger is sound in every reachable state. *)
THEOREM LedgerInvariant == Spec => []LedgerInv
<1>1. LedgerInv /\ [Next]_vars => LedgerInv'
  BY StepLedger
<1> QED
  BY InitLedger, <1>1, PTL DEF Spec

(* Every promise an extension waits for is in the Map, where an answer, its *)
(* timer or cancelAll() finds it.                                           *)
THEOREM NothingForgotten == Spec => []NoPromptForgotten
<1>1. LedgerInv => NoPromptForgotten
  BY DEF LedgerInv
<1> QED
  BY <1>1, LedgerInvariant, PTL

(* No prompt counts as allowed unless a user allowed it. *)
THEOREM NothingAllowedByDefault == Spec => []OnlyUsersAllow
<1>1. LedgerInv => OnlyUsersAllow
  BY DEF LedgerInv
<1> QED
  BY <1>1, LedgerInvariant, PTL

(* A prompt's first resolution stands. *)
THEOREM ResolutionsFinal == Spec => FirstResolutionStands
<1>1. LedgerInv /\ [Next]_vars
        => [\A q \in Prompts : outcome[q] # None => outcome'[q] = outcome[q]]_vars
  BY StepLedger
<1> QED
  BY <1>1, LedgerInvariant, PTL DEF Spec, FirstResolutionStands

-------------------------------------------------------------------------------
(* What browsers show of the prompts *)

SeenType ==
    /\ conn \in [Browsers -> {"off", "joining", "on"}]
    /\ stream \in [Browsers -> Seq(Events)]
    /\ dialogs \in [Browsers -> SUBSET Prompts]
    /\ reply \in [Browsers -> (SUBSET Prompts) \union {None}]

SeenWereAsked ==
    \A b \in Browsers :
        /\ dialogs[b] \subseteq asked
        /\ reply[b] # None => reply[b] \subseteq asked
        /\ \A i \in DOMAIN stream[b], q \in Prompts : Brings(stream[b][i], q) => q \in asked

PostsSettled ==
    \A b \in Browsers :
        /\ post[b].phase # "none" => post[b].on \in asked
        /\ post[b].phase = "ok" => post[b].on \notin pending

SeenInv == LedgerInv /\ SeenType /\ SeenWereAsked /\ PostsSettled

(* No browser comes to miss a prompt by this step, unless by a late reply. *)
LateReply(b, q) == reply[b] # None /\ reply'[b] = None /\ q \notin reply[b]
NoneMissed ==
    \A b \in Browsers, q \in Prompts : Misses(b, q)' => Misses(b, q) \/ LateReply(b, q)

(* The events bring every prompt that is new, and hide no other. *)
Tell(events) ==
    \A q \in pending' :
        life' = "registered" =>
            \/ /\ q \in pending /\ life = "registered"
               /\ \A i \in DOMAIN events : ~Hides(events[i], q)
            \/ \E i \in DOMAIN events :
                 /\ Brings(events[i], q)
                 /\ \A j \in DOMAIN events : j > i => ~Hides(events[j], q)

LEMMA Concatenated ==
    ASSUME NEW s \in Seq(Events), NEW t \in Seq(Events)
    PROVE  /\ s \o t \in Seq(Events)
           /\ Len(s) \in Nat /\ Len(t) \in Nat
           /\ DOMAIN s = 1..Len(s) /\ DOMAIN t = 1..Len(t)
           /\ DOMAIN (s \o t) = 1..(Len(s) + Len(t))
           /\ \A i \in DOMAIN s : (s \o t)[i] = s[i]
           /\ \A i \in DOMAIN t : (s \o t)[Len(s) + i] = t[i]
           /\ \A k \in DOMAIN (s \o t) :
                k \in DOMAIN s \/ \E i \in DOMAIN t : k = Len(s) + i
  <1>1. /\ s \o t \in Seq(Events)
        /\ Len(s) \in Nat /\ Len(t) \in Nat
        /\ DOMAIN s = 1..Len(s) /\ DOMAIN t = 1..Len(t)
        /\ DOMAIN (s \o t) = 1..(Len(s) + Len(t))
    OBVIOUS
  <1>2. \A i \in DOMAIN s : (s \o t)[i] = s[i]
    OBVIOUS
  <1>3. \A i \in DOMAIN t : (s \o t)[Len(s) + i] = t[i]
    OBVIOUS
  <1>4. ASSUME NEW k \in DOMAIN (s \o t), k \notin DOMAIN s
        PROVE  k - Len(s) \in DOMAIN t /\ k = Len(s) + (k - Len(s))
    BY <1>1, <1>4
  <1>5. \A k \in DOMAIN (s \o t) : k \in DOMAIN s \/ \E i \in DOMAIN t : k = Len(s) + i
    BY <1>4
  <1> QED
    BY <1>1, <1>2, <1>3, <1>5

(* A browser that is sent events which tell of the change misses nothing. *)
LEMMA ToldMisses ==
    ASSUME SeenInv, NEW events \in Seq(Events), NEW b \in Browsers, NEW q \in Prompts,
           stream'[b] = stream[b] \o events, UNCHANGED <<conn, dialogs>>,
           Tell(events), Misses(b, q)'
    PROVE  Misses(b, q)
  <1> DEFINE s == stream[b]  t == stream'[b]
  <1>1. s \in Seq(Events) /\ t = s \o events /\ q \in pending' /\ life' = "registered"
        /\ conn[b] = "on" /\ ~WillShow(b, q)'
    BY DEF SeenInv, SeenType, Misses
  <1>2. /\ Len(s) \in Nat /\ DOMAIN s = 1..Len(s) /\ DOMAIN events = 1..Len(events)
        /\ \A i \in DOMAIN s : i \in DOMAIN t /\ t[i] = s[i]
        /\ \A i \in DOMAIN events : Len(s) + i \in DOMAIN t /\ t[Len(s) + i] = events[i]
        /\ \A k \in DOMAIN t : k \in DOMAIN s \/ \E i \in DOMAIN events : k = Len(s) + i
    BY <1>1, Concatenated
  <1> HIDE DEF t
  <1>3. ASSUME NEW i \in DOMAIN events, Brings(events[i], q),
               \A j \in DOMAIN events : j > i => ~Hides(events[j], q)
        PROVE  FALSE
    <2>1. Brings(t[Len(s) + i], q) /\ Len(s) + i \in DOMAIN t
      BY <1>2, <1>3
    <2>2. \A k \in DOMAIN t : k > Len(s) + i => ~Hides(t[k], q)
      BY <1>2, <1>3
    <2> QED
      BY <1>1, <2>1, <2>2 DEF WillShow, t
  <1>4. q \in pending /\ life = "registered" /\ \A i \in DOMAIN events : ~Hides(events[i], q)
    BY <1>1, <1>3 DEF Tell
  <1>5. \A k \in DOMAIN t : Hides(t[k], q) => k \in DOMAIN s /\ Hides(s[k], q)
    BY <1>2, <1>4
  <1>6. ASSUME WillShow(b, q)
        PROVE  FALSE
    <2>1. CASE q \in dialogs[b] /\ \A i \in DOMAIN s : ~Hides(s[i], q)
      BY <1>1, <1>5, <2>1 DEF WillShow, t
    <2>2. ASSUME NEW i \in DOMAIN s, Brings(s[i], q),
                 \A j \in DOMAIN s : j > i => ~Hides(s[j], q)
          PROVE  FALSE
      <3>1. i \in DOMAIN t /\ Brings(t[i], q) /\ \A k \in DOMAIN t : k > i => ~Hides(t[k], q)
        BY <1>2, <1>5, <2>2
      <3> QED
        BY <1>1, <3>1 DEF WillShow, t
    <2> QED
      BY <1>6, <2>1, <2>2 DEF WillShow
  <1> QED
    BY <1>1, <1>4, <1>6 DEF Misses

(* An event under way to every stream. *)
LEMMA BroadcastSeen ==
    ASSUME SeenInv, NEW events \in Seq(Events), Broadcast(events),
           UNCHANGED <<conn, dialogs, reply>>, asked \subseteq asked', Tell(events),
           \A i \in DOMAIN events, q \in Prompts : Brings(events[i], q) => q \in asked'
    PROVE  SeenType' /\ SeenWereAsked' /\ NoneMissed
  <1>1. \A b \in Browsers : stream'[b] = stream[b] \/ stream'[b] = stream[b] \o events
    BY DEF Broadcast
  <1>2. stream' \in [Browsers -> Seq(Events)]
    BY DEF Broadcast, SeenInv, SeenType
  <1>3. ASSUME NEW b \in Browsers, NEW i \in DOMAIN stream'[b], NEW q \in Prompts,
               Brings(stream'[b][i], q)
        PROVE  q \in asked'
    <2>1. stream[b] \in Seq(Events)
      BY DEF SeenInv, SeenType
    <2>2. CASE stream'[b] = stream[b]
      BY <1>3, <2>2 DEF SeenInv, SeenWereAsked
    <2>3. CASE stream'[b] = stream[b] \o events
      <3>1. CASE i \in DOMAIN stream[b]
        BY <1>3, <2>1, <2>3, <3>1, Concatenated DEF SeenInv, SeenWereAsked
      <3>2. CASE i \notin DOMAIN stream[b]
        <4>1. PICK j \in DOMAIN events : i = Len(stream[b]) + j
          BY <1>3, <2>1, <2>3, <3>2, Concatenated
        <4>2. stream'[b][i] = events[j]
          BY <2>1, <2>3, <4>1, Concatenated
        <4> QED
          BY <1>3, <4>2
      <3> QED
        BY <3>1, <3>2
    <2> QED
      BY <1>1, <2>2, <2>3
  <1>4. ASSUME NEW b \in Browsers, NEW q \in Prompts, Misses(b, q)'
        PROVE  Misses(b, q)
    <2>1. stream'[b] = stream[b] \o events
      BY <1>4 DEF Broadcast, Misses
    <2> QED
      BY <1>4, <2>1, ToldMisses
  <1> QED
    BY <1>2, <1>3, <1>4 DEF SeenInv, SeenType, SeenWereAsked, NoneMissed

(* What a concatenation holds, and where. *)
LEMMA Joined ==
    ASSUME NEW s \in Seq(Events), NEW t \in Seq(Events), NEW k \in DOMAIN (s \o t)
    PROVE  \/ \E i \in DOMAIN s : (s \o t)[k] = s[i]
           \/ \E i \in DOMAIN t : (s \o t)[k] = t[i]
  BY Concatenated

(* A status, unless the session is disposed, and one more event. *)
LEMMA StatusThen ==
    ASSUME NEW n, NEW e \in Events, Status(n) \in Events,
           NEW events, events = StatusOf(n) \o <<e>>
    PROVE  /\ events \in Seq(Events)
           /\ Len(events) \in DOMAIN events /\ events[Len(events)] = e
           /\ \A i \in DOMAIN events :
                ~(i > Len(events)) /\ (events[i] = e \/ events[i] = Status(n))
  <1> DEFINE s == StatusOf(n)  t == <<e>>
  <1>1. s \in Seq(Events) /\ t \in Seq(Events) /\ Len(t) = 1 /\ t[1] = e /\ DOMAIN t = {1}
    BY DEF StatusOf
  <1>2. \A i \in DOMAIN s : s[i] = Status(n)
    BY DEF StatusOf
  <1>3. events = s \o t
    OBVIOUS
  <1> HIDE DEF s, t
  <1>4. /\ s \o t \in Seq(Events) /\ Len(s) \in Nat
        /\ DOMAIN (s \o t) = 1..(Len(s) + 1)
    <2>1. /\ s \o t \in Seq(Events) /\ Len(s) \in Nat
          /\ DOMAIN (s \o t) = 1..(Len(s) + Len(t))
      BY <1>1, Concatenated
    <2> QED
      BY <1>1, <2>1
  <1>6. Len(s \o t) = Len(s) + 1
    BY <1>4
  <1>7. (s \o t)[Len(s) + 1] = e
    <2>1. \A i \in DOMAIN t : (s \o t)[Len(s) + i] = t[i]
      BY <1>1, Concatenated
    <2> QED
      BY <1>1, <2>1
  <1>5. ASSUME NEW i \in DOMAIN (s \o t)
        PROVE  (s \o t)[i] = e \/ (s \o t)[i] = Status(n)
    BY <1>1, <1>2, Joined
  <1>8. \A i \in DOMAIN (s \o t) : ~(i > Len(s \o t))
    BY <1>4, <1>6
  <1>9. Len(s \o t) \in DOMAIN (s \o t)
    BY <1>4, <1>6
  <1> QED
    BY <1>3, <1>4, <1>5, <1>6, <1>7, <1>8, <1>9

LEMMA Counted ==
    ASSUME NEW S \in SUBSET Prompts
    PROVE  /\ Cardinality(S) \in 0..Cardinality(Prompts)
           /\ Cardinality(S) = 0 => S = {}
           /\ Status(Cardinality(S)) \in Events /\ Snapshot(S) \in Events
  <1>1. /\ IsFiniteSet(S) /\ Cardinality(S) \in Nat /\ Cardinality(Prompts) \in Nat
        /\ Cardinality(S) <= Cardinality(Prompts) /\ (Cardinality(S) = 0 => S = {})
    BY ApprovalsAssumption, FS_Subset, FS_CardinalityType, FS_EmptySet
  <1>2. Cardinality(S) \in 0..Cardinality(Prompts)
    BY <1>1
  <1> QED
    BY <1>1, <1>2 DEF Events

(* The posts of a step that asks only new prompts and answers none. *)
LEMMA PostsStay ==
    ASSUME SeenInv, UNCHANGED post, asked \subseteq asked', pending' \intersect asked \subseteq pending
    PROVE  PostsSettled'
  BY DEF SeenInv, PostsSettled

LEMMA RaiseSeen ==
    ASSUME SeenInv, NEW q \in Prompts, Raise(q)
    PROVE  SeenType' /\ SeenWereAsked' /\ PostsSettled' /\ NoneMissed
  <1> DEFINE n == Cardinality(pending')
             events == StatusOf(n) \o <<Request(q)>>
             last == Len(events)
  <1>1. pending' \subseteq Prompts /\ pending' # {}
    BY DEF Raise, SeenInv, LedgerInv, LedgerType
  <1>2. n # 0 /\ Status(n) \in Events /\ Request(q) \in Events
    BY <1>1, Counted DEF Events
  <1>3. Broadcast(events)
    BY DEF Raise
  <1> HIDE DEF n
  <1>4. /\ events \in Seq(Events) /\ last \in DOMAIN events /\ events[last] = Request(q)
        /\ \A i \in DOMAIN events :
             ~(i > last) /\ (events[i] = Request(q) \/ events[i] = Status(n))
    BY <1>2, StatusThen
  <1> HIDE DEF events, last
  <1>5. Tell(events)
    <2>1. ASSUME NEW p \in pending', p = q
          PROVE  Brings(events[last], p)
      BY <1>4, <2>1 DEF Brings, Request
    <2>2. ASSUME NEW p \in pending', p # q
          PROVE  p \in pending /\ \A i \in DOMAIN events : ~Hides(events[i], p)
      BY <1>2, <1>4, <2>2 DEF Raise, Hides, Status, Request
    <2> QED
      BY <1>4, <2>1, <2>2 DEF Tell, Raise
  <1>6. \A i \in DOMAIN events, p \in Prompts : Brings(events[i], p) => p \in asked'
    BY <1>4 DEF Raise, Brings, Hides, Status, Request, Snapshot
  <1>7. PostsSettled'
    BY PostsStay DEF Raise
  <1> QED
    BY <1>3, <1>4, <1>5, <1>6, <1>7, BroadcastSeen DEF Raise

(* Prompts settle, and a status says so. *)
LEMMA SettledSeen ==
    ASSUME SeenInv, NEW n \in 0..Cardinality(Prompts), NEW events \in {<<>>, <<Status(n)>>},
           Broadcast(events), UNCHANGED <<life, asked, conn, dialogs, post, reply>>,
           pending' \subseteq pending, n = 0 => pending' = {}
    PROVE  SeenType' /\ SeenWereAsked' /\ PostsSettled' /\ NoneMissed
  <1>1. Status(n) \in Events
    BY DEF Events
  <1>2. events \in Seq(Events) /\ \A i \in DOMAIN events : events[i] = Status(n)
    <2>1. CASE events = <<>>
      BY <2>1
    <2>2. CASE events = <<Status(n)>>
      BY <1>1, <2>2
    <2> QED
      BY <2>1, <2>2
  <1>3. Tell(events)
    BY <1>2 DEF Tell, Brings, Hides, Status, Request, Snapshot
  <1>4. \A i \in DOMAIN events, p \in Prompts : Brings(events[i], p) => p \in asked'
    BY <1>2 DEF Brings, Hides, Status, Request, Snapshot
  <1> QED
    BY <1>2, <1>3, <1>4, PostsStay, BroadcastSeen

LEMMA LapseSeen ==
    ASSUME SeenInv, NEW q \in Prompts, Lapse(q)
    PROVE  SeenType' /\ SeenWereAsked' /\ PostsSettled' /\ NoneMissed
  <1>1. pending' \subseteq pending /\ pending' \subseteq Prompts
    BY DEF Lapse, Resolve, SeenInv, LedgerInv, LedgerType
  <1>2. /\ Cardinality(pending') \in 0..Cardinality(Prompts)
        /\ Cardinality(pending') = 0 => pending' = {}
    BY <1>1, Counted
  <1>3. StatusOf(Cardinality(pending')) \in {<<>>, <<Status(Cardinality(pending'))>>}
    BY DEF StatusOf
  <1> QED
    BY <1>1, <1>2, <1>3, SettledSeen DEF Lapse

LEMMA AbortSeen ==
    ASSUME SeenInv, Abort
    PROVE  SeenType' /\ SeenWereAsked' /\ PostsSettled' /\ NoneMissed
  <1>1. pending' = {}
    BY DEF Abort, CancelAll, Resolve
  <1>2. 0 \in 0..Cardinality(Prompts)
    BY ApprovalsAssumption, FS_CardinalityType
  <1>3. Cancelled \in {<<>>, <<Status(0)>>}
    BY DEF Cancelled
  <1> QED
    BY <1>1, <1>2, <1>3, SettledSeen DEF Abort

LEMMA RemoveSeen ==
    ASSUME SeenInv, Remove
    PROVE  SeenType' /\ SeenWereAsked' /\ PostsSettled' /\ NoneMissed
  <1> DEFINE events == <<Snapshot({})>> \o Cancelled
  <1>1. pending' = {} /\ Broadcast(events)
    BY DEF Remove, CancelAll, Resolve
  <1>2. Snapshot({}) \in Events /\ Status(0) \in Events
    BY ApprovalsAssumption, FS_CardinalityType DEF Events
  <1>3. <<Snapshot({})>> \in Seq(Events) /\ Cancelled \in Seq(Events)
    BY <1>2 DEF Cancelled
  <1>4. events \in Seq(Events)
        /\ \A i \in DOMAIN events : events[i] = Snapshot({}) \/ events[i] = Status(0)
    <2>1. \A i \in DOMAIN <<Snapshot({})>> : <<Snapshot({})>>[i] = Snapshot({})
      OBVIOUS
    <2>2. \A i \in DOMAIN Cancelled : Cancelled[i] = Status(0)
      BY DEF Cancelled
    <2> QED
      BY <1>3, <2>1, <2>2, Joined, Concatenated
  <1> HIDE DEF events
  <1>5. Tell(events)
    BY <1>1 DEF Tell
  <1>6. \A i \in DOMAIN events, p \in Prompts : Brings(events[i], p) => p \in asked'
    BY <1>4 DEF Brings, Hides, Status, Request, Snapshot
  <1>7. PostsSettled'
    BY <1>1, PostsStay DEF Remove
  <1> QED
    BY <1>1, <1>4, <1>5, <1>6, <1>7, BroadcastSeen DEF Remove

LEMMA StateChangedSeen ==
    ASSUME SeenInv, StateChanged
    PROVE  SeenType' /\ SeenWereAsked' /\ PostsSettled' /\ NoneMissed
  <1> DEFINE events == <<Snapshot(State)>>
  <1>1. State \subseteq pending /\ pending \subseteq Prompts /\ pending \subseteq asked
    BY DEF State, SeenInv, LedgerInv, LedgerType, OnlyAsked
  <1>2. Snapshot(State) \in Events
    BY <1>1, Counted
  <1>3. events \in Seq(Events) /\ DOMAIN events = {1} /\ events[1] = Snapshot(State)
    BY <1>2
  <1>4. Broadcast(events) /\ UNCHANGED <<life, asked, pending, conn, dialogs, reply, post>>
    BY DEF StateChanged
  <1> HIDE DEF events
  <1>5. Tell(events)
    BY <1>3, <1>4 DEF Tell, State, Brings, Hides, Status, Request, Snapshot
  <1>6. \A i \in DOMAIN events, p \in Prompts : Brings(events[i], p) => p \in asked'
    BY <1>1, <1>3, <1>4 DEF Brings, Hides, Status, Request, Snapshot
  <1> QED
    BY <1>3, <1>4, <1>5, <1>6, PostsStay, BroadcastSeen

LEMMA UntoldSeen ==
    ASSUME SeenInv, UNCHANGED <<asked, conn, stream, dialogs, reply>>, pending' = pending,
           life' = "registered" => life = "registered"
    PROVE  SeenType' /\ SeenWereAsked' /\ NoneMissed
  BY DEF SeenInv, SeenType, SeenWereAsked, NoneMissed, Misses, WillShow

LEMMA HandleSeen ==
    ASSUME SeenInv, NEW b \in Browsers, Handle(b)
    PROVE  SeenType' /\ SeenWereAsked' /\ PostsSettled' /\ NoneMissed
  <1>1. /\ post[b].phase = "sent" /\ UNCHANGED <<life, asked, conn, dialogs, reply>>
        /\ post[b].on \in asked
    BY DEF Handle, SeenInv, PostsSettled
  <1>2. CASE UNCHANGED <<pending, stream>> /\ post' = [post EXCEPT ![b].phase = "failed"]
    <2>1. PostsSettled'
      BY <1>1, <1>2 DEF SeenInv, PostsSettled, LedgerInv, LedgerType
    <2> QED
      BY <1>1, <1>2, <2>1, UntoldSeen
  <1>3. CASE /\ life = "registered" /\ Answer(post[b].on, post[b].value)
             /\ post' = [post EXCEPT ![b].phase = "ok"]
             /\ Broadcast(StatusOf(Cardinality(pending')) \o <<Snapshot(State')>>)
    <2> DEFINE n == Cardinality(pending')
               events == StatusOf(n) \o <<Snapshot(pending')>>
               last == Len(events)
    <2>1. /\ pending' \subseteq pending /\ post[b].on \notin pending'
          /\ pending' \subseteq Prompts /\ pending' \subseteq asked
      BY <1>3 DEF Answer, Resolve, SeenInv, LedgerInv, LedgerType, OnlyAsked
    <2>2. Status(n) \in Events /\ Snapshot(pending') \in Events
      BY <2>1, Counted
    <2>3. State' = pending'
      BY <1>1, <1>3 DEF State
    <2>4. Broadcast(events)
      BY <1>3, <2>3
    <2> HIDE DEF n
    <2>5. /\ events \in Seq(Events) /\ last \in DOMAIN events
          /\ events[last] = Snapshot(pending')
          /\ \A i \in DOMAIN events :
               ~(i > last) /\ (events[i] = Snapshot(pending') \/ events[i] = Status(n))
      BY <2>2, StatusThen
    <2> HIDE DEF events, last
    <2>6. Tell(events)
      BY <2>5 DEF Tell, Brings, Snapshot
    <2>7. \A i \in DOMAIN events, p \in Prompts : Brings(events[i], p) => p \in asked'
      BY <1>1, <2>1, <2>5 DEF Brings, Hides, Status, Request, Snapshot
    <2>8. PostsSettled'
      BY <1>1, <1>3, <2>1 DEF SeenInv, PostsSettled, LedgerInv, LedgerType
    <2> QED
      BY <1>1, <2>4, <2>5, <2>6, <2>7, <2>8, BroadcastSeen
  <1> QED
    BY <1>2, <1>3 DEF Handle

(* A step of one browser. *)
LEMMA LocalSeen ==
    ASSUME SeenInv, UNCHANGED server, SeenType', NEW b \in Browsers,
           \A c \in Browsers : c # b => /\ conn'[c] = conn[c] /\ stream'[c] = stream[c]
                                        /\ dialogs'[c] = dialogs[c] /\ reply'[c] = reply[c],
           dialogs'[b] \subseteq asked,
           reply'[b] # None => reply'[b] \subseteq asked,
           \A i \in DOMAIN stream'[b], q \in Prompts : Brings(stream'[b][i], q) => q \in asked,
           \A q \in Prompts : Misses(b, q)' => Misses(b, q) \/ LateReply(b, q)
    PROVE  SeenWereAsked' /\ NoneMissed
  <1>1. ASSUME NEW c \in Browsers
        PROVE  /\ dialogs'[c] \subseteq asked'
               /\ reply'[c] # None => reply'[c] \subseteq asked'
               /\ \A i \in DOMAIN stream'[c], q \in Prompts :
                    Brings(stream'[c][i], q) => q \in asked'
    BY DEF SeenInv, SeenWereAsked, server
  <1>2. ASSUME NEW c \in Browsers, NEW q \in Prompts, Misses(c, q)', c # b
        PROVE  Misses(c, q)
    BY <1>2 DEF Misses, WillShow, server
  <1> QED
    BY <1>1, <1>2 DEF SeenWereAsked, NoneMissed

LEMMA ConnectionSeen ==
    ASSUME SeenInv, NEW b \in Browsers, Connect(b) \/ Greet(b) \/ Disconnect(b)
    PROVE  SeenType' /\ SeenWereAsked' /\ NoneMissed
  <1>1. UNCHANGED server /\ UNCHANGED <<dialogs, reply>>
    BY DEF Connect, Greet, Disconnect
  <1>2. CASE Connect(b) \/ Disconnect(b)
    <2>1. /\ conn'[b] # "on" /\ DOMAIN stream'[b] \subseteq DOMAIN stream[b]
          /\ \A i \in DOMAIN stream'[b] : stream'[b][i] = stream[b][i]
      BY <1>2 DEF Connect, Disconnect, SeenInv, SeenType
    <2>2. SeenType'
      <3>1. conn' \in [Browsers -> {"off", "joining", "on"}]
        BY <1>2 DEF Connect, Disconnect, SeenInv, SeenType
      <3>2. <<>> \in Seq(Events)
        OBVIOUS
      <3>3. stream' \in [Browsers -> Seq(Events)]
        BY <1>2, <3>2 DEF Connect, Disconnect, SeenInv, SeenType
      <3> QED
        BY <1>1, <3>1, <3>3 DEF SeenInv, SeenType
    <2>3. ASSUME NEW c \in Browsers, c # b
          PROVE  conn'[c] = conn[c] /\ stream'[c] = stream[c]
      BY <1>2, <2>3 DEF Connect, Disconnect, SeenInv, SeenType
    <2>4. SeenWereAsked' /\ NoneMissed
      BY <1>1, <2>1, <2>2, <2>3, LocalSeen DEF SeenInv, SeenWereAsked, Misses
    <2> QED
      BY <2>2, <2>4
  <1>3. CASE Greet(b)
    <2> DEFINE s == stream[b]  hello == Snapshot(State)
    <2>1. State \subseteq pending /\ pending \subseteq Prompts /\ pending \subseteq asked
      BY DEF State, SeenInv, LedgerInv, LedgerType, OnlyAsked
    <2>2. hello \in Events /\ s \in Seq(Events)
      BY <2>1, Counted DEF SeenInv, SeenType
    <2>3. /\ stream'[b] = Append(s, hello)
          /\ \A c \in Browsers : c # b => conn'[c] = conn[c] /\ stream'[c] = stream[c]
      BY <1>3 DEF Greet, SeenInv, SeenType
    <2>4. SeenType'
      BY <1>1, <1>3, <2>2 DEF Greet, SeenInv, SeenType
    <2>5. /\ Len(s) + 1 \in DOMAIN stream'[b] /\ stream'[b][Len(s) + 1] = hello
          /\ \A i \in DOMAIN stream'[b] : i <= Len(s) + 1
          /\ \A i \in DOMAIN stream'[b] : i # Len(s) + 1 => i \in DOMAIN s /\ stream'[b][i] = s[i]
      BY <2>2, <2>3
    <2>6. \A i \in DOMAIN stream'[b], q \in Prompts : Brings(stream'[b][i], q) => q \in asked
      BY <2>1, <2>5 DEF SeenInv, SeenWereAsked, Brings, Hides, Status, Request, Snapshot
    <2>7. ASSUME NEW q \in Prompts, Misses(b, q)'
          PROVE  FALSE
      <3>1. Brings(hello, q)
        BY <1>1, <2>7 DEF Misses, State, server, Brings, Hides, Status, Request, Snapshot
      <3>2. \A j \in DOMAIN stream'[b] : ~(j > Len(s) + 1)
        BY <2>2, <2>3
      <3> QED
        BY <2>5, <2>7, <3>1, <3>2 DEF Misses, WillShow
    <2> QED
      BY <1>1, <2>3, <2>4, <2>6, <2>7, LocalSeen DEF SeenInv, SeenWereAsked
  <1> QED
    BY <1>2, <1>3

LEMMA DeliverSeen ==
    ASSUME SeenInv, NEW b \in Browsers, Deliver(b)
    PROVE  SeenType' /\ SeenWereAsked' /\ NoneMissed
  <1> DEFINE s == stream[b]  event == Head(s)  t == Tail(s)
  <1>1. /\ s # <<>> /\ s \in Seq(Events) /\ dialogs[b] \subseteq asked
        /\ UNCHANGED server /\ UNCHANGED <<conn, reply>>
        /\ dialogs'[b] = Shown(dialogs[b], event) /\ stream'[b] = t
        /\ \A c \in Browsers : c # b => stream'[c] = stream[c] /\ dialogs'[c] = dialogs[c]
    BY DEF Deliver, SeenInv, SeenType, SeenWereAsked
  <1>2. /\ event = s[1] /\ 1 \in DOMAIN s /\ t \in Seq(Events) /\ event \in Events
        /\ Len(s) \in Nat \ {0} /\ DOMAIN s = 1..Len(s) /\ DOMAIN t = 1..(Len(s) - 1)
        /\ \A i \in DOMAIN t : i + 1 \in DOMAIN s /\ t[i] = s[i + 1]
    BY <1>1
  <1>3. \A i \in DOMAIN s : i = 1 \/ (i - 1 \in DOMAIN t /\ t[i - 1] = s[i])
    BY <1>2
  <1>4. \A q \in Prompts : Brings(event, q) => q \in asked
    BY <1>2 DEF SeenInv, SeenWereAsked
  <1> HIDE DEF event, t
  <1>5. /\ Shown(dialogs[b], event) \subseteq Prompts
        /\ \A q \in Prompts : q \in Shown(dialogs[b], event) <=>
             Brings(event, q) \/ (q \in dialogs[b] /\ ~Hides(event, q))
    BY <1>2 DEF Shown, Brings, Hides, Events, Status, Request, Snapshot, SeenInv, SeenType
  <1>6. SeenType'
    BY <1>1, <1>2, <1>5 DEF Deliver, SeenInv, SeenType
  <1>7. dialogs'[b] \subseteq asked
    BY <1>1, <1>4, <1>5
  <1>8. \A i \in DOMAIN stream'[b], q \in Prompts : Brings(stream'[b][i], q) => q \in asked
    BY <1>1, <1>2 DEF SeenInv, SeenWereAsked
  <1>9. ASSUME NEW q \in Prompts, WillShow(b, q)
        PROVE  WillShow(b, q)'
    <2>1. CASE q \in dialogs[b] /\ \A i \in DOMAIN s : ~Hides(s[i], q)
      <3>1. q \in dialogs'[b]
        BY <1>1, <1>2, <1>5, <2>1
      <3>2. \A i \in DOMAIN t : ~Hides(t[i], q)
        BY <1>2, <2>1
      <3> QED
        BY <1>1, <3>1, <3>2 DEF WillShow
    <2>2. ASSUME NEW i \in DOMAIN s, Brings(s[i], q),
                 \A j \in DOMAIN s : j > i => ~Hides(s[j], q)
          PROVE  WillShow(b, q)'
      <3>1. CASE i = 1
        <4>1. q \in dialogs'[b]
          BY <1>1, <1>2, <1>5, <2>2, <3>1
        <4>2. \A j \in DOMAIN t : ~Hides(t[j], q)
          BY <1>2, <2>2, <3>1
        <4> QED
          BY <1>1, <4>1, <4>2 DEF WillShow
      <3>2. CASE i # 1
        <4>1. i - 1 \in DOMAIN t /\ Brings(t[i - 1], q)
          BY <1>3, <2>2, <3>2
        <4>2. \A j \in DOMAIN t : j > i - 1 => ~Hides(t[j], q)
          BY <1>2, <2>2
        <4> QED
          BY <1>1, <4>1, <4>2 DEF WillShow
      <3> QED
        BY <3>1, <3>2
    <2> QED
      BY <1>9, <2>1, <2>2 DEF WillShow
  <1>10. \A q \in Prompts : Misses(b, q)' => Misses(b, q)
    BY <1>1, <1>9 DEF Misses, server
  <1> QED
    BY <1>1, <1>6, <1>7, <1>8, <1>10, LocalSeen DEF SeenInv, SeenWereAsked

LEMMA RespondedSeen ==
    ASSUME SeenInv, NEW b \in Browsers, Responded(b)
    PROVE  SeenType' /\ SeenWereAsked' /\ NoneMissed
  <1> DEFINE gone == IF post[b].phase = "ok" THEN {post[b].on} ELSE {}
  <1>1. /\ UNCHANGED server /\ UNCHANGED <<conn, stream, reply>>
        /\ dialogs' = [dialogs EXCEPT ![b] = @ \ gone]
    BY DEF Responded, SeenInv, SeenType
  <1>2. gone \intersect pending = {}
    BY DEF SeenInv, PostsSettled
  <1> HIDE DEF gone
  <1>3. SeenType' /\ dialogs'[b] = dialogs[b] \ gone
    BY <1>1 DEF SeenInv, SeenType
  <1>4. \A c \in Browsers : c # b => dialogs'[c] = dialogs[c]
    BY <1>1 DEF SeenInv, SeenType
  <1>5. \A q \in Prompts : Misses(b, q)' => Misses(b, q)
    BY <1>1, <1>2, <1>3 DEF Misses, WillShow, server
  <1> QED
    BY <1>1, <1>3, <1>4, <1>5, LocalSeen DEF SeenInv, SeenWereAsked

LEMMA ReplySeen ==
    ASSUME SeenInv, NEW b \in Browsers, Reply(b)
    PROVE  SeenType' /\ SeenWereAsked' /\ NoneMissed
  <1>1. State \subseteq Prompts /\ State \subseteq asked
    BY DEF State, SeenInv, LedgerInv, LedgerType, OnlyAsked
  <1>2. /\ UNCHANGED server /\ UNCHANGED <<conn, stream, dialogs>>
        /\ reply' = [reply EXCEPT ![b] = State]
    BY DEF Reply
  <1>3. SeenType' /\ reply'[b] = State /\ \A c \in Browsers : c # b => reply'[c] = reply[c]
    BY <1>1, <1>2 DEF SeenInv, SeenType
  <1>4. \A q \in Prompts : Misses(b, q)' => Misses(b, q)
    BY <1>2 DEF Misses, WillShow, server
  <1> QED
    BY <1>1, <1>2, <1>3, <1>4, LocalSeen DEF SeenInv, SeenWereAsked

LEMMA ApplyStateSeen ==
    ASSUME SeenInv, NEW b \in Browsers, ApplyState(b)
    PROVE  SeenType' /\ SeenWereAsked' /\ NoneMissed
  <1>1. /\ UNCHANGED server /\ UNCHANGED <<conn, stream>> /\ reply[b] # None
        /\ dialogs' = [dialogs EXCEPT ![b] = reply[b]] /\ reply' = [reply EXCEPT ![b] = None]
    BY DEF ApplyState
  <1>2. reply[b] \subseteq asked /\ reply[b] \in SUBSET Prompts
    BY <1>1 DEF SeenInv, SeenType, SeenWereAsked
  <1>5. SeenType' /\ reply'[b] = None /\ dialogs'[b] = reply[b]
    BY <1>1, <1>2 DEF SeenInv, SeenType
  <1>6. \A c \in Browsers : c # b => reply'[c] = reply[c] /\ dialogs'[c] = dialogs[c]
    BY <1>1 DEF SeenInv, SeenType
  <1>3. ASSUME NEW q \in Prompts, Misses(b, q)', q \in reply[b]
        PROVE  Misses(b, q)
    BY <1>1, <1>3, <1>5 DEF Misses, WillShow, server
  <1>4. \A q \in Prompts : Misses(b, q)' => Misses(b, q) \/ LateReply(b, q)
    BY <1>1, <1>3, <1>5 DEF LateReply
  <1> QED
    BY <1>1, <1>2, <1>4, <1>5, <1>6, LocalSeen DEF SeenInv, SeenWereAsked

LEMMA StepSeen ==
    ASSUME SeenInv, [Next]_vars
    PROVE  SeenType' /\ SeenWereAsked' /\ PostsSettled' /\ NoneMissed
  <1> DEFINE Kept == SeenType' /\ SeenWereAsked' /\ PostsSettled' /\ NoneMissed
  <1>1. ASSUME NEW q \in Prompts, Raise(q) \/ Lapse(q)
        PROVE  Kept
    BY <1>1, RaiseSeen, LapseSeen
  <1>2. CASE Abort \/ Remove \/ StateChanged
    BY <1>2, AbortSeen, RemoveSeen, StateChangedSeen
  <1>3. CASE Disposed
    <2>1. life' = "disposed" /\ UNCHANGED <<asked, pending, conn, stream, dialogs, post, reply>>
      BY <1>3 DEF Disposed
    <2> QED
      BY <2>1, UntoldSeen, PostsStay
  <1>4. ASSUME NEW b \in Browsers, Handle(b)
        PROVE  Kept
    BY <1>4, HandleSeen
  <1>5. ASSUME NEW b \in Browsers,
               \/ Connect(b) \/ Greet(b) \/ Disconnect(b) \/ Deliver(b)
               \/ Reply(b) \/ ApplyState(b)
        PROVE  Kept
    <2>1. UNCHANGED <<post, asked, pending>>
      BY <1>5 DEF Connect, Greet, Disconnect, Deliver, Reply, ApplyState, server
    <2>2. PostsSettled'
      BY <2>1, PostsStay
    <2> QED
      BY <1>5, <2>2, ConnectionSeen, DeliverSeen, ReplySeen, ApplyStateSeen
  <1>6. ASSUME NEW b \in Browsers, NEW q \in Prompts, NEW value \in Answers, Respond(b, q, value)
        PROVE  Kept
    <2>1. /\ q \in asked /\ UNCHANGED <<life, asked, pending, conn, stream, dialogs, reply>>
          /\ post' = [post EXCEPT ![b] = [phase |-> "sent", on |-> q, value |-> value]]
      BY <1>6 DEF Respond, server, SeenInv, SeenWereAsked
    <2>2. PostsSettled'
      BY <2>1 DEF SeenInv, PostsSettled, LedgerInv, LedgerType
    <2> QED
      BY <2>1, <2>2, UntoldSeen
  <1>7. ASSUME NEW b \in Browsers, Responded(b)
        PROVE  Kept
    <2>1. UNCHANGED <<asked, pending>> /\ post' = [post EXCEPT ![b] = NoPost]
      BY <1>7 DEF Responded, server
    <2>2. PostsSettled'
      BY <2>1 DEF SeenInv, PostsSettled, LedgerInv, LedgerType, NoPost
    <2> QED
      BY <1>7, <2>2, RespondedSeen
  <1>8. CASE UNCHANGED vars
    BY <1>8, UntoldSeen, PostsStay DEF vars
  <1>9. CASE Next
    BY <1>1, <1>2, <1>3, <1>4, <1>5, <1>6, <1>7, <1>9, Zenon DEF Next
  <1> QED
    BY <1>8, <1>9

(* What browsers show and are about to show is what extensions asked. *)
THEOREM SeenInvariant == Spec => []SeenInv
<1>1. Init => SeenInv
  <2> SUFFICES ASSUME Init
               PROVE  SeenInv
    OBVIOUS
  <2>1. SeenType /\ PostsSettled
    BY DEF Init, SeenType, PostsSettled, NoPost
  <2>2. SeenWereAsked
    BY DEF Init, SeenWereAsked
  <2> QED
    BY <2>1, <2>2, InitLedger DEF SeenInv
<1>2. SeenInv /\ [Next]_vars => SeenInv'
  BY StepSeen, StepLedger DEF SeenInv
<1> QED
  BY <1>1, <1>2, PTL DEF Spec

(* Every variable has its type, the events under way to browsers included.  *)
THEOREM TypeCorrect == Spec => []TypeOK
<1>1. SeenInv => TypeOK
  BY DEF SeenInv, SeenType, LedgerInv, LedgerType, TypeOK
<1> QED
  BY <1>1, SeenInvariant, PTL

(* No prompt is shown that no extension asked, and an answer is accepted    *)
(* only when its prompt has settled.                                        *)
THEOREM NothingShownUnasked == Spec => []ShownWereAsked
<1>1. SeenInv => ShownWereAsked
  BY DEF SeenInv, SeenWereAsked, PostsSettled, ShownWereAsked
<1> QED
  BY <1>1, SeenInvariant, PTL

(* Nothing but a late reply makes a greeted browser miss a pending prompt.  *)
THEOREM EventsKeepPromptsShown == Spec => OnlyLateRepliesHide
<1>1. SeenInv /\ [Next]_vars =>
        [\A b \in Browsers, q \in Prompts :
           Misses(b, q)' => \/ Misses(b, q)
                            \/ reply[b] # None /\ reply'[b] = None /\ q \notin reply[b]]_vars
  BY StepSeen DEF NoneMissed, LateReply
<1> QED
  BY <1>1, SeenInvariant, PTL DEF Spec, OnlyLateRepliesHide

-------------------------------------------------------------------------------
(* Which session a browser shows *)

CONSTANTS Files, Fresh, MaxChoices, Open, MaxEvents, StreamRoom

VARIABLES loaded, files, focus, connection, fresh, events, snapshots, tasks, active, lists,
  client,
          intent, nonce, path, chosen, choice, taken

View == INSTANCE SessionSwitch WITH conn <- connection, stream <- snapshots, Room <- StreamRoom

(* The initial state: a hello was handled. *)
LEMMA InitSwitch ==
    ASSUME View!SessionSwitchAssumption, View!Init
    PROVE  View!SwitchInv
  <1> USE DEF View!Init, View!SessionSwitchAssumption
  <1>1. focus \in View!Sessions \union {None} /\ loaded \subseteq View!Sessions
          /\ files \subseteq View!Sessions
        /\ fresh = Fresh /\ Files \intersect Fresh = {} /\ loaded \subseteq Files /\ files = Files
    BY DEF View!Sessions
  <1>2. active \in View!Places /\ intent \in View!Places /\ choice \in View!Places
    BY <1>1 DEF View!Places, View!Drafts
  <1>3. View!TypeOK
    BY <1>1, <1>2 DEF View!TypeOK
  <1>4. View!TellsKnown /\ View!NoncesSound /\ View!TasksSound
    BY DEF View!TellsKnown, View!NoncesSound, View!TasksSound
  <1>5. View!ChoicePursued
    BY <1>1 DEF View!ChoicePursued
  <1> QED
    BY <1>3, <1>4, <1>5 DEF View!SwitchInv

(* What a handler leaves. *)
LEMMA OutcomesSound ==
    ASSUME View!SessionSwitchAssumption, View!TypeOK, NEW t \in tasks,
           t.op \in View!Ops \ {"draft", "details"},
           NEW o \in View!Outcomes(t)
    PROVE  /\ o.loaded \subseteq View!Sessions \ (fresh \ {o.session})
           /\ o.files \subseteq View!Sessions \ (fresh \ {o.session})
           /\ o.session \in o.loaded \union {None}
           /\ o.told \in o.loaded \union {None}
           /\ t.op \in View!Switches => o.session = t.on
           /\ t.op = "create" => o.session \in View!Sessions
           /\ o.told \in View!Sessions \union {None}
           /\ o.session \in View!Sessions \union {None}
  <1> USE DEF View!SessionSwitchAssumption, View!Outcome, View!Switches
  <1>1. loaded \subseteq View!Sessions \ fresh /\ files \subseteq View!Sessions \ fresh
          /\ focus \in loaded \union {None}
    BY DEF View!TypeOK
  <1>2. CASE t.op \in {"focus", "revert"}
    <2>1. t.on \in loaded /\ o = View!Outcome(loaded, files, t.on, t.on)
      BY <1>2 DEF View!Outcomes
    <2> QED BY <1>1, <1>2, <2>1
  <1>3. CASE t.op = "open"
    <2>1. t.on \in files /\ o = View!Outcome(loaded \union {t.on}, files, t.on, focus)
      BY <1>3 DEF View!Outcomes
    <2> QED BY <1>1, <1>3, <2>1
  <1>4. CASE t.op = "create"
    <2>1. PICK n \in fresh : o = View!Outcome(loaded \union {n}, files, n, focus)
      BY <1>4 DEF View!Outcomes
    <2>2. n \in View!Sessions
      BY DEF View!TypeOK, View!Sessions
    <2> QED BY <1>1, <1>4, <2>1, <2>2
  <1>5. CASE t.op = "fork"
    <2>1. PICK n \in fresh : o = View!Outcome(loaded \union {n}, files \union {n}, n, n)
      BY <1>5 DEF View!Outcomes
    <2>2. n \in View!Sessions
      BY DEF View!TypeOK, View!Sessions
    <2> QED BY <1>1, <1>5, <2>1, <2>2
  <1>6. CASE t.op = "rename"
    <2>1. o = View!Outcome(loaded, files, None, focus)
      BY <1>6 DEF View!Outcomes
    <2> QED BY <1>1, <1>6, <2>1
  <1>7. CASE t.op = "delete"
    <2>1. PICK a \in (loaded \ {t.on}) \union {None, focus} :
             /\ o = View!Outcome(loaded \ {t.on}, files \ {t.on}, None, a)
             /\ a \in (loaded \ {t.on}) \union {None}
      BY <1>1, <1>7 DEF View!Outcomes
    <2> QED BY <1>1, <1>7, <2>1
  <1> QED
    BY <1>2, <1>3, <1>4, <1>5, <1>6, <1>7 DEF View!Ops

(* A snapshot that is sent tells of sessions that exist. *)
LEMMA PublishKeeps ==
    ASSUME View!SessionSwitchAssumption, View!TypeOK, View!TellsKnown,
           NEW a \in View!Sessions \union {None}, View!Publish(a),
           connection' = connection, fresh' \subseteq fresh,
           loaded' \subseteq View!Sessions \ fresh', files' \subseteq View!Sessions \ fresh'
    PROVE  /\ snapshots' \in Seq(View!Messages) /\ Len(snapshots') <= StreamRoom
           /\ \A i \in DOMAIN snapshots' : snapshots'[i].client \in 1..connection'
                /\ (snapshots'[i].state.loaded \union snapshots'[i].state.files) \intersect fresh' = {}
  <1> DEFINE m == View!Snapshot(a)
  <1>0. snapshots \in Seq(View!Messages) /\ connection \in Nat /\ connection >= 1
          /\ StreamRoom \in Nat
    BY DEF View!TypeOK, View!SessionSwitchAssumption
  <1>1. m \in View!Messages /\ m.client = connection
        /\ (m.state.loaded \union m.state.files) \intersect fresh' = {}
    BY <1>0 DEF View!Messages, View!Snapshot, View!State, View!States
  <1>2. snapshots' = Append(snapshots, m) /\ Len(snapshots) < StreamRoom
    BY DEF View!Publish
  <1> HIDE DEF m
  <1>3. snapshots' \in Seq(View!Messages) /\ Len(snapshots') = Len(snapshots) + 1
    BY <1>0, <1>1, <1>2
  <1>5. \A i \in DOMAIN snapshots' : snapshots'[i] = m
          \/ (i \in DOMAIN snapshots /\ snapshots'[i] = snapshots[i])
    BY <1>0, <1>1, <1>2, <1>3
  <1>4. \A i \in DOMAIN snapshots : snapshots[i].client \in 1..connection
            /\ (snapshots[i].state.loaded \union snapshots[i].state.files) \intersect fresh = {}
    BY DEF View!TellsKnown, View!Known
  <1> QED
    BY <1>0, <1>1, <1>2, <1>3, <1>4, <1>5

(* A step that leaves the browser alone, and of the tasks at most answers one. *)
LEMMA ServerKeeps ==
    ASSUME View!SessionSwitchAssumption, View!SwitchInv,
           UNCHANGED <<View!view, client, path, View!history>>,
           \A u \in tasks' : u \in View!Tasks
             /\ (u.state.loaded \union u.state.files) \intersect fresh' = {},
           \A u \in tasks' \ tasks : \E t \in tasks :
                /\ <<u.op, u.on, u.nonce>> = <<t.op, t.on, t.nonce>>
                /\ t.op \in View!Switches => u.result = t.on
                /\ t.op = "create" => u.result \in View!Sessions,
           \A t \in tasks \ tasks' : \E u \in tasks' : <<u.op, u.nonce>> = <<t.op, t.nonce>>,
           fresh' \subseteq fresh,
           loaded' \subseteq View!Sessions \ fresh', files' \subseteq View!Sessions \ fresh',
           focus' \in loaded' \union {None},
           connection' \in Nat, connection <= connection',
           snapshots' \in Seq(View!Messages), Len(snapshots') <= StreamRoom,
           \A i \in DOMAIN snapshots' : snapshots'[i].client \in 1..connection'
                /\ (snapshots'[i].state.loaded \union snapshots'[i].state.files) \intersect fresh' = {}
    PROVE  View!SwitchInv'
  <1> USE DEF View!SwitchInv, View!view, View!history
  <1>1. View!TypeOK'
    BY DEF View!TypeOK
  <1>2. View!TellsKnown'
    BY DEF View!TellsKnown, View!Known
  <1>3. View!NoncesSound'
    BY DEF View!NoncesSound
  <1>4. View!TasksSound'
    <2> SUFFICES ASSUME NEW u \in tasks'
                 PROVE  /\ u.op \in View!Switches => u.on \in View!Sessions
                           /\ (u.at # "sent" => u.result = u.on)
                        /\ u.op = "create" /\ u.at # "sent" => u.result \in View!Sessions
      BY DEF View!TasksSound
    <2>1. CASE u \in tasks
      BY <2>1 DEF View!TasksSound
    <2>2. CASE u \notin tasks
      BY <2>2 DEF View!TasksSound
    <2> QED BY <2>1, <2>2
  <1>5. View!Opening => View!Opening'
    BY DEF View!Opening, View!IsCurrent
  <1>6. View!ChoicePursued'
    BY <1>5 DEF View!ChoicePursued, View!IsCurrent
  <1> QED
    BY <1>1, <1>2, <1>3, <1>4, <1>6

(* The server's steps *)
LEMMA ServeKeeps ==
    ASSUME View!SessionSwitchAssumption, View!SwitchInv, NEW t \in tasks, View!Serve(t)
    PROVE  View!SwitchInv'
  <1> USE DEF View!SwitchInv
  <1>1. PICK o \in View!Outcomes(t) :
            /\ loaded' = o.loaded /\ files' = o.files
            /\ fresh' = fresh \ {o.session}
            /\ focus' = IF t.client = connection /\ o.session # None THEN o.session
                        ELSE IF focus \in o.loaded THEN focus ELSE o.told
            /\ View!Publish(IF t.client = connection THEN o.told ELSE focus')
            /\ \E a \in IF o.session # None THEN {o.session}
                         ELSE IF t.client = connection THEN {focus'} ELSE loaded' \union {None} :
                    tasks' = (tasks \ {t}) \union
                        {[t EXCEPT !.at = "answered", !.result = o.session,
                                   !.state = View!State(a, loaded', files')]}
    BY DEF View!Serve
  <1>2. t.op \in View!Ops \ {"draft", "details"} /\ UNCHANGED <<connection, events, View!view,
          client, path, View!history>>
    BY DEF View!Serve
  <1>3. /\ o.loaded \subseteq View!Sessions \ (fresh \ {o.session})
        /\ o.files \subseteq View!Sessions \ (fresh \ {o.session})
        /\ o.session \in o.loaded \union {None}
        /\ o.told \in o.loaded \union {None}
        /\ t.op \in View!Switches => o.session = t.on
        /\ t.op = "create" => o.session \in View!Sessions
        /\ o.told \in View!Sessions \union {None}
        /\ o.session \in View!Sessions \union {None}
    BY <1>2, OutcomesSound
  <1>4. /\ fresh' \subseteq fresh
        /\ loaded' \subseteq View!Sessions \ fresh' /\ files' \subseteq View!Sessions \ fresh'
        /\ connection \in Nat
    BY <1>1, <1>3 DEF View!TypeOK
  <1>5. focus' \in loaded' \union {None}
    BY <1>1, <1>3 DEF View!TypeOK
  <1>6. /\ snapshots' \in Seq(View!Messages) /\ Len(snapshots') <= StreamRoom
        /\ \A i \in DOMAIN snapshots' : snapshots'[i].client \in 1..connection'
             /\ (snapshots'[i].state.loaded \union snapshots'[i].state.files) \intersect fresh' = {}
    <2> DEFINE a == IF t.client = connection THEN o.told ELSE focus'
    <2>1. a \in View!Sessions \union {None}
      BY <1>3, <1>4, <1>5
    <2>2. View!Publish(a)
      BY <1>1
    <2> HIDE DEF a
    <2> QED
      BY <1>2, <1>4, <2>1, <2>2, PublishKeeps
  <1>7. PICK a \in View!Sessions \union {None} :
            tasks' = (tasks \ {t}) \union
                {[t EXCEPT !.at = "answered", !.result = o.session,
                           !.state = View!State(a, loaded', files')]}
    BY <1>1, <1>3, <1>4, <1>5
  <1> DEFINE w == [t EXCEPT !.at = "answered", !.result = o.session,
                            !.state = View!State(a, loaded', files')]
  <1>8. t \in View!Tasks
    BY DEF View!TypeOK
  <1>9. /\ w \in View!Tasks /\ (w.state.loaded \union w.state.files) \intersect fresh' = {}
        /\ <<w.op, w.on, w.nonce>> = <<t.op, t.on, t.nonce>> /\ w.result = o.session
    <2>1. View!State(a, loaded', files') \in View!States
      BY <1>4 DEF View!State, View!States
    <2>2. w \in View!Tasks
      BY <1>3, <1>8, <2>1 DEF View!Tasks
    <2>3. (w.state.loaded \union w.state.files) \intersect fresh' = {}
      BY <1>4, <1>8 DEF View!Known, View!State, View!Tasks
    <2> QED
      BY <1>8, <2>2, <2>3 DEF View!Tasks
  <1> HIDE DEF w
  <1>10. tasks' = (tasks \ {t}) \union {w}
    BY <1>7 DEF w
  <1>11. \A u \in tasks : u \in View!Tasks
           /\ (u.state.loaded \union u.state.files) \intersect fresh' = {}
    BY <1>4 DEF View!TypeOK, View!TellsKnown, View!Known
  <1> HIDE DEF View!SwitchInv
  <1> QED
    BY <1>2, <1>3, <1>4, <1>5, <1>6, <1>9, <1>10, <1>11, ServerKeeps

LEMMA TasksKept ==
    ASSUME View!SwitchInv, UNCHANGED tasks, fresh' \subseteq fresh
    PROVE  \A u \in tasks' :
                u \in View!Tasks /\ (u.state.loaded \union u.state.files) \intersect fresh' = {}
BY DEF View!SwitchInv, View!TypeOK, View!TellsKnown, View!Known

LEMMA HeartbeatKeeps ==
    ASSUME View!SessionSwitchAssumption, View!SwitchInv, View!Heartbeat
    PROVE  View!SwitchInv'
  <1>1. UNCHANGED <<View!server, tasks, View!view, client, path, View!history>>
          /\ View!Publish(focus)
    BY DEF View!Heartbeat
  <1>2. UNCHANGED <<loaded, files, focus, connection, fresh>>
    BY <1>1 DEF View!server
  <1>3. /\ loaded \subseteq View!Sessions \ fresh /\ files \subseteq View!Sessions \ fresh
        /\ focus \in loaded \union {None} /\ connection \in Nat /\ View!TypeOK /\ View!TellsKnown
    BY DEF View!SwitchInv, View!TypeOK
  <1>4. /\ snapshots' \in Seq(View!Messages) /\ Len(snapshots') <= StreamRoom
        /\ \A i \in DOMAIN snapshots' : snapshots'[i].client \in 1..connection'
             /\ (snapshots'[i].state.loaded \union snapshots'[i].state.files) \intersect fresh' = {}
    BY <1>1, <1>2, <1>3, PublishKeeps
  <1> QED
    BY <1>1, <1>2, <1>3, <1>4, TasksKept, ServerKeeps

LEMMA RemoveKeeps ==
    ASSUME View!SessionSwitchAssumption, View!SwitchInv, NEW s \in View!Sessions, View!Remove(s)
    PROVE  View!SwitchInv'
  <1>1. /\ UNCHANGED <<connection, fresh, tasks, View!view, client, path, View!history>>
           /\ View!Publish(focus')
        /\ loaded' \subseteq loaded /\ files' \subseteq files
        /\ focus' \in loaded' \union {None} \/ (focus' = focus /\ focus # s)
        /\ loaded' = loaded \ {s}
    BY DEF View!Remove
  <1>3. /\ loaded \subseteq View!Sessions \ fresh /\ files \subseteq View!Sessions \ fresh
        /\ focus \in loaded \union {None} /\ connection \in Nat /\ View!TypeOK /\ View!TellsKnown
    BY DEF View!SwitchInv, View!TypeOK
  <1>2. /\ loaded' \subseteq View!Sessions \ fresh' /\ files' \subseteq View!Sessions \ fresh'
        /\ focus' \in loaded' \union {None} /\ focus' \in View!Sessions \union {None}
    BY <1>1, <1>3
  <1> DEFINE a == focus'
  <1>4. /\ snapshots' \in Seq(View!Messages) /\ Len(snapshots') <= StreamRoom
        /\ \A i \in DOMAIN snapshots' : snapshots'[i].client \in 1..connection'
             /\ (snapshots'[i].state.loaded \union snapshots'[i].state.files) \intersect fresh' = {}
    <2>1. a \in View!Sessions \union {None} /\ View!Publish(a)
      BY <1>1, <1>2
    <2> HIDE DEF a
    <2> QED
      BY <1>1, <1>2, <1>3, <2>1, PublishKeeps
  <1> QED
    BY <1>1, <1>2, <1>3, <1>4, TasksKept, ServerKeeps

LEMMA ReconnectKeeps ==
    ASSUME View!SessionSwitchAssumption, View!SwitchInv, View!Reconnect
    PROVE  View!SwitchInv'
  <1>1. /\ UNCHANGED <<loaded, files, fresh, tasks, View!view, client, path, View!history>>
        /\ connection' = connection + 1 /\ focus' \in loaded \union {None}
    BY DEF View!Reconnect
  <1>2. /\ loaded \subseteq View!Sessions \ fresh /\ files \subseteq View!Sessions \ fresh
        /\ connection \in Nat /\ StreamRoom \in Nat \ {0, 1}
    BY DEF View!SwitchInv, View!TypeOK, View!SessionSwitchAssumption
  <1>3. PICK s, h \in View!Messages :
            /\ snapshots' = <<h, s>> /\ s.client = connection' /\ h.client = connection'
            /\ (s.state.loaded \union s.state.files) \intersect fresh' = {}
            /\ (h.state.loaded \union h.state.files) \intersect fresh' = {}
    <2> DEFINE st == View!State(focus', loaded', files')
               s == [type |-> "state_snapshot", client |-> connection + 1, state |-> st]
               h == [type |-> "hello", client |-> connection + 1, state |-> st]
               r == [View!Snapshot(focus') EXCEPT !.client = connection']
    <2>5. View!Snapshot(focus') = [type |-> "state_snapshot", client |-> connection, state |-> st]
      BY DEF View!Snapshot
    <2>6. st \in View!States /\ (st.loaded \union st.files) \intersect fresh' = {}
      BY <1>1, <1>2 DEF View!State, View!States
    <2> HIDE DEF st
    <2>7. r = s
      BY <1>1, <2>5
    <2>1. snapshots' = <<[r EXCEPT !.type = "hello"], r>>
      BY DEF View!Reconnect
    <2> HIDE DEF r
    <2>0. [r EXCEPT !.type = "hello"] = h
      BY <2>7
    <2>3. s \in View!Messages /\ h \in View!Messages
      BY <1>2, <2>6 DEF View!Messages
    <2> QED
      BY <1>1, <2>0, <2>1, <2>3, <2>6, <2>7
  <1>4. /\ snapshots' \in Seq(View!Messages) /\ Len(snapshots') = 2
        /\ \A i \in DOMAIN snapshots' : snapshots'[i] = h \/ snapshots'[i] = s
    BY <1>3
  <1>5. \A i \in DOMAIN snapshots' : snapshots'[i].client \in 1..connection'
             /\ (snapshots'[i].state.loaded \union snapshots'[i].state.files) \intersect fresh' = {}
    BY <1>1, <1>2, <1>3, <1>4
  <1> QED
    BY <1>1, <1>2, <1>4, <1>5, TasksKept, ServerKeeps

(* What the browser makes of a state that it is told. *)
LEMMA ResolveTyped ==
    ASSUME View!SessionSwitchAssumption, View!TypeOK, NEW state \in View!States,
           NEW preserve \in BOOLEAN,
           View!Resolve(state, preserve)
    PROVE  /\ active' \in View!Places /\ intent' \in {intent, None}
           /\ intent \in View!Drafts \/ ~preserve => intent' = intent
  <1>1. state.active \in View!Places /\ active \in View!Places /\ intent \in View!Places
          /\ None \in View!Places
    BY DEF View!States, View!Places, View!TypeOK
  <1>2. intent \in View!Drafts => intent # None /\ View!Valid(intent, state)
    BY DEF View!Valid, View!Drafts, View!SessionSwitchAssumption
  <1> QED
    BY <1>1, <1>2 DEF View!Resolve

LEMMA DeliverKeeps ==
    ASSUME View!SessionSwitchAssumption, View!SwitchInv, View!Deliver
    PROVE  View!SwitchInv'
  <1> DEFINE m == Head(snapshots)
  <1>1. /\ snapshots # <<>> /\ snapshots' = Tail(snapshots)
        /\ UNCHANGED <<loaded, files, focus, connection, fresh, tasks, nonce, chosen, choice,
           taken>>
    BY DEF View!Deliver, View!server, View!history
  <1>2. View!TypeOK /\ snapshots \in Seq(View!Messages) /\ StreamRoom \in Nat
          /\ Len(snapshots) <= StreamRoom
    BY DEF View!SwitchInv, View!TypeOK, View!SessionSwitchAssumption
  <1>3. /\ m \in View!Messages /\ m = snapshots[1] /\ 1 \in DOMAIN snapshots
        /\ snapshots' \in Seq(View!Messages) /\ Len(snapshots') <= StreamRoom
        /\ \A i \in DOMAIN snapshots' : i + 1 \in DOMAIN snapshots
           /\ snapshots'[i] = snapshots[i + 1]
    BY <1>1, <1>2
  <1>4. m.state \in View!States /\ m.client \in 1..connection /\ View!Known(m.state)
    BY <1>3 DEF View!SwitchInv, View!TellsKnown, View!Messages
  <1>5. m.state.loaded \subseteq View!Sessions \ fresh
          /\ m.state.files \subseteq View!Sessions \ fresh
    BY <1>4 DEF View!Known, View!States
  <1>6. /\ active' \in View!Places /\ intent' \in {intent, None}
        /\ intent \in View!Drafts => intent' = intent
        /\ client' \in 1..connection /\ path' \in View!Sessions \union {None}
        /\ lists'.loaded \subseteq View!Sessions \ fresh
           /\ lists'.files \subseteq View!Sessions \ fresh
    <2> HIDE DEF m
    <2>0. client \in 1..connection /\ path \in View!Sessions \union {None}
          /\ lists.loaded \subseteq View!Sessions \ fresh
             /\ lists.files \subseteq View!Sessions \ fresh
      BY <1>2 DEF View!TypeOK
    <2>1. CASE client' = m.client /\ View!ApplyState(m.state) /\ UNCHANGED path
      <3>1. View!Resolve(m.state, FALSE)
              /\ lists' = [loaded |-> m.state.loaded, files |-> m.state.files]
        BY <2>1 DEF View!ApplyState
      <3> QED
        BY <1>2, <1>4, <1>5, <2>0, <2>1, <3>1, ResolveTyped
    <2>2. CASE View!ApplySnapshot(m.state)
               /\ path' = (IF active' \in View!Sessions THEN active' ELSE path)
               /\ UNCHANGED client
      <3>1. View!Resolve(m.state, TRUE)
            /\ lists' = [loaded |-> m.state.loaded,
                         files |-> IF m.state.files = {} THEN lists.files ELSE m.state.files]
        BY <2>2 DEF View!ApplySnapshot
      <3> QED
        BY <1>2, <1>4, <1>5, <2>0, <2>2, <3>1, ResolveTyped
    <2> QED
      BY <2>1, <2>2 DEF View!Deliver, m
  <1>7. View!TypeOK'
    BY <1>1, <1>2, <1>3, <1>6 DEF View!TypeOK, View!Places
  <1>8. View!TellsKnown'
    BY <1>1, <1>3 DEF View!SwitchInv, View!TellsKnown, View!Known
  <1>9. View!NoncesSound' /\ View!TasksSound'
    BY <1>1 DEF View!SwitchInv, View!NoncesSound, View!TasksSound
  <1>10. View!Opening => View!Opening'
    BY <1>1 DEF View!Opening, View!IsCurrent
  <1>11. View!ChoicePursued'
    <2> SUFFICES ASSUME taken = "no", choice # None
                 PROVE  /\ \A t \in tasks : t.op \in View!Switches /\ View!IsCurrent(t)
                           => t.on = choice
                        /\ \/ intent' = choice
                           \/ intent' = None /\ choice \in View!Sessions
                           \/ View!Opening
      BY <1>1, <1>10 DEF View!ChoicePursued, View!IsCurrent
    <2>1. choice \in View!Sessions \union View!Drafts
      BY <1>2 DEF View!TypeOK, View!Places
    <2> QED
      BY <1>6, <2>1 DEF View!SwitchInv, View!ChoicePursued
  <1> QED
    BY <1>7, <1>8, <1>9, <1>11 DEF View!SwitchInv

(* An operation of the user begins, with at most one task of its own. *)
LEMMA UserKeeps ==
    ASSUME View!SessionSwitchAssumption, View!SwitchInv, UNCHANGED <<View!server, snapshots,
           client, lists>>,
           NEW n \in View!Tasks, tasks' \in {tasks, tasks \union {n}},
           n.nonce = nonce', n.state = View!Untold, n.op \in View!Switches
             => n.on \in View!Sessions,
           n.at = "sent" \/ n.op = "draft",
           nonce' \in {nonce, nonce + 1}, chosen' \in 0..MaxChoices,
           {active', intent', choice'} \subseteq View!Places,
             path' \in View!Sessions \union {None},
           taken' \in {"no", "create", "fork", "route"}, View!ChoicePursued'
    PROVE  View!SwitchInv'
  <1> USE DEF View!SwitchInv
  <1>1. UNCHANGED <<loaded, files, focus, connection, fresh>>
    BY DEF View!server
  <1>2. nonce \in Nat /\ nonce' \in Nat /\ nonce <= nonce'
    BY DEF View!TypeOK
  <1>3. View!TypeOK'
    BY <1>1, <1>2 DEF View!TypeOK
  <1>4. View!TellsKnown'
    BY <1>1 DEF View!TellsKnown, View!Known, View!Untold, View!State
  <1>5. View!NoncesSound'
    <2> SUFFICES ASSUME NEW u \in tasks' PROVE u.nonce <= nonce'
      BY DEF View!NoncesSound
    <2>1. CASE u \in tasks
      BY <1>2, <2>1 DEF View!NoncesSound, View!TypeOK, View!Tasks
    <2>2. CASE u = n
      BY <1>2, <2>2
    <2> QED BY <2>1, <2>2
  <1>6. View!TasksSound'
    BY DEF View!TasksSound, View!Switches
  <1> QED
    BY <1>3, <1>4, <1>5, <1>6

(* A new nonce takes the view from every switch before it. *)
LEMMA SwitchAnew ==
    ASSUME View!SwitchInv, nonce' = nonce + 1, choice' # None, NEW n \in View!Tasks,
           tasks' \in {tasks, tasks \union {n}}, n.op \in View!Switches => n.on = choice',
           \/ intent' = choice'
           \/ n.op = "open" /\ n \in tasks' /\ n.nonce = nonce'
    PROVE  View!ChoicePursued'
  <1>1. \A t \in tasks : t.nonce # nonce'
    BY DEF View!SwitchInv, View!NoncesSound, View!TypeOK, View!Tasks
  <1> QED
    BY <1>1 DEF View!ChoicePursued, View!Opening, View!IsCurrent

(* The user's operations *)
LEMMA StartDraftKeeps ==
    ASSUME View!SessionSwitchAssumption, View!SwitchInv, View!Operation, View!StartDraft,
           path' \in View!Sessions \union {None}
    PROVE  View!SwitchInv'
  <1>1. View!TypeOK /\ chosen \in Nat /\ MaxChoices \in Nat /\ nonce \in Nat
    BY DEF View!SwitchInv, View!TypeOK, View!SessionSwitchAssumption
  <1>2. /\ UNCHANGED <<View!server, snapshots, client, lists>> /\ chosen' \in 0..MaxChoices
        /\ chosen' \in View!Drafts /\ chosen' \in View!Places /\ chosen' # None
    BY <1>1 DEF View!Operation, View!Drafts, View!Places, View!SessionSwitchAssumption
  <1>3. /\ nonce' = nonce + 1 /\ intent' = chosen' /\ active' = chosen'
        /\ choice' = chosen' /\ taken' = "no"
        /\ tasks' = tasks \union {[View!Task("draft", chosen', TRUE) EXCEPT !.at = "details"]}
    BY <1>2 DEF View!StartDraft, View!Begin, View!Chosen
  <1> DEFINE n == [View!Task("draft", chosen', TRUE) EXCEPT !.at = "details"]
             on == chosen'
  <1>4. n \in View!Tasks /\ n.nonce = nonce' /\ n.state = View!Untold /\ n.op = "draft"
    <2>1. on \in View!Places /\ nonce' \in Nat /\ "draft" \in View!Ops
      BY <1>1, <1>2, <1>3 DEF View!Ops
    <2> HIDE DEF on
    <2>2. /\ View!Task("draft", on, TRUE) \in View!Tasks
             /\ View!Task("draft", on, TRUE).nonce = nonce'
          /\ View!Task("draft", on, TRUE).state = View!Untold
             /\ View!Task("draft", on, TRUE).op = "draft"
          /\ [View!Task("draft", on, TRUE) EXCEPT !.at = "details"] \in View!Tasks
      <3>1. View!Untold \in View!States /\ client \in Nat
        BY <1>1 DEF View!Untold, View!State, View!States, View!TypeOK
      <3> QED
        BY <2>1, <3>1 DEF View!Task, View!Tasks
    <2>3. [View!Task("draft", on, TRUE) EXCEPT !.at = "details"].nonce = nonce'
          /\ [View!Task("draft", on, TRUE) EXCEPT !.at = "details"].state = View!Untold
          /\ [View!Task("draft", on, TRUE) EXCEPT !.at = "details"].op = "draft"
      BY <2>2 DEF View!Tasks
    <2> QED
      BY <2>2, <2>3 DEF on
  <1> HIDE DEF n
  <1>5. tasks' = tasks \union {n}
    BY <1>3 DEF n
  <1>6. View!ChoicePursued'
    BY <1>2, <1>3, <1>4, <1>5, SwitchAnew DEF View!Switches
  <1> QED
    BY <1>1, <1>2, <1>3, <1>4, <1>5, <1>6, UserKeeps DEF View!Switches

(* A switch of the user's to a place, with a task or none. *)
LEMMA SwitchKeeps ==
    ASSUME View!SessionSwitchAssumption, View!SwitchInv, View!Operation,
           path' \in View!Sessions \union {None},
           NEW place \in View!Sessions \union View!Drafts, NEW sync \in BOOLEAN,
             View!Chosen(place),
           \/ View!Begin(place) /\ UNCHANGED tasks
           \/ View!Begin(place) /\ place \in View!Sessions /\ View!Start("focus", place, sync)
           \/ (View!Begin(place) \/ View!Begin(None)) /\ place \in View!Sessions
              /\ View!Start("open", place, sync)
    PROVE  View!SwitchInv'
  <1>1. View!TypeOK /\ chosen \in Nat /\ MaxChoices \in Nat /\ nonce \in Nat
        /\ active \in View!Places /\ intent \in View!Places /\ place \in View!Places
           /\ place # None
    BY DEF View!SwitchInv, View!TypeOK, View!SessionSwitchAssumption, View!Places, View!Drafts
  <1>2. /\ UNCHANGED <<View!server, snapshots, client, lists>> /\ chosen' \in 0..MaxChoices
    BY <1>1 DEF View!Operation
  <1>3. /\ nonce' = nonce + 1 /\ nonce' \in Nat /\ choice' = place /\ taken' = "no"
        /\ active' \in View!Places /\ intent' \in View!Places
    BY <1>1 DEF View!Begin, View!Chosen
  <1>4. ASSUME NEW op \in {"focus", "open"}
        PROVE  /\ View!Task(op, place, sync) \in View!Tasks
               /\ View!Task(op, place, sync).nonce = nonce'
                  /\ View!Task(op, place, sync).state = View!Untold
               /\ View!Task(op, place, sync).op = op /\ View!Task(op, place, sync).on = place
               /\ View!Task(op, place, sync).at = "sent"
    <2>1. op \in View!Ops /\ View!Untold \in View!States /\ client \in Nat
      BY <1>1 DEF View!Ops, View!Untold, View!State, View!States, View!TypeOK
    <2> QED
      BY <1>1, <1>3, <2>1 DEF View!Task, View!Tasks
  <1>5. CASE View!Begin(place) /\ UNCHANGED tasks
    <2>0. PICK n \in View!Tasks : n.op = "draft" /\ n.nonce = nonce' /\ n.state = View!Untold
      <3>1. View!Untold \in View!States
        BY DEF View!Untold, View!State, View!States
      <3>2. [op |-> "draft", on |-> place, sync |-> TRUE, nonce |-> nonce', client |-> 0,
             at |-> "sent", result |-> None, state |-> View!Untold] \in View!Tasks
        BY <1>1, <1>3, <3>1 DEF View!Tasks, View!Ops
      <3> QED BY <3>2
    <2>1. intent' = place
      BY <1>1, <1>5 DEF View!Begin
    <2>2. View!ChoicePursued'
      BY <1>1, <1>3, <1>5, <2>0, <2>1, SwitchAnew DEF View!Switches
    <2> QED
      BY <1>1, <1>2, <1>3, <1>5, <2>0, <2>2, UserKeeps DEF View!Switches
  <1>6. CASE View!Begin(place) /\ place \in View!Sessions /\ View!Start("focus", place, sync)
    <2>1. intent' = place
      BY <1>1, <1>6 DEF View!Begin
    <2> DEFINE n == View!Task("focus", place, sync)
    <2>2. tasks' = tasks \union {n}
      BY <1>6 DEF View!Start
    <2>3. /\ n \in View!Tasks /\ n.nonce = nonce' /\ n.state = View!Untold /\ n.op = "focus"
          /\ n.on = place /\ n.at = "sent"
      BY <1>4
    <2> HIDE DEF n
    <2>4. View!ChoicePursued'
      BY <1>1, <1>3, <2>1, <2>2, <2>3, SwitchAnew
    <2> QED
      BY <1>1, <1>2, <1>3, <1>6, <2>2, <2>3, <2>4, UserKeeps
  <1>7. CASE (View!Begin(place) \/ View!Begin(None)) /\ place \in View!Sessions
             /\ View!Start("open", place, sync)
    <2> DEFINE n == View!Task("open", place, sync)
    <2>2. tasks' = tasks \union {n}
      BY <1>7 DEF View!Start
    <2>3. /\ n \in View!Tasks /\ n.nonce = nonce' /\ n.state = View!Untold /\ n.op = "open"
          /\ n.on = place /\ n.at = "sent"
      BY <1>4
    <2> HIDE DEF n
    <2>4. View!ChoicePursued'
      BY <1>1, <1>3, <2>2, <2>3, SwitchAnew
    <2> QED
      BY <1>1, <1>2, <1>3, <1>7, <2>2, <2>3, <2>4, UserKeeps
  <1> QED
    BY <1>5, <1>6, <1>7

LEMMA SomeTask ==
    ASSUME View!SessionSwitchAssumption, nonce' \in Nat
    PROVE  \E n \in View!Tasks : n.op = "draft" /\ n.nonce = nonce' /\ n.state = View!Untold
  <1>1. View!Untold \in View!States
    BY DEF View!Untold, View!State, View!States
  <1>2. [op |-> "draft", on |-> None, sync |-> TRUE, nonce |-> nonce', client |-> 0,
         at |-> "sent", result |-> None, state |-> View!Untold] \in View!Tasks
    BY <1>1 DEF View!Tasks, View!Ops, View!Places
  <1> QED
    BY <1>2

LEMMA ClickKeeps ==
    ASSUME View!SessionSwitchAssumption, View!SwitchInv,
           NEW s \in View!Sessions \union View!Drafts, View!Click(s)
    PROVE  View!SwitchInv'
  <1>1. /\ View!Operation /\ path' \in View!Sessions \union {None} /\ View!Chosen(s)
        /\ \A u \in lists.loaded \union lists.files : u \in View!Sessions
    BY DEF View!Click, View!SwitchInv, View!TypeOK
  <1>2. \/ View!Begin(s) /\ UNCHANGED tasks
        \/ View!Begin(s) /\ s \in View!Sessions /\ View!Start("focus", s, TRUE)
        \/ View!Begin(None) /\ s \in View!Sessions /\ View!Start("open", s, TRUE)
    BY <1>1 DEF View!Click
  <1> QED
    BY <1>1, <1>2, SwitchKeeps

LEMMA GoToKeeps ==
    ASSUME View!SessionSwitchAssumption, View!SwitchInv,
           NEW place \in View!Sessions \union {None}, View!GoTo(place)
    PROVE  View!SwitchInv'
  <1>1. /\ View!Operation /\ path' = place /\ path' \in View!Sessions \union {None}
        /\ \A u \in lists.loaded \union lists.files : u \in View!Sessions
        /\ View!TypeOK /\ nonce \in Nat
    BY DEF View!GoTo, View!SwitchInv, View!TypeOK
  <1>2. CASE /\ place # None /\ place = active /\ choice' = place
             /\ taken' = (IF View!Uncontested(place) THEN "no" ELSE "route")
             /\ UNCHANGED <<tasks, nonce, intent, active>>
    <2>1. place \in View!Sessions /\ place \in View!Places
      BY <1>2 DEF View!Places
    <2>2. View!ChoicePursued'
      BY <1>2, <2>1 DEF View!ChoicePursued, View!Uncontested, View!IsCurrent
    <2>3. PICK n \in View!Tasks : n.op = "draft" /\ n.nonce = nonce' /\ n.state = View!Untold
      BY <1>1, <1>2, SomeTask
    <2>4. /\ UNCHANGED <<View!server, snapshots, client, lists>> /\ chosen' \in 0..MaxChoices
          /\ {active', intent', choice'} \subseteq View!Places
      BY <1>1, <1>2, <2>1 DEF View!Operation, View!TypeOK, View!SessionSwitchAssumption
    <2> QED
      BY <1>1, <1>2, <2>2, <2>3, <2>4, UserKeeps DEF View!Switches
  <1>3. CASE \/ /\ place \in lists.loaded
                /\ View!Chosen(place) /\ View!Begin(place) /\ View!Start("focus", place, FALSE)
             \/ /\ place \in lists.files \ lists.loaded
                /\ View!Chosen(place) /\ View!Begin(place) /\ View!Start("open", place, FALSE)
    BY <1>1, <1>3, SwitchKeeps
  <1>4. CASE View!StartDraft
    BY <1>1, <1>4, StartDraftKeeps
  <1> QED
    BY <1>2, <1>3, <1>4 DEF View!GoTo

(* An operation that is no switch begins. *)
LEMMA StartKeeps ==
    ASSUME View!SessionSwitchAssumption, View!SwitchInv, View!Operation,
           UNCHANGED <<nonce, intent, active, path, choice, taken>>,
           NEW op \in View!Ops \ View!Switches, NEW on \in View!Places, NEW sync \in BOOLEAN,
             View!Start(op, on, sync)
    PROVE  View!SwitchInv'
  <1> DEFINE n == View!Task(op, on, sync)
  <1>1. View!TypeOK /\ chosen \in Nat /\ MaxChoices \in Nat /\ nonce \in Nat
    BY DEF View!SwitchInv, View!TypeOK, View!SessionSwitchAssumption
  <1>2. View!Untold \in View!States /\ client \in Nat
    BY <1>1 DEF View!Untold, View!State, View!States, View!TypeOK
  <1>3. /\ n \in View!Tasks /\ n.nonce = nonce' /\ n.state = View!Untold
           /\ n.op \notin View!Switches
        /\ n.at = "sent"
    BY <1>1, <1>2 DEF View!Task, View!Tasks
  <1>4. tasks' = tasks \union {n}
    BY DEF View!Start
  <1> HIDE DEF n
  <1>5. View!ChoicePursued'
    BY <1>3, <1>4 DEF View!SwitchInv, View!ChoicePursued, View!Opening, View!IsCurrent,
       View!Switches
  <1>6. /\ UNCHANGED <<View!server, snapshots, client, lists>> /\ chosen' \in 0..MaxChoices
        /\ {active', intent', choice'} \subseteq View!Places
           /\ path' \in View!Sessions \union {None}
        /\ taken' \in {"no", "create", "fork", "route"}
    BY <1>1 DEF View!Operation, View!TypeOK
  <1> QED
    BY <1>1, <1>3, <1>4, <1>5, <1>6, UserKeeps

LEMMA PromptKeeps ==
    ASSUME View!SessionSwitchAssumption, View!SwitchInv, View!Prompt
    PROVE  View!SwitchInv'
  <1>1. active \in View!Places /\ "create" \in View!Ops \ View!Switches
    BY DEF View!SwitchInv, View!TypeOK, View!Ops, View!Switches
  <1>2. View!Operation /\ UNCHANGED <<nonce, intent, active, path, choice, taken>>
        /\ View!Start("create", active, FALSE)
    BY DEF View!Prompt
  <1> DEFINE on == active
  <1>3. on \in View!Places /\ View!Start("create", on, FALSE)
    BY <1>1, <1>2
  <1> HIDE DEF on
  <1> QED
    BY <1>1, <1>2, <1>3, StartKeeps

LEMMA ChangeKeeps ==
    ASSUME View!SessionSwitchAssumption, View!SwitchInv, NEW s \in View!Sessions,
           NEW op \in {"rename", "delete", "fork", "revert"}, View!Change(op, s)
    PROVE  View!SwitchInv'
  <1>1. s \in View!Places /\ op \in View!Ops \ View!Switches
    BY DEF View!Places, View!Ops, View!Switches
  <1>2. View!Operation /\ UNCHANGED <<nonce, intent, active, path, choice, taken>>
          /\ View!Start(op, s, TRUE)
    BY DEF View!Change
  <1> QED
    BY <1>1, <1>2, StartKeeps

(* What comes of an answer. *)
LEMMA AnswersKeep ==
    ASSUME View!SessionSwitchAssumption, View!SwitchInv, UNCHANGED <<View!server, snapshots,
           client, chosen>>,
           NEW t \in tasks, NEW u \in View!Tasks,
             tasks' \in {tasks \ {t}, (tasks \ {t}) \union {u}},
           <<u.op, u.on, u.nonce, u.result, u.state>> = <<t.op, t.on, t.nonce, t.result,
             View!Untold>>,
           t.at # "sent" \/ tasks' = tasks \ {t},
           nonce' \in {nonce, nonce + 1},
           {active', intent', choice'} \subseteq View!Places,
             path' \in View!Sessions \union {None},
           lists' = lists \/ lists' = [loaded |-> t.state.loaded, files |-> t.state.files],
           taken' \in {"no", "create", "fork", "route"}, View!ChoicePursued'
    PROVE  View!SwitchInv'
  <1> USE DEF View!SwitchInv
  <1>1. UNCHANGED <<loaded, files, focus, connection, fresh>>
    BY DEF View!server
  <1>2. nonce \in Nat /\ nonce' \in Nat /\ nonce <= nonce' /\ t \in View!Tasks
          /\ View!Known(t.state)
    BY DEF View!TypeOK, View!TellsKnown
  <1>3. t.state.loaded \subseteq View!Sessions \ fresh
          /\ t.state.files \subseteq View!Sessions \ fresh
    BY <1>2 DEF View!Known, View!Tasks, View!States
  <1>4. View!TypeOK'
    BY <1>1, <1>2, <1>3 DEF View!TypeOK
  <1>5. View!TellsKnown'
    BY <1>1 DEF View!TellsKnown, View!Known, View!Untold, View!State
  <1>6. View!NoncesSound'
    BY <1>2 DEF View!NoncesSound, View!TypeOK, View!Tasks
  <1>7. View!TasksSound'
    BY DEF View!TasksSound
  <1> QED
    BY <1>4, <1>5, <1>6, <1>7

(* What of the pursuit of the choice a task that ends, or goes on, leaves. *)
LEMMA PursuitKept ==
    ASSUME View!SwitchInv, UNCHANGED <<nonce, choice, taken>>, NEW t \in tasks,
           NEW u \in View!Tasks,
           <<u.op, u.on, u.nonce>> = <<t.op, t.on, t.nonce>>,
           \/ intent' = intent /\ tasks' = (tasks \ {t}) \union {u}
           \/ intent' = intent /\ tasks' = tasks \ {t} /\ ~(t.op = "open" /\ View!IsCurrent(t))
           \/ intent' = t.on /\ tasks' = tasks \ {t} /\ t.op = "open" /\ View!IsCurrent(t)
    PROVE  View!ChoicePursued'
  <1> SUFFICES ASSUME taken = "no", choice # None
               PROVE  /\ \A w \in tasks' : w.op \in View!Switches /\ w.nonce = nonce
                         => w.on = choice
                      /\ \/ intent' = choice
                         \/ intent' = None /\ choice \in View!Sessions
                         \/ \E w \in tasks' : w.op = "open" /\ w.nonce = nonce
    BY DEF View!ChoicePursued, View!Opening, View!IsCurrent
  <1>1. /\ \A w \in tasks : w.op \in View!Switches /\ w.nonce = nonce => w.on = choice
        /\ \/ intent = choice
           \/ intent = None /\ choice \in View!Sessions
           \/ \E w \in tasks : w.op = "open" /\ w.nonce = nonce
    BY DEF View!SwitchInv, View!ChoicePursued, View!Opening, View!IsCurrent
  <1> QED
    BY <1>1 DEF View!Switches, View!IsCurrent

(* What answers a task while its details are read. *)
LEMMA DetailsTask ==
    ASSUME View!SwitchInv, NEW t \in tasks
    PROVE  \E u \in View!Tasks :
              /\ u = [t EXCEPT !.at = "details", !.state = View!Untold]
              /\ <<u.op, u.on, u.nonce, u.result, u.state>> = <<t.op, t.on, t.nonce, t.result,
                 View!Untold>>
  <1>1. t \in View!Tasks /\ View!Untold \in View!States
    BY DEF View!SwitchInv, View!TypeOK, View!Untold, View!State, View!States
  <1> DEFINE none == View!Untold
  <1> HIDE DEF none
  <1>2. none \in View!States
    BY <1>1 DEF none
  <1>3. [t EXCEPT !.at = "details", !.state = none] \in View!Tasks
    BY <1>1, <1>2 DEF View!Tasks
  <1> DEFINE v == [t EXCEPT !.at = "details", !.state = none]
  <1>4. <<v.op, v.on, v.nonce, v.result, v.state>> = <<t.op, t.on, t.nonce, t.result, none>>
    BY <1>1, <1>2 DEF View!Tasks
  <1> QED
    BY <1>3, <1>4 DEF none

(* The answers *)
LEMMA AnswerKeeps ==
    ASSUME View!SessionSwitchAssumption, View!SwitchInv, NEW t \in tasks, View!Answer(t)
    PROVE  View!SwitchInv'
  <1>1. /\ UNCHANGED <<View!server, snapshots, client, path, chosen, nonce>> /\ t.at = "answered"
        /\ t \in View!Tasks /\ t.state \in View!States /\ View!TypeOK
    BY DEF View!Answer, View!view, View!SwitchInv, View!TypeOK, View!Tasks
  <1>2. PICK u \in View!Tasks :
              /\ u = [t EXCEPT !.at = "details", !.state = View!Untold]
              /\ <<u.op, u.on, u.nonce, u.result, u.state>> = <<t.op, t.on, t.nonce, t.result,
                 View!Untold>>
    BY DetailsTask
  <1>3. /\ path \in View!Sessions \union {None} /\ taken \in {"no", "create", "fork", "route"}
        /\ {active, intent, choice} \subseteq View!Places /\ t.result \in View!Places
    BY <1>1 DEF View!TypeOK, View!Tasks, View!Places
  <1>4. CASE /\ t.op \in View!Switches /\ ~View!IsCurrent(t) /\ tasks' = tasks \ {t}
             /\ UNCHANGED <<View!view, choice, taken>>
    <2>1. View!ChoicePursued'
      BY <1>1, <1>2, <1>4, PursuitKept DEF View!view, View!Switches
    <2> QED
      BY <1>1, <1>2, <1>3, <1>4, <2>1, AnswersKeep DEF View!view
  <1>5. CASE /\ View!ApplyState(t.state) /\ tasks' = (tasks \ {t}) \union {u}
             /\ choice' = (IF t.op = "fork" THEN t.result ELSE choice)
             /\ taken' = (IF t.op = "fork" THEN "fork" ELSE taken)
    <2>1. active' \in View!Places /\ intent' = intent
          /\ lists' = [loaded |-> t.state.loaded, files |-> t.state.files]
      BY <1>1, <1>5, ResolveTyped DEF View!ApplyState
    <2>2. View!ChoicePursued'
      <3>1. CASE t.op = "fork"
        BY <1>5, <3>1 DEF View!ChoicePursued
      <3>2. CASE t.op # "fork"
        BY <1>1, <1>2, <1>5, <2>1, <3>2, PursuitKept
      <3> QED BY <3>1, <3>2
    <2> QED
      BY <1>1, <1>2, <1>3, <1>5, <2>1, <2>2, AnswersKeep
  <1> QED
    BY <1>2, <1>4, <1>5 DEF View!Answer

LEMMA AnswerCreateKeeps ==
    ASSUME View!SessionSwitchAssumption, View!SwitchInv, NEW t \in tasks, View!AnswerCreate(t)
    PROVE  View!SwitchInv'
  <1>1. t.result \in View!Sessions /\ t.result \in View!Places /\ t.result # None
        /\ choice \in View!Places /\ taken \in {"no", "create", "fork", "route"}
           /\ t.at = "answered"
    BY DEF View!AnswerCreate, View!SwitchInv, View!TasksSound, View!TypeOK, View!Places,
       View!SessionSwitchAssumption
  <1>2. /\ UNCHANGED <<View!server, snapshots, client, chosen>>
        /\ nonce' = nonce + 1 /\ intent' = t.result /\ active' = t.result /\ path' = t.result
        /\ lists' = [loaded |-> t.state.loaded, files |-> t.state.files]
        /\ tasks' = tasks \ {t}
        /\ choice' = (IF choice = t.on THEN t.result ELSE choice)
        /\ taken' = (IF choice = t.on THEN taken ELSE "create")
    BY <1>1 DEF View!AnswerCreate, View!Begin
  <1>3. \A w \in tasks : w.nonce # nonce'
    BY <1>2 DEF View!SwitchInv, View!NoncesSound, View!TypeOK, View!Tasks
  <1>4. View!ChoicePursued'
    BY <1>2, <1>3 DEF View!ChoicePursued, View!IsCurrent
  <1>5. PICK u \in View!Tasks :
            <<u.op, u.on, u.nonce, u.result, u.state>> = <<t.op, t.on, t.nonce, t.result,
              View!Untold>>
    BY DetailsTask
  <1> QED
    BY <1>1, <1>2, <1>4, <1>5, AnswersKeep

LEMMA FinishKeeps ==
    ASSUME View!SessionSwitchAssumption, View!SwitchInv, NEW t \in tasks, View!Finish(t)
    PROVE  View!SwitchInv'
  <1> DEFINE current == t.op \notin View!Switches \/ View!IsCurrent(t)
             remembered == t.op = "open" /\ current
  <1>1. /\ t.at = "details" /\ tasks' = tasks \ {t}
        /\ intent' = (IF remembered THEN t.result ELSE intent)
        /\ active' = (IF remembered THEN t.result ELSE active)
        /\ UNCHANGED <<View!server, snapshots, client, lists, nonce, chosen, choice, taken>>
    BY DEF View!Finish, View!history
  <1>2. path' \in {View!PathOf(active), t.result, path}
        /\ (path' = t.result => t.result # None \/ path' \in {path, View!PathOf(active), None})
    BY DEF View!Finish
  <1>3. /\ {active, intent, choice} \subseteq View!Places
           /\ taken \in {"no", "create", "fork", "route"}
        /\ path \in View!Sessions \union {None} /\ t.result \in View!Sessions \union {None}
        /\ t.result \in View!Places /\ View!PathOf(active) \in View!Sessions \union {None}
    BY DEF View!SwitchInv, View!TypeOK, View!Tasks, View!Places, View!PathOf
  <1>4. remembered => t.result = t.on /\ View!IsCurrent(t) /\ t.op = "open"
    BY <1>1 DEF View!SwitchInv, View!TasksSound, View!Switches
  <1>5. ~remembered => ~(t.op = "open" /\ View!IsCurrent(t))
    OBVIOUS
  <1>6. PICK u \in View!Tasks :
            <<u.op, u.on, u.nonce, u.result, u.state>> = <<t.op, t.on, t.nonce, t.result,
              View!Untold>>
    BY DetailsTask
  <1> HIDE DEF remembered
  <1>7. View!ChoicePursued'
    BY <1>1, <1>4, <1>5, <1>6, PursuitKept
  <1>8. /\ {active', intent', choice'} \subseteq View!Places
           /\ path' \in View!Sessions \union {None}
    BY <1>1, <1>2, <1>3
  <1> QED
    BY <1>1, <1>3, <1>6, <1>7, <1>8, AnswersKeep

LEMMA FailKeeps ==
    ASSUME View!SessionSwitchAssumption, View!SwitchInv, NEW t \in tasks, View!Fail(t)
    PROVE  View!SwitchInv'
  <1>1. /\ tasks' = tasks \ {t}
        /\ choice' = (IF t.op \in View!Switches /\ View!IsCurrent(t) THEN None ELSE choice)
        /\ UNCHANGED <<View!server, snapshots, client, active, lists, intent, nonce, path, chosen,
           taken>>
    BY DEF View!Fail, View!view
  <1>2. /\ {active, intent, choice, None} \subseteq View!Places
           /\ taken \in {"no", "create", "fork", "route"}
        /\ path \in View!Sessions \union {None}
    BY DEF View!SwitchInv, View!TypeOK, View!Places
  <1>3. PICK u \in View!Tasks :
            <<u.op, u.on, u.nonce, u.result, u.state>> = <<t.op, t.on, t.nonce, t.result,
              View!Untold>>
    BY DetailsTask
  <1>4. View!ChoicePursued'
    <2>1. CASE t.op \in View!Switches /\ View!IsCurrent(t)
      BY <1>1, <2>1 DEF View!ChoicePursued
    <2>2. CASE ~(t.op \in View!Switches /\ View!IsCurrent(t))
      BY <1>1, <1>3, <2>2, PursuitKept DEF View!Switches
    <2> QED BY <2>1, <2>2
  <1> QED
    BY <1>1, <1>2, <1>3, <1>4, AnswersKeep

(* Every step keeps what the browser pursues. *)
LEMMA StepSwitch ==
    ASSUME View!SessionSwitchAssumption, View!SwitchInv, [View!Next]_View!vars
    PROVE  View!SwitchInv'
  <1>1. CASE UNCHANGED View!vars
    BY <1>1 DEF View!vars, View!server, View!view, View!history, View!SwitchInv, View!TypeOK,
       View!TellsKnown, View!Known, View!NoncesSound,
                View!TasksSound, View!ChoicePursued, View!Opening, View!IsCurrent
  <1>2. CASE View!NewDraft
    <2>1. View!Operation /\ View!StartDraft /\ path' \in View!Sessions \union {None}
      BY <1>2 DEF View!NewDraft, View!SwitchInv, View!TypeOK
    <2> QED
      BY <2>1, StartDraftKeeps
  <1>3. ASSUME NEW t \in tasks, View!Serve(t) \/ View!Answer(t) \/ View!AnswerCreate(t)
               \/ View!Finish(t) \/ View!Fail(t)
        PROVE  View!SwitchInv'
    BY <1>3, ServeKeeps, AnswerKeeps, AnswerCreateKeeps, FinishKeeps, FailKeeps
  <1>4. ASSUME NEW s \in View!Sessions, View!GoTo(s) \/ View!Remove(s)
        PROVE  View!SwitchInv'
    BY <1>4, GoToKeeps, RemoveKeeps
  <1> QED
    BY <1>1, <1>2, <1>3, <1>4, HeartbeatKeeps, ReconnectKeeps, DeliverKeeps, PromptKeeps,
       GoToKeeps, ClickKeeps, ChangeKeeps DEF View!Next

(* What the browser pursues is sound in every reachable state: the switches   *)
(* that are current are to the user's last choice, and the intent is the      *)
(* choice, or none is held, or an open of it is still under way.              *)
THEOREM SwitchInvariant == View!SessionSwitchAssumption => (View!Spec => []View!SwitchInv)
  <1> SUFFICES ASSUME View!SessionSwitchAssumption PROVE View!Spec => []View!SwitchInv
    OBVIOUS
  <1>1. View!Init => View!SwitchInv
    BY InitSwitch
  <1>2. View!SwitchInv /\ [View!Next]_View!vars => View!SwitchInv'
    BY StepSwitch
  <1> QED
    BY <1>1, <1>2, PTL DEF View!Spec

(* A snapshot is resolved to the choice. *)
LEMMA StepShowsChoice ==
    ASSUME View!SessionSwitchAssumption, View!SwitchInv,
           NEW c \in View!Sessions \union View!Drafts,
           View!Deliver, Head(snapshots).type = "state_snapshot",
           choice = c, taken = "no", ~View!Opening,
           c \in View!Drafts \/ Head(snapshots).state.active = c
    PROVE  active' = c /\ (c \in View!Sessions => path' = c)
  <1> DEFINE state == Head(snapshots).state
  <1>1. View!Resolve(state, TRUE) /\ path' = (IF active' \in View!Sessions THEN active' ELSE path)
    BY DEF View!Deliver, View!ApplySnapshot
  <1>2. c # None /\ (c \in View!Drafts => c \notin View!Sessions)
    BY DEF View!Drafts, View!SessionSwitchAssumption, View!Sessions
  <1>3. intent = c \/ (intent = None /\ c \in View!Sessions)
    BY <1>2 DEF View!SwitchInv, View!ChoicePursued
  <1>4. intent = c => View!Valid(intent, state)
    BY DEF View!Valid
  <1>5. active' = c
    BY <1>1, <1>2, <1>3, <1>4 DEF View!Resolve
  <1> QED
    BY <1>1, <1>5

(* While no open of the choice is under way, a snapshot, however late it      *)
(* comes, shows the choice with its route if it tells that the server has the *)
(* choice in focus, or the choice is a draft.                                 *)
THEOREM ShowsChoice == View!SessionSwitchAssumption => (View!Spec => View!SnapshotsShowChoice)
  <1> SUFFICES ASSUME View!SessionSwitchAssumption PROVE View!Spec => View!SnapshotsShowChoice
    OBVIOUS
  <1>2. View!Spec => []View!SwitchInv
    BY SwitchInvariant
  <1>1. View!SwitchInv /\ [View!Next]_View!vars =>
          [\A c \in View!Sessions \union View!Drafts :
            /\ View!Deliver /\ Head(snapshots).type = "state_snapshot"
            /\ choice = c /\ taken = "no" /\ ~View!Opening
            /\ c \in View!Drafts \/ Head(snapshots).state.active = c
          => active' = c /\ (c \in View!Sessions => path' = c)]_View!vars
    BY StepShowsChoice
  <1> QED
    BY <1>1, <1>2, PTL DEF View!Spec, View!SnapshotsShowChoice
===============================================================================
