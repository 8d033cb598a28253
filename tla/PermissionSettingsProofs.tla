------------------------ MODULE PermissionSettingsProofs ------------------------
(***************************************************************************)
(* Proofs about PermissionSettings, for any clients, delays and bounds:    *)
(* login attempts pay the delay that failures earned, and the dialog shows *)
(* what the file says.                                                     *)
(***************************************************************************)
EXTENDS PermissionSettings, FiniteSetTheorems, WellFoundedInduction, TLAPS

-------------------------------------------------------------------------------
(* Login attempts *)

(* Of two attempts on the tail one was there before the other. *)
TailOrdered ==
    /\ \A c \in Clients : ahead[c] \subseteq attempts \ {c}
    /\ \A c, d \in attempts : c # d => c \in ahead[d] \/ d \in ahead[c]

(* Only the first of them waits, ... *)
FirstWaits == \A c \in Clients : left[c] # None => Turn(c)

(* ... and what is left of its delay is what it has not waited yet. *)
DelayEarned ==
    \A c \in Clients : left[c] # None /\ since # None => since + left[c] >= Delay(Failures)

LoginInv ==
    /\ LoginTypeOK
    /\ since = None => consecutiveFailures = 0
    /\ TailOrdered /\ FirstWaits /\ DelayEarned

LEMMA DelayType == \A n \in Nat : Delay(n) \in Nat
  <1> SUFFICES ASSUME NEW n \in Nat, n # 0 PROVE Delay(n) \in Nat
    BY DEF Delay
  <1> DEFINE S == 1..(n - 1)
  <1>1. IsFiniteSet(S) /\ Cardinality(S) = n - 1
    BY FS_Interval
  <1>2. 2 ^ Cardinality(S) = Cardinality(SUBSET S) /\ IsFiniteSet(SUBSET S)
    BY <1>1, FS_SUBSET
  <1>3. 2 ^ (n - 1) \in Nat
    BY <1>1, <1>2, FS_CardinalityType
  <1> QED
    BY <1>3, AdminLoginAssumption DEF Delay, Least

LEMMA FailuresType == LoginTypeOK => Failures \in Nat
BY DEF LoginTypeOK, Failures

LEMMA LoginInitially == LoginInit => LoginInv
BY AdminLoginAssumption DEF LoginInit, LoginInv, LoginTypeOK, TailOrdered, FirstWaits,
   DelayEarned

(* Two attempts do not have their turn at once. *)
LEMMA OneTurn ==
    ASSUME LoginInv, NEW c \in Clients, NEW d \in Clients, Turn(c), Turn(d)
    PROVE  c = d
BY DEF LoginInv, TailOrdered, Turn

LEMMA AttemptKeeps ==
    ASSUME LoginInv, NEW c \in Clients, Attempt(c)
    PROVE  LoginInv'
  <1> USE DEF LoginInv, LoginTypeOK, Attempt
  <1>1. LoginTypeOK' /\ (since = None => consecutiveFailures = 0)'
    OBVIOUS
  <1>2. TailOrdered'
    BY DEF TailOrdered
  <1>3. FirstWaits'
    BY DEF FirstWaits, Turn
  <1>4. DelayEarned'
    BY DEF DelayEarned, Failures, Idle
  <1> QED
    BY <1>1, <1>2, <1>3, <1>4

LEMMA WaitKeeps ==
    ASSUME LoginInv, NEW c \in Clients, WaitBeforeAttempt(c)
    PROVE  LoginInv'
  <1> USE DEF WaitBeforeAttempt
  <1>0. Failures \in Nat /\ Delay(Failures) \in Nat
    BY FailuresType, DelayType DEF LoginInv
  <1>1. LoginTypeOK' /\ (since = None => consecutiveFailures = 0)'
    BY <1>0 DEF LoginInv, LoginTypeOK, Failures
  <1>2. TailOrdered'
    BY DEF LoginInv, TailOrdered
  <1>3. \A d \in Clients : left'[d] # None => d = c
    BY OneTurn DEF LoginInv, LoginTypeOK, FirstWaits
  <1>4. FirstWaits'
    BY <1>3 DEF FirstWaits, Turn
  <1>5. left'[c] = Delay(Failures)
    BY DEF LoginInv, LoginTypeOK
  <1>6. since' # None => since' \in Nat /\ Failures' = Failures
    BY AdminLoginAssumption DEF LoginInv, LoginTypeOK, Failures, Idle
  <1>7. since' # None => since' + Delay(Failures) >= Delay(Failures)
    BY <1>0, <1>6
  <1>8. DelayEarned'
    BY <1>3, <1>5, <1>6, <1>7 DEF DelayEarned, Delay
  <1> QED
    BY <1>1, <1>2, <1>4, <1>8 DEF LoginInv

(* After an attempt is over nobody waits. *)
LEMMA OverKeeps ==
    ASSUME LoginInv, NEW c \in Clients, Turn(c), Over(c),
           consecutiveFailures' \in Nat, since' \in (0..IdleReset) \union {None},
           since' = None => consecutiveFailures' = 0,
           secret' \in Nat, cookies' \in [Clients -> Nat]
    PROVE  LoginInv'
  <1> USE DEF Over
  <1>1. \A d \in Clients : left'[d] = None
    BY OneTurn DEF LoginInv, LoginTypeOK, FirstWaits
  <1>2. LoginTypeOK'
    BY DEF LoginInv, LoginTypeOK
  <1>3. TailOrdered'
    BY DEF LoginInv, LoginTypeOK, TailOrdered
  <1>4. FirstWaits' /\ DelayEarned'
    BY <1>1 DEF FirstWaits, DelayEarned
  <1> QED
    BY <1>2, <1>3, <1>4 DEF LoginInv

LEMMA VerifyKeeps ==
    ASSUME LoginInv, NEW c \in Clients, Verify(c)
    PROVE  LoginInv'
  <1>1. CASE Reject(c)
    BY <1>1, OverKeeps, FailuresType, AdminLoginAssumption DEF Reject, LoginInv, LoginTypeOK
  <1>2. CASE Accept(c)
    BY <1>2, OverKeeps DEF Accept, LoginInv, LoginTypeOK
  <1> QED
    BY <1>1, <1>2 DEF Verify

LEMMA TickKeeps ==
    ASSUME LoginInv, Tick
    PROVE  LoginInv'
  <1> USE AdminLoginAssumption DEF Tick, Least
  <1>1. LoginTypeOK' /\ (since = None => consecutiveFailures = 0)'
    BY DEF LoginInv, LoginTypeOK
  <1>2. TailOrdered'
    BY DEF LoginInv, TailOrdered
  <1>3. FirstWaits'
    BY DEF LoginInv, FirstWaits, Turn
  <1>4. ASSUME NEW c \in Clients, left'[c] # None, since' # None
        PROVE  since' + left'[c] >= Delay(Failures')
    <2>1. left[c] \in Nat /\ left[c] # None /\ since \in Nat /\ since # None
      BY <1>4 DEF LoginInv, LoginTypeOK
    <2>2. left'[c] \in Nat /\ left'[c] >= left[c] - 1
      BY <2>1 DEF LoginInv, LoginTypeOK
    <2>3. CASE Idle'
      BY <2>2, <2>3, <1>1, <1>4 DEF Failures, Delay, LoginTypeOK
    <2>4. CASE ~Idle'
      <3>1. since' = since + 1 /\ ~Idle
        BY <2>1, <2>4, <1>4 DEF Idle, LoginInv, LoginTypeOK
      <3>2. Failures' = Failures /\ Delay(Failures') = Delay(Failures)
        BY <3>1, <2>4 DEF Failures
      <3>3. Delay(Failures) \in Nat /\ since + left[c] >= Delay(Failures)
        BY <2>1, FailuresType, DelayType DEF LoginInv, DelayEarned
      <3> QED
        BY <2>1, <2>2, <3>1, <3>2, <3>3
    <2> QED
      BY <2>3, <2>4
  <1>5. DelayEarned'
    BY <1>4 DEF DelayEarned, Delay
  <1> QED
    BY <1>1, <1>2, <1>3, <1>5 DEF LoginInv

LEMMA RestartedKeeps ==
    ASSUME LoginInv, Restarted
    PROVE  LoginInv'
BY AdminLoginAssumption
   DEF Restarted, LoginInv, LoginTypeOK, TailOrdered, FirstWaits, DelayEarned

(* Only cookies change. *)
LEMMA CookiesKeep ==
    ASSUME LoginInv, cookies' \in [Clients -> Nat],
           UNCHANGED <<consecutiveFailures, since, attempts, ahead, left, secret>>
    PROVE  LoginInv'
BY DEF LoginInv, LoginTypeOK, TailOrdered, FirstWaits, DelayEarned, Turn, Failures, Idle

(* What a step of the whole does to the state of signing in. *)
LEMMA LoginSteps ==
    ASSUME LoginInv, [Next]_vars
    PROVE  \/ \E c \in Clients : Attempt(c) \/ WaitBeforeAttempt(c) \/ Verify(c)
           \/ Tick \/ Restarted
           \/ /\ cookies' \in [Clients -> Nat]
              /\ UNCHANGED <<consecutiveFailures, since, attempts, ahead, left, secret>>
  <1> DEFINE Same == /\ cookies' \in [Clients -> Nat]
                     /\ UNCHANGED <<consecutiveFailures, since, attempts, ahead, left, secret>>
  <1>0. ASSUME UNCHANGED login PROVE Same
    BY <1>0 DEF login, LoginInv, LoginTypeOK
  <1>1. ASSUME NEW t \in calls, Serve(t) \/ Answer(t) \/ SessionTold(t) PROVE UNCHANGED login
    BY <1>1 DEF Serve, Unauthorized, Session, Load, Write, Rename, Remove, Refuse, Browser,
         Answer, SessionTold
  <1>2. ASSUME Open \/ Edit \/ Save \/ Reset \/ Close PROVE UNCHANGED login
    BY <1>2 DEF Open, Edit, Save, Reset, Close, Server
  <1>3. ASSUME Expire PROVE Same
    BY <1>3 DEF Expire, LoginInv, LoginTypeOK
  <1>4. ASSUME EditByHand PROVE UNCHANGED login
    BY <1>4 DEF EditByHand
  <1> QED
    BY <1>0, <1>1, <1>2, <1>3, <1>4, PermissionSettingsAssumption
       DEF Next, vars, SignIn, SignedIn, Login, Others, Restart, Verify

LEMMA LoginStep ==
    ASSUME LoginInv, [Next]_vars
    PROVE  LoginInv'
BY LoginSteps, AttemptKeeps, WaitKeeps, VerifyKeeps, TickKeeps, RestartedKeeps, CookiesKeep

(* Attempts are made one after the other, and what is left of the delay of    *)
(* the first is what its failures demand beyond the time that has passed.     *)
THEOREM LoginInvariant == Spec => []LoginInv
  <1>1. Init => LoginInv
    BY LoginInitially DEF Init
  <1>2. LoginInv /\ [Next]_vars => LoginInv'
    BY LoginStep
  <1> QED
    BY <1>1, <1>2, PTL DEF Spec

(* A password is looked at only when the delay that the failures earned has   *)
(* passed since the last of them, for any number of clients (the comment of   *)
(* LoginBackoff).                                                             *)
THEOREM DelaysPaid == Spec => []EarnedDelayPaid
  <1>1. LoginInv => EarnedDelayPaid
    BY AdminLoginAssumption DEF LoginInv, LoginTypeOK, DelayEarned, EarnedDelayPaid
  <1> QED
    BY <1>1, LoginInvariant, PTL

(* The line of attempts: those that are ahead of one which is ahead are ahead.*)
LineInv ==
    /\ IsFiniteSet(attempts)
    /\ \A c, d \in Clients : c \in ahead[d] => ahead[c] \subseteq ahead[d]

LEMMA LineStep ==
    ASSUME LoginInv, LineInv, [Next]_vars
    PROVE  LineInv'
  <1> USE DEF LineInv, LoginInv, LoginTypeOK
  <1>1. ASSUME NEW c \in Clients, Attempt(c) PROVE LineInv'
    <2>1. IsFiniteSet(attempts')
      BY <1>1, FS_AddElement DEF Attempt
    <2> QED
      BY <1>1, <2>1 DEF Attempt, TailOrdered
  <1>2. ASSUME UNCHANGED <<attempts, ahead>> PROVE LineInv'
    BY <1>2
  <1>3. ASSUME NEW c \in Clients, Verify(c) PROVE LineInv'
    <2>1. IsFiniteSet(attempts')
      BY <1>3, FS_RemoveElement DEF Verify, Reject, Accept, Over
    <2>2. \A d \in Clients : ahead'[d] = ahead[d] \ {c}
      BY <1>3 DEF Verify, Reject, Accept, Over
    <2> QED
      BY <2>1, <2>2
  <1>4. ASSUME Restarted PROVE LineInv'
    BY <1>4, FS_EmptySet DEF Restarted
  <1> HIDE DEF LineInv, LoginInv, LoginTypeOK
  <1> QED
    BY LoginSteps, <1>1, <1>2, <1>3, <1>4 DEF WaitBeforeAttempt, Tick

(* Of the attempts one has no other ahead of it. *)
LEMMA LineHasFirst ==
    ASSUME LoginInv, LineInv, attempts # {}
    PROVE  \E c \in attempts : ahead[c] = {}
  <1> DEFINE T == {ahead[c] : c \in attempts}
  <1>1. \A c \in attempts : c \in Clients /\ ahead[c] \subseteq attempts
    BY DEF LoginInv, LoginTypeOK, TailOrdered
  <1>2. T \subseteq FiniteSubsetsOf(attempts) /\ T # {}
    BY <1>1, FS_FiniteSubsetsOfFinite DEF LineInv
  <1>3. PICK least \in T : \A other \in T : <<other, least>> \notin StrictSubsetOrdering(attempts)
    <2> HIDE DEF T
    <2>1. IsWellFoundedOn(StrictSubsetOrdering(attempts), FiniteSubsetsOf(attempts))
      BY FS_StrictSubsetOrderingWellFounded
    <2> QED
      BY <1>2, <2>1, WFMin
  <1>4. PICK c \in attempts : least = ahead[c]
    OBVIOUS
  <1>5. ASSUME NEW d \in ahead[c] PROVE FALSE
    <2>1. d \in attempts /\ d \in Clients /\ d \notin ahead[d] /\ ahead[d] \subseteq ahead[c]
      BY <1>1, <1>4, <1>5 DEF LineInv, LoginInv, TailOrdered
    <2>2. ahead[d] \in T /\ <<ahead[d], ahead[c]>> \in StrictSubsetOrdering(attempts)
      BY <1>1, <2>1 DEF StrictSubsetOrdering
    <2> QED
      BY <1>3, <1>4, <2>2
  <1> QED
    BY <1>5

(* The line of attempts always moves on: while there are attempts one has its *)
(* turn, and no other, for any number of clients; so a failure never takes    *)
(* the turn from those that wait behind it (the tail of LoginBackoff).        *)
THEOREM LineMovesOn == Spec => []OneHasItsTurn
  <1>1. Init => LineInv
    BY FS_EmptySet DEF Init, LoginInit, LineInv
  <1>2. LoginInv /\ LineInv /\ [Next]_vars => LineInv'
    BY LineStep
  <1>3. ASSUME LoginInv, LineInv PROVE OneHasItsTurn
    <2> SUFFICES ASSUME attempts # {}
                 PROVE  \E c \in attempts : \A d \in attempts : Turn(d) <=> d = c
      BY DEF OneHasItsTurn
    <2>1. PICK c \in attempts : ahead[c] = {}
      BY <1>3, LineHasFirst
    <2>2. Turn(c) /\ attempts \subseteq Clients
      BY <1>3, <2>1 DEF Turn, LoginInv, LoginTypeOK
    <2> QED
      BY <1>3, <2>2, OneTurn
  <1> QED
    BY <1>1, <1>2, <1>3, LoginInvariant, PTL DEF Spec

-------------------------------------------------------------------------------
(* The dialog *)

Responses == [exists : BOOLEAN, config : Configs]

CallTypeOK(t) ==
    /\ t = [op |-> t.op, body |-> t.body, cookie |-> t.cookie, at |-> t.at, reply |-> t.reply,
            live |-> t.live, alone |-> t.alone, nr |-> t.nr]
    /\ t.op \in Ops /\ t.live \in BOOLEAN /\ t.alone \in BOOLEAN
    /\ t.op = "save" => t.body \in Configs
    /\ t.at = "written" => t.op = "save"
    /\ t.at = "answered" /\ t.op \notin Sessions => t.reply \in Responses

DialogTypeOK ==
    /\ dialog = [open |-> dialog.open, response |-> dialog.response, draft |-> dialog.draft,
                 loading |-> dialog.loading, saving |-> dialog.saving,
                 resetting |-> dialog.resetting, failed |-> dialog.failed,
                 asking |-> dialog.asking]
    /\ dialog.draft \in Configs \union {None}

ShownTypeOK ==
    /\ file \in {Missing} \union HandWritten \union {Whole(c) : c \in Configs}
    /\ \A t \in calls : CallTypeOK(t)
    /\ DialogTypeOK

(* A request that is alone is the only one of the dialog, of a page that is   *)
(* still there, and its answer says what the file says.                       *)
AloneHonest ==
    \A t \in calls : t.alone =>
        /\ t.op \notin Sessions /\ t.live
        /\ \A u \in calls : u.op \notin Sessions => u = t
        /\ t.at = "answered" => t.reply = Read(file)

(* While a request of a page that was left is under way, what the dialog      *)
(* shows is not vouched for.                                                  *)
LeftBehind ==
    \A t \in calls : t.op \notin Sessions /\ ~t.live /\ current => dialog.response = None

(* No answer is under way that the dialog would show. *)
NothingNew == \A t \in calls : t.op \notin Sessions => t.live /\ t.at # "answered"

ShownSoFar ==
    current /\ NothingNew /\ dialog.response # None => dialog.response = Read(file)

ShownInv == ShownTypeOK /\ AloneHonest /\ LeftBehind /\ ShownSoFar

Files == {Missing} \union HandWritten \union {Whole(c) : c \in Configs}

LEMMA ReadType ==
    /\ \A raw \in Files : Read(raw) \in Responses \union {None}
    /\ Read(Missing) = Response(FALSE, Default) /\ Response(FALSE, Default) \in Responses
    /\ \A c \in Configs : /\ Read(Whole(c)) = Response(TRUE, c)
                          /\ Response(TRUE, c) \in Responses
  <1> USE DEF Missing, Whole, Response, Responses, Default, Configs, Policies
  <1>1. Read(Missing) = Response(FALSE, Default) /\ Response(FALSE, Default) \in Responses
    BY DEF Read
  <1>2. ASSUME NEW c \in Configs
        PROVE  Read(Whole(c)) = Response(TRUE, c) /\ Response(TRUE, c) \in Responses
    <2>1. DOMAIN c = {"yoloMode", "bash"} /\ c.bash \in Policies
      OBVIOUS
    <2>2. Valid(c)
      BY <2>1 DEF Valid
    <2>3. Normalize(c) = c
      BY <2>1 DEF Normalize
    <2> QED
      BY <2>2, <2>3 DEF Read
  <1>3. ASSUME NEW raw \in HandWritten
        PROVE  Read(raw) \in Responses \union {None}
    <2>1. CASE raw = Whole([bash |-> "rules"])
      <3>1. Read(raw) = Response(TRUE, Normalize([bash |-> "rules"]))
        BY <2>1 DEF Read, Valid
      <3>2. Normalize([bash |-> "rules"]) \in Configs
        BY DEF Normalize
      <3> QED
        BY <3>1, <3>2
    <2>2. CASE raw = Whole([yoloMode |-> TRUE, unknown |-> TRUE])
      BY <2>2 DEF Read, Valid
    <2> QED
      BY <1>3, <2>1, <2>2 DEF HandWritten
  <1> HIDE DEF Missing, Whole, Response, Responses, Default, Configs, Policies
  <1> QED
    BY <1>1, <1>2, <1>3 DEF Files

LEMMA ShownInitially == Init => ShownInv
BY DEF Init, ShownInv, ShownTypeOK, DialogTypeOK, AloneHonest, LeftBehind, ShownSoFar, Closed,
   HandWritten

(* Requests keep their form. *)
LEMMA CallShared ==
    ASSUME NEW t, CallTypeOK(t), NEW shared, shared = [t EXCEPT !.alone = FALSE]
    PROVE  /\ CallTypeOK(shared)
           /\ shared.op = t.op /\ shared.live = t.live /\ shared.at = t.at
           /\ shared.alone = FALSE
  <1>1. /\ shared = [op |-> shared.op, body |-> shared.body, cookie |-> shared.cookie,
                     at |-> shared.at, reply |-> shared.reply, live |-> shared.live,
                     alone |-> shared.alone, nr |-> shared.nr]
        /\ shared.op = t.op /\ shared.live = t.live /\ shared.at = t.at
        /\ shared.alone = FALSE /\ shared.body = t.body /\ shared.reply = t.reply
    BY DEF CallTypeOK
  <1> QED
    BY <1>1 DEF CallTypeOK

(* The server goes on with a request; the file changes only when it answers   *)
(* one of the dialog, with what the file says then.                           *)
LEMMA BecameKeeps ==
    ASSUME ShownInv, NEW t \in calls, NEW at, NEW reply, Became(t, at, reply),
           t.at # "answered", UNCHANGED <<dialog, current>>, file' \in Files,
           at = "written" => t.op = "save",
           at = "answered" /\ t.op \notin Sessions => reply \in Responses /\ reply = Read(file'),
           file' = file \/ (at = "answered" /\ t.op \notin Sessions)
    PROVE  ShownInv'
  <1>0. PICK t1 : t1 = [t EXCEPT !.at = at, !.reply = reply]
    OBVIOUS
  <1>1. /\ CallTypeOK(t1)
        /\ t1.op = t.op /\ t1.live = t.live /\ t1.alone = t.alone
        /\ t1.at = at /\ t1.reply = reply
    <2>1. CallTypeOK(t)
      BY DEF ShownInv, ShownTypeOK
    <2>2. /\ t1 = [op |-> t1.op, body |-> t1.body, cookie |-> t1.cookie, at |-> t1.at,
                  reply |-> t1.reply, live |-> t1.live, alone |-> t1.alone, nr |-> t1.nr]
          /\ t1.op = t.op /\ t1.live = t.live /\ t1.alone = t.alone
          /\ t1.at = at /\ t1.reply = reply /\ t1.body = t.body
      BY <1>0, <2>1 DEF CallTypeOK
    <2> QED
      BY <2>1, <2>2 DEF CallTypeOK
  <1>2. /\ calls' \subseteq (calls \ {t}) \union {t1}
        /\ calls \ {t} \subseteq calls'
        /\ t.live => t1 \in calls'
    BY <1>0 DEF Became, ShownInv, ShownTypeOK, CallTypeOK
  <1>3. ShownTypeOK'
    BY <1>1, <1>2 DEF ShownInv, ShownTypeOK, DialogTypeOK, Files
  <1>4. AloneHonest'
    BY <1>1, <1>2 DEF ShownInv, AloneHonest
  <1>5. LeftBehind'
    BY <1>1, <1>2 DEF ShownInv, LeftBehind
  <1>6. ASSUME current, NothingNew', dialog.response # None
        PROVE  dialog.response = Read(file')
    <2>1. t.op \notin Sessions => t.live
      BY <1>6 DEF ShownInv, LeftBehind, ShownTypeOK, CallTypeOK
    <2>2. file' = file
      BY <2>1, <1>1, <1>2, <1>6 DEF NothingNew
    <2>3. NothingNew
      BY <2>1, <1>2, <1>6 DEF NothingNew
    <2> QED
      BY <2>2, <2>3, <1>6 DEF ShownInv, ShownSoFar
  <1> QED
    BY <1>3, <1>4, <1>5, <1>6 DEF ShownInv, ShownSoFar

LEMMA ServeKeeps ==
    ASSUME ShownInv, NEW t \in calls, Serve(t)
    PROVE  ShownInv'
  <1>0. file \in Files /\ CallTypeOK(t)
    BY DEF ShownInv, ShownTypeOK, Files
  <1>1. CASE Unauthorized(t)
    BY <1>0, <1>1, BecameKeeps DEF Unauthorized, Browser
  <1>2. CASE Session(t)
    BY <1>0, <1>2, BecameKeeps DEF Session, Browser
  <1>3. CASE Load(t)
    <2>1. CASE Read(file) = None
      BY <1>0, <1>3, <2>1, BecameKeeps DEF Load, Browser
    <2>2. CASE Read(file) # None
      BY <1>0, <1>3, <2>2, BecameKeeps, ReadType DEF Load, Browser
    <2> QED
      BY <2>1, <2>2
  <1>4. CASE Write(t)
    BY <1>0, <1>4, BecameKeeps DEF Write, Browser
  <1>5. CASE Rename(t)
    <2>1. t.op = "save" /\ t.body \in Configs
      BY <1>0, <1>5 DEF Rename, CallTypeOK
    <2> QED
      BY <1>5, <2>1, BecameKeeps, ReadType DEF Rename, Browser, Files, Sessions
  <1>6. CASE Remove(t)
    BY <1>6, BecameKeeps, ReadType DEF Remove, Browser, Files, Sessions
  <1>7. CASE Refuse(t)
    BY <1>0, <1>7, BecameKeeps DEF Refuse, Browser
  <1> QED
    BY <1>1, <1>2, <1>3, <1>4, <1>5, <1>6, <1>7 DEF Serve

(* A request begins; the dialog still shows what it did. *)
LEMMA BeginKeeps ==
    ASSUME ShownInv, NEW op \in Ops \ Sessions, NEW body, Begin(op, body),
           op = "save" => body \in Configs,
           file' = file, DialogTypeOK', dialog'.response = dialog.response
    PROVE  ShownInv'
  <1> DEFINE new == Call(op, body)
             Shared(t) == [t EXCEPT !.alone = FALSE]
  <1>1. /\ CallTypeOK(new) /\ new.op = op /\ new.live /\ new.at = "sent"
        /\ new.alone => \A t \in calls : t.op \in Sessions
    BY DEF Call, CallTypeOK
  <1>2. \A t \in calls : /\ CallTypeOK(Shared(t))
                         /\ Shared(t).op = t.op /\ Shared(t).live = t.live
                         /\ Shared(t).at = t.at /\ Shared(t).alone = FALSE
    BY CallShared DEF ShownInv, ShownTypeOK
  <1>3. calls' = {new} \union {Shared(t) : t \in calls} /\ current' = current
    BY DEF Begin
  <1> HIDE DEF new, Shared
  <1>4. ShownTypeOK'
    BY <1>1, <1>2, <1>3 DEF ShownInv, ShownTypeOK
  <1>5. AloneHonest'
    BY <1>1, <1>2, <1>3 DEF AloneHonest
  <1>6. LeftBehind'
    BY <1>1, <1>2, <1>3 DEF ShownInv, LeftBehind
  <1>7. NothingNew' => NothingNew
    BY <1>2, <1>3 DEF NothingNew
  <1> QED
    BY <1>3, <1>4, <1>5, <1>6, <1>7 DEF ShownInv, ShownSoFar

LEMMA UserKeeps ==
    ASSUME ShownInv, Open \/ Edit \/ Save \/ Reset \/ Close
    PROVE  ShownInv'
  <1> USE DEF Server
  <1>0. DialogTypeOK
    BY DEF ShownInv, ShownTypeOK
  <1>1. CASE Open
    <2>1. DialogTypeOK' /\ dialog'.response = dialog.response
      BY <1>0, <1>1 DEF Open, DialogTypeOK
    <2> QED
      BY <1>1, <2>1, BeginKeeps DEF Open, Ops, Sessions
  <1>2. CASE Save
    <2>1. DialogTypeOK' /\ dialog'.response = dialog.response /\ dialog.draft \in Configs
      BY <1>0, <1>2 DEF Save, DialogTypeOK, Editable
    <2> QED
      BY <1>2, <2>1, BeginKeeps DEF Save, Ops, Sessions
  <1>3. CASE Reset
    <2>1. DialogTypeOK' /\ dialog'.response = dialog.response
      BY <1>0, <1>3 DEF Reset, DialogTypeOK
    <2> QED
      BY <1>3, <2>1, BeginKeeps DEF Reset, Ops, Sessions
  <1>4. ASSUME DialogTypeOK', dialog'.response = dialog.response,
               UNCHANGED <<file, calls, current>>
        PROVE  ShownInv'
    BY <1>4 DEF ShownInv, ShownTypeOK, AloneHonest, LeftBehind, ShownSoFar, NothingNew
  <1>5. CASE Edit
    <2>1. dialog.draft \in Configs
      BY <1>0, <1>5 DEF Edit, Editable, DialogTypeOK
    <2>2. PICK d \in {[dialog.draft EXCEPT !.bash = "ask"], [dialog.draft EXCEPT !.yoloMode = ~@]} :
              dialog' = [dialog EXCEPT !.draft = d]
      BY <1>5 DEF Edit
    <2>3. d \in Configs
      BY <2>1, <2>2 DEF Configs, Policies
    <2>4. DialogTypeOK' /\ dialog'.response = dialog.response
      BY <1>0, <2>2, <2>3 DEF DialogTypeOK
    <2> QED
      BY <1>4, <1>5, <2>4 DEF Edit
  <1>6. CASE Close
    <2>1. DialogTypeOK' /\ dialog'.response = dialog.response
      BY <1>0, <1>6 DEF Close, CloseTo, DialogTypeOK
    <2> QED
      BY <1>4, <1>6, <2>1 DEF Close
  <1> QED
    BY <1>1, <1>2, <1>3, <1>5, <1>6

(* An answer reaches the dialog, or a page that has forgotten it. *)
LEMMA AnswerKeeps ==
    ASSUME ShownInv, NEW t \in calls, Answer(t)
    PROVE  ShownInv'
  <1>0. CallTypeOK(t) /\ DialogTypeOK /\ t.op \in {"load", "save", "reset"}
    BY DEF ShownInv, ShownTypeOK, CallTypeOK, Answer, Ops
  <1>1. ~t.live => dialog' = dialog
    BY DEF Answer
  <1>2. t.live /\ t.at = "answered" =>
            DialogTypeOK' /\ dialog'.response = t.reply
    <2> SUFFICES ASSUME t.live, t.at = "answered"
                 PROVE  DialogTypeOK' /\ dialog'.response = t.reply
      OBVIOUS
    <2>1. PICK d : d = [dialog EXCEPT !.response = t.reply, !.draft = t.reply.config]
      OBVIOUS
    <2>2. dialog' = SetFlag(t.op, d)
      BY <1>0, <2>1 DEF Answer, Shows, SetFlag
    <2>3. t.reply.config \in Configs
      BY <1>0 DEF CallTypeOK, Responses, Sessions
    <2>4. /\ d = [open |-> d.open, response |-> d.response, draft |-> d.draft,
                 loading |-> d.loading, saving |-> d.saving, resetting |-> d.resetting,
                 failed |-> d.failed, asking |-> d.asking]
          /\ d.response = t.reply /\ d.draft \in Configs
      BY <1>0, <2>1, <2>3 DEF DialogTypeOK
    <2> QED
      BY <1>0, <2>2, <2>4 DEF SetFlag, DialogTypeOK
  <1>3. t.live /\ t.at # "answered" =>
            DialogTypeOK' /\ dialog'.response \in {dialog.response, None}
    BY <1>0 DEF Answer, Shows, SetFlag, DialogTypeOK
  <1>4. PICK new : /\ CallTypeOK(new) /\ new.op \in Sessions /\ ~new.alone
                   /\ calls' = calls \ {t} \/ calls' = (calls \ {t}) \union {new}
    <2>1. PICK new : new = [Call("session", None) EXCEPT !.nr = 0]
      OBVIOUS
    <2>2. CallTypeOK(new) /\ new.op \in Sessions /\ ~new.alone
      BY <2>1 DEF Call, CallTypeOK, Ops, Sessions
    <2> QED
      BY <2>1, <2>2 DEF Answer
  <1>5. UNCHANGED file /\ current' = IF t.at = "answered" THEN t.alone ELSE current
    BY DEF Answer
  <1>6. ShownTypeOK'
    BY <1>0, <1>1, <1>2, <1>3, <1>4, <1>5 DEF ShownInv, ShownTypeOK, DialogTypeOK
  <1>7. AloneHonest'
    BY <1>4, <1>5 DEF ShownInv, AloneHonest
  <1>8. ASSUME t.alone
        PROVE  LeftBehind'
    BY <1>4, <1>8 DEF ShownInv, AloneHonest, LeftBehind, Answer
  <1>9. ASSUME ~t.alone
        PROVE  LeftBehind'
    BY <1>1, <1>3, <1>4, <1>5, <1>9 DEF ShownInv, LeftBehind
  <1>10. ASSUME t.at = "answered", current'
         PROVE  dialog'.response = Read(file')
    BY <1>2, <1>5, <1>10 DEF ShownInv, AloneHonest
  <1>11. ASSUME t.at # "answered", current', NothingNew', dialog'.response # None
         PROVE  dialog'.response = Read(file')
    <2>1. t.live
      BY <1>1, <1>5, <1>11 DEF ShownInv, LeftBehind, Answer, ShownTypeOK, CallTypeOK
    <2>2. NothingNew
      BY <1>4, <1>11, <2>1 DEF NothingNew
    <2> QED
      BY <1>3, <1>5, <1>11, <2>1, <2>2 DEF ShownInv, ShownSoFar
  <1> QED
    BY <1>6, <1>7, <1>8, <1>9, <1>10, <1>11 DEF ShownInv, ShownSoFar

(* The route follows the session; a page that is left forgets its dialog. *)
LEMMA SessionToldKeeps ==
    ASSUME ShownInv, NEW t \in calls, SessionTold(t)
    PROVE  ShownInv'
  <1>1. t.op \in Sessions /\ UNCHANGED <<file, current>>
    BY DEF SessionTold
  <1>2. CASE calls' = calls \ {t} /\ dialog' = dialog
    <2>1. NothingNew' => NothingNew
      BY <1>1, <1>2 DEF NothingNew
    <2> QED
      BY <1>1, <1>2, <2>1 DEF ShownInv, ShownTypeOK, DialogTypeOK, AloneHonest, LeftBehind,
         ShownSoFar
  <1>3. CASE /\ dialog' = Closed
             /\ calls' = {o \in calls \ {t} : o.op \in Sessions}
                   \union {[o EXCEPT !.live = FALSE, !.alone = FALSE] :
                               o \in {o \in calls : o.op \notin Sessions /\ o.at \in Going}}
    <2>1. dialog'.response = None /\ DialogTypeOK'
      BY <1>3 DEF Closed, DialogTypeOK
    <2>2. ASSUME NEW o \in calls, NEW left1, left1 = [o EXCEPT !.live = FALSE, !.alone = FALSE]
          PROVE  CallTypeOK(left1) /\ ~left1.alone
      <3>1. CallTypeOK(o)
        BY DEF ShownInv, ShownTypeOK
      <3>2. /\ left1 = [op |-> left1.op, body |-> left1.body, cookie |-> left1.cookie,
                        at |-> left1.at, reply |-> left1.reply, live |-> left1.live,
                        alone |-> left1.alone, nr |-> left1.nr]
            /\ left1.op = o.op /\ left1.live = FALSE /\ left1.at = o.at
            /\ left1.alone = FALSE /\ left1.body = o.body /\ left1.reply = o.reply
        BY <2>2, <3>1 DEF CallTypeOK
      <3> QED
        BY <3>1, <3>2 DEF CallTypeOK
    <2>3. \A u \in calls' : CallTypeOK(u) /\ ~u.alone
      BY <1>3, <2>2 DEF ShownInv, ShownTypeOK, AloneHonest
    <2> QED
      BY <1>1, <2>1, <2>3 DEF ShownInv, ShownTypeOK, AloneHonest, LeftBehind, ShownSoFar
  <1> QED
    BY <1>2, <1>3 DEF SessionTold

(* What a restart loses is refused. *)
LEMMA RestartKeeps ==
    ASSUME ShownInv, Restart
    PROVE  ShownInv'
  <1>1. PICK lost \in SUBSET calls :
           /\ calls' = (calls \ lost) \union {[t EXCEPT !.at = "refused"] : t \in lost}
           /\ current' = (current /\ \A t \in lost : t.at # "answered")
    BY DEF Restart
  <1>2. UNCHANGED <<file, dialog>>
    BY DEF Restart
  <1>3. ASSUME NEW t \in calls, NEW refused, refused = [t EXCEPT !.at = "refused"]
        PROVE  /\ CallTypeOK(refused)
               /\ refused.op = t.op /\ refused.live = t.live /\ refused.alone = t.alone
               /\ refused.at = "refused"
    <2>1. CallTypeOK(t)
      BY DEF ShownInv, ShownTypeOK
    <2>2. /\ refused = [op |-> refused.op, body |-> refused.body, cookie |-> refused.cookie,
                        at |-> refused.at, reply |-> refused.reply, live |-> refused.live,
                        alone |-> refused.alone, nr |-> refused.nr]
          /\ refused.op = t.op /\ refused.live = t.live /\ refused.at = "refused"
          /\ refused.alone = t.alone /\ refused.body = t.body
      BY <1>3, <2>1 DEF CallTypeOK
    <2> QED
      BY <2>1, <2>2 DEF CallTypeOK
  <1>4. \A u \in calls' : \/ u \in calls \ lost
                          \/ \E t \in lost : u = [t EXCEPT !.at = "refused"]
    BY <1>1
  <1>5. ShownTypeOK'
    BY <1>2, <1>3, <1>4 DEF ShownInv, ShownTypeOK, DialogTypeOK
  <1>6. ASSUME NEW u \in calls', u.alone
        PROVE  /\ u.op \notin Sessions /\ u.live
               /\ \A v \in calls' : v.op \notin Sessions => v = u
               /\ u.at = "answered" => u.reply = Read(file')
    <2>1. PICK t \in calls : /\ t.alone /\ t.op = u.op /\ t.live = u.live
                             /\ u = t \/ u.at = "refused"
                             /\ IF t \in lost THEN u = [t EXCEPT !.at = "refused"] ELSE u = t
      BY <1>3, <1>4, <1>6
    <2>2. \A v \in calls : v.op \notin Sessions => v = t
      BY <2>1 DEF ShownInv, AloneHonest
    <2>3. \A v \in calls' : v.op \notin Sessions => v = u
      BY <1>3, <1>4, <2>1, <2>2
    <2> QED
      BY <1>2, <2>1, <2>3 DEF ShownInv, AloneHonest
  <1>7. LeftBehind'
    <2> SUFFICES ASSUME NEW u \in calls', u.op \notin Sessions, ~u.live, current'
                 PROVE  dialog'.response = None
      BY DEF LeftBehind
    <2>1. PICK t \in calls : t.op = u.op /\ t.live = u.live
      BY <1>3, <1>4
    <2> QED
      BY <1>1, <1>2, <2>1 DEF ShownInv, LeftBehind
  <1>8. ASSUME current', NothingNew', NEW t \in calls, t.op \notin Sessions
        PROVE  t.live /\ t.at # "answered"
    <2>1. CASE t \notin lost
      BY <1>1, <1>8, <2>1 DEF NothingNew
    <2>2. CASE t \in lost
      <3>1. PICK refused : refused = [t EXCEPT !.at = "refused"]
        OBVIOUS
      <3>2. refused \in calls'
        BY <1>1, <2>2, <3>1
      <3>3. refused.op = t.op /\ refused.live = t.live
        BY <1>3, <3>1
      <3> QED
        BY <1>1, <1>8, <2>2, <3>2, <3>3 DEF NothingNew
    <2> QED
      BY <2>1, <2>2
  <1> QED
    BY <1>1, <1>2, <1>5, <1>6, <1>7, <1>8 DEF ShownInv, AloneHonest, ShownSoFar, NothingNew

(* Nothing the dialog has shown is vouched for once the file was edited. *)
LEMMA EditByHandKeeps ==
    ASSUME ShownInv, EditByHand
    PROVE  ShownInv'
  <1>1. /\ file' \in Files /\ calls' = {[t EXCEPT !.alone = FALSE] : t \in calls}
        /\ current' = FALSE /\ dialog' = dialog
    BY DEF EditByHand, Files
  <1>2. \A u \in calls' : CallTypeOK(u) /\ ~u.alone
    BY <1>1, CallShared DEF ShownInv, ShownTypeOK
  <1> QED
    BY <1>1, <1>2 DEF ShownInv, ShownTypeOK, DialogTypeOK, AloneHonest, LeftBehind, ShownSoFar,
       Files

LEMMA SignedInKeeps ==
    ASSUME ShownInv, SignedIn
    PROVE  ShownInv'
  <1>1. PICK new : new = [Call("signed in", None) EXCEPT !.cookie = secret, !.nr = 0]
    OBVIOUS
  <1>2. CallTypeOK(new) /\ new.op \in Sessions /\ ~new.alone
    BY <1>1 DEF Call, CallTypeOK, Ops, Sessions
  <1>3. calls' = calls \union {new} /\ UNCHANGED <<file, dialog, current>>
    BY <1>1 DEF SignedIn
  <1>4. NothingNew' => NothingNew
    BY <1>3 DEF NothingNew
  <1> QED
    BY <1>2, <1>3, <1>4 DEF ShownInv, ShownTypeOK, DialogTypeOK, AloneHonest, LeftBehind,
       ShownSoFar

LEMMA ShownUnchanged ==
    ASSUME ShownInv, UNCHANGED <<file, calls, dialog, current>>
    PROVE  ShownInv'
BY DEF ShownInv, ShownTypeOK, DialogTypeOK, AloneHonest, LeftBehind, ShownSoFar, NothingNew

LEMMA ShownStep ==
    ASSUME ShownInv, [Next]_vars
    PROVE  ShownInv'
  <1>1. ASSUME NEW t \in calls, Serve(t) \/ Answer(t) \/ SessionTold(t) PROVE ShownInv'
    BY <1>1, ServeKeeps, AnswerKeeps, SessionToldKeeps
  <1>2. ASSUME Open \/ Edit \/ Save \/ Reset \/ Close PROVE ShownInv'
    BY <1>2, UserKeeps
  <1>3. ASSUME UNCHANGED settings PROVE ShownInv'
    BY <1>3, ShownUnchanged DEF settings
  <1>4. ASSUME NEW c \in Clients, Login(c) PROVE ShownInv'
    BY <1>3, <1>4, SignedInKeeps DEF Login
  <1>5. ASSUME Others PROVE ShownInv'
    BY <1>5, ShownUnchanged, RestartKeeps, EditByHandKeeps DEF Others, Elsewhere, Expire
  <1> QED
    BY <1>1, <1>2, <1>3, <1>4, <1>5 DEF Next, SignIn, vars

(* Which of its requests the dialog can rely on: one that is the only one     *)
(* under way brings what the file says.                                       *)
THEOREM ShownInvariant == Spec => []ShownInv
  <1>1. ShownInv /\ [Next]_vars => ShownInv'
    BY ShownStep
  <1> QED
    BY <1>1, ShownInitially, PTL DEF Spec

(* What the dialog shows once its requests are over is what the file says,    *)
(* for any number of requests and edits, refused, lost or answered.           *)
THEOREM DialogTruthful == Spec => []ShownIsFile
  <1>1. ShownInv => ShownIsFile
    BY DEF ShownInv, ShownSoFar, NothingNew, ShownIsFile
  <1> QED
    BY <1>1, ShownInvariant, PTL

(* Whatever requests, edits by hand and restarts come between each other,     *)
(* whoever reads the policy file finds a whole configuration, and never one   *)
(* that is half written (writePermissionConfigFile writes a file of its own   *)
(* and renames it).                                                           *)
THEOREM PolicyAlwaysWhole == Spec => []PolicyWhole
  <1>1. ShownInv => PolicyWhole
    BY DEF ShownInv, ShownTypeOK, Missing, Whole, HandWritten, PolicyWhole
  <1> QED
    BY <1>1, ShownInvariant, PTL

-------------------------------------------------------------------------------
(* Types, and what blocks the dialog *)

FormInv ==
    /\ \A t \in calls : /\ t.body \in Configs \union {None}
                        /\ t.at \in {"sent", "written", "answered", "unauthorized", "refused"}
    /\ page \in {"workspace", "login"}
    /\ dialog.response \in Responses \union {None}
    /\ BlockedByRequests

(* A request that goes on is still there, and as live as it was. *)
LEMMA GoesOn ==
    ASSUME ShownInv, FormInv, NEW t \in calls, NEW at, NEW reply, Became(t, at, reply),
           at \in {"sent", "written", "answered", "unauthorized", "refused"},
           UNCHANGED <<page, dialog>>
    PROVE  FormInv'
  <1>0. PICK u : u = [t EXCEPT !.at = at, !.reply = reply]
    OBVIOUS
  <1>1. u.op = t.op /\ u.live = t.live /\ u.at = at /\ u.body = t.body
    BY <1>0 DEF ShownInv, ShownTypeOK, CallTypeOK
  <1>2. /\ calls' \subseteq (calls \ {t}) \union {u}
        /\ calls \ {t} \subseteq calls'
        /\ t.live => u \in calls'
    BY <1>0 DEF Became
  <1> QED
    BY <1>1, <1>2 DEF FormInv, BlockedByRequests, Awaited

LEMMA ServeForm ==
    ASSUME ShownInv, FormInv, NEW t \in calls, Serve(t)
    PROVE  FormInv'
BY GoesOn DEF Serve, Unauthorized, Session, Load, Write, Rename, Remove, Refuse, Browser

(* A request begins with its flag set, and takes no other away. *)
LEMMA BeginForm ==
    ASSUME ShownInv, FormInv, NEW op \in Ops \ Sessions, NEW body \in Configs \union {None},
           Begin(op, body), page' = page, DialogTypeOK',
           dialog'.response = dialog.response,
           op # "load" => dialog'.loading = dialog.loading,
           op # "save" => dialog'.saving = dialog.saving,
           op # "reset" => dialog'.resetting = dialog.resetting
    PROVE  FormInv'
  <1> DEFINE new == Call(op, body)
             Shared(t) == [t EXCEPT !.alone = FALSE]
  <1>1. new.op = op /\ new.live /\ new.at = "sent" /\ new.body = body
    BY DEF Call
  <1>2. \A t \in calls : /\ Shared(t).op = t.op /\ Shared(t).live = t.live
                         /\ Shared(t).at = t.at /\ Shared(t).body = t.body
    BY DEF ShownInv, ShownTypeOK, CallTypeOK
  <1>3. calls' = {new} \union {Shared(t) : t \in calls}
    BY DEF Begin
  <1> HIDE DEF new, Shared
  <1>4. \A o : Awaited(o) => Awaited(o)'
    BY <1>2, <1>3 DEF Awaited
  <1>5. Awaited(op)'
    BY <1>1, <1>3 DEF Awaited
  <1> QED
    BY <1>1, <1>2, <1>3, <1>4, <1>5 DEF FormInv, BlockedByRequests

LEMMA UserForm ==
    ASSUME ShownInv, FormInv, Open \/ Edit \/ Save \/ Reset \/ Close
    PROVE  FormInv'
  <1> USE DEF Server
  <1>0. DialogTypeOK /\ DialogTypeOK'
    BY UserKeeps DEF ShownInv, ShownTypeOK
  <1>1. CASE Open
    BY <1>0, <1>1, BeginForm DEF Open, Ops, Sessions, DialogTypeOK
  <1>2. CASE Save
    <2>1. dialog.draft \in Configs
      BY <1>0, <1>2 DEF Save, DialogTypeOK, Editable
    <2> QED
      BY <1>0, <1>2, <2>1, BeginForm DEF Save, Ops, Sessions, DialogTypeOK
  <1>3. CASE Reset
    BY <1>0, <1>3, BeginForm DEF Reset, Ops, Sessions, DialogTypeOK
  <1>4. CASE Edit \/ Close
    <2>1. /\ dialog'.response = dialog.response /\ dialog'.loading = dialog.loading
          /\ dialog'.saving = dialog.saving /\ dialog'.resetting = dialog.resetting
          /\ UNCHANGED <<page, calls>>
      BY <1>0, <1>4 DEF Edit, Close, CloseTo, DialogTypeOK
    <2> QED
      BY <2>1 DEF FormInv, BlockedByRequests, Awaited
  <1> QED
    BY <1>1, <1>2, <1>3, <1>4

(* An answer that is the last of its kind clears the flag. *)
LEMMA AnswerForm ==
    ASSUME ShownInv, FormInv, NEW t \in calls, Answer(t)
    PROVE  FormInv'
  <1>0. CallTypeOK(t) /\ DialogTypeOK /\ t.op \in {"load", "save", "reset"}
    BY DEF ShownInv, ShownTypeOK, CallTypeOK, Answer, Ops
  <1>1. ~t.live => dialog' = dialog
    BY DEF Answer
  <1>2. t.live =>
            /\ dialog'.response \in Responses \union {None}
            /\ dialog'.loading = IF t.op = "load" THEN FALSE ELSE dialog.loading
            /\ dialog'.saving = IF t.op = "save" THEN FALSE ELSE dialog.saving
            /\ dialog'.resetting = IF t.op = "reset" THEN FALSE ELSE dialog.resetting
    <2>1. CASE t.at = "answered"
      <3>1. PICK d : d = [dialog EXCEPT !.response = t.reply, !.draft = t.reply.config]
        OBVIOUS
      <3>2. t.live => dialog' = SetFlag(t.op, d)
        BY <1>0, <2>1, <3>1 DEF Answer, Shows, SetFlag
      <3>3. /\ d = [open |-> d.open, response |-> d.response, draft |-> d.draft,
                    loading |-> d.loading, saving |-> d.saving, resetting |-> d.resetting,
                    failed |-> d.failed, asking |-> d.asking]
            /\ d.response = t.reply /\ t.reply \in Responses /\ d.loading = dialog.loading
            /\ d.saving = dialog.saving /\ d.resetting = dialog.resetting
        BY <1>0, <2>1, <3>1 DEF DialogTypeOK, CallTypeOK, Sessions
      <3> QED
        BY <1>0, <3>2, <3>3 DEF SetFlag
    <2>2. CASE t.at # "answered"
      BY <1>0, <2>2 DEF Answer, Shows, SetFlag, DialogTypeOK, FormInv
    <2> QED
      BY <2>1, <2>2
  <1>3. PICK new : /\ new.body = None /\ new.at = "sent"
                   /\ calls' = calls \ {t} \/ calls' = (calls \ {t}) \union {new}
    <2>1. PICK new : new = [Call("session", None) EXCEPT !.nr = 0]
      OBVIOUS
    <2>2. new.body = None /\ new.at = "sent"
      BY <2>1 DEF Call
    <2> QED
      BY <2>1, <2>2 DEF Answer
  <1>4. \A op : Awaited(op) => Awaited(op)' \/ (op = t.op /\ t.live)
    BY <1>3 DEF Awaited
  <1>5. page' = page
    BY DEF Answer
  <1> QED
    BY <1>0, <1>1, <1>2, <1>3, <1>4, <1>5 DEF FormInv, BlockedByRequests

(* A page that is left has a dialog that is not blocked. *)
LEMMA SessionToldForm ==
    ASSUME ShownInv, FormInv, NEW t \in calls, SessionTold(t)
    PROVE  FormInv'
  <1>1. t.op \in Sessions
    BY DEF SessionTold
  <1>2. CASE calls' = calls \ {t} /\ UNCHANGED <<page, dialog>>
    BY <1>1, <1>2 DEF FormInv, BlockedByRequests, Awaited, Sessions
  <1>3. CASE /\ page' = (IF t.reply THEN "workspace" ELSE "login") /\ dialog' = Closed
             /\ calls' = {o \in calls \ {t} : o.op \in Sessions}
                   \union {[o EXCEPT !.live = FALSE, !.alone = FALSE] :
                               o \in {o \in calls : o.op \notin Sessions /\ o.at \in Going}}
    <2>1. ASSUME NEW o \in calls, NEW u, u = [o EXCEPT !.live = FALSE, !.alone = FALSE]
          PROVE  u.body = o.body /\ u.at = o.at
      BY <2>1 DEF ShownInv, ShownTypeOK, CallTypeOK
    <2>0. \A u \in calls' : \/ u \in calls
                            \/ \E o \in calls : u = [o EXCEPT !.live = FALSE, !.alone = FALSE]
      BY <1>3
    <2>2. ASSUME NEW u \in calls', u \notin calls
          PROVE  \E o \in calls : u.body = o.body /\ u.at = o.at
      <3>1. PICK o \in calls : u = [o EXCEPT !.live = FALSE, !.alone = FALSE]
        BY <2>0, <2>2
      <3> QED
        BY <2>1, <3>1
    <2>3. ~dialog'.loading /\ ~dialog'.saving /\ ~dialog'.resetting /\ dialog'.response = None
      BY <1>3 DEF Closed
    <2>4. page' \in {"workspace", "login"}
      BY <1>3
    <2> QED
      BY <2>2, <2>3, <2>4 DEF FormInv, BlockedByRequests
  <1> QED
    BY <1>2, <1>3 DEF SessionTold

(* What a restart loses is refused, and so still answered. *)
LEMMA RestartForm ==
    ASSUME ShownInv, FormInv, Restart
    PROVE  FormInv'
  <1>1. PICK lost \in SUBSET calls :
           calls' = (calls \ lost) \union {[t EXCEPT !.at = "refused"] : t \in lost}
    BY DEF Restart
  <1>2. ASSUME NEW t \in calls, NEW u, u = [t EXCEPT !.at = "refused"]
        PROVE  u.op = t.op /\ u.live = t.live /\ u.body = t.body /\ u.at = "refused"
    BY <1>2 DEF ShownInv, ShownTypeOK, CallTypeOK
  <1>3. \A t \in calls : \E u \in calls' : u.op = t.op /\ u.live = t.live
    <2> SUFFICES ASSUME NEW t \in calls, t \in lost
                 PROVE  \E u \in calls' : u.op = t.op /\ u.live = t.live
      BY <1>1
    <2>1. PICK u : u = [t EXCEPT !.at = "refused"]
      OBVIOUS
    <2> QED
      BY <1>1, <1>2, <2>1
  <1>4. \A u \in calls' : u \in calls \/ \E t \in calls : u.body = t.body /\ u.at = "refused"
    BY <1>1, <1>2
  <1>5. UNCHANGED <<page, dialog>>
    BY DEF Restart
  <1> QED
    BY <1>3, <1>4, <1>5 DEF FormInv, BlockedByRequests, Awaited

LEMMA FormStep ==
    ASSUME ShownInv, FormInv, [Next]_vars
    PROVE  FormInv'
  <1>1. ASSUME NEW t \in calls, Serve(t) \/ Answer(t) \/ SessionTold(t) PROVE FormInv'
    BY <1>1, ServeForm, AnswerForm, SessionToldForm
  <1>2. ASSUME Open \/ Edit \/ Save \/ Reset \/ Close PROVE FormInv'
    BY <1>2, UserForm
  <1>3. ASSUME UNCHANGED <<calls, page, dialog>> PROVE FormInv'
    BY <1>3 DEF FormInv, BlockedByRequests, Awaited
  <1>4. ASSUME SignedIn PROVE FormInv'
    <2>1. PICK new : new = [Call("signed in", None) EXCEPT !.cookie = secret, !.nr = 0]
      OBVIOUS
    <2>2. new.body = None /\ new.at = "sent"
      BY <2>1 DEF Call
    <2>3. calls' = calls \union {new} /\ UNCHANGED <<page, dialog>>
      BY <1>4, <2>1 DEF SignedIn
    <2> QED
      BY <2>2, <2>3 DEF FormInv, BlockedByRequests, Awaited
  <1>5. CASE EditByHand
    <2>1. calls' = {[t EXCEPT !.alone = FALSE] : t \in calls} /\ UNCHANGED <<page, dialog>>
      BY <1>5 DEF EditByHand
    <2>2. ASSUME NEW t \in calls, NEW u, u = [t EXCEPT !.alone = FALSE]
          PROVE  u.op = t.op /\ u.live = t.live /\ u.body = t.body /\ u.at = t.at
      BY <2>2 DEF ShownInv, ShownTypeOK, CallTypeOK
    <2>3. ASSUME NEW t \in calls
          PROVE  \E u \in calls' : u.op = t.op /\ u.live = t.live
      <3>1. PICK u : u = [t EXCEPT !.alone = FALSE]
        OBVIOUS
      <3> QED
        BY <2>1, <2>2, <3>1
    <2>4. \A u \in calls' : \E t \in calls : u = [t EXCEPT !.alone = FALSE]
      BY <2>1
    <2>5. ASSUME NEW u \in calls'
          PROVE  \E t \in calls : u.body = t.body /\ u.at = t.at
      <3>1. PICK t \in calls : u = [t EXCEPT !.alone = FALSE]
        BY <2>4
      <3> QED
        BY <2>2, <3>1
    <2>6. UNCHANGED <<page, dialog>>
      BY <2>1
    <2> QED
      BY <2>3, <2>5, <2>6 DEF FormInv, BlockedByRequests, Awaited
  <1> QED
    BY <1>1, <1>2, <1>3, <1>4, <1>5, RestartForm
       DEF Next, SignIn, vars, settings, Login, Others, Elsewhere, Expire

(* The types of the login, of the file, the requests and the dialog. *)
THEOREM TypeCorrect == Spec => []TypeOK
  <1>1. Init => FormInv
    BY DEF Init, FormInv, BlockedByRequests, Closed
  <1>2. ShownInv /\ FormInv /\ [Next]_vars => FormInv'
    BY FormStep
  <1>3. LoginInv /\ ShownInv /\ FormInv => TypeOK
    BY DEF LoginInv, ShownInv, ShownTypeOK, DialogTypeOK, CallTypeOK, FormInv, TypeOK, Responses
  <1> QED
    BY <1>1, <1>2, <1>3, LoginInvariant, ShownInvariant, PTL DEF Spec

(* While the dialog is loading, saving or resetting, a request of it is under *)
(* way that is going to be answered or refused, for any number of requests,   *)
(* restarts, expired sessions and pages that are left.                        *)
THEOREM NeverBlockedForGood == Spec => []BlockedByRequests
  <1>1. Init => FormInv
    BY DEF Init, FormInv, BlockedByRequests, Closed
  <1>2. ShownInv /\ FormInv /\ [Next]_vars => FormInv'
    BY FormStep
  <1>3. FormInv => BlockedByRequests
    BY DEF FormInv
  <1> QED
    BY <1>1, <1>2, <1>3, ShownInvariant, PTL DEF Spec
===============================================================================
