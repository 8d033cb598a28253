------------------------------- MODULE AdminLogin -------------------------------
(***************************************************************************)
(* Signing in: login attempts of any number of clients for the one admin   *)
(* identity, the delay that failures earn, and the secret that sessions    *)
(* are signed with.  Failures, attempts and, unless it is configured, the  *)
(* secret are of the server's process.                                     *)
(*                                                                         *)
(* Time is discrete; its unit is baseDelayMs.  A cookie is the number of   *)
(* the secret it was signed with, 0 for none.                              *)
(***************************************************************************)
EXTENDS Integers

CONSTANTS
    Clients,        \* who asks to be signed in, one request at a time each
    MaxDelay,       \* maxDelayMs
    IdleReset,      \* idleResetMs
    MaxFailures,    \* bound: failures in a row
    None

ASSUME AdminLoginAssumption ==
    /\ MaxDelay \in Nat /\ IdleReset \in Nat \ {0} /\ MaxFailures \in Nat
    /\ None \notin Nat

VARIABLES
    consecutiveFailures,
    since,          \* the time since lastFailureAt, at most IdleReset; None
    attempts,       \* clients with an attempt on attemptTail
    ahead,          \* for each of them, those that were there before it
    left,           \* what is left of its delay; None before it is known
    secret,         \* processSessionSecret
    cookies         \* what each client was given last

login == <<consecutiveFailures, since, attempts, ahead, left, secret, cookies>>

Least(a, b) == IF a < b THEN a ELSE b

(* The delay earned by failures, see waitBeforeAttempt *)
Delay(failures) == IF failures = 0 THEN 0 ELSE Least(2 ^ (failures - 1), MaxDelay)

LoginTypeOK ==
    /\ consecutiveFailures \in Nat
    /\ since \in (0..IdleReset) \union {None}
    /\ attempts \subseteq Clients
    /\ ahead \in [Clients -> SUBSET Clients]
    /\ left \in [Clients -> Nat \union {None}]
    /\ secret \in Nat /\ cookies \in [Clients -> Nat]

LoginInit ==
    /\ consecutiveFailures = 0 /\ since = None
    /\ attempts = {} /\ ahead = [c \in Clients |-> {}] /\ left = [c \in Clients |-> None]
    /\ secret = 1 /\ cookies \in [Clients -> {0, 1}]

-------------------------------------------------------------------------------
(* run: an attempt takes its place on the tail. *)
Attempt(c) ==
    /\ c \notin attempts
    /\ attempts' = attempts \union {c}
    /\ ahead' = [ahead EXCEPT ![c] = attempts]
    /\ UNCHANGED <<consecutiveFailures, since, left, secret, cookies>>

AnyTurn(c) == c \in attempts                                       \* fault

(* The attempts before it are over. *)
Turn(c) == c \in attempts /\ ahead[c] = {}

(* resetAfterIdle: the failures that still count *)
Idle == since # None /\ since >= IdleReset
Failures == IF Idle THEN 0 ELSE consecutiveFailures

(* waitBeforeAttempt *)
WaitBeforeAttempt(c) ==
    /\ Turn(c) /\ left[c] = None
    /\ consecutiveFailures' = Failures
    /\ since' = IF Idle THEN None ELSE since
    /\ left' = [left EXCEPT ![c] = Delay(Failures)]
    /\ UNCHANGED <<attempts, ahead, secret, cookies>>

(* An attempt is over, and the next one has its turn whatever came of it. *)
Over(c) ==
    /\ attempts' = attempts \ {c}
    /\ ahead' = [d \in Clients |-> ahead[d] \ {c}]
    /\ left' = [left EXCEPT ![c] = None]

RejectForGood(c) ==                                                \* fault
    /\ Turn(c) /\ left[c] = 0 /\ Failures < MaxFailures
    /\ consecutiveFailures' = Failures + 1 /\ since' = 0
    /\ attempts' = attempts \ {c} /\ left' = [left EXCEPT ![c] = None]
    /\ UNCHANGED <<ahead, secret, cookies>>

(* The password is wrong: recordFailure *)
Reject(c) ==
    /\ Turn(c) /\ left[c] = 0 /\ Failures < MaxFailures
    /\ consecutiveFailures' = Failures + 1 /\ since' = 0
    /\ Over(c)
    /\ UNCHANGED <<secret, cookies>>

(* The password is right: recordSuccess, and a cookie is set. *)
Accept(c) ==
    /\ Turn(c) /\ left[c] = 0
    /\ consecutiveFailures' = 0 /\ since' = None
    /\ cookies' = [cookies EXCEPT ![c] = secret]
    /\ Over(c)
    /\ UNCHANGED secret

Verify(c) == Reject(c) \/ Accept(c)

(* Time passes for everybody who waits. *)
Tick ==
    /\ since' = IF since = None THEN None ELSE Least(since + 1, IdleReset)
    /\ left' = [c \in Clients |-> IF left[c] \in {None, 0} THEN left[c] ELSE left[c] - 1]
    /\ UNCHANGED <<consecutiveFailures, attempts, ahead, secret, cookies>>

(* assertAuthConfig, when the server starts again: attempts under way are     *)
(* lost, and so are cookies unless the secret is a configured one.            *)
Restarted ==
    /\ consecutiveFailures' = 0 /\ since' = None
    /\ attempts' = {} /\ ahead' = [c \in Clients |-> {}] /\ left' = [c \in Clients |-> None]
    /\ secret' \in {secret, secret + 1}
    /\ UNCHANGED cookies

(* getAuthSession *)
Accepted(cookie) == cookie = secret

LoginNext ==
    \/ \E c \in Clients : Attempt(c) \/ WaitBeforeAttempt(c) \/ Verify(c)
    \/ Tick \/ Restarted

LoginSpec == LoginInit /\ [][LoginNext]_login

-------------------------------------------------------------------------------
(* Properties *)

(* An attempt whose password is about to be looked at comes no sooner after   *)
(* the last failure than all the failures so far demand, also when many       *)
(* attempts are sent at once (the comment of LoginBackoff).                   *)
EarnedDelayPaid ==
    \A c \in attempts : left[c] = 0 /\ since # None => since >= Delay(Failures)

(* Every attempt is answered, also after others that failed, unless the       *)
(* server stops.                                                              *)
LoginsAnswered == \A c \in Clients : c \in attempts ~> c \notin attempts

(* The safety of it: while there are attempts, one of them has its turn, and  *)
(* no other.                                                                  *)
OneHasItsTurn ==
    attempts # {} => \E c \in attempts : \A d \in attempts : Turn(d) <=> d = c
===============================================================================
