--------------------------- MODULE SessionController ---------------------------
(***************************************************************************)
(* PiSessionController: one loaded session and the Pi SDK session behind   *)
(* it, which is created by the first operation that needs it, shared by    *)
(* the operations that run at the same time, and torn down by dispose().   *)
(*                                                                         *)
(* An action is a piece of a method between two awaits.  The SDK, the      *)
(* services and the extensions are external: each awaited call of theirs   *)
(* settles either way.  A shutdown disposes the controller at any time.    *)
(* Deferred settings, approvals and the live transcript are not modelled   *)
(* here; steering, follow-ups, aborting, clearing the queue and changing   *)
(* settings are one kind of operation, "plain": they wait for the SDK      *)
(* session and make one call on it.                                        *)
(***************************************************************************)
EXTENDS Naturals, FiniteSets

CONSTANTS
    Calls,          \* slots for operations in flight
    Sdks,           \* SDK sessions, numbered as they are created
    None

ASSUME ControllerAssumption ==
    Sdks \subseteq Nat /\ IsFiniteSet(Sdks) /\ None \notin Sdks \union Calls

VARIABLES
    life,           \* disposing and disposed
    initPromise,    \* the operation that runs initializeSession for it
    result,         \* sessionResult
    doomed,         \* dispose's local variable session
    sdk,            \* the SDK sessions
    bound,          \* those whose extensions are bound
    subscribed,     \* those that call onSessionEvent
    kept,           \* unsubscribe: the one that calling it would end
    compacting,
    call,           \* the operations
    orphaned        \* history: created for a controller disposed meanwhile

vars == <<life, initPromise, result, doomed, sdk, bound, subscribed, kept,
          compacting, call, orphaned>>

-------------------------------------------------------------------------------
(* Types *)

Ops == {"prompt", "compact", "plain"}

InitPhases == {"preparing", "creating", "binding", "cleaning"}

(* on is the SDK session an operation creates or has called; turn the last   *)
(* turn event browsers got for a prompt.  A free slot keeps what became of   *)
(* its last operation.                                                       *)
Call ==
    [op    : Ops,
     phase : InitPhases \union {"free", "waiting", "failed", "ready", "running"},
     on    : Sdks \union {None},
     turn  : {"none", "started", "completed", "failed"},
     error : BOOLEAN]

TypeOK ==
    /\ life \in {"usable", "disposing", "disposed"}
    /\ initPromise \in Calls \union {None}
    /\ {result, doomed, kept} \subseteq Sdks \union {None}
    /\ sdk \in [Sdks -> {"unborn", "live", "disposed"}]
    /\ bound \subseteq Sdks
    /\ subscribed \subseteq Sdks
    /\ compacting \in BOOLEAN
    /\ call \in [Calls -> Call]
    /\ orphaned \in BOOLEAN

-------------------------------------------------------------------------------
(* State functions *)

Live == {i \in Sdks : sdk[i] = "live"}
Unborn == {i \in Sdks : sdk[i] = "unborn"}

(* isBusy, the part that shows here. *)
Busy == initPromise # None \/ compacting

(* The sessionId getter throws once there is neither an SDK session nor a   *)
(* usable session manager, and so does whoever reads it for an event.       *)
HasSessionId == result # None \/ life = "usable"

(* requireSession *)
Usable == life = "usable" /\ result # None

(* A call settles.  compact's finally clears its flag. *)
Settle(k, turn, error) ==
    /\ call' = [call EXCEPT ![k] = [@ EXCEPT !.phase = "free", !.on = None,
                                             !.turn = turn, !.error = error]]
    /\ compacting' = (compacting /\ call[k].op # "compact")

WakeAlone(k, phase) ==                                            \* fault
    call' = [call EXCEPT ![k] = [@ EXCEPT !.phase = phase, !.on = None]]

(* k and the operations that wait for its initialisation resume, or fail. *)
Wake(k, phase) ==
    call' = [j \in Calls |->
               IF j = k \/ call[j].phase = "waiting"
               THEN [call[j] EXCEPT !.phase = phase, !.on = None] ELSE call[j]]

InitSettled(k, phase) == initPromise' = None /\ Wake(k, phase)

InitGoes(k, phase, i) ==
    /\ call' = [call EXCEPT ![k] = [@ EXCEPT !.phase = phase, !.on = i]]
    /\ UNCHANGED initPromise

LifeUnchanged == UNCHANGED <<life, doomed>>
SdkUnchanged == UNCHANGED <<result, sdk, bound, subscribed, kept, orphaned>>

-------------------------------------------------------------------------------
(* Operations *)

EnsureInitializedTwice ==                                         \* fault
    IF result # None THEN "ready" ELSE "preparing"

(* ensureInitialized: the SDK session is there, or its initialisation is    *)
(* shared, or it is started.                                                *)
EnsureInitialized ==
    IF result # None THEN "ready" ELSE IF initPromise # None THEN "waiting" ELSE "preparing"

(* An operation of a controller that is still registered, up to its first   *)
(* await.  The workspace does not compact a busy session.                   *)
Submit(k, op) ==
    /\ call[k].phase = "free" /\ life = "usable"
    /\ op = "compact" => ~Busy
    /\ compacting' = (compacting \/ op = "compact")
    /\ call' = [call EXCEPT ![k] = [op |-> op, phase |-> EnsureInitialized, on |-> None,
                                    turn |-> "none", error |-> FALSE]]
    /\ initPromise' = IF EnsureInitialized = "preparing" THEN k ELSE initPromise
    /\ LifeUnchanged /\ SdkUnchanged

(* ensureInitialized rejected. *)
Rejected(k) ==
    /\ call[k].phase = "failed"
    /\ Settle(k, "none", TRUE)
    /\ UNCHANGED initPromise /\ LifeUnchanged /\ SdkUnchanged

(* The operation resumes and calls the SDK session, or throws.  A prompt     *)
(* reports turn_started before it asks for the session.                      *)
Resume(k) ==
    /\ call[k].phase = "ready"
    /\ LET prompt == call[k].op = "prompt" IN
       \/ /\ Usable
          /\ call' = [call EXCEPT ![k] = [@ EXCEPT !.phase = "running", !.on = result,
                                            !.turn = IF prompt THEN "started" ELSE "none"]]
          /\ UNCHANGED compacting
       \/ /\ ~Usable
          /\ Settle(k, IF prompt /\ HasSessionId THEN "failed" ELSE "none", TRUE)
    /\ UNCHANGED initPromise /\ LifeUnchanged /\ SdkUnchanged

SettledWithoutReport(k) ==                                        \* fault
    /\ call[k].phase = "running"
    /\ \E error \in BOOLEAN :
         Settle(k, IF error THEN call[k].turn ELSE "completed", error)
    /\ UNCHANGED initPromise /\ LifeUnchanged /\ SdkUnchanged

(* The SDK's call settles.  A prompt reports the end of its turn, which     *)
(* throws, and reports nothing, when the controller was disposed meanwhile. *)
Settled(k) ==
    /\ call[k].phase = "running"
    /\ \E error \in BOOLEAN :
         Settle(k,
                IF call[k].op # "prompt" THEN "none"
                ELSE IF ~HasSessionId THEN call[k].turn
                ELSE IF error THEN "failed" ELSE "completed",
                error \/ (call[k].op = "prompt" /\ ~HasSessionId))
    /\ UNCHANGED initPromise /\ LifeUnchanged /\ SdkUnchanged

-------------------------------------------------------------------------------
(* initializeSession *)

(* ensurePermissionConfig and getServices settle; the manager is asked for. *)
Prepared(k) ==
    /\ call[k].phase = "preparing"
    /\ \/ life = "usable" /\ InitGoes(k, "creating", None)
       \/ InitSettled(k, "failed")
    /\ UNCHANGED compacting /\ LifeUnchanged /\ SdkUnchanged

(* createAgentSessionFromServices settles.  The session is stored before    *)
(* requireSession finds out that the controller has been disposed.          *)
Created(k) ==
    /\ call[k].phase = "creating"
    /\ \/ InitSettled(k, "failed") /\ SdkUnchanged
       \/ \E i \in Unborn :
            /\ \A j \in Unborn : i <= j
            /\ sdk' = [sdk EXCEPT ![i] = "live"]
            /\ result' = i
            /\ orphaned' = (orphaned \/ life # "usable")
            /\ IF life = "usable" THEN InitGoes(k, "binding", i)
               ELSE InitSettled(k, "failed")
            /\ UNCHANGED <<bound, subscribed, kept>>
    /\ UNCHANGED compacting /\ LifeUnchanged

(* subscribe: the SDK session calls onSessionEvent from now on. *)
Subscribe(i) ==
    /\ bound' = bound \union {i}
    /\ subscribed' = subscribed \union {i}
    /\ kept' = i

(* bindExtensions settles: subscribe, or begin to clean up. *)
Bound(k) ==
    /\ call[k].phase = "binding"
    /\ \/ Subscribe(call[k].on) /\ InitSettled(k, "ready")
       \/ InitGoes(k, "cleaning", call[k].on) /\ UNCHANGED <<bound, subscribed, kept>>
    /\ UNCHANGED <<result, sdk, compacting, orphaned>> /\ LifeUnchanged

CleanedReferences(k) ==                                           \* fault
    /\ call[k].phase = "cleaning"
    /\ result' = None
    /\ kept' = None
    /\ InitSettled(k, "failed")
    /\ UNCHANGED <<sdk, bound, subscribed, compacting, orphaned>> /\ LifeUnchanged

CleanedSession(k) ==                                              \* fault
    /\ call[k].phase = "cleaning"
    /\ sdk' = [sdk EXCEPT ![call[k].on] = "disposed"]
    /\ InitSettled(k, "failed")
    /\ UNCHANGED <<result, kept, bound, subscribed, compacting, orphaned>>
    /\ LifeUnchanged

(* session_shutdown was emitted: the partial session is disposed. *)
Cleaned(k) ==
    /\ call[k].phase = "cleaning"
    /\ sdk' = [sdk EXCEPT ![call[k].on] = "disposed"]
    /\ result' = None
    /\ kept' = None
    /\ InitSettled(k, "failed")
    /\ UNCHANGED <<bound, subscribed, compacting, orphaned>> /\ LifeUnchanged

-------------------------------------------------------------------------------
(* dispose *)

(* Without an SDK session there is nothing to await. *)
Dispose ==
    /\ life = "usable"
    /\ doomed' = result
    /\ life' = IF result = None THEN "disposed" ELSE "disposing"
    /\ subscribed' = subscribed \ {kept}
    /\ kept' = None
    /\ UNCHANGED <<result, sdk, bound, initPromise, compacting, call, orphaned>>

(* session_shutdown was emitted: the session is disposed, and every         *)
(* reference dropped.                                                       *)
Disposed ==
    /\ life = "disposing"
    /\ sdk' = [sdk EXCEPT ![doomed] = "disposed"]
    /\ life' = "disposed"
    /\ doomed' = None
    /\ result' = None
    /\ kept' = None
    /\ UNCHANGED <<bound, subscribed, initPromise, compacting, call, orphaned>>

-------------------------------------------------------------------------------
Init ==
    /\ life = "usable"
    /\ initPromise = None
    /\ result = None /\ doomed = None /\ kept = None
    /\ sdk = [i \in Sdks |-> "unborn"]
    /\ bound = {}
    /\ subscribed = {}
    /\ compacting = FALSE
    /\ call = [k \in Calls |-> [op |-> "plain", phase |-> "free", on |-> None,
                                turn |-> "none", error |-> FALSE]]
    /\ orphaned = FALSE

Progress(k) ==
    \/ Prepared(k) \/ Created(k) \/ Bound(k) \/ Cleaned(k)
    \/ Rejected(k) \/ Resume(k) \/ Settled(k)

Next ==
    \/ \E k \in Calls, op \in Ops : Submit(k, op)
    \/ \E k \in Calls : Progress(k)
    \/ Dispose \/ Disposed

Spec == Init /\ [][Next]_vars

(* Every call of the SDK, the services and the extensions settles. *)
FairSpec ==
    /\ Spec
    /\ \A k \in Calls : WF_vars(Progress(k))
    /\ WF_vars(Disposed)

-------------------------------------------------------------------------------
(* Properties *)

(* However many operations start at once, fail and start again, one SDK     *)
(* session exists at a time, and the controller holds it.                   *)
OneSdkSession == Live \subseteq {result}

(* Once dispose() and an initialisation it met have ended, no SDK session   *)
(* is left, whether binding succeeded, failed or was being cleaned up; one  *)
(* case is excepted (see DisposeReleasesSession).                           *)
DisposalComplete ==
    life = "disposed" /\ initPromise = None /\ ~orphaned => Live = {} /\ result = None

(* Once subscribed, an SDK session is listened to until it is disposed: a   *)
(* usable controller misses no event and never listens twice.               *)
ListensToItsSession ==
    life = "usable" /\ initPromise = None /\ result # None =>
        result \in bound /\ kept = result
          /\ {i \in subscribed : sdk[i] = "live"} = {result}

(* Every turn that was announced ends with turn_completed or turn_failed,   *)
(* exactly when its prompt settles, except when dispose() got under it.     *)
StartedTurnsEnd ==
    \A k \in Calls :
        /\ call[k].phase = "running" /\ call[k].op = "prompt" => call[k].turn = "started"
        /\ call[k].phase = "free" /\ call[k].turn = "started" => life # "usable"

(* Every operation settles, also those that shared an initialisation that   *)
(* failed.                                                                  *)
CallsSettle == \A k \in Calls : call[k].phase # "free" ~> call[k].phase = "free"

(* The safety of it: whoever waits for an initialisation waits for one that   *)
(* an operation runs, and the flags that make a session busy are those of     *)
(* operations that have not settled: none is left over after a failure.       *)
BusyWithOperations ==
    /\ (\E k \in Calls : call[k].phase = "waiting") => initPromise # None
    /\ initPromise # None => call[initPromise].phase \in InitPhases
    /\ compacting <=> \E k \in Calls : call[k].op = "compact" /\ call[k].phase # "free"

-------------------------------------------------------------------------------
(* Statements of the source that its code does not keep *)

(* dispose() "disposes the underlying SDK session". *)
DisposeReleasesSession == life = "disposed" /\ initPromise = None => Live = {}

(* Of the callers of ensureInitialized, "only one initialization runs and   *)
(* the others wait on the shared initPromise".                              *)
OthersWait ==
    \A k \in Calls : call[k].phase = "running" /\ sdk[call[k].on] = "live"
                       => call[k].on \in bound

(* "turn_failed reports failures [...] so preflight failures cannot leave   *)
(* orphaned messages".                                                      *)
FailedPromptsReported ==
    \A k \in Calls :
        call[k].op = "prompt" /\ call[k].phase = "free" /\ call[k].error
        /\ life = "usable" => call[k].turn = "failed"
===============================================================================
