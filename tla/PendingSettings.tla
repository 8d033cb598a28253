----------------------------- MODULE PendingSettings -----------------------------
(***************************************************************************)
(* Model and thinking level of one session: chosen by a user, applied at   *)
(* once or, while the agent works, deferred until the session is idle, and *)
(* shown by the user's browser, which asks again after each turn while it  *)
(* knows of a deferred choice.                                             *)
(*                                                                         *)
(* Choices are numbered as the server accepts them, and stand for the      *)
(* model or the level chosen; 0 is the setting the session began with.     *)
(* The SDK is external: its setModel takes time, changes the model or      *)
(* fails before it does, and may fail after it did (an extension's hook).  *)
(* isStreaming is off when agent_end is delivered, as the controller's     *)
(* handler assumes.                                                        *)
(***************************************************************************)
EXTENDS Integers, FiniteSets

CONSTANTS
    MaxChoices,     \* bound: choices of the user
    Replies,        \* bound: model states on their way to the browser
    None

ASSUME SettingsAssumption ==
    /\ MaxChoices \in Nat /\ Replies \in Nat \ {0}
    /\ None \notin Nat

VARIABLES
    streaming,      \* session.isStreaming
    queued,         \* whether session.pendingMessageCount is positive
    force,          \* session.model and session.thinkingLevel
    pending,        \* pendingSettings
    calls,          \* calls of the SDK's setModel that are awaited
    chosen,         \* history: the number of choices accepted
    latest,         \* history: the newest choice of each setting
    applied,        \* history: choices that were in force at some time
    reported,       \* history: choices whose failure was reported
    shown,          \* modelStateBySessionId of the session, in the browser
    poke,           \* whether a status that says the session is idle is under way
    asking,         \* whether a request for the model state is under way
    replies         \* model states on their way to the browser, in no order

session == <<streaming, queued>>
history == <<chosen, latest, applied, reported>>
browser == <<shown, asking, replies>>
vars == <<session, force, pending, calls, history, browser, poke>>

-------------------------------------------------------------------------------
(* Types *)

Choices == 1..MaxChoices
Of(model, level) == [model |-> model, level |-> level]
Nothing == Of(None, None)
ModelState == [model : Choices \union {0}, level : Choices \union {0}, badge : BOOLEAN]

TypeOK ==
    /\ streaming \in BOOLEAN /\ queued \in BOOLEAN
    /\ force \in [model : Choices \union {0}, level : Choices \union {0}]
    /\ pending \in [model : Choices \union {None}, level : Choices \union {None}]
    /\ calls \subseteq [by : {"user", "turn"}, model : Choices,
                        level : Choices \union {None}, changed : BOOLEAN]
    /\ chosen \in Choices \union {0}
    /\ latest \in [model : Choices \union {0}, level : Choices \union {0}]
    /\ applied \subseteq Choices /\ reported \subseteq Choices
    /\ shown \in ModelState /\ replies \subseteq ModelState
    /\ poke \in BOOLEAN /\ asking \in BOOLEAN

-------------------------------------------------------------------------------
(* The controller *)

(* isWorkflowBusy *)
Busy == streaming \/ queued

Or(value, default) == IF value = None THEN default ELSE value

(* getModelState, as the browser folds it into what it shows *)
ModelStateNow ==
    [model |-> Or(pending'.model, force'.model),
     level |-> Or(pending'.level, force'.level),
     badge |-> pending' # Nothing]

Reply(state) ==
    /\ Cardinality(replies) < Replies
    /\ replies' = replies \union {state}

Report(c) == reported' = reported \union ({c} \ {None})

(* sendStatus.  Statuses under way are one: all an idle one does to the     *)
(* settings is to make a browser ask that shows a badge when it arrives.     *)
SendStatus == poke' = (poke \/ ~streaming')

(* session.setThinkingLevel is synchronous. *)
SetLevel(c) ==
    /\ force' = [force EXCEPT !.level = c]
    /\ applied' = applied \union {c}

(* The part of applyPendingSettingsIfIdle after the await: the deferred      *)
(* level `c` is set, or fails before or after it was.  One that is not in    *)
(* force is put back into `left`, unless a newer one waits there.            *)
ApplyLevel(c, left, failed) ==
    \/ /\ c = None
       /\ pending' = left /\ Report(failed)
       /\ UNCHANGED <<force, applied>>
    \/ /\ c # None
       /\ SetLevel(c)
       /\ pending' = left
       /\ \E error \in {None, c} : reported' = reported \union ({failed, error} \ {None})
    \/ /\ c # None
       /\ pending' = IF left.level = None THEN [left EXCEPT !.level = c] ELSE left
       /\ reported' = reported \union ({failed, c} \ {None})
       /\ UNCHANGED <<force, applied>>

(* applyPendingSettingsIfIdle, up to its await if there is a model to set.   *)
(* Both settings are taken out first.                                        *)
ApplyPendingIfIdle ==
    \/ /\ streaming' \/ queued'
       /\ UNCHANGED <<pending, force, calls, applied, reported>>
    \/ /\ ~streaming' /\ ~queued'
       /\ pending.model # None
       /\ pending' = Nothing
       /\ calls' = calls \union {[by |-> "turn", model |-> pending.model,
                                  level |-> pending.level, changed |-> FALSE]}
       /\ UNCHANGED <<force, applied, reported>>
    \/ /\ ~streaming' /\ ~queued'
       /\ pending.model = None
       /\ ApplyLevel(pending.level, Nothing, None)
       /\ UNCHANGED calls

Choose(setting) ==
    /\ chosen < MaxChoices
    /\ chosen' = chosen + 1
    /\ latest' = [latest EXCEPT ![setting] = chosen']
    /\ UNCHANGED <<session, shown, asking>>

(* setModel and setThinkingLevel while the agent works *)
ChooseLater(setting) ==
    /\ Busy
    /\ Choose(setting)
    /\ pending' = [pending EXCEPT ![setting] = chosen']
    /\ UNCHANGED <<force, calls, applied, reported, poke>>
    /\ Reply(ModelStateNow)

(* setModel while the session is idle: the SDK is called and awaited *)
ChooseModel ==
    /\ ~Busy
    /\ Choose("model")
    /\ calls' = calls \union {[by |-> "user", model |-> chosen', level |-> None,
                               changed |-> FALSE]}
    /\ UNCHANGED <<force, pending, applied, reported, poke, replies>>

(* setThinkingLevel while the session is idle *)
ChooseLevel ==
    /\ ~Busy
    /\ Choose("level")
    /\ UNCHANGED <<pending, calls>>
    /\ \/ /\ SetLevel(chosen')
          /\ SendStatus
          /\ UNCHANGED reported
          /\ Reply(ModelStateNow)
       \/ /\ Report(chosen')
          /\ UNCHANGED <<force, applied, poke, replies>>

(* The SDK changes the model some time within an awaited setModel. *)
ModelChanges(call) ==
    /\ call \in calls /\ ~call.changed
    /\ calls' = (calls \ {call}) \union {[call EXCEPT !.changed = TRUE]}
    /\ force' = [force EXCEPT !.model = call.model]
    /\ applied' = applied \union {call.model}
    /\ UNCHANGED <<session, pending, chosen, latest, reported, browser, poke>>

(* The user's setModel settles: a reply, or an error the browser shows. *)
ChoiceSettles(call, error) ==
    /\ call \in calls /\ call.by = "user"
    /\ call.changed \/ error
    /\ calls' = calls \ {call}
    /\ UNCHANGED <<session, force, pending, chosen, latest, applied, shown, asking, poke>>
    /\ \/ ~error /\ Reply(ModelStateNow) /\ UNCHANGED reported
       \/ error /\ Report(call.model) /\ UNCHANGED replies

PutBackAlways(call) == [pending EXCEPT !.model = call.model]       \* fault
PutBackNever(call) == Nothing                                      \* fault

(* modelsMatch(session.model, model) decides whether a failed choice is     *)
(* in force, and not whether it was.                                        *)
PutBack(call) ==
    IF force.model # call.model /\ pending.model = None
    THEN [pending EXCEPT !.model = call.model] ELSE pending

(* A deferred setModel settles; the deferred level is next. *)
DeferredSettles(call, error) ==
    /\ call \in calls /\ call.by = "turn"
    /\ call.changed \/ error
    /\ calls' = calls \ {call}
    /\ UNCHANGED <<session, chosen, latest, browser>>
    /\ IF error THEN ApplyLevel(call.level, PutBack(call), call.model)
                ELSE ApplyLevel(call.level, pending, None)
    /\ IF force' # force THEN SendStatus ELSE UNCHANGED poke

-------------------------------------------------------------------------------
(* The SDK's agent loop, as far as its events reach the settings *)

AgentStart ==
    /\ ~streaming /\ streaming' = TRUE
    /\ UNCHANGED <<queued, force, pending, calls, history, browser, poke>>

(* queue_update, when a steering or follow-up message waits *)
Enqueue ==
    /\ streaming /\ ~queued
    /\ queued' = TRUE
    /\ UNCHANGED <<streaming, force, pending, calls, history, browser, poke>>

DrainedOnly ==                                                     \* fault
    /\ queued /\ queued' = FALSE
    /\ UNCHANGED <<streaming, force, pending, calls, history, browser>>
    /\ SendStatus

(* queue_update, when the queue has drained or was cleared *)
Drained ==
    /\ queued /\ queued' = FALSE
    /\ UNCHANGED <<streaming, chosen, latest, browser>>
    /\ SendStatus
    /\ ApplyPendingIfIdle

(* agent_end: the status goes out before the deferred settings are applied. *)
AgentEnd ==
    /\ streaming /\ streaming' = FALSE
    /\ UNCHANGED <<queued, chosen, latest, browser>>
    /\ SendStatus
    /\ ApplyPendingIfIdle

-------------------------------------------------------------------------------
(* The browser *)

StatusIgnored ==                                                   \* fault
    /\ poke /\ poke' = FALSE
    /\ UNCHANGED <<session, force, pending, calls, history, browser>>

(* An idle status: ask for the model state if a badge is shown. *)
StatusArrives ==
    /\ poke /\ poke' = FALSE
    /\ asking' = (asking \/ shown.badge)
    /\ UNCHANGED <<session, force, pending, calls, history, shown, replies>>

(* The server handles refreshModelState's request. *)
ModelsRead ==
    /\ asking /\ asking' = FALSE
    /\ UNCHANGED <<session, force, pending, calls, history, shown, poke>>
    /\ Reply(ModelStateNow)

(* applyModelState *)
ReplyArrives(state) ==
    /\ state \in replies
    /\ replies' = replies \ {state}
    /\ shown' = state
    /\ UNCHANGED <<session, force, pending, calls, history, poke, asking>>

-------------------------------------------------------------------------------

Init ==
    /\ streaming \in BOOLEAN /\ queued = FALSE
    /\ force = Of(0, 0) /\ pending = Nothing /\ calls = {}
    /\ chosen = 0 /\ latest = Of(0, 0) /\ applied = {} /\ reported = {}
    /\ shown = [model |-> 0, level |-> 0, badge |-> FALSE]
    /\ poke = FALSE /\ asking = FALSE /\ replies = {}

SdkSettles(c) ==
    \E call \in {k \in calls : k.model = c} :
        \/ ModelChanges(call)
        \/ \E error \in BOOLEAN : ChoiceSettles(call, error) \/ DeferredSettles(call, error)

Arrivals == StatusArrives \/ ModelsRead \/ \E state \in replies : ReplyArrives(state)

Next ==
    \/ AgentStart \/ Enqueue \/ Drained \/ AgentEnd
    \/ \E setting \in {"model", "level"} : ChooseLater(setting)
    \/ ChooseModel \/ ChooseLevel
    \/ \E c \in Choices : SdkSettles(c)
    \/ Arrivals

Spec == Init /\ [][Next]_vars

(* Turns end, queues drain and calls of the SDK settle; what is under way    *)
(* arrives.  Users and new turns are not fair.                               *)
FairSpec ==
    /\ Spec
    /\ WF_vars(AgentEnd) /\ WF_vars(Drained) /\ \A c \in Choices : WF_vars(SdkSettles(c))
    /\ WF_vars(StatusArrives) /\ WF_vars(ModelsRead)
    /\ \A state \in ModelState : WF_vars(ReplyArrives(state))

-------------------------------------------------------------------------------
(* Properties *)

Settings == {"model", "level"}

InHand(setting, c) ==
    \/ pending[setting] = c
    \/ \E call \in calls : call[setting] = c

(* The newest choice of each setting is in force (or was), waits, is being    *)
(* applied, or its failure was reported: taking the deferred settings out     *)
(* before the await, with new choices coming in meanwhile, loses none.        *)
ChoiceNeverLost ==
    \A setting \in Settings :
        latest[setting] \in {0} \union applied \union reported
            \/ InHand(setting, latest[setting])

(* A choice that waits is never replaced by an older one, also when one that  *)
(* was being applied meanwhile fails and is put back (applyPendingSettingsIfIdle: *)
(* "never overwrite a newer pending request").                                *)
NewerPendingStands ==
    [][\A setting \in Settings :
        pending[setting] # None /\ pending'[setting] # None
            => pending'[setting] >= pending[setting]]_vars

(* What the user defers is tried if the session is idle from time to time:    *)
(* whatever makes it idle, the end of a turn or of the queue, applies it.      *)
DeferredTried ==
    []<>~Busy =>
        \A setting \in Settings : \A c \in Choices :
            pending[setting] = c ~> c \in applied \union reported \/ latest[setting] # c

(* Nothing waits for an idle session: what is deferred while no turn runs and *)
(* no message is queued was tried and failed, and its failure was reported.   *)
OnlyFailedWaitWhileIdle ==
    ~Busy => \A setting \in Settings : pending[setting] \in {None} \union reported

TurnsComeAndGo == []<><<AgentEnd /\ ~queued>>_vars

(* A badge goes away as long as turns come and go, unless a failure was       *)
(* reported, although its status and the reply that shows it may overtake     *)
(* each other.                                                                *)
BadgeSettles == TurnsComeAndGo => (shown.badge ~> ~shown.badge \/ reported # {})

(* A deferred level never replaces a newer one: the test of deferred settings *)
(* claims "last-write-wins semantics" (session-controller-settings.test.ts:63). *)
LastLevelStands == [][force'.level >= force.level]_vars

(* What is shown comes to agree with the session (agentaz-events.ts:206). *)
SettingsShown ==
    TurnsComeAndGo =>
        (calls = {} /\ pending = Nothing /\ chosen = MaxChoices
            ~> shown.model = force.model \/ reported # {})
===============================================================================
