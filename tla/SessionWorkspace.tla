--------------------------- MODULE SessionWorkspace ---------------------------
(***************************************************************************)
(* PiSessionWorkspace: the working set of loaded sessions of the server.   *)
(*                                                                         *)
(* Every operation that changes who owns a session (create, open, rename,  *)
(* soft delete, fork, revert, shutdown) is a lifecycle mutation: it is     *)
(* appended to a promise tail and runs when the mutations before it have   *)
(* settled.  A mutation is a sequence of uninterrupted pieces separated by *)
(* awaits.  One action of this module is one such piece; at each await the *)
(* awaited call may succeed or fail, and everything that is not a          *)
(* lifecycle mutation (prompts, turn progress, browsers moving their       *)
(* focus, disposals settling) may happen in between.                       *)
(*                                                                         *)
(* Abstractions: a session id stands for its JSONL file too (the SDK gives *)
(* each session one file); the Map's insertion order is not kept, so any   *)
(* eligible session may be the eviction candidate; the cached list of      *)
(* persisted sessions, which no mutation reads, is left out; requests      *)
(* refused for the form of their arguments are not distinguished from the  *)
(* other refusals.                                                         *)
(*                                                                         *)
(* A definition marked "fault" is a mistake one could make in the          *)
(* definition after it; no specification uses it, and the properties below *)
(* are shown to notice when it takes that definition's place.              *)
(***************************************************************************)
EXTENDS Integers, Sequences, FiniteSets

CONSTANTS
    Sessions,       \* session ids (and their files)
    Controllers,    \* controller objects, numbered as they are constructed
    Requests,       \* slots for lifecycle mutations in flight
    Offered,        \* the kinds of mutation clients ask for
    MaxLoaded,      \* options.maxLoadedSessions
    MaxRevision,    \* bound on transcript revisions
    None

Kinds == {"create", "open", "rename", "delete", "fork", "revert", "disposeAll"}

ASSUME WorkspaceAssumption ==
    /\ IsFiniteSet(Sessions)
    /\ Controllers \subseteq Nat
    /\ Offered \subseteq Kinds
    /\ MaxLoaded \in Nat \ {0}
    /\ MaxRevision \in Nat
    /\ None \notin Sessions /\ None \notin Controllers

VARIABLES
    sessions,       \* the Map: session id -> owning controller, or None
    ctl,            \* the controllers
    transitioning,  \* transitioningSessionIds
    generation,     \* historyRevisionGeneration
    queue,          \* lifecycleMutationTail: running mutation first
    req,            \* the mutations
    disk,           \* the session files
    protected,      \* getProtectedSessionIds()
    unannounced,    \* sessions out of the Map with no session_removed so far
    seen,           \* history: highest revision an owner has ever reported
    raced           \* history: sessions whose turn went on in a transition

vars == <<sessions, ctl, transitioning, generation, queue, req, disk,
          protected, unannounced, seen, raced>>

-------------------------------------------------------------------------------
(* Types *)

(* Where a mutation stands: "queued" until its turn, then the await it is at. *)
Phases == {"free", "queued", "validating", "opening", "discarding", "evicting",
           "resolving", "recovering", "retiring", "renaming", "burying",
           "restoring", "reviving", "replacing", "removing", "orphaned",
           "refreshing", "closing"}

Revisions == 0 .. MaxRevision

(* A controller is "live" from construction to dispose(), "disposing" until  *)
(* that promise settles, then "disposed", or "failed" when it rejected.      *)
(* work: "accepted" is an operation the controller has taken on and isBusy() *)
(* does not show yet, "busy" one it shows.                                   *)
Controller ==
    [state : {"unborn", "live", "disposing", "disposed", "failed"},
     sid   : Sessions \union {None},
     work  : {"idle", "accepted", "busy"},
     rev   : Revisions]

(* sid is the session the mutation is about (for a fork the source, then the *)
(* new session); victim the eviction candidate; old the owner being retired; *)
(* wait the controllers whose disposal it awaits; rev the reserved revision; *)
(* held the sessions whose transition it reserved.                           *)
Request ==
    [kind   : Kinds,
     phase  : Phases,
     sid    : Sessions \union {None},
     victim : Controllers \union {None},
     old    : Controllers \union {None},
     wait   : SUBSET Controllers,
     rev    : Revisions,
     held   : SUBSET Sessions]

(* A file: "unused" id, "memory" while only the SDK's manager knows it,      *)
(* "present" on disk, "deleted" (renamed), "removed" by a fork's rollback.   *)
FileStates == {"unused", "memory", "present", "deleted", "removed"}

TypeOK ==
    /\ sessions \in [Sessions -> Controllers \union {None}]
    /\ ctl \in [Controllers -> Controller]
    /\ transitioning \subseteq Sessions
    /\ generation \in Revisions
    /\ queue \in Seq(Requests)
    /\ req \in [Requests -> Request]
    /\ disk \in [Sessions -> FileStates]
    /\ protected \subseteq Sessions
    /\ unannounced \subseteq Sessions
    /\ seen \in [Sessions -> Revisions]
    /\ raced \subseteq Sessions

-------------------------------------------------------------------------------
(* State functions *)

Loaded == {s \in Sessions : sessions[s] # None}
HasRoomForOneMore == Cardinality(Loaded) <= MaxLoaded           \* fault
HasRoom == Cardinality(Loaded) < MaxLoaded

Unborn == {c \in Controllers : ctl[c].state = "unborn"}
UnusedOrDisposed ==                                               \* fault
    {c \in Controllers : ctl[c].state \in {"unborn", "disposed"}}
Fresh == {c \in Unborn : \A d \in Unborn : c <= d}
Unused == {s \in Sessions : disk[s] = "unused"}

IsBusy(c) == ctl[c].work = "busy"

(* mutableSession: a loaded session that is not being transitioned. *)
Mutable(s) == s \in Loaded /\ s \notin transitioning

(* reserveLoadCapacityWithinMutation: nothing to evict while there is room,  *)
(* otherwise one idle, unprotected, unreserved and not excluded owner; the   *)
(* empty set is SessionLimitReachedError.                                    *)
Evictable(excluded) ==
    {s \in Loaded \ (excluded \union protected \union transitioning) :
        ~IsBusy(sessions[s])}

Victims(excluded) ==
    IF HasRoom THEN {None} ELSE {sessions[s] : s \in Evictable(excluded)}

VictimIsOwner(c) == sessions[ctl[c].sid] = c                      \* fault

(* evictionCandidateIsAvailable, asked again at the commit. *)
VictimAvailable(c) ==
    /\ sessions[ctl[c].sid] = c
    /\ ctl[c].sid \in transitioning
    /\ ~IsBusy(c)
    /\ ctl[c].sid \notin protected

Registrable(s, victim) ==
    /\ sessions[s] = None
    /\ IF victim = None THEN HasRoom ELSE VictimAvailable(victim)

(* Revisions the workspace knows of: its generation and its owners'. *)
KnownRevisions == {generation} \union {ctl[sessions[s]].rev : s \in Loaded}

IsNextGeneration(g) == g = generation + 1                         \* fault

(* reserveHistoryRevision: one more than every revision known. *)
IsNextRevision(g) ==
    /\ g - 1 \in KnownRevisions
    /\ \A k \in KnownRevisions : k < g

(* advanceHistoryRevisionGeneration over the loaded owners. *)
IsAdvancedGeneration(g) ==
    /\ g \in KnownRevisions
    /\ \A k \in KnownRevisions : k <= g

(* A mutation is running iff all mutations before it have settled. *)
IsTurn(r) == queue # <<>> /\ Head(queue) = r
At(r, phase) == IsTurn(r) /\ req[r].phase = phase

AwaitOk(r) == \A c \in req[r].wait : ctl[c].state = "disposed"
AwaitError(r) == \E c \in req[r].wait : ctl[c].state = "failed"

FreeRequest ==
    [kind |-> "create", phase |-> "free", sid |-> None, victim |-> None,
     old |-> None, wait |-> {}, rev |-> 0, held |-> {}]

NewController(s, rev) ==
    [state |-> "live", sid |-> s, work |-> "idle", rev |-> rev]

NotDisposed(c) == ctl[c]                                          \* fault

(* dispose() is called: the controller refuses further use, and whatever it  *)
(* was working on is cut off.                                                *)
Doomed(c) == [ctl[c] EXCEPT !.state = "disposing", !.work = "idle"]

SessionOf(c) == IF c = None THEN {} ELSE {ctl[c].sid}

-------------------------------------------------------------------------------
(* Ends of a piece *)

SettleKeepingReservations(r) ==                                   \* fault
    /\ req' = [req EXCEPT ![r] = FreeRequest]
    /\ queue' = Tail(queue)
    /\ UNCHANGED transitioning

(* The mutation settles, either way: every finally has released what it had *)
(* reserved and the next mutation may run.                                  *)
Settle(r) ==
    /\ req' = [req EXCEPT ![r] = FreeRequest]
    /\ queue' = Tail(queue)
    /\ transitioning' = transitioning \ req[r].held

(* The mutation goes on to its next await, holding next.held. *)
Goto(r, next) ==
    /\ req' = [req EXCEPT ![r] = next]
    /\ transitioning' = transitioning \union next.held
    /\ UNCHANGED queue

FailWithoutRollback(r) == Settle(r)                               \* fault

(* The mutation throws.  A fork first rolls back the file it created. *)
Fail(r) ==
    IF req[r].kind = "fork"
    THEN Goto(r, [req[r] EXCEPT !.phase = "removing", !.wait = {}])
    ELSE Settle(r)

OwnersUnchanged == UNCHANGED <<sessions, ctl, generation, unannounced>>

(* What browsers have been told: the revisions every owner reported. *)
Report ==
    seen' = [s \in Sessions |->
               IF sessions'[s] # None /\ ctl'[sessions'[s]].rev > seen[s]
               THEN ctl'[sessions'[s]].rev ELSE seen[s]]

EnvironmentUnchanged == UNCHANGED <<protected, raced>> /\ Report

-------------------------------------------------------------------------------
(* Requests arrive *)

(* runLifecycleMutation: the request joins the tail. *)
Enqueue(r, kind, s) ==
    /\ req[r].phase = "free"
    /\ (s = None) <=> (kind \in {"create", "disposeAll"})
    /\ req' = [req EXCEPT ![r] = [FreeRequest EXCEPT !.kind = kind,
                                      !.phase = "queued", !.sid = s]]
    /\ queue' = Append(queue, r)
    /\ UNCHANGED <<transitioning, disk>>
    /\ OwnersUnchanged /\ EnvironmentUnchanged

-------------------------------------------------------------------------------
(* Registration *)

(* registerControllerWithinMutation, the branch that commits: the new owner *)
(* is seeded and published, the victim leaves the Map in the same piece,    *)
(* session_removed is published for it and its disposal is started.         *)
Commit(r, c, s, victim) ==
    /\ \E g \in Revisions :
        /\ IsNextRevision(g)
        /\ generation' = g
        /\ ctl' = [d \in Controllers |->
                     IF d = c THEN NewController(s, g)
                     ELSE IF d = victim THEN Doomed(d) ELSE ctl[d]]
    /\ sessions' = [t \in Sessions |->
                     IF t = s THEN c
                     ELSE IF t \in SessionOf(victim) THEN None ELSE sessions[t]]
    /\ unannounced' = unannounced \ {s}
    /\ IF victim # None
       THEN Goto(r, [req[r] EXCEPT !.phase = "evicting", !.sid = s,
                       !.victim = victim, !.wait = {victim},
                       !.held = SessionOf(victim)])
       ELSE IF req[r].kind = "fork"
       THEN Goto(r, [req[r] EXCEPT !.phase = "refreshing"])
       ELSE Settle(r)

(* createLoadedSession: capacity, construction and registration are one    *)
(* piece.  Without capacity, or when construction throws, nothing changes. *)
BeginCreate(r) ==
    /\ At(r, "queued") /\ req[r].kind = "create"
    /\ \/ /\ Settle(r)
          /\ UNCHANGED disk /\ OwnersUnchanged
       \/ \E victim \in Victims({}), s \in Unused, c \in Fresh :
            /\ disk' = [disk EXCEPT ![s] = "memory"]
            /\ Commit(r, c, s, victim)
    /\ EnvironmentUnchanged

(* open, rename and delete first await requirePersistedSessionFile. *)
BeginValidation(r) ==
    /\ At(r, "queued") /\ req[r].kind \in {"open", "rename", "delete"}
    /\ Goto(r, [req[r] EXCEPT !.phase = "validating"])
    /\ UNCHANGED disk /\ OwnersUnchanged /\ EnvironmentUnchanged

(* The file is not in the persisted list, or listing failed, or the request *)
(* is refused after validation: no capacity, or the session is busy.        *)
Refused(r) ==
    /\ At(r, "validating")
    /\ Fail(r)
    /\ UNCHANGED disk /\ OwnersUnchanged /\ EnvironmentUnchanged

(* openLoadedSession after validation: deduplicate, or reserve capacity    *)
(* (a fork has done so already) and await the factory.                     *)
OpenValidated(r) ==
    /\ At(r, "validating") /\ disk[req[r].sid] = "present"
    /\ \/ /\ req[r].kind = "open" /\ sessions[req[r].sid] # None
          /\ Settle(r)
       \/ /\ req[r].kind = "open" /\ sessions[req[r].sid] = None
          /\ \E victim \in Victims({}) :
               Goto(r, [req[r] EXCEPT !.phase = "opening", !.victim = victim,
                                      !.held = SessionOf(victim)])
       \/ /\ req[r].kind = "fork"
          /\ Goto(r, [req[r] EXCEPT !.phase = "opening"])
    /\ UNCHANGED disk /\ OwnersUnchanged /\ EnvironmentUnchanged

(* The factory's open settles: it rejected; or the controller is registered; *)
(* or it is a duplicate or the reserved capacity is gone, and it is disposed.*)
Opened(r) ==
    /\ At(r, "opening")
    /\ LET s == req[r].sid  victim == req[r].victim IN
       \/ Fail(r) /\ OwnersUnchanged
       \/ \E c \in Fresh :
            /\ Registrable(s, victim)
            /\ Commit(r, c, s, victim)
       \/ \E c \in Fresh :
            /\ ~Registrable(s, victim)
            /\ ctl' = [ctl EXCEPT ![c] =
                         [NewController(s, 0) EXCEPT !.state = "disposing"]]
            /\ Goto(r, [req[r] EXCEPT !.phase = "discarding", !.wait = {c}])
            /\ UNCHANGED <<sessions, generation, unannounced>>
    /\ UNCHANGED disk /\ EnvironmentUnchanged

(* The disposal of a controller that was never registered has settled. *)
Discarded(r) ==
    /\ At(r, "discarding") /\ (AwaitOk(r) \/ AwaitError(r))
    /\ Fail(r)
    /\ UNCHANGED disk /\ OwnersUnchanged /\ EnvironmentUnchanged

(* The victim's disposal has settled.  Its error is surfaced, but the new  *)
(* owner stays; a fork goes on to refresh (its rollback finds it loaded).  *)
Evicted(r) ==
    /\ At(r, "evicting") /\ (AwaitOk(r) \/ AwaitError(r))
    /\ IF req[r].kind = "fork"
       THEN Goto(r, [req[r] EXCEPT !.phase = "refreshing", !.wait = {}])
       ELSE Settle(r)
    /\ UNCHANGED disk /\ OwnersUnchanged /\ EnvironmentUnchanged

(* refreshPersistedSessionCache settles, the last await of most mutations. *)
Refreshed(r) ==
    /\ At(r, "refreshing") \/ At(r, "orphaned")
    /\ Settle(r)
    /\ UNCHANGED disk /\ OwnersUnchanged /\ EnvironmentUnchanged

-------------------------------------------------------------------------------
(* Rename *)

(* renamePersistedSession: the name is appended through the owner or through *)
(* a temporary manager; both refresh the persisted list.                     *)
RenameValidated(r) ==
    /\ At(r, "validating") /\ disk[req[r].sid] = "present"
    /\ req[r].kind = "rename"
    /\ sessions[req[r].sid] # None => ctl[sessions[req[r].sid]].state = "live"
    /\ Goto(r, [req[r] EXCEPT !.phase = "refreshing"])
    /\ UNCHANGED disk /\ OwnersUnchanged /\ EnvironmentUnchanged

-------------------------------------------------------------------------------
(* Soft delete *)

(* A loaded session must not be busy; its transition is reserved before the *)
(* destination name is resolved.                                            *)
DeleteValidated(r) ==
    /\ At(r, "validating") /\ disk[req[r].sid] = "present"
    /\ req[r].kind = "delete"
    /\ LET s == req[r].sid IN
       \/ /\ sessions[s] = None
          /\ Goto(r, [req[r] EXCEPT !.phase = "resolving"])
       \/ /\ Mutable(s) /\ ~IsBusy(sessions[s])
          /\ Goto(r, [req[r] EXCEPT !.phase = "resolving",
                                    !.old = sessions[s], !.held = {s}])
    /\ UNCHANGED disk /\ OwnersUnchanged /\ EnvironmentUnchanged

(* nextSoftDeletedSessionFile settles.  For a loaded session a recovery     *)
(* revision is reserved and a recovery controller opened.                   *)
Resolved(r) ==
    /\ At(r, "resolving")
    /\ \/ /\ Settle(r)
          /\ UNCHANGED generation
       \/ /\ req[r].old = None
          /\ Goto(r, [req[r] EXCEPT !.phase = "renaming"])
          /\ UNCHANGED generation
       \/ /\ req[r].old # None
          /\ \E g \in Revisions :
               /\ IsNextRevision(g)
               /\ generation' = g
               /\ Goto(r, [req[r] EXCEPT !.phase = "recovering", !.rev = g])
    /\ UNCHANGED <<sessions, ctl, unannounced, disk>>
    /\ EnvironmentUnchanged

(* The rename settles.  For a loaded session the recovery owner leaves the  *)
(* Map and its disposal is awaited before the removal is announced.         *)
Renamed(r) ==
    /\ At(r, "renaming")
    /\ LET s == req[r].sid IN
       \/ /\ Settle(r)
          /\ UNCHANGED disk /\ OwnersUnchanged
       \/ /\ req[r].old = None
          /\ disk' = [disk EXCEPT ![s] = "deleted"]
          /\ Goto(r, [req[r] EXCEPT !.phase = "refreshing"])
          /\ OwnersUnchanged
       \/ /\ req[r].old # None
          /\ disk' = [disk EXCEPT ![s] = "deleted"]
          /\ \E g \in Revisions :
               /\ IsNextRevision(g)
               /\ generation' = g
               /\ Goto(r, [req[r] EXCEPT !.phase = "burying", !.rev = g,
                                         !.wait = {sessions[s]}])
          /\ sessions' = [sessions EXCEPT ![s] = None]
          /\ ctl' = [ctl EXCEPT ![sessions[s]] = Doomed(sessions[s])]
          /\ unannounced' = unannounced \union {s}
    /\ EnvironmentUnchanged

(* The recovery owner's disposal settles: session_removed, or roll back. *)
Buried(r) ==
    /\ At(r, "burying")
    /\ \/ /\ AwaitOk(r)
          /\ unannounced' = unannounced \ {req[r].sid}
          /\ Goto(r, [req[r] EXCEPT !.phase = "refreshing", !.wait = {}])
       \/ /\ AwaitError(r)
          /\ Goto(r, [req[r] EXCEPT !.phase = "restoring", !.wait = {}])
          /\ UNCHANGED unannounced
    /\ UNCHANGED <<sessions, ctl, generation, disk>>
    /\ EnvironmentUnchanged

RestoredOnly(r) ==                                                \* fault
    /\ At(r, "restoring")
    /\ disk' = [disk EXCEPT ![req[r].sid] = "present"]
    /\ Settle(r)
    /\ OwnersUnchanged /\ EnvironmentUnchanged

(* recoverSoftDeleteAfterCommitFailure: the file is renamed back first. *)
Restored(r) ==
    /\ At(r, "restoring")
    /\ \/ Settle(r) /\ UNCHANGED disk
       \/ /\ disk' = [disk EXCEPT ![req[r].sid] = "present"]
          /\ Goto(r, [req[r] EXCEPT !.phase = "reviving"])
    /\ OwnersUnchanged /\ EnvironmentUnchanged

-------------------------------------------------------------------------------
(* Replacement controllers: revert, and the two of a soft delete *)

Replacing(r) == \E p \in {"replacing", "recovering", "reviving"} : At(r, p)

(* createReplacementController rejects; the Map is as it was. *)
ReplacementFailed(r) ==
    /\ Replacing(r)
    /\ Settle(r)
    /\ UNCHANGED disk /\ OwnersUnchanged /\ EnvironmentUnchanged

(* The file held another session id: dispose the controller and throw. *)
ReplacementMismatched(r) ==
    /\ Replacing(r)
    /\ \E c \in Fresh :
         /\ ctl' = [ctl EXCEPT ![c] =
                      [NewController(None, 0) EXCEPT !.state = "disposing"]]
         /\ Goto(r, [req[r] EXCEPT !.phase = "discarding", !.wait = {c}])
    /\ UNCHANGED <<sessions, generation, unannounced, disk>>
    /\ EnvironmentUnchanged

(* The replacement is seeded and takes the session over; then the old owner *)
(* is disposed.  A revived session has no old owner left.                   *)
ReplacementOpened(r) ==
    /\ Replacing(r)
    /\ LET s == req[r].sid  old == req[r].old IN
       \E c \in Fresh :
         /\ sessions' = [sessions EXCEPT ![s] = c]
         /\ unannounced' = unannounced \ {s}
         /\ IF req[r].phase = "reviving"
            THEN /\ ctl' = [ctl EXCEPT ![c] = NewController(s, req[r].rev)]
                 /\ Settle(r)
            ELSE /\ ctl' = [ctl EXCEPT ![c] = NewController(s, req[r].rev),
                                       ![old] = Doomed(old)]
                 /\ Goto(r, [req[r] EXCEPT !.phase = "retiring",
                                           !.wait = {old}])
    /\ UNCHANGED <<generation, disk>>
    /\ EnvironmentUnchanged

(* The old owner's disposal settles.  A revert goes on either way; a soft   *)
(* delete stops at an error, with its recovery owner in place.              *)
Retired(r) ==
    /\ At(r, "retiring")
    /\ \/ /\ req[r].kind = "revert" /\ (AwaitOk(r) \/ AwaitError(r))
          /\ Goto(r, [req[r] EXCEPT !.phase = "refreshing", !.wait = {}])
       \/ /\ req[r].kind = "delete" /\ AwaitError(r)
          /\ Settle(r)
       \/ /\ req[r].kind = "delete" /\ AwaitOk(r)
          /\ Goto(r, [req[r] EXCEPT !.phase = "renaming", !.wait = {}])
    /\ UNCHANGED disk /\ OwnersUnchanged /\ EnvironmentUnchanged

-------------------------------------------------------------------------------
(* Fork *)

(* forkSession: the source must be mutable, idle and persisted, and room is *)
(* reserved before the SDK writes the new file.  Appending the name to it   *)
(* may fail, which rolls the file back.                                     *)
BeginFork(r) ==
    /\ At(r, "queued") /\ req[r].kind = "fork"
    /\ LET s == req[r].sid IN
       \/ Settle(r) /\ UNCHANGED disk
       \/ /\ Mutable(s) /\ ~IsBusy(sessions[s]) /\ disk[s] = "present"
          /\ \E victim \in Victims({s}), n \in Unused,
                phase \in {"validating", "removing"} :
               /\ disk' = [disk EXCEPT ![n] = "present"]
               /\ Goto(r, [req[r] EXCEPT !.phase = phase, !.sid = n,
                             !.victim = victim, !.held = SessionOf(victim)])
    /\ OwnersUnchanged /\ EnvironmentUnchanged

(* rollbackUnownedForkFile: the file is unlinked; when that fails the list  *)
(* is refreshed and the file stays, with no owner.                          *)
ForkFileRemoved(r) ==
    /\ At(r, "removing")
    /\ \/ /\ disk' = [disk EXCEPT ![req[r].sid] = "removed"]
          /\ Settle(r)
       \/ /\ Goto(r, [req[r] EXCEPT !.phase = "orphaned"])
          /\ UNCHANGED disk
    /\ OwnersUnchanged /\ EnvironmentUnchanged

-------------------------------------------------------------------------------
(* Revert *)

(* revertSession up to the replacement's open: a revision is reserved, the  *)
(* branch moved (which may throw) and the current owner raised to it.       *)
BeginRevert(r) ==
    /\ At(r, "queued") /\ req[r].kind = "revert"
    /\ LET s == req[r].sid IN
       \/ Settle(r) /\ UNCHANGED <<ctl, generation>>
       \/ /\ Mutable(s) /\ ~IsBusy(sessions[s])
          /\ \E g \in Revisions :
               /\ IsNextRevision(g)
               /\ generation' = g
               /\ \/ Settle(r) /\ UNCHANGED ctl
                  \/ /\ ctl' = [ctl EXCEPT ![sessions[s]].rev = g]
                     /\ Goto(r, [req[r] EXCEPT !.phase = "replacing", !.rev = g,
                                   !.old = sessions[s], !.held = {s}])
    /\ UNCHANGED <<sessions, unannounced, disk>>
    /\ EnvironmentUnchanged

-------------------------------------------------------------------------------
(* Shutdown *)

(* disposeAll empties the Map and disposes every owner in parallel. *)
BeginDisposeAll(r) ==
    /\ At(r, "queued") /\ req[r].kind = "disposeAll"
    /\ LET owners == {sessions[s] : s \in Loaded} IN
       /\ ctl' = [c \in Controllers |-> IF c \in owners THEN Doomed(c) ELSE ctl[c]]
       /\ Goto(r, [req[r] EXCEPT !.phase = "closing", !.wait = owners])
    /\ \E g \in Revisions : IsAdvancedGeneration(g) /\ generation' = g
    /\ sessions' = [s \in Sessions |-> None]
    /\ unannounced' = unannounced \union Loaded
    /\ UNCHANGED disk /\ EnvironmentUnchanged

ClosedWhenAllDisposed(r) ==                                       \* fault
    /\ At(r, "closing") /\ AwaitOk(r)
    /\ Settle(r)
    /\ UNCHANGED disk /\ OwnersUnchanged /\ EnvironmentUnchanged

(* Promise.all: settled when all are, or as soon as one of them rejects. *)
Closed(r) ==
    /\ At(r, "closing") /\ (AwaitOk(r) \/ AwaitError(r))
    /\ Settle(r)
    /\ UNCHANGED disk /\ OwnersUnchanged /\ EnvironmentUnchanged

-------------------------------------------------------------------------------
(* Outside the lifecycle tail *)

LifecycleUnchanged ==
    UNCHANGED <<sessions, transitioning, generation, queue, req, unannounced>>

(* A disposal settles, with or without an error; either way the controller  *)
(* has dropped its SDK session.                                             *)
DisposeSettled(c) ==
    /\ ctl[c].state = "disposing"
    /\ \E outcome \in {"disposed", "failed"} :
         ctl' = [ctl EXCEPT ![c] = [NewController(None, 0) EXCEPT !.state = outcome]]
    /\ UNCHANGED disk /\ LifecycleUnchanged /\ EnvironmentUnchanged

(* submitMessage, compactSession, setSessionModel: accepted by a mutable    *)
(* session.  A prompt to an initialised session is not busy until the SDK   *)
(* streams; initialisation and compaction are busy at once.                 *)
Submit(s) ==
    /\ Mutable(s) /\ ctl[sessions[s]].work = "idle"
    /\ \E work \in {"accepted", "busy"} :
         ctl' = [ctl EXCEPT ![sessions[s]].work = work]
    /\ UNCHANGED disk /\ LifecycleUnchanged /\ EnvironmentUnchanged

(* The accepted work becomes visible (the SDK streams), or stops being so   *)
(* while the turn goes on (initPromise is over, the SDK's preflight is not).*)
Visibility(c) ==
    /\ ctl[c].state = "live" /\ ctl[c].work # "idle"
    /\ \E work \in {"accepted", "busy"} \ {ctl[c].work} :
         ctl' = [ctl EXCEPT ![c].work = work]
    /\ UNCHANGED disk /\ LifecycleUnchanged /\ EnvironmentUnchanged

(* A transcript event of a running turn: invalidateHistoryCache. *)
Progress(c) ==
    /\ ctl[c].state = "live" /\ ctl[c].work # "idle"
    /\ ctl[c].rev < MaxRevision
    /\ ctl' = [ctl EXCEPT ![c].rev = @ + 1]
    /\ raced' = raced \union ({ctl[c].sid} \intersect transitioning)
    /\ UNCHANGED <<disk, protected>> /\ LifecycleUnchanged /\ Report

(* The work settles; the SDK may have written the file by then. *)
WorkSettled(c) ==
    /\ ctl[c].state = "live" /\ ctl[c].work # "idle"
    /\ ctl' = [ctl EXCEPT ![c].work = "idle"]
    /\ \/ UNCHANGED disk
       \/ /\ disk[ctl[c].sid] = "memory"
          /\ disk' = [disk EXCEPT ![ctl[c].sid] = "present"]
    /\ LifecycleUnchanged /\ EnvironmentUnchanged

(* Browsers focus loaded sessions, move on, connect and disconnect. *)
FocusMoved(s) ==
    /\ s \in Loaded \union protected
    /\ protected' = IF s \in protected THEN protected \ {s}
                                       ELSE protected \union {s}
    /\ UNCHANGED <<ctl, disk, raced>> /\ LifecycleUnchanged /\ Report

-------------------------------------------------------------------------------
(* The specification *)

Init ==
    /\ sessions = [s \in Sessions |-> None]
    /\ ctl = [c \in Controllers |->
                [NewController(None, 0) EXCEPT !.state = "unborn"]]
    /\ transitioning = {}
    /\ generation = 0
    /\ queue = <<>>
    /\ req = [r \in Requests |-> FreeRequest]
    /\ disk \in [Sessions -> {"unused", "present"}]
    /\ protected = {}
    /\ unannounced = {}
    /\ seen = [s \in Sessions |-> 0]
    /\ raced = {}

Step(r) ==
    \/ BeginCreate(r) \/ BeginValidation(r) \/ Refused(r) \/ OpenValidated(r)
    \/ Opened(r) \/ Discarded(r) \/ Evicted(r) \/ Refreshed(r)
    \/ RenameValidated(r) \/ DeleteValidated(r) \/ Resolved(r) \/ Renamed(r)
    \/ Buried(r) \/ Restored(r) \/ ReplacementFailed(r)
    \/ ReplacementMismatched(r) \/ ReplacementOpened(r) \/ Retired(r)
    \/ BeginFork(r) \/ ForkFileRemoved(r) \/ BeginRevert(r)
    \/ BeginDisposeAll(r) \/ Closed(r)

Environment ==
    \/ \E r \in Requests, k \in Offered, s \in Sessions \union {None} :
         Enqueue(r, k, s)
    \/ \E c \in Controllers :
         DisposeSettled(c) \/ Visibility(c) \/ Progress(c) \/ WorkSettled(c)
    \/ \E s \in Sessions : Submit(s) \/ FocusMoved(s)

Next == Environment \/ \E r \in Requests : Step(r)

Spec == Init /\ [][Next]_vars

(* Awaited calls settle: no SDK, file-system or extension call hangs. *)
Fairness ==
    /\ \A r \in Requests : WF_vars(Step(r))
    /\ \A c \in Controllers : WF_vars(DisposeSettled(c))

FairSpec == Spec /\ Fairness
-------------------------------------------------------------------------------
(* Properties *)

(* The controllers that can still be used are exactly the registered owners, *)
(* each of the session it was opened for: no mutation leaves a controller    *)
(* running that nobody can reach, registers one it has begun to dispose, or  *)
(* lets two controllers own one file.                                        *)
LiveIffOwner ==
    /\ \A c \in Controllers :
         ctl[c].state = "live" =>
            ctl[c].sid \in Sessions /\ sessions[ctl[c].sid] = c
    /\ \A s \in Sessions :
         sessions[s] # None =>
            ctl[sessions[s]].state = "live" /\ ctl[sessions[s]].sid = s

(* The working set never exceeds options.maxLoadedSessions, whatever fails   *)
(* while a session is opened, forked, deleted or brought back.               *)
CapacityRespected == Cardinality(Loaded) <= MaxLoaded

(* transitioningSessionIds holds what the running mutation reserved, and is  *)
(* empty between mutations: a failure leaves no session locked for good.     *)
ReservationsHeldByRunning ==
    transitioning = IF queue = <<>> THEN {} ELSE req[Head(queue)].held

(* A browser that has seen revision n of a transcript never gets an older    *)
(* one from a later owner of the session, across reverts, evictions and      *)
(* reopenings and failed deletes; sessions whose turn went on while their    *)
(* owner was being replaced are excepted (see RacedHistoryNeverRegresses).   *)
HistoryNeverRegresses ==
    \A s \in Sessions \ raced :
        sessions[s] # None => ctl[sessions[s]].rev >= seen[s]

(* A session loses its owner only in exchange for another one, when its file *)
(* is deleted, or at shutdown: replacing an owner never leaves a gap, even   *)
(* when the replacement cannot be opened.                                    *)
NoOwnershipGap ==
    [][\A s \in Sessions :
         sessions[s] # None /\ sessions'[s] = None =>
            \/ \E t \in Sessions : sessions[t] = None /\ sessions'[t] # None
            \/ disk[s] # "deleted" /\ disk'[s] = "deleted"
            \/ \E r \in Requests : At(r, "queued") /\ req[r].kind = "disposeAll"
      ]_vars

(* A session that a browser focuses, or that works, by the time the session  *)
(* replacing it has been opened is not evicted, although the candidate was   *)
(* chosen before the open was awaited.                                       *)
EvictionSparesFocusedAndBusy ==
    [][\A s, t \in Sessions :
         /\ sessions[t] = None /\ sessions'[t] # None
         /\ sessions[s] # None /\ sessions'[s] = None
         => s \notin protected /\ ~IsBusy(sessions[s])]_vars

(* When a soft delete settles, a deleted file has no owner and its removal   *)
(* was announced, and a session whose file is back still has an owner; only  *)
(* a recovery that failed itself may leave something else.                   *)
SoftDeleteAllOrNothing ==
    [][\A r \in Requests :
         LET s == req[r].sid IN
         req[r].kind = "delete" /\ req[r].phase # "free" /\ req'[r].phase = "free"
         => /\ disk'[s] = "deleted" => sessions'[s] = None
            /\ req[r].old # None /\ disk'[s] = "deleted"
                 /\ req[r].phase # "restoring" => s \notin unannounced'
            /\ req[r].old # None /\ disk'[s] = "present"
                 /\ req[r].phase \notin {"reviving", "discarding"} =>
                 sessions'[s] # None]_vars

(* When a fork settles, the file it created is loaded or was removed, unless *)
(* removing it failed.                                                       *)
ForkAllOrNothing ==
    [][\A r \in Requests :
         /\ req[r].kind = "fork" /\ req[r].phase \notin {"free", "queued", "orphaned"}
         /\ req'[r].phase = "free"
         => sessions'[req[r].sid] # None \/ disk'[req[r].sid] = "removed"]_vars

(* The registry promised to the rest of the server. *)
Registry == INSTANCE SessionRegistry WITH
                owner <- sessions,
                used <- {c \in Controllers : ctl[c].state # "unborn"}

ImplementsRegistry == Registry!Spec

(* Every lifecycle request settles, also after mutations that failed, and    *)
(* every disposal that was begun ends.                                       *)
MutationsSettle ==
    /\ \A r \in Requests : req[r].phase = "queued" ~> req[r].phase = "free"
    /\ \A c \in Controllers :
         ctl[c].state = "disposing" ~> ctl[c].state \in {"disposed", "failed"}

(* The safety of MutationsSettle: whatever failed before it, a mutation that *)
(* has not settled has one place in the tail; the disposals it awaits have   *)
(* all been begun; and one that retires an owner is of a kind that knows how *)
(* to go on.                                                                 *)
HasOneTurn(r) ==
    IF req[r].phase = "free"
    THEN \A i \in DOMAIN queue : queue[i] # r
    ELSE \E i \in DOMAIN queue : \A j \in DOMAIN queue : queue[j] = r <=> j = i

Ending == {"disposing", "disposed", "failed"}
DisposalsBegun(r) == \A c \in req[r].wait : ctl[c].state \in Ending

Exchanging == {"replacing", "resolving", "recovering", "retiring"}
KnowsItsWay(r) == req[r].phase \in Exchanging => req[r].kind \in {"revert", "delete"}

TailMovesOn == \A r \in Requests : HasOneTurn(r) /\ DisposalsBegun(r) /\ KnowsItsWay(r)

-------------------------------------------------------------------------------
(* The inductive invariant *)

Waiting(q) == req[q].phase \in {"free", "queued"}

(* Only the first mutation of the queue is under way, and the others hold    *)
(* nothing; every mutation but create and disposeAll has a session.          *)
OneMutationRuns ==
    \A q \in Requests :
        /\ ~IsTurn(q) => Waiting(q)
        /\ Waiting(q) => req[q].held = {} /\ req[q].old = None
        /\ req[q].phase = "queued" /\ req[q].kind \notin {"create", "disposeAll"}
             => req[q].sid \in Sessions
        /\ ~Waiting(q) /\ req[q].phase # "closing" => req[q].sid \in Sessions

(* A candidate stays the owner of the session reserved for it. *)
CandidateKept(q) ==
    req[q].victim # None =>
        /\ ctl[req[q].victim].sid \in Sessions
        /\ sessions[ctl[req[q].victim].sid] = req[q].victim

OldKept(q) ==
    /\ req[q].old # None
    /\ sessions[req[q].sid] = req[q].old
    /\ req[q].sid \in req[q].held

(* What a mutation established before its last await still holds after it. *)
Remembers(q) ==
    LET s == req[q].sid  phase == req[q].phase IN
    /\ phase = "validating" /\ req[q].kind # "fork" =>
         req[q].held = {} /\ req[q].old = None
    /\ \/ phase = "opening"
       \/ phase = "validating" /\ req[q].kind = "fork"
       => CandidateKept(q) /\ req[q].held = SessionOf(req[q].victim)
    /\ phase = "opening" => disk[s] # "unused"
    /\ phase = "resolving" /\ req[q].old # None => OldKept(q)
    /\ phase \in {"replacing", "recovering"} => OldKept(q)
    /\ phase = "retiring" => sessions[s] # None
    /\ phase = "renaming" /\ req[q].old # None => sessions[s] # None
    /\ phase \in {"burying", "restoring", "reviving"} =>
         sessions[s] = None /\ disk[s] # "unused"

OwnersHaveFiles == \A s \in Loaded : disk[s] # "unused"

WorkspaceInv ==
    /\ TypeOK
    /\ LiveIffOwner
    /\ OneMutationRuns
    /\ \A q \in Requests : Remembers(q)
    /\ OwnersHaveFiles
    /\ ReservationsHeldByRunning

(* What browsers have seen of a transcript is never ahead of its owner nor,  *)
(* without an owner, of the generation; and never of the revision reserved   *)
(* for the owner to come.  A session whose turn went on in a transition is   *)
(* excepted: the revisions of its old owner are forgotten.                   *)
OwnersReport == \A s \in Loaded : ctl[sessions[s]].rev <= seen[s]

HistoryKept ==
    \A s \in Sessions \ raced :
        IF sessions[s] # None THEN ctl[sessions[s]].rev >= seen[s]
                              ELSE generation >= seen[s]

Reserving == {"replacing", "recovering", "burying", "restoring", "reviving"}

ReservedRevisionsKept ==
    \A q \in Requests :
        req[q].phase \in Reserving /\ req[q].sid \notin raced
          => req[q].rev >= seen[req[q].sid]

HistoryInv == OwnersReport /\ HistoryKept /\ ReservedRevisionsKept

(* How far a fork and a soft delete have come, from the await they are at:   *)
(* the file of a loaded session is never a deleted one, a fork that goes on  *)
(* has registered its session, and a soft delete knows where its file is.    *)
ForkPhases == {"validating", "opening", "discarding", "evicting", "refreshing",
               "removing", "orphaned"}

DeletePhases == {"validating", "resolving", "recovering", "discarding", "retiring",
                 "renaming", "burying", "restoring", "reviving", "refreshing"}

OwnersKeepFiles == \A s \in Loaded : disk[s] # "deleted"

ForkProgress(q) ==
    req[q].kind = "fork" /\ ~Waiting(q) =>
        /\ req[q].phase \in ForkPhases
        /\ req[q].phase \in {"evicting", "refreshing"} => sessions[req[q].sid] # None

DeleteProgress(q) ==
    req[q].kind = "delete" /\ ~Waiting(q) =>
        /\ req[q].phase \in DeletePhases
        /\ req[q].phase = "retiring" => req[q].old # None
        /\ req[q].phase \in {"burying", "restoring"} => disk[req[q].sid] = "deleted"
        /\ req[q].phase = "discarding" => disk[req[q].sid] # "deleted"
        /\ req[q].phase = "refreshing" /\ req[q].old # None =>
             disk[req[q].sid] = "deleted" /\ req[q].sid \notin unannounced

(* A session about to be registered has its file, and one that had no owner *)
(* when its delete began has none when the file goes.                       *)
FileReady(q) ==
    /\ req[q].phase \in {"opening", "reviving"} => disk[req[q].sid] # "deleted"
    /\ req[q].phase \in {"resolving", "renaming"} /\ req[q].old = None =>
         sessions[req[q].sid] = None

ProgressInv ==
    /\ OwnersKeepFiles
    /\ \A q \in Requests : ForkProgress(q) /\ DeleteProgress(q) /\ FileReady(q)

-------------------------------------------------------------------------------
(* Statements of the source that its code does not keep *)

(* "Loaded sessions must be idle so dispose/removal cannot interrupt active *)
(* agent work" (softDeletePersistedSession).                                *)
DeleteNeverInterruptsWork ==
    [][\A r \in Requests :
         req[r].kind = "delete" /\ req'[r].phase = "retiring"
            /\ req[r].phase # "retiring" => ctl[req[r].old].work = "idle"]_vars

(* HistoryNeverRegresses without its exception. *)
RacedHistoryNeverRegresses ==
    \A s \in Sessions :
        sessions[s] # None => ctl[sessions[s]].rev >= seen[s]

(* A session that has left the Map is announced by the end of the mutation, *)
(* so that nobody keeps "a stale session id" (initAgentRuntime); shutdown,  *)
(* after which nobody is told anything, is excepted.                        *)
DeleteAnnouncesRemoval ==
    [][\A r \in Requests :
         /\ req[r].kind = "delete" /\ req[r].phase # "free"
         /\ req'[r].phase = "free" /\ req[r].old # None
         => sessions'[req[r].sid] # None \/ req[r].sid \notin unannounced']_vars
===============================================================================
