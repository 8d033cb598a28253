---------------------------- MODULE ClientPresence ----------------------------
(***************************************************************************)
(* ClientPresence: which session each browser client focuses and which     *)
(* client holds the control lease of each session.  The class is passive:  *)
(* each of its methods is an operator here, and AgentRuntime says who      *)
(* calls it when.                                                          *)
(***************************************************************************)
EXTENDS Integers, FiniteSets

CONSTANTS
    Sessions,       \* session ids
    Clients,        \* client ids: one per event stream, and Local
    Local,          \* LOCAL_CLIENT_ID, of callers without a stream
    None            \* undefined

ASSUME PresenceAssumption ==
    /\ IsFiniteSet(Sessions) /\ IsFiniteSet(Clients)
    /\ Local \in Clients
    /\ None \notin Sessions /\ None \notin Clients

VARIABLES
    known,          \* the keys of clientsById
    active,         \* activeSessionId of each of them
    lastActive,     \* lastActiveSessionId
    lease           \* controlLeasesBySession

presenceVars == <<known, active, lastActive, lease>>

NoLease == [owner |-> None, holds |-> 0]

PresenceTypeOK ==
    /\ known \subseteq Clients
    /\ active \in [Clients -> Sessions \union {None}]
    /\ lastActive \in Sessions \union {None}
    /\ lease \in [Sessions -> [owner : Clients \union {None}, holds : Nat]]

PresenceInit ==
    /\ known = {}
    /\ active = [c \in Clients |-> None]
    /\ lastActive = None
    /\ lease = [s \in Sessions |-> NoLease]

(* activeFor *)
ActiveFor(c) == IF active[c] # None THEN active[c] ELSE lastActive

(* attachClient: the last active session of any client, else the fallback. *)
AttachClient(c, fallback) ==
    /\ known' = known \union {c}
    /\ active' = [active EXCEPT ![c] =
                    IF lastActive # None THEN lastActive ELSE fallback]
    /\ UNCHANGED <<lastActive, lease>>

(* detachClient: every lease of the client is gone, however often held. *)
DetachClient(c) ==
    /\ known' = known \ {c}
    /\ active' = [active EXCEPT ![c] = None]
    /\ lease' = [s \in Sessions |->
                   IF lease[s].owner = c THEN NoLease ELSE lease[s]]
    /\ UNCHANGED lastActive

(* focus: also makes the client known. *)
SetFocus(c, s) ==
    /\ known' = known \union {c}
    /\ active' = [active EXCEPT ![c] = s]
    /\ lastActive' = s
    /\ UNCHANGED lease

AcquireForAnybody(c, s) ==                                        \* fault
    /\ lease' = [lease EXCEPT ![s] = [owner |-> c, holds |-> @.holds + 1]]
    /\ UNCHANGED <<known, active, lastActive>>

(* acquireControl: re-entrant for the owner, refused to anybody else. *)
AcquireControl(c, s) ==
    /\ lease[s].owner \in {None, c}
    /\ lease' = [lease EXCEPT ![s] = [owner |-> c, holds |-> @.holds + 1]]
    /\ UNCHANGED <<known, active, lastActive>>

ReleaseLastHoldOnly(c, s) ==                                      \* fault
    /\ lease' = [lease EXCEPT ![s] =
                   IF @.owner = c /\ @.holds = 1 THEN NoLease ELSE @]
    /\ UNCHANGED <<known, active, lastActive>>

(* releaseControl: nothing happens unless the client owns the lease. *)
ReleaseControl(c, s) ==
    /\ lease' = [lease EXCEPT ![s] =
                   IF @.owner # c THEN @
                   ELSE IF @.holds > 1 THEN [owner |-> c, holds |-> @.holds - 1]
                   ELSE NoLease]
    /\ UNCHANGED <<known, active, lastActive>>

RemoveSessionKeepingLast(s, fallback) ==                          \* fault
    /\ lease' = [lease EXCEPT ![s] = NoLease]
    /\ active' = [c \in Clients |-> IF active[c] = s THEN fallback ELSE active[c]]
    /\ UNCHANGED <<known, lastActive>>

(* removeSession: whoever focused the session falls back. *)
RemoveSession(s, fallback) ==
    /\ lease' = [lease EXCEPT ![s] = NoLease]
    /\ active' = [c \in Clients |-> IF active[c] = s THEN fallback ELSE active[c]]
    /\ lastActive' = IF lastActive = s THEN fallback ELSE lastActive
    /\ UNCHANGED known
===============================================================================
