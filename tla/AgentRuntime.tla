----------------------------- MODULE AgentRuntime -----------------------------
(***************************************************************************)
(* The process-wide runtime: browsers on their event streams (SseAgentHub),*)
(* HTTP requests that hold a session's control lease or focus a session    *)
(* after an await (the agent routes), and the presence that both share.    *)
(*                                                                         *)
(* An action is one uninterrupted piece of a handler, with every event it  *)
(* publishes: the bus calls its subscribers synchronously, so presence is  *)
(* cleaned up and snapshots are written within the piece.  The workspace   *)
(* is reduced to the set of loaded sessions and the pieces in which its    *)
(* mutations commit (SessionWorkspace has the rest); any session may be    *)
(* idle when an eviction looks for one.  Payloads written to a stream      *)
(* arrive in order.  Shutdown, which tells nobody, is left out.            *)
(***************************************************************************)
EXTENDS ClientPresence

CONSTANTS
    Requests,       \* slots for HTTP requests in flight
    Offered,        \* the kinds of request clients make
    MaxLoaded       \* options.maxLoadedSessions

VARIABLES
    loaded,         \* the sessions of the workspace's Map
    stream,         \* the event stream of each client
    subscribed,     \* the hub's bus subscription
    told,           \* the lease owners each browser was last told
    first,          \* history: first payload written to each stream
    req,            \* the requests
    late,           \* history: sessions focused after they had been removed
    revoked         \* history: <<client, session>> whose lease was taken away
                    \* from requests some of which are still in flight

vars == <<presenceVars, loaded, stream, subscribed, told, first, req, late, revoked>>

-------------------------------------------------------------------------------
(* Types *)

(* Requests under a lease, and those the lifecycle mutations serve. *)
Leased == {"mutate", "fork", "revert"}
Kinds == Leased \union {"open", "delete"}

ASSUME RuntimeAssumption ==
    IsFiniteSet(Requests) /\ Offered \subseteq Kinds /\ MaxLoaded \in Nat \ {0}

(* "running" awaits the workspace, "committed" awaits the rest of a mutation *)
(* that has registered target, "focusing" is about to focus target.          *)
Request ==
    [kind   : Kinds,
     phase  : {"free", "running", "committed", "focusing"},
     client : Clients,
     sid    : Sessions \union {None},
     target : Sessions \union {None}]

FreeRequest ==
    [kind |-> "mutate", phase |-> "free", client |-> Local, sid |-> None,
     target |-> None]

TypeOK ==
    /\ PresenceTypeOK
    /\ loaded \subseteq Sessions
    /\ stream \in [Clients -> {"new", "opening", "refreshed", "open", "closed"}]
    /\ subscribed \in BOOLEAN
    /\ told \in [Clients -> [Sessions -> Clients \union {None}]]
    /\ first \in [Clients -> {"none", "hello", "other"}]
    /\ req \in [Requests -> Request]
    /\ late \subseteq Sessions
    /\ revoked \subseteq Clients \X Sessions

-------------------------------------------------------------------------------
(* State functions *)

(* The hub's senders. *)
Senders == {c \in Clients : stream[c] \in {"opening", "refreshed", "open"}}

(* A lease is held for these: until the mutation settles. *)
InFlight(q) ==
    req[q].kind \in Leased /\ req[q].phase \in {"running", "committed"}

HoldersOf(c, s) ==
    {q \in Requests : InFlight(q) /\ req[q].client = c /\ req[q].sid = s}

(* getProtectedSessionIds *)
Protected == {ActiveFor(c) : c \in {Local} \union known}

(* firstLoadedSessionId of a Map with these keys, in some insertion order. *)
FirstOf(ids) == IF ids = {} THEN {None} ELSE ids

(* Snapshots and control_changed reach every sender; together they tell the *)
(* owner of every loaded session.  A closed stream keeps nothing.           *)
Owners == [s \in Sessions |-> IF s \in loaded THEN lease[s].owner ELSE None]

NothingTold == [s \in Sessions |-> None]

WriteTo(senders) ==
    /\ told' = [c \in Clients |->
                  IF c \in senders THEN Owners'
                  ELSE IF c \in Senders' THEN told[c] ELSE NothingTold]
    /\ first' = [c \in Clients |->
                   IF c \in senders /\ first[c] = "none" THEN "other" ELSE first[c]]

(* handleRuntimeEvent, once the hub has subscribed. *)
Publish == WriteTo(IF subscribed THEN Senders ELSE {})

Silent == UNCHANGED <<told, first>>

(* Only one lifecycle mutation is under way. *)
TailFree == \A q \in Requests : req[q].phase # "committed"

Enter(q, phase) == req' = [req EXCEPT ![q].phase = phase]
Done(q) == req' = [req EXCEPT ![q] = FreeRequest]

HubUnchanged == UNCHANGED <<stream, subscribed>>

-------------------------------------------------------------------------------
(* Event streams *)

(* SseAgentHub.open up to its await; a stream gets a fresh random id. *)
Connect(c) ==
    /\ c # Local /\ stream[c] = "new"
    /\ stream' = [stream EXCEPT ![c] = "opening"]
    /\ \E fallback \in FirstOf(loaded) : AttachClient(c, fallback)
    /\ Silent
    /\ UNCHANGED <<loaded, subscribed, req, late, revoked>>

(* Its refreshPersistedSessionCache settles, which publishes state_changed. *)
Refreshed(c) ==
    /\ stream[c] = "opening"
    /\ stream' = [stream EXCEPT ![c] = "refreshed"]
    /\ UNCHANGED <<presenceVars, loaded, subscribed, req, late, revoked>>
    /\ Publish

(* open resumes: hello and a snapshot, then the subscription. *)
Greet(c) ==
    /\ stream[c] = "refreshed"
    /\ stream' = [stream EXCEPT ![c] = "open"]
    /\ told' = [told EXCEPT ![c] = Owners]
    /\ first' = [first EXCEPT ![c] = IF @ = "none" THEN "hello" ELSE @]
    /\ subscribed' = TRUE
    /\ UNCHANGED <<presenceVars, loaded, req, late, revoked>>

(* handleDisconnect: the stream was aborted, or refreshing failed.  What is *)
(* left of the clients is told, subscription or not.                        *)
Disconnect(c) ==
    /\ c \in Senders
    /\ stream' = [stream EXCEPT ![c] = "closed"]
    /\ DetachClient(c)
    /\ revoked' = revoked \union {<<c, s>> : s \in {t \in Sessions : HoldersOf(c, t) # {}}}
    /\ UNCHANGED <<loaded, subscribed, req, late>>
    /\ WriteTo(Senders \ {c})

-------------------------------------------------------------------------------
(* Requests *)

(* A browser knows its id once it was greeted; its requests may still arrive *)
(* after its stream has closed.                                              *)
MayAsk(c) == c = Local \/ stream[c] \in {"open", "closed"}

(* acquireRequestSessionControl, up to the workspace's first await. *)
Start(q, kind, c, s) ==
    /\ req[q].phase = "free" /\ MayAsk(c)
    /\ kind \in Leased /\ s \in loaded
    /\ AcquireControl(c, s)
    /\ req' = [req EXCEPT ![q] = [kind |-> kind, phase |-> "running", client |-> c,
                                  sid |-> s, target |-> None]]
    /\ UNCHANGED <<loaded, late, revoked>>
    /\ HubUnchanged
    /\ Publish

(* Creating, opening and deleting take no lease. *)
StartUnleased(q, kind, c) ==
    /\ req[q].phase = "free" /\ MayAsk(c)
    /\ kind \in {"open", "delete"}
    /\ req' = [req EXCEPT ![q] = [FreeRequest EXCEPT !.kind = kind,
                                    !.phase = "running", !.client = c]]
    /\ Silent /\ HubUnchanged
    /\ UNCHANGED <<presenceVars, loaded, late, revoked>>

ReleaseSilently(q) ==                                             \* fault
    /\ InFlight(q)
    /\ ReleaseControl(req[q].client, req[q].sid)
    /\ \/ Done(q)
       \/ /\ req[q].kind = "fork" /\ req[q].phase = "committed"
          /\ Enter(q, "focusing")
       \/ /\ req[q].kind = "revert" /\ TailFree
          /\ req' = [req EXCEPT ![q].phase = "focusing", ![q].target = req[q].sid]
    /\ revoked' = {p \in revoked : HoldersOf(p[1], p[2])' # {}}
    /\ UNCHANGED <<loaded, late>>
    /\ HubUnchanged /\ Silent

(* The lease's last use: the mutation has settled.  A fork or a revert that *)
(* succeeded has yet to resume and focus its session.                       *)
Release(q) ==
    /\ InFlight(q)
    /\ ReleaseControl(req[q].client, req[q].sid)
    /\ \/ Done(q)
       \/ /\ req[q].kind = "fork" /\ req[q].phase = "committed"
          /\ Enter(q, "focusing")
       \/ /\ req[q].kind = "revert" /\ TailFree
          /\ req' = [req EXCEPT ![q].phase = "focusing", ![q].target = req[q].sid]
    /\ revoked' = {p \in revoked : HoldersOf(p[1], p[2])' # {}}
    /\ UNCHANGED <<loaded, late>>
    /\ HubUnchanged
    /\ Publish

(* A create, open or delete settles. *)
Settle(q) ==
    /\ req[q].kind \in {"open", "delete"}
    /\ req[q].phase \in {"running", "committed"}
    /\ \/ Done(q)
       \/ /\ req[q].kind = "open" /\ req[q].phase = "committed"
          /\ Enter(q, "focusing")
    /\ Silent /\ HubUnchanged
    /\ UNCHANGED <<presenceVars, loaded, late, revoked>>

(* The handler resumes with a controller and focuses it, loaded or not.  An *)
(* open only answers its caller.                                            *)
Focused(q) ==
    /\ req[q].phase = "focusing"
    /\ SetFocus(req[q].client, req[q].target)
    /\ late' = late \union ({req[q].target} \ loaded)
    /\ Done(q)
    /\ HubUnchanged
    /\ UNCHANGED <<loaded, revoked>>
    /\ IF req[q].kind = "open" THEN Silent ELSE Publish

(* POST .../focus, which does not await anything. *)
Focus(c, s) ==
    /\ MayAsk(c) /\ s \in loaded
    /\ SetFocus(c, s)
    /\ UNCHANGED <<loaded, req, late, revoked>>
    /\ HubUnchanged
    /\ Publish

-------------------------------------------------------------------------------
(* What the workspace's mutations do to the runtime *)

(* session_removed for s when ids are the sessions that stay. *)
Removed(s, ids) ==
    /\ \E fallback \in FirstOf(ids) : RemoveSession(s, fallback)
    /\ revoked' = revoked \union {<<c, s>> : c \in {d \in Clients : HoldersOf(d, s) # {}}}
    /\ late' = late \ {s}

(* The session asked for is loaded, or becomes so, perhaps for another one. *)
Commit(q, t) ==
    /\ req[q].kind \in {"open", "fork"} /\ req[q].phase = "running" /\ TailFree
    /\ req' = [req EXCEPT ![q].phase = "committed", ![q].target = t]
    /\ HubUnchanged
    /\ \/ /\ t \in loaded /\ req[q].kind = "open"
          /\ Silent
          /\ UNCHANGED <<presenceVars, loaded, late, revoked>>
       \/ /\ t \notin loaded /\ Cardinality(loaded) < MaxLoaded
          /\ loaded' = loaded \union {t}
          /\ UNCHANGED <<presenceVars, late, revoked>>
          /\ Publish
       \/ /\ t \notin loaded /\ Cardinality(loaded) >= MaxLoaded
          /\ \E victim \in loaded \ (Protected \union {req[q].sid}) :
               /\ loaded' = (loaded \union {t}) \ {victim}
               /\ Removed(victim, loaded')
          /\ Publish

(* A soft delete takes a session out of the Map and announces it. *)
Delete(q, s) ==
    /\ req[q].kind = "delete" /\ req[q].phase = "running" /\ TailFree
    /\ s \in loaded
    /\ loaded' = loaded \ {s}
    /\ Removed(s, loaded')
    /\ Enter(q, "committed")
    /\ HubUnchanged
    /\ Publish

-------------------------------------------------------------------------------
Init ==
    /\ PresenceInit
    /\ loaded = {}
    /\ stream = [c \in Clients |-> "new"]
    /\ subscribed = FALSE
    /\ told = [c \in Clients |-> NothingTold]
    /\ first = [c \in Clients |-> "none"]
    /\ req = [q \in Requests |-> FreeRequest]
    /\ late = {}
    /\ revoked = {}

Next ==
    \/ \E c \in Clients :
         Connect(c) \/ Refreshed(c) \/ Greet(c) \/ Disconnect(c)
    \/ \E c \in Clients, s \in Sessions : Focus(c, s)
    \/ \E q \in Requests, kind \in Offered, c \in Clients :
         \/ StartUnleased(q, kind, c)
         \/ \E s \in Sessions : Start(q, kind, c, s)
    \/ \E q \in Requests : Release(q) \/ Settle(q) \/ Focused(q)
    \/ \E q \in Requests, s \in Sessions : Commit(q, s) \/ Delete(q, s)

Spec == Init /\ [][Next]_vars

-------------------------------------------------------------------------------
(* Properties *)

(* Every browser that was greeted and is connected knows who controls each  *)
(* loaded session, although leases also end by a removal and by another     *)
(* client's disconnect, which publish no control_changed of their own.      *)
BrowsersKnowOwners ==
    \A c \in Clients, s \in loaded :
        stream[c] = "open" => told[c][s] = lease[s].owner

(* A lease is never held more often than its owner has requests in flight   *)
(* on the session: no order of releases, removals and disconnects leaves a  *)
(* session locked.                                                          *)
LeaseNeverOutlivesRequests ==
    \A s \in Sessions :
        /\ lease[s].holds = 0 <=> lease[s].owner = None
        /\ lease[s].holds <= Cardinality(HoldersOf(lease[s].owner, s))

(* Two clients have requests in flight on one session only after one of them *)
(* lost its lease to a disconnect or to the removal of the session.          *)
ExclusiveUnlessRevoked ==
    \A c, d \in Clients, s \in Sessions :
        /\ c # d
        /\ HoldersOf(c, s) # {} /\ HoldersOf(d, s) # {}
        => <<c, s>> \in revoked \/ <<d, s>> \in revoked

(* Presence names only loaded sessions, whichever sessions are removed while *)
(* clients focus them, except those a handler focused after their removal.   *)
FocusInWorkingSet ==
    {lastActive} \union {active[c] : c \in Clients} \subseteq loaded \union late \union {None}

-------------------------------------------------------------------------------
(* The inductive invariant *)

SubscribedWhenOpen == (\E c \in Clients : stream[c] = "open") => subscribed

(* A request under a lease names its session, and one that may yet focus a  *)
(* session knows which.                                                     *)
RequestsKnowSessions ==
    \A q \in Requests :
        /\ InFlight(q) => req[q].sid \in Sessions
        /\ \/ req[q].phase = "focusing"
           \/ req[q].phase = "committed" /\ req[q].kind \in {"open", "fork"}
           => req[q].target \in Sessions

(* A client whose lease was not taken away holds it once for each request.  *)
HoldsAccounted ==
    \A c \in Clients, s \in Sessions :
        HoldersOf(c, s) # {} =>
            \/ <<c, s>> \in revoked
            \/ /\ lease[s].owner = c
               /\ lease[s].holds = Cardinality(HoldersOf(c, s))

RuntimeInv ==
    /\ TypeOK
    /\ SubscribedWhenOpen
    /\ RequestsKnowSessions
    /\ BrowsersKnowOwners
    /\ LeaseNeverOutlivesRequests
    /\ HoldsAccounted
    /\ FocusInWorkingSet

-------------------------------------------------------------------------------
(* Statements of the source that its code does not keep *)

(* createServerHello: "the first SSE payload sent to a newly attached        *)
(* browser client".                                                          *)
HelloIsFirst == \A c \in Clients : first[c] # "other"

(* The workspace gets a callback that "prevents eviction of sessions that a *)
(* connected browser client is currently focused on or controlling".        *)
ControlledSessionsStay ==
    [][\A q \in Requests, c \in Senders, s \in loaded :
         req[q].phase = "running" /\ req[q].kind \in {"open", "fork"}
         /\ req'[q].phase = "committed" /\ lease[s].owner = c
         => s \in loaded']_vars

(* session_removed cleans presence "so other services don't reference a     *)
(* stale session id".                                                       *)
FocusNeverStale ==
    {lastActive} \union {active[c] : c \in Clients} \subseteq loaded \union {None}

(* clients(): "all currently connected browser client ids". *)
KnownClientsConnected == known \subseteq Senders \union {Local}

(* Control leases "prevent accidental concurrent mutations": while a client *)
(* stays connected and the session loaded, the lease of its request stays.  *)
LeaseKeptWhileInFlight ==
    [][\A q \in Requests :
         LET c == req[q].client  s == req[q].sid IN
         /\ InFlight(q) /\ InFlight(q)' /\ lease[s].owner = c
         /\ c \in Senders /\ c \in Senders' /\ s \in loaded'
         => lease'[s].owner = c]_vars
===============================================================================
