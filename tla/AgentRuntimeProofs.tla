-------------------------- MODULE AgentRuntimeProofs --------------------------
(* Theorems about AgentRuntime, for every value of its constants. *)
EXTENDS AgentRuntime, FiniteSetTheorems, TLAPS

-------------------------------------------------------------------------------
(* Presence *)

LEMMA AttachType ==
  ASSUME PresenceTypeOK, NEW c \in Clients, NEW fallback \in Sessions \union {None},
         AttachClient(c, fallback)
  PROVE  PresenceTypeOK'
  BY DEF PresenceTypeOK, AttachClient

LEMMA DetachType ==
  ASSUME PresenceTypeOK, NEW c \in Clients, DetachClient(c)
  PROVE  PresenceTypeOK'
  BY DEF PresenceTypeOK, DetachClient, NoLease

LEMMA FocusType ==
  ASSUME PresenceTypeOK, NEW c \in Clients, NEW s \in Sessions, SetFocus(c, s)
  PROVE  PresenceTypeOK'
  BY DEF PresenceTypeOK, SetFocus

LEMMA AcquireType ==
  ASSUME PresenceTypeOK, NEW c \in Clients, NEW s \in Sessions, AcquireControl(c, s)
  PROVE  PresenceTypeOK'
  BY DEF PresenceTypeOK, AcquireControl

LEMMA ReleaseType ==
  ASSUME PresenceTypeOK, NEW c \in Clients, NEW s \in Sessions, ReleaseControl(c, s)
  PROVE  PresenceTypeOK'
  BY DEF PresenceTypeOK, ReleaseControl, NoLease

LEMMA RemoveType ==
  ASSUME PresenceTypeOK, NEW s \in Sessions,
         NEW fallback \in Sessions \union {None}, RemoveSession(s, fallback)
  PROVE  PresenceTypeOK'
  BY DEF PresenceTypeOK, RemoveSession, NoLease

(* A fallback is one of the sessions that stay, or nothing. *)
LEMMA FallbackType ==
  ASSUME NEW ids \in SUBSET Sessions, NEW fallback \in FirstOf(ids)
  PROVE  fallback \in Sessions \union {None} /\ fallback \in ids \union {None}
  BY DEF FirstOf

-------------------------------------------------------------------------------
(* What the hub writes *)

ToldType ==
    /\ told \in [Clients -> [Sessions -> Clients \union {None}]]
    /\ first \in [Clients -> {"none", "hello", "other"}]

LEMMA WriteType ==
  ASSUME ToldType, PresenceTypeOK', NEW senders, WriteTo(senders)
  PROVE  ToldType'
  <1>1. Owners' \in [Sessions -> Clients \union {None}]
        /\ NothingTold \in [Sessions -> Clients \union {None}]
    BY DEF PresenceTypeOK, Owners, NothingTold
  <1>2. QED BY <1>1 DEF ToldType, WriteTo

LEMMA PublishType ==
  ASSUME ToldType, PresenceTypeOK', Publish
  PROVE  ToldType'
  BY WriteType DEF Publish

LEMMA SilentType ==
  ASSUME ToldType, Silent PROVE ToldType'
  BY DEF ToldType, Silent

-------------------------------------------------------------------------------
(* Requests *)

LEMMA FreeRequestType == FreeRequest \in Request
  BY PresenceAssumption DEF FreeRequest, Request, Kinds, Leased

LEMMA DoneType ==
  ASSUME req \in [Requests -> Request], NEW q \in Requests, Done(q)
  PROVE  req' \in [Requests -> Request]
  BY FreeRequestType DEF Done

(* What req may become at one request. *)
Replaced(q, new) == req' = [req EXCEPT ![q] = new]

LEMMA ReplacedType ==
  ASSUME req \in [Requests -> Request], RequestsKnowSessions,
         NEW q \in Requests, NEW new \in Request, Replaced(q, new),
         new.kind \in Leased /\ new.phase \in {"running", "committed"}
            => new.sid \in Sessions,
         \/ new.phase = "focusing"
         \/ new.phase = "committed" /\ new.kind \in {"open", "fork"}
         => new.target \in Sessions
  PROVE  req' \in [Requests -> Request] /\ RequestsKnowSessions'
  BY DEF Replaced, RequestsKnowSessions, InFlight

LEMMA DoneKnows ==
  ASSUME req \in [Requests -> Request], RequestsKnowSessions, NEW q \in Requests,
         Done(q)
  PROVE  req' \in [Requests -> Request] /\ RequestsKnowSessions'
  <1>1. Replaced(q, FreeRequest)
    BY DEF Done, Replaced
  <1>2. FreeRequest.phase = "free"
    BY DEF FreeRequest
  <1>3. QED BY <1>1, <1>2, FreeRequestType, ReplacedType

(* The workspace and the requests, without presence and what was told. *)
CoreType ==
    /\ loaded \subseteq Sessions
    /\ stream \in [Clients -> {"new", "opening", "refreshed", "open", "closed"}]
    /\ subscribed \in BOOLEAN
    /\ late \subseteq Sessions
    /\ revoked \subseteq Clients \X Sessions

Typed == TypeOK /\ RequestsKnowSessions

LEMMA TypedParts ==
  Typed <=> /\ PresenceTypeOK /\ ToldType /\ CoreType
            /\ req \in [Requests -> Request] /\ RequestsKnowSessions
  BY DEF Typed, TypeOK, ToldType, CoreType

LEMMA TypedNext ==
  ASSUME PresenceTypeOK', ToldType', CoreType',
         req' \in [Requests -> Request] /\ RequestsKnowSessions'
  PROVE  Typed'
  BY DEF Typed, TypeOK, ToldType, CoreType

LEMMA RequestsKept ==
  ASSUME Typed, UNCHANGED req
  PROVE  req' \in [Requests -> Request] /\ RequestsKnowSessions'
  BY DEF Typed, TypeOK, RequestsKnowSessions, InFlight

LEMMA ConnectTyped ==
  ASSUME Typed, NEW c \in Clients, Connect(c)
  PROVE  Typed'
  <1>1. PICK fallback \in FirstOf(loaded) : AttachClient(c, fallback)
    BY DEF Connect
  <1>2. PresenceTypeOK'
    BY <1>1, FallbackType, AttachType DEF Typed, TypeOK
  <1>3. ToldType' /\ CoreType'
    BY TypedParts, SilentType DEF Connect, CoreType
  <1>4. QED BY <1>2, <1>3, RequestsKept, TypedNext DEF Connect

LEMMA RefreshedTyped ==
  ASSUME Typed, NEW c \in Clients, Refreshed(c)
  PROVE  Typed'
  <1>1. PresenceTypeOK'
    BY DEF Refreshed, presenceVars, Typed, TypeOK, PresenceTypeOK
  <1>2. ToldType' /\ CoreType'
    BY <1>1, TypedParts, PublishType DEF Refreshed, CoreType
  <1>3. QED BY <1>1, <1>2, RequestsKept, TypedNext DEF Refreshed

LEMMA GreetTyped ==
  ASSUME Typed, NEW c \in Clients, Greet(c)
  PROVE  Typed'
  <1>1. PresenceTypeOK'
    BY DEF Greet, presenceVars, Typed, TypeOK, PresenceTypeOK
  <1>2. Owners \in [Sessions -> Clients \union {None}]
    BY DEF Typed, TypeOK, PresenceTypeOK, Owners
  <1>3. ToldType' /\ CoreType'
    BY <1>2, TypedParts DEF Greet, CoreType, ToldType
  <1>4. QED BY <1>1, <1>3, RequestsKept, TypedNext DEF Greet

LEMMA DisconnectTyped ==
  ASSUME Typed, NEW c \in Clients, Disconnect(c)
  PROVE  Typed'
  <1>1. PresenceTypeOK'
    BY DetachType DEF Disconnect, Typed, TypeOK
  <1>2. ToldType' /\ CoreType'
    BY <1>1, TypedParts, WriteType DEF Disconnect, CoreType
  <1>3. QED BY <1>1, <1>2, RequestsKept, TypedNext DEF Disconnect

LEMMA FocusTyped ==
  ASSUME Typed, NEW c \in Clients, NEW s \in Sessions, Focus(c, s)
  PROVE  Typed'
  <1>1. PresenceTypeOK'
    BY FocusType DEF Focus, Typed, TypeOK
  <1>2. ToldType' /\ CoreType'
    BY <1>1, TypedParts, PublishType DEF Focus, HubUnchanged, CoreType
  <1>3. QED BY <1>1, <1>2, RequestsKept, TypedNext DEF Focus

LEMMA StartTyped ==
  ASSUME Typed, NEW q \in Requests, NEW kind \in Kinds, NEW c \in Clients,
         NEW s \in Sessions, Start(q, kind, c, s)
  PROVE  Typed'
  <1>1. PresenceTypeOK'
    BY AcquireType DEF Start, Typed, TypeOK
  <1>2. ToldType' /\ CoreType'
    BY <1>1, TypedParts, PublishType DEF Start, HubUnchanged, CoreType
  <1>3. req' \in [Requests -> Request] /\ RequestsKnowSessions'
    <2> DEFINE new == [kind |-> kind, phase |-> "running", client |-> c,
                       sid |-> s, target |-> None]
    <2>1. new \in Request /\ new.sid = s /\ new.phase = "running"
      BY DEF Request
    <2>2. Replaced(q, new)
      BY DEF Start, Replaced
    <2> HIDE DEF new
    <2>3. QED BY <2>1, <2>2, ReplacedType DEF Typed, TypeOK
  <1>4. QED BY <1>1, <1>2, <1>3, TypedNext

LEMMA StartUnleasedTyped ==
  ASSUME Typed, NEW q \in Requests, NEW kind \in Kinds, NEW c \in Clients,
         StartUnleased(q, kind, c)
  PROVE  Typed'
  <1>1. PresenceTypeOK'
    BY DEF StartUnleased, presenceVars, Typed, TypeOK, PresenceTypeOK
  <1>2. ToldType' /\ CoreType'
    BY TypedParts, SilentType DEF StartUnleased, HubUnchanged, CoreType
  <1>3. req' \in [Requests -> Request] /\ RequestsKnowSessions'
    <2> DEFINE new == [FreeRequest EXCEPT !.kind = kind, !.phase = "running",
                                          !.client = c]
    <2>1. new \in Request /\ new.kind = kind /\ new.phase = "running"
      BY FreeRequestType DEF Request, FreeRequest
    <2>2. kind \notin Leased
      BY DEF StartUnleased, Leased
    <2>3. Replaced(q, new)
      BY DEF StartUnleased, Replaced
    <2> HIDE DEF new
    <2>4. QED BY <2>1, <2>2, <2>3, ReplacedType DEF Typed, TypeOK
  <1>4. QED BY <1>1, <1>2, <1>3, TypedNext

LEMMA ReleaseTyped ==
  ASSUME Typed, NEW q \in Requests, Release(q)
  PROVE  Typed'
  <1> DEFINE c == req[q].client  s == req[q].sid
  <1>1. c \in Clients /\ s \in Sessions
    BY DEF Release, Typed, TypeOK, RequestsKnowSessions, Request
  <1>2. PresenceTypeOK'
    BY <1>1, ReleaseType DEF Release, Typed, TypeOK
  <1>3. ToldType' /\ CoreType'
    BY <1>2, TypedParts, PublishType DEF Release, HubUnchanged, CoreType
  <1>4. CASE Done(q)
    BY <1>2, <1>3, <1>4, DoneKnows, TypedNext DEF Typed, TypeOK
  <1>5. CASE /\ req[q].kind = "fork" /\ req[q].phase = "committed"
             /\ Enter(q, "focusing")
    <2> DEFINE new == [req[q] EXCEPT !.phase = "focusing"]
    <2>1. new \in Request /\ new.phase = "focusing" /\ new.target \in Sessions
      BY <1>5 DEF Typed, TypeOK, RequestsKnowSessions, Request
    <2>2. Replaced(q, new)
      BY <1>5 DEF Enter, Replaced
    <2> HIDE DEF new
    <2>3. req' \in [Requests -> Request] /\ RequestsKnowSessions'
      BY <2>1, <2>2, ReplacedType DEF Typed, TypeOK
    <2>4. QED BY <1>2, <1>3, <2>3, TypedNext
  <1>6. CASE req' = [req EXCEPT ![q].phase = "focusing", ![q].target = req[q].sid]
    <2> DEFINE new == [req[q] EXCEPT !.phase = "focusing", !.target = s]
    <2>1. new \in Request /\ new.phase = "focusing" /\ new.target \in Sessions
      BY <1>1 DEF Typed, TypeOK, RequestsKnowSessions, Request
    <2>2. Replaced(q, new)
      BY <1>6 DEF Replaced, Typed, TypeOK, Request
    <2> HIDE DEF new
    <2>3. req' \in [Requests -> Request] /\ RequestsKnowSessions'
      BY <2>1, <2>2, ReplacedType DEF Typed, TypeOK
    <2>4. QED BY <1>2, <1>3, <2>3, TypedNext
  <1>7. QED BY <1>4, <1>5, <1>6 DEF Release

LEMMA SettleTyped ==
  ASSUME Typed, NEW q \in Requests, Settle(q)
  PROVE  Typed'
  <1>1. PresenceTypeOK'
    BY DEF Settle, presenceVars, Typed, TypeOK, PresenceTypeOK
  <1>2. ToldType' /\ CoreType'
    BY TypedParts, SilentType DEF Settle, HubUnchanged, CoreType
  <1>3. CASE Done(q)
    BY <1>1, <1>2, <1>3, DoneKnows, TypedNext DEF Typed, TypeOK
  <1>4. CASE /\ req[q].kind = "open" /\ req[q].phase = "committed"
             /\ Enter(q, "focusing")
    <2> DEFINE new == [req[q] EXCEPT !.phase = "focusing"]
    <2>1. new \in Request /\ new.phase = "focusing" /\ new.target \in Sessions
      BY <1>4 DEF Typed, TypeOK, RequestsKnowSessions, Request
    <2>2. Replaced(q, new)
      BY <1>4 DEF Enter, Replaced
    <2> HIDE DEF new
    <2>3. req' \in [Requests -> Request] /\ RequestsKnowSessions'
      BY <2>1, <2>2, ReplacedType DEF Typed, TypeOK
    <2>4. QED BY <1>1, <1>2, <2>3, TypedNext
  <1>5. QED BY <1>3, <1>4 DEF Settle

LEMMA FocusedTyped ==
  ASSUME Typed, NEW q \in Requests, Focused(q)
  PROVE  Typed'
  <1>1. req[q].client \in Clients /\ req[q].target \in Sessions
    BY DEF Focused, Typed, TypeOK, RequestsKnowSessions, Request
  <1>2. PresenceTypeOK'
    BY <1>1, FocusType DEF Focused, Typed, TypeOK
  <1>3. ToldType'
    BY <1>2, TypedParts, PublishType, SilentType DEF Focused
  <1>4. CoreType'
    BY <1>1, TypedParts DEF Focused, HubUnchanged, CoreType
  <1>5. req' \in [Requests -> Request] /\ RequestsKnowSessions'
    BY DoneKnows DEF Focused, Typed, TypeOK
  <1>6. QED BY <1>2, <1>3, <1>4, <1>5, TypedNext

LEMMA RemovedTyped ==
  ASSUME Typed, NEW s \in Sessions, NEW ids \in SUBSET Sessions, Removed(s, ids)
  PROVE  /\ PresenceTypeOK'
         /\ late' \subseteq Sessions /\ revoked' \subseteq Clients \X Sessions
  <1>1. PICK fallback \in FirstOf(ids) : RemoveSession(s, fallback)
    BY DEF Removed
  <1>2. PresenceTypeOK'
    BY <1>1, FallbackType, RemoveType DEF Typed, TypeOK
  <1>3. QED BY <1>2 DEF Removed, Typed, TypeOK

(* A commit loads nothing, loads its target, or exchanges it for a victim. *)
Kept(q, t) ==
    /\ t \in loaded /\ req[q].kind = "open" /\ Silent
    /\ UNCHANGED <<presenceVars, loaded, late, revoked>>
Added(t) ==
    /\ loaded' = loaded \union {t}
    /\ UNCHANGED <<presenceVars, late, revoked>>
    /\ Publish
Exchanged(t, victim) ==
    /\ loaded' = (loaded \union {t}) \ {victim}
    /\ Removed(victim, loaded')
    /\ Publish

LEMMA CommitCases ==
  ASSUME NEW q \in Requests, NEW t \in Sessions, Commit(q, t)
  PROVE  /\ req[q].kind \in {"open", "fork"} /\ req[q].phase = "running"
         /\ req' = [req EXCEPT ![q].phase = "committed", ![q].target = t]
         /\ HubUnchanged
         /\ \/ Kept(q, t)
            \/ Added(t)
            \/ \E victim \in loaded \ {t} : Exchanged(t, victim)
  BY DEF Commit, Kept, Added, Exchanged

LEMMA CommitRequest ==
  ASSUME Typed, NEW q \in Requests, NEW t \in Sessions, Commit(q, t)
  PROVE  req' \in [Requests -> Request] /\ RequestsKnowSessions'
  <1> DEFINE new == [req[q] EXCEPT !.phase = "committed", !.target = t]
  <1>1. /\ new \in Request /\ new.phase = "committed" /\ new.target = t
        /\ new.kind = req[q].kind /\ new.sid = req[q].sid
    BY DEF Typed, TypeOK, Request
  <1>2. Replaced(q, new)
    <2>1. req' = [req EXCEPT ![q].phase = "committed", ![q].target = t]
      BY CommitCases
    <2>2. req \in [Requests -> Request]
      BY DEF Typed, TypeOK
    <2>3. QED BY <2>1, <2>2 DEF Replaced, Request
  <1>3. req[q].kind \in Leased => req[q].sid \in Sessions
    BY CommitCases DEF Typed, RequestsKnowSessions, InFlight
  <1> HIDE DEF new
  <1>4. QED BY <1>1, <1>2, <1>3, ReplacedType DEF Typed, TypeOK

LEMMA CommitTyped ==
  ASSUME Typed, NEW q \in Requests, NEW t \in Sessions, Commit(q, t)
  PROVE  Typed'
  <1>1. HubUnchanged
    BY CommitCases
  <1>2. CASE Kept(q, t)
    <2>1. PresenceTypeOK' /\ ToldType' /\ CoreType'
      BY <1>1, <1>2, TypedParts, SilentType
      DEF Kept, HubUnchanged, presenceVars, PresenceTypeOK, CoreType
    <2>2. QED BY <2>1, CommitRequest, TypedNext
  <1>3. CASE Added(t)
    <2>1. PresenceTypeOK'
      BY <1>3, TypedParts DEF Added, presenceVars, PresenceTypeOK
    <2>2. ToldType' /\ CoreType'
      BY <1>1, <1>3, <2>1, TypedParts, PublishType DEF Added, HubUnchanged, CoreType
    <2>3. QED BY <2>1, <2>2, CommitRequest, TypedNext
  <1>4. ASSUME NEW victim \in loaded \ {t}, Exchanged(t, victim)
        PROVE  Typed'
    <2>1. victim \in Sessions /\ loaded' \subseteq Sessions
      BY <1>4 DEF Exchanged, Typed, TypeOK
    <2>2. /\ PresenceTypeOK'
          /\ late' \subseteq Sessions /\ revoked' \subseteq Clients \X Sessions
      BY <1>4, <2>1, RemovedTyped DEF Exchanged
    <2>3. ToldType' /\ CoreType'
      BY <1>1, <1>4, <2>1, <2>2, TypedParts, PublishType
      DEF Exchanged, HubUnchanged, CoreType
    <2>4. QED BY <2>2, <2>3, CommitRequest, TypedNext
  <1>5. QED BY <1>2, <1>3, <1>4, CommitCases

LEMMA DeleteTyped ==
  ASSUME Typed, NEW q \in Requests, NEW s \in Sessions, Delete(q, s)
  PROVE  Typed'
  <1>1. loaded' \subseteq Sessions
    BY DEF Delete, Typed, TypeOK
  <1>2. /\ PresenceTypeOK'
        /\ late' \subseteq Sessions /\ revoked' \subseteq Clients \X Sessions
    BY <1>1, RemovedTyped DEF Delete
  <1>3. ToldType' /\ CoreType'
    BY <1>1, <1>2, TypedParts, PublishType DEF Delete, HubUnchanged, CoreType
  <1>4. req' \in [Requests -> Request] /\ RequestsKnowSessions'
    <2> DEFINE new == [req[q] EXCEPT !.phase = "committed"]
    <2>1. new \in Request /\ new.phase = "committed" /\ new.kind = "delete"
      BY DEF Delete, Typed, TypeOK, Request
    <2>2. Replaced(q, new)
      BY DEF Delete, Enter, Replaced
    <2> HIDE DEF new
    <2>3. QED BY <2>1, <2>2, ReplacedType DEF Typed, TypeOK, Leased
  <1>5. QED BY <1>2, <1>3, <1>4, TypedNext

LEMMA StutterTyped == ASSUME Typed, UNCHANGED vars PROVE Typed'
  BY DEF Typed, TypeOK, PresenceTypeOK, RequestsKnowSessions, InFlight, vars,
         presenceVars

LEMMA NextTyped == ASSUME Typed, [Next]_vars PROVE Typed'
  <1>1. Offered \subseteq Kinds
    BY RuntimeAssumption
  <1>2. QED
    BY <1>1, ConnectTyped, RefreshedTyped, GreetTyped, DisconnectTyped, FocusTyped,
       StartTyped, StartUnleasedTyped, ReleaseTyped, SettleTyped, FocusedTyped,
       CommitTyped, DeleteTyped, StutterTyped
    DEF Next

-------------------------------------------------------------------------------
(* What the browsers were told *)

(* A piece that publishes tells every open stream the owners it leaves. *)
LEMMA PublishTells ==
  ASSUME SubscribedWhenOpen, Typed', UNCHANGED stream, Publish
  PROVE  BrowsersKnowOwners'
  BY DEF SubscribedWhenOpen, Typed, TypeOK, Publish, WriteTo, Senders, Owners,
         BrowsersKnowOwners

(* A silent piece leaves leases and sessions alone. *)
LEMMA SilentTells ==
  ASSUME BrowsersKnowOwners, UNCHANGED <<stream, told, loaded, lease>>
  PROVE  BrowsersKnowOwners'
  BY DEF BrowsersKnowOwners

Told == SubscribedWhenOpen /\ BrowsersKnowOwners

LEMMA HubKept ==
  ASSUME SubscribedWhenOpen, HubUnchanged PROVE SubscribedWhenOpen'
  BY DEF SubscribedWhenOpen, HubUnchanged

LEMMA StreamsTold ==
  ASSUME Typed, Typed', Told, NEW c \in Clients,
         Connect(c) \/ Refreshed(c) \/ Greet(c) \/ Disconnect(c)
  PROVE  Told'
  <1>1. CASE Connect(c)
    BY <1>1 DEF Connect, AttachClient, Silent, Told, SubscribedWhenOpen,
                BrowsersKnowOwners, Typed, TypeOK
  <1>2. CASE Refreshed(c)
    <2>1. SubscribedWhenOpen'
      BY <1>2 DEF Refreshed, Told, SubscribedWhenOpen, Typed, TypeOK
    <2>2. \A d \in Clients : stream'[d] = "open" => stream[d] = "open"
      BY <1>2 DEF Refreshed, Typed, TypeOK
    <2>3. ASSUME NEW d \in Clients, stream'[d] = "open"
          PROVE  told'[d] = told[d] \/ told'[d] = Owners'
      BY <1>2, <2>3 DEF Refreshed, Publish, WriteTo, Senders
    <2>4. UNCHANGED <<loaded, lease>>
      BY <1>2 DEF Refreshed, presenceVars
    <2>5. QED BY <2>1, <2>2, <2>3, <2>4 DEF Told, BrowsersKnowOwners, Owners,
                                            Typed, TypeOK
  <1>3. CASE Greet(c)
    BY <1>3 DEF Greet, presenceVars, Told, SubscribedWhenOpen, BrowsersKnowOwners,
                Owners, Typed, TypeOK
  <1>4. CASE Disconnect(c)
    <2>1. SubscribedWhenOpen'
      BY <1>4 DEF Disconnect, Told, SubscribedWhenOpen, Typed, TypeOK
    <2>2. \A d \in Clients : stream'[d] = "open" => d \in Senders \ {c}
      BY <1>4 DEF Disconnect, Senders, Typed, TypeOK
    <2>3. \A d \in Clients : stream'[d] = "open" => told'[d] = Owners'
      BY <1>4, <2>2 DEF Disconnect, WriteTo
    <2>4. QED BY <2>1, <2>3 DEF Told, BrowsersKnowOwners, Owners, Typed, TypeOK
  <1>5. QED BY <1>1, <1>2, <1>3, <1>4

LEMMA RequestsTold ==
  ASSUME Typed, Typed', Told, NEW q \in Requests,
         \/ Release(q) \/ Settle(q) \/ Focused(q)
         \/ \E s \in Sessions : Commit(q, s) \/ Delete(q, s)
         \/ \E kind \in Offered, c \in Clients :
              \/ StartUnleased(q, kind, c)
              \/ \E s \in Sessions : Start(q, kind, c, s)
  PROVE  Told'
  <1>1. HubUnchanged
    BY DEF Release, Settle, Focused, Commit, Delete, StartUnleased, Start
  <1>2. Publish \/ UNCHANGED <<told, loaded, lease>>
    BY DEF Release, Settle, Focused, Commit, Delete, StartUnleased, Start,
           Silent, SetFocus, presenceVars
  <1>3. UNCHANGED stream /\ SubscribedWhenOpen'
    BY <1>1, HubKept DEF Told, HubUnchanged
  <1>4. CASE Publish
    BY <1>3, <1>4, PublishTells DEF Told
  <1>5. CASE UNCHANGED <<told, loaded, lease>>
    BY <1>3, <1>5, SilentTells DEF Told
  <1>6. QED BY <1>2, <1>4, <1>5

LEMMA NextTold == ASSUME Typed, Typed', Told, [Next]_vars PROVE Told'
  <1>1. ASSUME NEW c \in Clients, NEW s \in Sessions, Focus(c, s) PROVE Told'
    <2>1. HubUnchanged /\ Publish
      BY <1>1 DEF Focus
    <2>2. UNCHANGED stream /\ SubscribedWhenOpen'
      BY <2>1, HubKept DEF Told, HubUnchanged
    <2>3. QED BY <2>1, <2>2, PublishTells DEF Told
  <1>2. CASE UNCHANGED vars
    BY <1>2 DEF vars, presenceVars, Told, SubscribedWhenOpen, BrowsersKnowOwners
  <1>3. QED BY <1>1, <1>2, StreamsTold, RequestsTold DEF Next

-------------------------------------------------------------------------------
(* Leases and the requests under them *)

LEMMA HoldersFinite ==
  ASSUME NEW c, NEW s
  PROVE  /\ IsFiniteSet(HoldersOf(c, s))
         /\ Cardinality(HoldersOf(c, s)) \in Nat
         /\ Cardinality(HoldersOf(c, s)) = 0 <=> HoldersOf(c, s) = {}
  <1>1. IsFiniteSet(Requests) /\ HoldersOf(c, s) \subseteq Requests
    BY RuntimeAssumption DEF HoldersOf
  <1>2. QED BY <1>1, FS_Subset, FS_CardinalityType, FS_EmptySet

(* The two invariants about leases, session by session and client by client. *)
Fits(c, s) ==
    /\ lease[s].owner = c => lease[s].holds <= Cardinality(HoldersOf(c, s))
    /\ HoldersOf(c, s) # {} =>
         \/ <<c, s>> \in revoked
         \/ /\ lease[s].owner = c
            /\ lease[s].holds = Cardinality(HoldersOf(c, s))
OwnedIffHeld(s) == lease[s].holds = 0 <=> lease[s].owner = None
LeasesFit ==
    /\ \A s \in Sessions : OwnedIffHeld(s)
    /\ \A c \in Clients, s \in Sessions : Fits(c, s)

LEMMA FitIsInvariant ==
  ASSUME Typed
  PROVE  LeasesFit <=> LeaseNeverOutlivesRequests /\ HoldsAccounted
  <1>1. \A s \in Sessions : lease[s].owner \in Clients \union {None}
    BY DEF Typed, TypeOK, PresenceTypeOK
  <1>2. ASSUME NEW s \in Sessions, lease[s].holds = 0
        PROVE  lease[s].holds <= Cardinality(HoldersOf(lease[s].owner, s))
    BY <1>2, HoldersFinite
  <1>3. QED
    BY <1>1, <1>2 DEF LeasesFit, Fits, OwnedIffHeld, LeaseNeverOutlivesRequests,
                      HoldsAccounted

(* Nobody joins or leaves the holders of s on behalf of c. *)
SameHolders(c, s) == HoldersOf(c, s)' = HoldersOf(c, s)
AllSameHolders == \A c \in Clients, s \in Sessions : SameHolders(c, s)

LEMMA KeptFits ==
  ASSUME NEW c \in Clients, NEW s \in Sessions, Fits(c, s), SameHolders(c, s),
         lease'[s] = lease[s], <<c, s>> \in revoked => <<c, s>> \in revoked'
  PROVE  Fits(c, s)'
  BY DEF Fits, SameHolders

LEMMA QuietLeases ==
  ASSUME LeasesFit, AllSameHolders, UNCHANGED <<lease, revoked>>
  PROVE  LeasesFit'
  <1>1. \A c \in Clients, s \in Sessions : Fits(c, s)'
    BY KeptFits DEF LeasesFit, AllSameHolders
  <1>2. QED BY <1>1 DEF LeasesFit, OwnedIffHeld

(* Pieces that leave the requests alone. *)
LEMMA SameRequestsHolders == ASSUME UNCHANGED req PROVE AllSameHolders
  BY DEF AllSameHolders, SameHolders, HoldersOf, InFlight

(* A lease that is taken away leaves its holders revoked. *)
LEMMA RemovedLeases ==
  ASSUME Typed, Typed', LeasesFit, AllSameHolders, NEW s \in Sessions,
         NEW ids \in SUBSET Sessions, Removed(s, ids)
  PROVE  LeasesFit'
  <1>1. lease' = [lease EXCEPT ![s] = NoLease]
    BY DEF Removed, RemoveSession
  <1>2. revoked' = revoked \union {<<c, s>> : c \in {d \in Clients : HoldersOf(d, s) # {}}}
    BY DEF Removed
  <1>3. ASSUME NEW c \in Clients, NEW t \in Sessions, t # s PROVE Fits(c, t)'
    BY <1>1, <1>2, <1>3, KeptFits DEF LeasesFit, AllSameHolders, Typed, TypeOK,
                                      PresenceTypeOK
  <1>4. lease'[s].owner = None /\ lease'[s].holds = 0
    BY <1>1 DEF NoLease, Typed, TypeOK, PresenceTypeOK
  <1>5. ASSUME NEW c \in Clients PROVE Fits(c, s)'
    BY <1>2, <1>4, PresenceAssumption DEF Fits, AllSameHolders, SameHolders
  <1>6. \A t \in Sessions : OwnedIffHeld(t)'
    BY <1>1, <1>4 DEF LeasesFit, OwnedIffHeld, Typed, TypeOK, PresenceTypeOK
  <1>7. QED BY <1>3, <1>5, <1>6 DEF LeasesFit

LEMMA DisconnectLeases ==
  ASSUME Typed, LeasesFit, NEW c \in Clients, Disconnect(c)
  PROVE  LeasesFit'
  <1>1. lease' = [s \in Sessions |->
                    IF lease[s].owner = c THEN NoLease ELSE lease[s]]
    BY DEF Disconnect, DetachClient
  <1>2. revoked' = revoked \union
                     {<<c, s>> : s \in {t \in Sessions : HoldersOf(c, t) # {}}}
    BY DEF Disconnect
  <1>3. AllSameHolders
    BY SameRequestsHolders DEF Disconnect
  <1>4. ASSUME NEW d \in Clients, NEW s \in Sessions PROVE Fits(d, s)'
    <2>1. CASE lease[s].owner # c
      BY <1>1, <1>2, <1>3, <2>1, KeptFits DEF LeasesFit, AllSameHolders
    <2>2. CASE lease[s].owner = c /\ d = c
      BY <1>1, <1>2, <1>3, <2>2, PresenceAssumption
      DEF Fits, NoLease, AllSameHolders, SameHolders
    <2>3. CASE lease[s].owner = c /\ d # c
      <3>1. lease'[s].owner = None
        BY <1>1, <2>3 DEF NoLease
      <3>2. HoldersOf(d, s) # {} => <<d, s>> \in revoked
        BY <2>3 DEF LeasesFit, Fits
      <3>3. QED BY <1>2, <1>3, <3>1, <3>2, PresenceAssumption
                DEF Fits, AllSameHolders, SameHolders
    <2>4. QED BY <2>1, <2>2, <2>3
  <1>5. \A s \in Sessions : OwnedIffHeld(s)'
    BY <1>1 DEF LeasesFit, OwnedIffHeld, NoLease
  <1>6. QED BY <1>4, <1>5 DEF LeasesFit

LEMMA StartLeases ==
  ASSUME Typed, LeasesFit, NEW q \in Requests, NEW kind \in Kinds,
         NEW c \in Clients, NEW s \in Sessions, Start(q, kind, c, s)
  PROVE  LeasesFit'
  <1>1. /\ lease[s].owner \in {None, c}
        /\ lease' = [lease EXCEPT ![s] = [owner |-> c, holds |-> @.holds + 1]]
    BY DEF Start, AcquireControl
  <1>2. lease[s].holds \in Nat
    BY DEF Typed, TypeOK, PresenceTypeOK
  <1>3. lease'[s].owner = c /\ lease'[s].holds = lease[s].holds + 1
    BY <1>1 DEF Typed, TypeOK, PresenceTypeOK
  <1>4. UNCHANGED revoked /\ ~InFlight(q)
    BY DEF Start, InFlight
  <1>5. HoldersOf(c, s)' = HoldersOf(c, s) \union {q}
    BY DEF Start, HoldersOf, InFlight, Typed, TypeOK
  <1>6. ASSUME NEW d \in Clients, NEW t \in Sessions, d # c \/ t # s
        PROVE  SameHolders(d, t)
    BY <1>4, <1>6 DEF Start, SameHolders, HoldersOf, InFlight, Typed, TypeOK
  <1>7. q \notin HoldersOf(c, s)
    BY <1>4 DEF HoldersOf
  <1>8. Cardinality(HoldersOf(c, s)') = Cardinality(HoldersOf(c, s)) + 1
    BY <1>5, <1>7, HoldersFinite, FS_AddElement
  <1>9. OwnedIffHeld(s) /\ Fits(c, s)
    BY DEF LeasesFit
  <1>10. lease[s].holds <= Cardinality(HoldersOf(c, s))
    BY <1>1, <1>2, <1>9, HoldersFinite DEF OwnedIffHeld, Fits
  <1>11. <<c, s>> \in revoked \/ lease[s].holds = Cardinality(HoldersOf(c, s))
    <2>1. CASE HoldersOf(c, s) = {}
      BY <1>2, <1>10, <2>1, HoldersFinite
    <2>2. QED BY <1>9, <2>1 DEF Fits
  <1>12. Fits(c, s)'
    BY <1>2, <1>3, <1>4, <1>8, <1>10, <1>11, HoldersFinite DEF Fits
  <1>13. ASSUME NEW d \in Clients, d # c PROVE Fits(d, s)'
    BY <1>1, <1>3, <1>4, <1>6, <1>13, PresenceAssumption
    DEF LeasesFit, Fits, SameHolders
  <1>14. ASSUME NEW d \in Clients, NEW t \in Sessions, t # s PROVE Fits(d, t)'
    <2>1. lease'[t] = lease[t]
      BY <1>1, <1>14 DEF Typed, TypeOK, PresenceTypeOK
    <2>2. QED BY <1>4, <1>6, <1>14, <2>1, KeptFits DEF LeasesFit
  <1>15. \A t \in Sessions : OwnedIffHeld(t)'
    BY <1>1, <1>2, <1>3, PresenceAssumption
    DEF LeasesFit, OwnedIffHeld, Typed, TypeOK, PresenceTypeOK
  <1>16. QED BY <1>12, <1>13, <1>14, <1>15 DEF LeasesFit

(* A release gives back one hold of its own, and forgets a revocation only   *)
(* when the client has no other request on the session.                      *)
LEMMA ReleaseLeases ==
  ASSUME Typed, Typed', LeasesFit, NEW q \in Requests, Release(q)
  PROVE  LeasesFit'
  <1>1. PICK c \in Clients, s \in Sessions :
          c = req[q].client /\ s = req[q].sid /\ InFlight(q)
    BY DEF Release, Typed, TypeOK, RequestsKnowSessions, Request
  <1>2. ~InFlight(q)' /\ \A p \in Requests \ {q} : req'[p] = req[p]
    BY DEF Release, Done, Enter, InFlight, FreeRequest, Typed, TypeOK, Request
  <1>3. HoldersOf(c, s)' = HoldersOf(c, s) \ {q} /\ q \in HoldersOf(c, s)
    BY <1>1, <1>2 DEF HoldersOf, InFlight
  <1>4. ASSUME NEW d \in Clients, NEW t \in Sessions, d # c \/ t # s
        PROVE  SameHolders(d, t)
    BY <1>1, <1>2, <1>4 DEF SameHolders, HoldersOf, InFlight
  <1>5. Cardinality(HoldersOf(c, s)') = Cardinality(HoldersOf(c, s)) - 1
    BY <1>3, HoldersFinite, FS_RemoveElement
  <1>6. lease' = [lease EXCEPT ![s] =
                    IF @.owner # c THEN @
                    ELSE IF @.holds > 1 THEN [owner |-> c, holds |-> @.holds - 1]
                    ELSE NoLease]
    BY <1>1 DEF Release, ReleaseControl
  <1>7. \A p \in revoked : HoldersOf(p[1], p[2])' # {} => p \in revoked'
    BY DEF Release
  <1>8. \A d \in Clients, t \in Sessions :
          <<d, t>> \in revoked => <<d, t>> \in revoked' \/ HoldersOf(d, t)' = {}
    BY <1>7
  <1>9. lease[s].holds \in Nat /\ Cardinality(HoldersOf(c, s)) \in Nat
    BY HoldersFinite, <1>1 DEF Typed, TypeOK, PresenceTypeOK
  <1>10. OwnedIffHeld(s) /\ Fits(c, s)
    BY <1>1 DEF LeasesFit
  <1>11. ASSUME NEW d \in Clients, NEW t \in Sessions, t # s
         PROVE  Fits(d, t)' /\ OwnedIffHeld(t)'
    <2>1. lease'[t] = lease[t] /\ SameHolders(d, t)
      BY <1>1, <1>4, <1>6, <1>11 DEF Typed, TypeOK, PresenceTypeOK
    <2>2. QED BY <1>8, <2>1 DEF LeasesFit, Fits, OwnedIffHeld, SameHolders
  <1>12. CASE lease[s].owner # c
    <2>1. lease'[s] = lease[s]
      BY <1>1, <1>6, <1>12 DEF Typed, TypeOK, PresenceTypeOK
    <2>2. <<c, s>> \in revoked
      BY <1>3, <1>10, <1>12 DEF Fits
    <2>3. Fits(c, s)'
      BY <1>1, <1>8, <1>12, <2>1, <2>2 DEF Fits
    <2>4. ASSUME NEW d \in Clients, d # c PROVE Fits(d, s)'
      BY <1>1, <1>4, <1>8, <2>1, <2>4 DEF LeasesFit, Fits, SameHolders
    <2>5. OwnedIffHeld(s)'
      BY <1>10, <2>1 DEF OwnedIffHeld
    <2>6. QED BY <1>1, <1>11, <2>3, <2>4, <2>5 DEF LeasesFit
  <1>13. CASE lease[s].owner = c
    <2>1. lease[s].holds <= Cardinality(HoldersOf(c, s)) /\ lease[s].holds # 0
      BY <1>1, <1>10, <1>13, PresenceAssumption DEF Fits, OwnedIffHeld
    <2>2. ASSUME NEW d \in Clients, d # c, HoldersOf(d, s)' # {}
          PROVE  <<d, s>> \in revoked'
      BY <1>1, <1>4, <1>8, <1>13, <2>2 DEF LeasesFit, Fits, SameHolders
    <2>3. CASE lease[s].holds > 1
      <3>1. lease'[s] = [owner |-> c, holds |-> lease[s].holds - 1]
        BY <1>1, <1>6, <1>13, <2>3 DEF Typed, TypeOK, PresenceTypeOK
      <3>2. Fits(c, s)'
        BY <1>1, <1>3, <1>5, <1>8, <1>9, <1>10, <2>1, <3>1 DEF Fits
      <3>3. \A d \in Clients \ {c} : Fits(d, s)'
        BY <2>2, <3>1 DEF Fits
      <3>4. OwnedIffHeld(s)'
        BY <1>1, <1>9, <2>3, <3>1, PresenceAssumption DEF OwnedIffHeld
      <3>5. QED BY <1>1, <1>11, <3>2, <3>3, <3>4 DEF LeasesFit
    <2>4. CASE lease[s].holds = 1
      <3>1. lease'[s] = NoLease
        BY <1>1, <1>6, <1>13, <2>4 DEF Typed, TypeOK, PresenceTypeOK
      <3>2. HoldersOf(c, s)' = {} \/ <<c, s>> \in revoked'
        <4>1. CASE <<c, s>> \in revoked
          BY <1>1, <1>8, <4>1
        <4>2. CASE lease[s].holds = Cardinality(HoldersOf(c, s))
          <5>1. Cardinality(HoldersOf(c, s) \ {q}) = 0
            BY <1>3, <1>5, <1>9, <2>4, <4>2
          <5>2. IsFiniteSet(HoldersOf(c, s) \ {q})
            BY HoldersFinite, FS_Subset
          <5>3. QED BY <1>3, <5>1, <5>2, FS_EmptySet
        <4>3. QED BY <1>3, <1>10, <4>1, <4>2 DEF Fits
      <3>3. \A d \in Clients : Fits(d, s)'
        BY <2>2, <3>1, <3>2, PresenceAssumption DEF Fits, NoLease
      <3>4. OwnedIffHeld(s)'
        BY <3>1 DEF OwnedIffHeld, NoLease
      <3>5. QED BY <1>1, <1>11, <3>3, <3>4 DEF LeasesFit
    <2>5. QED BY <1>9, <2>1, <2>3, <2>4
  <1>14. QED BY <1>12, <1>13

(* The other pieces of a request neither take nor give back a lease. *)
LEMMA RequestHolders ==
  ASSUME Typed, NEW q \in Requests,
         \/ Settle(q) \/ Focused(q)
         \/ \E s \in Sessions : Commit(q, s) \/ Delete(q, s)
         \/ \E kind \in Kinds, c \in Clients : StartUnleased(q, kind, c)
  PROVE  AllSameHolders
  <1>1. req \in [Requests -> Request]
    BY DEF Typed, TypeOK
  <1>2. CASE Settle(q)
    BY <1>1, <1>2
    DEF Settle, Done, Enter, FreeRequest, Request, Leased, AllSameHolders,
        SameHolders, HoldersOf, InFlight
  <1>3. CASE Focused(q)
    BY <1>1, <1>3
    DEF Focused, Done, FreeRequest, AllSameHolders, SameHolders, HoldersOf, InFlight
  <1>4. ASSUME NEW s \in Sessions, Commit(q, s) PROVE AllSameHolders
    <2>1. /\ req[q].phase = "running"
          /\ req' = [req EXCEPT ![q].phase = "committed", ![q].target = s]
      BY <1>4, CommitCases
    <2>2. ASSUME NEW p \in Requests
          PROVE  /\ req'[p].kind = req[p].kind /\ req'[p].client = req[p].client
                 /\ req'[p].sid = req[p].sid /\ (InFlight(p)' <=> InFlight(p))
      <3>1. CASE p = q
        <4>1. /\ req'[p].kind = req[p].kind /\ req'[p].client = req[p].client
              /\ req'[p].sid = req[p].sid /\ req'[p].phase = "committed"
          BY <1>1, <2>1, <3>1 DEF Request
        <4> QED
          BY <2>1, <3>1, <4>1 DEF InFlight
      <3>2. CASE p # q
        <4>1. req'[p] = req[p]
          BY <1>1, <2>1, <3>2
        <4> QED
          BY <4>1 DEF InFlight
      <3> QED
        BY <3>1, <3>2
    <2>3. ASSUME NEW c \in Clients, NEW s2 \in Sessions
          PROVE  HoldersOf(c, s2)' = HoldersOf(c, s2)
      BY <2>2 DEF HoldersOf
    <2>4. QED BY <2>3 DEF AllSameHolders, SameHolders
  <1>5. ASSUME NEW s \in Sessions, Delete(q, s) PROVE AllSameHolders
    BY <1>1, <1>5
    DEF Delete, Enter, Request, Leased, AllSameHolders, SameHolders, HoldersOf,
        InFlight
  <1>6. ASSUME NEW kind \in Kinds, NEW c \in Clients, StartUnleased(q, kind, c)
        PROVE  AllSameHolders
    BY <1>1, <1>6
    DEF StartUnleased, FreeRequest, Request, Leased, AllSameHolders, SameHolders,
        HoldersOf, InFlight
  <1>7. QED BY <1>2, <1>3, <1>4, <1>5, <1>6

LEMMA CommitLeases ==
  ASSUME Typed, Typed', LeasesFit, NEW q \in Requests, NEW t \in Sessions,
         Commit(q, t)
  PROVE  LeasesFit'
  <1>1. AllSameHolders
    BY RequestHolders
  <1>2. CASE Kept(q, t) \/ Added(t)
    BY <1>1, <1>2, QuietLeases DEF Kept, Added, presenceVars
  <1>3. ASSUME NEW victim \in loaded \ {t}, Exchanged(t, victim) PROVE LeasesFit'
    <2>1. victim \in Sessions /\ loaded' \in SUBSET Sessions
      BY DEF Typed, TypeOK
    <2>2. QED BY <1>1, <1>3, <2>1, RemovedLeases DEF Exchanged
  <1>4. QED BY <1>2, <1>3, CommitCases

LEMMA DeleteLeases ==
  ASSUME Typed, Typed', LeasesFit, NEW q \in Requests, NEW s \in Sessions,
         Delete(q, s)
  PROVE  LeasesFit'
  <1>1. loaded' \in SUBSET Sessions
    BY DEF Typed, TypeOK
  <1>2. QED BY <1>1, RequestHolders, RemovedLeases DEF Delete

LEMMA NextLeases == ASSUME Typed, Typed', LeasesFit, [Next]_vars PROVE LeasesFit'
  <1>1. ASSUME NEW c \in Clients, Connect(c) \/ Refreshed(c) \/ Greet(c)
        PROVE  LeasesFit'
    BY <1>1, SameRequestsHolders, QuietLeases
    DEF Connect, AttachClient, Refreshed, Greet, presenceVars
  <1>2. ASSUME NEW c \in Clients, NEW s \in Sessions, Focus(c, s) PROVE LeasesFit'
    BY <1>2, SameRequestsHolders, QuietLeases DEF Focus, SetFocus
  <1>3. ASSUME NEW q \in Requests, Settle(q) \/ Focused(q) PROVE LeasesFit'
    BY <1>3, RequestHolders, QuietLeases DEF Settle, Focused, SetFocus, presenceVars
  <1>4. ASSUME NEW q \in Requests, NEW kind \in Kinds, NEW c \in Clients,
               StartUnleased(q, kind, c)
        PROVE  LeasesFit'
    BY <1>4, RequestHolders, QuietLeases DEF StartUnleased, presenceVars
  <1>5. CASE UNCHANGED vars
    BY <1>5, SameRequestsHolders, QuietLeases DEF vars, presenceVars
  <1>6. Offered \subseteq Kinds
    BY RuntimeAssumption
  <1>7. QED
    BY <1>1, <1>2, <1>3, <1>4, <1>5, <1>6, DisconnectLeases, StartLeases,
       ReleaseLeases, CommitLeases, DeleteLeases
    DEF Next

-------------------------------------------------------------------------------
(* Focus *)

LEMMA SettledFocus ==
  ASSUME FocusInWorkingSet, UNCHANGED <<lastActive, active, late>>,
         loaded \subseteq loaded'
  PROVE  FocusInWorkingSet'
  BY DEF FocusInWorkingSet

LEMMA NewFocus ==
  ASSUME Typed, FocusInWorkingSet, NEW c \in Clients, NEW s \in Sessions,
         SetFocus(c, s), s \in loaded' \union late',
         loaded \union late \subseteq loaded' \union late'
  PROVE  FocusInWorkingSet'
  BY DEF FocusInWorkingSet, SetFocus, Typed, TypeOK, PresenceTypeOK

LEMMA RemovedFocus ==
  ASSUME Typed, FocusInWorkingSet, NEW s \in Sessions, Removed(s, loaded'),
         loaded \ {s} \subseteq loaded'
  PROVE  FocusInWorkingSet'
  <1>1. PICK fallback \in FirstOf(loaded') : RemoveSession(s, fallback)
    BY DEF Removed
  <1>2. fallback \in loaded' \union {None} /\ late' = late \ {s}
    BY DEF FirstOf, Removed
  <1>3. QED BY <1>1, <1>2 DEF FocusInWorkingSet, RemoveSession

LEMMA NextFocus ==
  ASSUME Typed, FocusInWorkingSet, [Next]_vars
  PROVE  FocusInWorkingSet'
  <1>1. ASSUME NEW c \in Clients, Connect(c) PROVE FocusInWorkingSet'
    <2>1. PICK fallback \in FirstOf(loaded) : AttachClient(c, fallback)
      BY <1>1 DEF Connect
    <2>2. fallback \in loaded \union {None} /\ UNCHANGED <<loaded, late>>
      BY <1>1 DEF FirstOf, Connect
    <2>3. QED BY <2>1, <2>2 DEF AttachClient, FocusInWorkingSet, Typed, TypeOK,
                                PresenceTypeOK
  <1>2. ASSUME NEW c \in Clients, Disconnect(c) PROVE FocusInWorkingSet'
    BY <1>2 DEF Disconnect, DetachClient, FocusInWorkingSet, Typed, TypeOK,
                PresenceTypeOK
  <1>3. ASSUME NEW c \in Clients, Refreshed(c) \/ Greet(c) PROVE FocusInWorkingSet'
    BY <1>3, SettledFocus DEF Refreshed, Greet, presenceVars
  <1>4. ASSUME NEW c \in Clients, NEW s \in Sessions, Focus(c, s)
        PROVE  FocusInWorkingSet'
    BY <1>4, NewFocus DEF Focus
  <1>5. ASSUME NEW q \in Requests, Focused(q) PROVE FocusInWorkingSet'
    <2>1. req[q].client \in Clients /\ req[q].target \in Sessions
      BY <1>5 DEF Focused, Typed, TypeOK, RequestsKnowSessions, Request
    <2>2. /\ SetFocus(req[q].client, req[q].target) /\ UNCHANGED loaded
          /\ late' = late \union ({req[q].target} \ loaded)
      BY <1>5 DEF Focused
    <2>3. QED BY <2>1, <2>2, NewFocus
  <1>6. ASSUME NEW q \in Requests, Release(q) \/ Settle(q) PROVE FocusInWorkingSet'
    BY <1>6, SettledFocus DEF Release, ReleaseControl, Settle, presenceVars
  <1>7. ASSUME NEW q \in Requests, NEW kind \in Offered, NEW c \in Clients,
               \/ StartUnleased(q, kind, c)
               \/ \E s \in Sessions : Start(q, kind, c, s)
        PROVE  FocusInWorkingSet'
    BY <1>7, SettledFocus DEF StartUnleased, Start, AcquireControl, presenceVars
  <1>8. ASSUME NEW q \in Requests, NEW t \in Sessions, Commit(q, t)
        PROVE  FocusInWorkingSet'
    <2>1. CASE Kept(q, t) \/ Added(t)
      BY <2>1, SettledFocus DEF Kept, Added, presenceVars
    <2>2. ASSUME NEW victim \in loaded \ {t}, Exchanged(t, victim)
          PROVE  FocusInWorkingSet'
      BY <2>2, RemovedFocus DEF Exchanged, Typed, TypeOK
    <2>3. QED BY <1>8, <2>1, <2>2, CommitCases
  <1>9. ASSUME NEW q \in Requests, NEW s \in Sessions, Delete(q, s)
        PROVE  FocusInWorkingSet'
    BY <1>9, RemovedFocus DEF Delete
  <1>10. CASE UNCHANGED vars
    BY <1>10, SettledFocus DEF vars, presenceVars
  <1>11. QED
    BY <1>1, <1>2, <1>3, <1>4, <1>5, <1>6, <1>7, <1>8, <1>9, <1>10 DEF Next

-------------------------------------------------------------------------------
(* The invariant *)

LEMMA InitRuntime == Init => RuntimeInv
  <1> SUFFICES ASSUME Init PROVE RuntimeInv
    OBVIOUS
  <1> USE DEF Init, PresenceInit
  <1>1. TypeOK
    BY FreeRequestType, PresenceAssumption
    DEF TypeOK, PresenceTypeOK, NoLease, NothingTold
  <1>2. \A q \in Requests : req[q].phase = "free"
    BY DEF FreeRequest
  <1>3. RequestsKnowSessions
    BY <1>2 DEF RequestsKnowSessions, InFlight
  <1>4. \A c, s : HoldersOf(c, s) = {}
    BY <1>2 DEF HoldersOf, InFlight
  <1>5. LeasesFit
    BY <1>4, FS_EmptySet DEF LeasesFit, Fits, OwnedIffHeld, NoLease
  <1>6. LeaseNeverOutlivesRequests /\ HoldsAccounted
    BY <1>1, <1>3, <1>5, FitIsInvariant DEF Typed
  <1>7. SubscribedWhenOpen /\ BrowsersKnowOwners /\ FocusInWorkingSet
    BY DEF SubscribedWhenOpen, BrowsersKnowOwners, FocusInWorkingSet
  <1>8. QED BY <1>1, <1>3, <1>6, <1>7 DEF RuntimeInv

LEMMA InvParts ==
  RuntimeInv <=> Typed /\ Told /\ LeasesFit /\ FocusInWorkingSet
  BY FitIsInvariant DEF RuntimeInv, Typed, Told

LEMMA NextRuntime == RuntimeInv /\ [Next]_vars => RuntimeInv'
  <1> SUFFICES ASSUME RuntimeInv, [Next]_vars PROVE RuntimeInv'
    OBVIOUS
  <1>1. Typed /\ Told /\ LeasesFit /\ FocusInWorkingSet
    BY InvParts
  <1>2. Typed'
    BY <1>1, NextTyped
  <1>3. Told' /\ LeasesFit' /\ FocusInWorkingSet'
    BY <1>1, <1>2, NextTold, NextLeases, NextFocus
  <1>4. QED BY <1>2, <1>3, InvParts, PTL

(* The inductive invariant holds in every reachable state: streams that are  *)
(* open are written to, requests know their sessions, and a lease that was   *)
(* not taken away is held once for each request under it.                    *)
THEOREM RuntimeInvariant == Spec => []RuntimeInv
  BY InitRuntime, NextRuntime, PTL DEF Spec

(* Greeted browsers know who controls each loaded session: also when a lease *)
(* ends by a removal or a disconnect, which publish no control_changed.      *)
THEOREM BrowsersAreTold == Spec => []BrowsersKnowOwners
  <1>1. RuntimeInv => BrowsersKnowOwners
    BY DEF RuntimeInv
  <1>2. QED BY <1>1, RuntimeInvariant, PTL

(* No order of acquisitions, releases, removals and disconnects leaves a     *)
(* session locked by a client with nothing in flight on it.                  *)
THEOREM LeasesEnd == Spec => []LeaseNeverOutlivesRequests
  <1>1. RuntimeInv => LeaseNeverOutlivesRequests
    BY DEF RuntimeInv
  <1>2. QED BY <1>1, RuntimeInvariant, PTL

(* Two clients' requests are in flight on one session only when the lease of *)
(* one was taken from it: holds count requests, so the lease of a client is  *)
(* not given back while another of its requests still needs it.              *)
THEOREM LeasesExclude == Spec => []ExclusiveUnlessRevoked
  <1>1. RuntimeInv => ExclusiveUnlessRevoked
    BY DEF RuntimeInv, HoldsAccounted, ExclusiveUnlessRevoked
  <1>2. QED BY <1>1, RuntimeInvariant, PTL

(* Presence never names a session that is neither loaded nor focused after   *)
(* its removal by a handler that had awaited.                                *)
THEOREM FocusFollowsRemovals == Spec => []FocusInWorkingSet
  <1>1. RuntimeInv => FocusInWorkingSet
    BY DEF RuntimeInv
  <1>2. QED BY <1>1, RuntimeInvariant, PTL
===============================================================================
