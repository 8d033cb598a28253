------------------------------ MODULE SessionSwitch ------------------------------
(***************************************************************************)
(* Which session one browser shows.  The user picks sessions, drafts and   *)
(* pages of the browser's history, and changes sessions; every operation   *)
(* is a request whose answer tells the server's state, and snapshots of    *)
(* that state come on the event stream at any time.  Answers come in any   *)
(* order, and out of step with the stream.                                 *)
(*                                                                         *)
(* The server is here as far as its answers tell: what it keeps of its     *)
(* sessions is in SessionWorkspace, of its clients in ClientPresence.  A   *)
(* session stands for its file as well.  Drafts are the positive numbers.  *)
(* What a session's page shows is in Transcripts.                          *)
(***************************************************************************)
EXTENDS Integers, Sequences, FiniteSets

CONSTANTS
    Files,          \* sessions that exist from the start
    Fresh,          \* sessions still to be created
    MaxChoices,     \* bound: operations of the user
    Open,           \* those that are loaded then
    MaxEvents,      \* bound: sessions that others evict or delete, and losses of the stream
    Room,           \* bound: snapshots under way
    None

Sessions == Files \union Fresh

ASSUME SessionSwitchAssumption ==
    /\ {MaxChoices, MaxEvents} \subseteq Nat /\ Room \in Nat \ {0, 1}
    /\ Open \subseteq Files
    /\ IsFiniteSet(Sessions) /\ Files \intersect Fresh = {}
    /\ None \notin Sessions /\ Sessions \intersect Nat = {} /\ None \notin Nat

VARIABLES
    loaded, files,  \* the server's loaded sessions, and its persisted ones
    focus,          \* the active session the server has for this client
    conn,           \* the number of the browser's connection: its client id
    fresh,          \* sessions not created yet
    events,         \* evictions, deletions and losses of the stream so far
    stream,         \* hellos and snapshots under way
    tasks,          \* operations of the user that are not over
    active,         \* activeSessionId
    lists,          \* loadedSessions and persistedSessions
    client,         \* clientId
    intent,         \* latestSessionFocusIntent
    nonce,          \* sessionSwitchRequest
    path,           \* the session in the browser's route, None at its root
    chosen,         \* history: operations begun
    choice,         \* history: what the user chose last
    taken           \* history: what else may have taken the view since, see Settled

server == <<loaded, files, focus, conn, fresh, events>>
view == <<active, lists, intent, nonce>>
history == <<chosen, choice, taken>>
vars == <<server, stream, tasks, view, client, path, history>>

-------------------------------------------------------------------------------
(* Types *)

Drafts == 1..(MaxChoices + 1)
Places == Sessions \union Drafts \union {None}
State(a, l, f) == [active |-> a, loaded |-> l, files |-> f]
Untold == State(None, {}, {})
States == [active : Sessions \union {None}, loaded : SUBSET Sessions, files : SUBSET Sessions]

Ops == {"focus", "open", "draft", "create", "rename", "delete", "fork", "revert", "details"}
Switches == {"focus", "open"}       \* the operations that look at the nonce
Task(op, on, sync) ==
    [op |-> op, on |-> on, sync |-> sync, nonce |-> nonce', client |-> client,
     at |-> "sent", result |-> None, state |-> Untold]

Tasks == [op : Ops, on : Places, sync : BOOLEAN, nonce : Nat, client : Nat,
          at : {"sent", "answered", "details"}, result : Sessions \union {None}, state : States]
Messages == [type : {"hello", "state_snapshot"}, client : Nat, state : States]

TypeOK ==
    /\ fresh \subseteq Fresh
    /\ loaded \subseteq Sessions \ fresh /\ files \subseteq Sessions \ fresh
    /\ focus \in loaded \union {None}
    /\ conn \in Nat /\ client \in 1..conn /\ nonce \in Nat /\ chosen \in 0..MaxChoices
    /\ stream \in Seq(Messages) /\ Len(stream) <= Room
    /\ tasks \subseteq Tasks
    /\ {active, intent, choice} \subseteq Places /\ path \in Sessions \union {None}
    /\ lists.loaded \subseteq Sessions \ fresh /\ lists.files \subseteq Sessions \ fresh
    /\ taken \in {"no", "create", "fork", "route"}

PathOf(place) == IF place \in Sessions THEN place ELSE None

-------------------------------------------------------------------------------
(* The server: Room is left for the two snapshots of a new stream. *)

Snapshot(a) == [type |-> "state_snapshot", client |-> conn, state |-> State(a, loaded', files')]

Publish(a) ==
    /\ Len(stream) < Room
    /\ stream' = Append(stream, Snapshot(a))

(* What the handler of an operation leaves: the sessions, the one it is      *)
(* about, and the active session a snapshot shows that it published last.    *)
Outcome(l, f, s, told) == [loaded |-> l, files |-> f, session |-> s, told |-> told]

Outcomes(t) ==
    CASE t.op \in {"focus", "revert"} ->
            {Outcome(loaded, files, t.on, t.on) : s \in {t.on} \intersect loaded}
      [] t.op = "open" ->
            {Outcome(loaded \union {t.on}, files, t.on, focus) : s \in {t.on} \intersect files}
      [] t.op = "create" ->
            {Outcome(loaded \union {n}, files, n, focus) : n \in fresh}
      [] t.op = "fork" ->
            {Outcome(loaded \union {n}, files \union {n}, n, n) :
                n \in IF t.on \in loaded THEN fresh ELSE {}}
      [] t.op = "rename" ->
            {Outcome(loaded, files, None, focus) : s \in {t.on} \intersect files}
      [] t.op = "delete" ->
            {Outcome(loaded \ {t.on}, files \ {t.on}, None, a) :
                a \in IF t.on \notin files THEN {}
                      ELSE IF focus = t.on THEN (loaded \ {t.on}) \union {None} ELSE {focus}}

(* A handler of the routes.  The id of a client that is gone is focused in    *)
(* vain; what the answer to it tells then is the last focus of any client.    *)
Serve(t) ==
    /\ t.at = "sent" /\ t.op \in Ops \ {"draft", "details"}
    /\ \E o \in Outcomes(t) :
        /\ loaded' = o.loaded /\ files' = o.files
        /\ fresh' = fresh \ {o.session}
        /\ focus' = IF t.client = conn /\ o.session # None THEN o.session
                    ELSE IF focus \in o.loaded THEN focus ELSE o.told
        /\ Publish(IF t.client = conn THEN o.told ELSE focus')
        /\ \E a \in IF o.session # None THEN {o.session}
                    ELSE IF t.client = conn THEN {focus'} ELSE loaded' \union {None} :
                tasks' = (tasks \ {t}) \union
                    {[t EXCEPT !.at = "answered", !.result = o.session,
                               !.state = State(a, loaded', files')]}
    /\ UNCHANGED <<conn, events, view, client, path, history>>

(* A snapshot of the heartbeat, or of a change that does not concern these    *)
(* sessions                                                                   *)
Heartbeat ==
    /\ stream = <<>>
    /\ UNCHANGED <<server, tasks, view, client, path, history>>
    /\ Publish(focus)

(* A session is evicted, or deleted by another browser. *)
Remove(s) ==
    /\ s \in loaded \union files /\ events < MaxEvents /\ events' = events + 1
    /\ loaded' = loaded \ {s}
    /\ \/ s \in loaded /\ s # focus /\ UNCHANGED files
       \/ files' = files \ {s}
    /\ focus' \in IF focus = s THEN loaded' \union {None} ELSE {focus}
    /\ Publish(focus')
    /\ UNCHANGED <<conn, fresh, tasks, view, client, path, history>>

(* The stream is lost and opened again, for a new client id.                 *)
Reconnect ==
    /\ events < MaxEvents /\ events' = events + 1 /\ conn' = conn + 1
    /\ focus' \in loaded \union {None}
    /\ UNCHANGED <<loaded, files, fresh, tasks, view, client, path, history>>
    /\ LET s == [Snapshot(focus') EXCEPT !.client = conn']
       IN  stream' = <<[s EXCEPT !.type = "hello"], s>>

-------------------------------------------------------------------------------
(* The browser's state *)

(* beginSessionSwitchIntent *)
Begin(place) ==
    /\ nonce' = nonce + 1
    /\ intent' = IF place = None THEN intent ELSE place
    /\ active' = IF place = None THEN active ELSE place

AnyCurrent(t) == TRUE                                              \* fault

(* isCurrentSessionSwitchIntent *)
IsCurrent(t) == t.nonce = nonce

AnyValid(place, state) == TRUE                                     \* fault

(* What resolveActiveSessionFromState asks of an intent *)
Valid(place, state) ==
    place \in Drafts \/ place \in {state.active} \union state.loaded \union state.files

(* resolveActiveSessionFromState *)
Resolve(state, preserve) ==
    LET kept == preserve /\ intent # None
        backend == IF state.active # None THEN state.active
                   ELSE IF active \in Drafts THEN active ELSE None
    IN  IF kept /\ Valid(intent, state)
        THEN active' = intent /\ UNCHANGED intent
        ELSE active' = backend /\ intent' = IF kept THEN None ELSE intent

(* applyState, and the same of a snapshot *)
ApplyState(state) ==
    /\ Resolve(state, FALSE)
    /\ lists' = [loaded |-> state.loaded, files |-> state.files]

ApplySnapshot(state) ==
    /\ Resolve(state, TRUE)
    /\ lists' = [loaded |-> state.loaded,
                 files |-> IF state.files = {} THEN lists.files ELSE state.files]

(* handleEvent *)
Deliver ==
    /\ stream # <<>> /\ stream' = Tail(stream)
    /\ \/ /\ Head(stream).type = "hello"
          /\ client' = Head(stream).client
          /\ ApplyState(Head(stream).state)
          /\ UNCHANGED path
       \/ /\ Head(stream).type = "state_snapshot"
          /\ ApplySnapshot(Head(stream).state)
          /\ path' = IF active' \in Sessions THEN active' ELSE path
          /\ UNCHANGED client
    /\ UNCHANGED <<server, tasks, nonce, history>>

-------------------------------------------------------------------------------
(* The user *)

Operation ==
    /\ chosen < MaxChoices /\ chosen' = chosen + 1
    /\ UNCHANGED <<server, stream, client, lists>>

Chosen(place) == choice' = place /\ taken' = "no"

Start(op, on, sync) == tasks' = tasks \union {Task(op, on, sync)}

(* createDraftSession, and then the model state of the draft is read *)
StartDraft ==
    /\ Begin(chosen') /\ Chosen(chosen')
    /\ tasks' = tasks \union {[Task("draft", chosen', TRUE) EXCEPT !.at = "details"]}

(* createSession *)
NewDraft == Operation /\ StartDraft /\ UNCHANGED path

(* buildUnifiedSessions: a session has one row, which knows of a loaded one. *)
Rows == lists.loaded \union lists.files

(* handleSessionClick, focusSession, openPersistedSession; a draft has a row  *)
(* while it is shown.                                                         *)
Click(s) ==
    /\ Operation /\ Chosen(s)
    /\ \/ s \in lists.loaded /\ Begin(s) /\ Start("focus", s, TRUE)
       \/ s \in lists.files \ lists.loaded /\ Begin(None) /\ Start("open", s, TRUE)
       \/ s \in {active} \intersect Drafts /\ Begin(s) /\ UNCHANGED tasks
    /\ UNCHANGED path

(* Nothing under way still turns to another place: a route to the place that *)
(* is shown begins no switch, so it would win.                                *)
Uncontested(place) ==
    /\ intent \in {None, place}
    /\ \A t \in tasks : t.op \in Switches /\ IsCurrent(t) => t.on = place

(* The route changes: applyBrowserRoute, activateSessionFromRoute. *)
GoTo(place) ==
    /\ Operation /\ place # path /\ path' = place
    /\ \/ /\ place # None /\ place = active
          /\ choice' = place /\ taken' = IF Uncontested(place) THEN "no" ELSE "route"
          /\ UNCHANGED <<tasks, nonce, intent, active>>
       \/ /\ place # active /\ place \in lists.loaded
          /\ Chosen(place) /\ Begin(place) /\ Start("focus", place, FALSE)
       \/ /\ place # active /\ place \in lists.files \ lists.loaded
          /\ Chosen(place) /\ Begin(place) /\ Start("open", place, FALSE)
       \/ /\ place = None \/ place \notin Rows \union {active}
          /\ StartDraft

(* sendPrompt of a draft; materializeDraftSession *)
Prompt ==
    /\ Operation /\ active \in Drafts
    /\ \A t \in tasks : ~(t.op = "create" /\ t.on = active)
    /\ UNCHANGED <<nonce, intent, active, path, choice, taken>>
    /\ Start("create", active, FALSE)

(* renameSession, deleteSession; forkFromMessage and revertToMessage, one of  *)
(* them at a time                                                             *)
Rewinds == {"fork", "revert"}
Change(op, s) ==
    /\ Operation
    /\ op \in Rewinds => \A t \in tasks : t.op \notin Rewinds
    /\ s \in IF op \in {"rename", "delete"} THEN lists.files
              ELSE {active} \intersect lists.loaded
    /\ UNCHANGED <<nonce, intent, active, path, choice, taken>>
    /\ Start(op, s, TRUE)

-------------------------------------------------------------------------------
(* Answers *)

(* postSessionOperation *)
Answer(t) ==
    /\ t.at = "answered" /\ t.op # "create"
    /\ \/ /\ t.op \in Switches /\ ~IsCurrent(t)
          /\ tasks' = tasks \ {t}
          /\ UNCHANGED <<view, choice, taken>>
       \/ /\ t.op \notin Switches \/ IsCurrent(t)
          /\ ApplyState(t.state)
          /\ tasks' = (tasks \ {t}) \union {[t EXCEPT !.at = "details", !.state = Untold]}
          /\ choice' = IF t.op = "fork" THEN t.result ELSE choice
          /\ taken' = IF t.op = "fork" THEN "fork" ELSE taken
          /\ UNCHANGED nonce
    /\ UNCHANGED <<server, stream, client, path, chosen>>

(* materializeDraftSession: its answer begins a switch of its own. *)
AnswerCreate(t) ==
    /\ t.at = "answered" /\ t.op = "create"
    /\ Begin(t.result)
    /\ lists' = [loaded |-> t.state.loaded, files |-> t.state.files]
    /\ path' = t.result
    /\ tasks' = tasks \ {t}
    /\ choice' = IF choice = t.on THEN t.result ELSE choice
    /\ taken' = IF choice = t.on THEN taken ELSE "create"
    /\ UNCHANGED <<server, stream, client, chosen>>

(* What is left once the details are there: rememberSessionFocusIntent and    *)
(* syncBrowserRouteToSession                                                  *)
Finish(t) ==
    /\ t.at = "details" /\ tasks' = tasks \ {t}
    /\ LET current == t.op \notin Switches \/ IsCurrent(t)
           remembered == t.op = "open" /\ current
       IN  /\ intent' = IF remembered THEN t.result ELSE intent
           /\ active' = IF remembered THEN t.result ELSE active
           /\ path' = CASE t.op \in {"draft", "delete"} -> PathOf(active)
                        [] t.op # "rename" /\ t.result # None /\ t.sync /\ current -> t.result
                        [] OTHER -> path
    /\ UNCHANGED <<server, stream, client, lists, nonce, history>>

(* The server refuses, a connection breaks, or the details cannot be read: a  *)
(* choice that fails is none.                                                 *)
Fail(t) ==
    /\ t.at \in {"sent", "details"} /\ tasks' = tasks \ {t}
    /\ choice' = IF t.op \in Switches /\ IsCurrent(t) THEN None ELSE choice
    /\ UNCHANGED <<server, stream, client, view, path, chosen, taken>>

-------------------------------------------------------------------------------
(* Specification: a hello was handled and the route applied. *)

Init ==
    /\ loaded = Open /\ files = Files
    /\ focus \in loaded \union {None}
    /\ conn = 1 /\ fresh = Fresh /\ events = 0
    /\ stream = <<>> /\ tasks = {}
    /\ active = IF focus = None THEN MaxChoices + 1 ELSE focus
    /\ intent = IF focus = None THEN active ELSE None
    /\ lists = [loaded |-> loaded, files |-> files]
    /\ client = 1 /\ nonce = 0 /\ path = focus
    /\ chosen = 0 /\ choice = active /\ taken = "no"

Next ==
    \/ Heartbeat \/ Reconnect \/ Deliver
    \/ NewDraft \/ Prompt
    \/ \E s \in Sessions : GoTo(s) \/ Remove(s)
    \/ \E s \in Sessions \union Drafts : Click(s)
    \/ GoTo(None)
    \/ \E s \in Sessions, op \in {"rename", "delete", "fork", "revert"} : Change(op, s)
    \/ \E t \in tasks : Serve(t) \/ Answer(t) \/ AnswerCreate(t) \/ Finish(t) \/ Fail(t)

Spec == Init /\ [][Next]_vars

(* Every operation of the browser goes on, the event loop delivers, and the  *)
(* server sends a snapshot every 15 seconds.                                 *)
Proceed ==
    \E t \in tasks : Serve(t) \/ Answer(t) \/ AnswerCreate(t) \/ Finish(t) \/ Fail(t)

FairSpec == Spec /\ WF_vars(Proceed) /\ WF_vars(Deliver) /\ WF_vars(Heartbeat)

-------------------------------------------------------------------------------
(* Properties *)

(* The view settles on the user's last choice, whatever answers and           *)
(* snapshots came late or out of order and whatever was renamed, deleted or   *)
(* reconnected in between: on a draft, or on a session that the server has in *)
(* focus for this browser, with its route.                                    *)
Settled(c) == choice = c /\ taken = "no" /\ (c \in Drafts \/ focus = c)

ViewSettles ==
    \A c \in Sessions \union Drafts :
        <>[]Settled(c) => <>[](active = c /\ (c \in Sessions => path = c))

(* The browser does not stay with a session that is gone. *)
ViewExists == []<>(active \in loaded \union files \union Drafts \union {None})

(* docs/frontend.md:283: a fork "creates and focuses a new loaded session".   *)
ForkShown ==
    \A c \in Fresh :
        <>[](choice = c /\ taken = "fork" /\ focus = c) => <>[](active = c)

(* The safety of ViewSettles: while no open of the choice is under way, a     *)
(* snapshot, however late, shows the choice with its route if it tells that   *)
(* the server has the choice in focus, or the choice is a draft.              *)
Opening == \E t \in tasks : t.op = "open" /\ IsCurrent(t)

SnapshotsShowChoice ==
    [][\A c \in Sessions \union Drafts :
        /\ Deliver /\ Head(stream).type = "state_snapshot"
        /\ choice = c /\ taken = "no" /\ ~Opening
        /\ c \in Drafts \/ Head(stream).state.active = c
      => active' = c /\ (c \in Sessions => path' = c)]_vars

-------------------------------------------------------------------------------
(* The inductive invariant *)

(* Only sessions that exist are told of, and connections there were, ...      *)
Known(state) == (state.loaded \union state.files) \intersect fresh = {}

TellsKnown ==
    /\ \A i \in DOMAIN stream : stream[i].client \in 1..conn /\ Known(stream[i].state)
    /\ \A t \in tasks : Known(t.state)

(* ... no task is of a later nonce than the last, ...                         *)
NoncesSound == \A t \in tasks : t.nonce <= nonce

(* ... a switch ends on the session it was asked for, a creation on one, ...  *)
TasksSound ==
    \A t \in tasks :
        /\ t.op \in Switches => t.on \in Sessions /\ (t.at # "sent" => t.result = t.on)
        /\ t.op = "create" /\ t.at # "sent" => t.result \in Sessions

(* ... and what is to come of the intent and of the switches that are current *)
(* is the choice.                                                             *)
ChoicePursued ==
    taken = "no" /\ choice # None =>
        /\ \A t \in tasks : t.op \in Switches /\ IsCurrent(t) => t.on = choice
        /\ \/ intent = choice
           \/ intent = None /\ choice \in Sessions
           \/ Opening

SwitchInv == TypeOK /\ TellsKnown /\ NoncesSound /\ TasksSound /\ ChoicePursued
===============================================================================
