------------------------------- MODULE Approvals -------------------------------
(***************************************************************************)
(* Prompts of extensions that wait for a user: WebExtensionUIContext of    *)
(* one loaded session, the event streams that carry its prompts to         *)
(* browsers, the dialogs they show, and the HTTP calls that answer.        *)
(*                                                                         *)
(* A stream is first in, first out, and what is in it is lost when it      *)
(* closes.  A reply of a session operation carries the state the server    *)
(* had when it was written and may overtake, or be overtaken by, events.   *)
(* Answers are "allow" or "deny"; a browser derives an answer's kind from  *)
(* the prompt it shows, so the kinds always match and are left out.        *)
(***************************************************************************)
EXTENDS Naturals, Sequences, FiniteSets

CONSTANTS
    Prompts,        \* prompts an extension may raise, each once
    Browsers,
    None,
    Room            \* bound: repeatable events wait while a stream holds so many

ASSUME ApprovalsAssumption ==
    /\ IsFiniteSet(Prompts) /\ None \notin Prompts \union {"allow", "deny"}
    /\ Room \in Nat

VARIABLES
    life,           \* the session's controller
    asked,          \* prompts whose promise an extension holds
    pending,        \* keys of the Map
    outcome,        \* what a promise was resolved with
    conn,           \* senders: a browser's stream, "joining" until its hello
    stream,         \* events under way to a browser
    dialogs,        \* pendingUiRequestsBySessionId
    post,           \* a browser's answer under way
    reply,          \* a state under way to a browser, not by its stream
    allowed         \* history: prompts somebody allowed

server == <<life, asked, pending, outcome>>
vars == <<life, asked, pending, outcome, conn, stream, dialogs, post, reply, allowed>>

-------------------------------------------------------------------------------
(* Types *)

Answers == {"allow", "deny"}

Status(n) == [type |-> "status", of |-> n]
Request(q) == [type |-> "request", of |-> q]
Snapshot(S) == [type |-> "snapshot", of |-> S]

Events ==
    {Status(n) : n \in 0..Cardinality(Prompts)}
        \union {Request(q) : q \in Prompts} \union {Snapshot(S) : S \in SUBSET Prompts}

NoPost == [phase |-> "none", on |-> None, value |-> "deny"]

TypeOK ==
    /\ life \in {"registered", "removed", "disposed"}
    /\ asked \subseteq Prompts
    /\ pending \subseteq Prompts
    /\ outcome \in [Prompts -> Answers \union {None}]
    /\ conn \in [Browsers -> {"off", "joining", "on"}]
    /\ stream \in [Browsers -> Seq(Events)]
    /\ dialogs \in [Browsers -> SUBSET Prompts]
    /\ post \in [Browsers -> [phase : {"none", "sent", "ok", "failed"},
                              on : Prompts \union {None}, value : Answers]]
    /\ reply \in [Browsers -> (SUBSET Prompts) \union {None}]
    /\ allowed \subseteq Prompts

-------------------------------------------------------------------------------
(* The server *)

(* What browsers get: every stream in senders, greeted or not. *)
Broadcast(events) ==
    stream' = [b \in Browsers |->
                 IF conn[b] = "off" THEN stream[b] ELSE stream[b] \o events]

HasRoom == \A b \in Browsers : Len(stream[b]) <= Room

StateWithoutPrompts == {}                                         \* fault

(* pendingUiRequests of the session's row, as a snapshot shows them; the    *)
(* session has no row once it is removed.                                   *)
State == IF life = "registered" THEN pending ELSE {}

(* sendStatus, which stays silent without an SDK session. *)
StatusOf(n) == IF life = "disposed" THEN <<>> ELSE <<Status(n)>>

(* request *)
Raise(q) ==
    /\ life # "disposed" /\ q \notin asked
    /\ asked' = asked \union {q}
    /\ pending' = pending \union {q}
    /\ Broadcast(StatusOf(Cardinality(pending')) \o <<Request(q)>>)
    /\ UNCHANGED <<life, outcome, conn, dialogs, post, reply, allowed>>

(* resolve, for the prompts of S *)
Resolve(S, value) ==
    /\ pending' = pending \ S
    /\ outcome' = [q \in Prompts |-> IF q \in S THEN value ELSE outcome[q]]

LapseAllowing(q) ==                                               \* fault
    /\ q \in pending
    /\ Resolve({q}, "allow")
    /\ Broadcast(StatusOf(Cardinality(pending')))
    /\ UNCHANGED <<life, asked, conn, dialogs, post, reply, allowed>>

(* A prompt's timer fires. *)
Lapse(q) ==
    /\ q \in pending
    /\ Resolve({q}, "deny")
    /\ Broadcast(StatusOf(Cardinality(pending')))
    /\ UNCHANGED <<life, asked, conn, dialogs, post, reply, allowed>>

CancelAllForgets ==                                               \* fault
    /\ pending' = {}
    /\ UNCHANGED outcome

CancelAll == Resolve(pending, "deny")

(* The statuses sent on the way down to none; only the last one matters.    *)
Cancelled == IF pending = {} THEN <<>> ELSE <<Status(0)>>

(* abort, whose later status and snapshot are those of StateChanged. *)
Abort ==
    /\ life = "registered"
    /\ CancelAll
    /\ Broadcast(Cancelled)
    /\ UNCHANGED <<life, asked, conn, dialogs, post, reply, allowed>>

(* The workspace removes the session and begins to dispose its controller,  *)
(* whose extensions may still raise prompts.                                *)
Remove ==
    /\ life = "registered"
    /\ life' = "removed"
    /\ CancelAll
    /\ Broadcast(<<Snapshot({})>> \o Cancelled)
    /\ UNCHANGED <<asked, conn, dialogs, post, reply, allowed>>

(* The SDK session is disposed, and the context forgotten with its timers   *)
(* running.                                                                 *)
Disposed ==
    /\ life = "removed"
    /\ life' = "disposed"
    /\ UNCHANGED <<asked, pending, outcome, conn, stream, dialogs, post, reply, allowed>>

HeartbeatWhilePending ==                                          \* fault
    /\ HasRoom /\ State # {}
    /\ Broadcast(<<Snapshot(State)>>)
    /\ UNCHANGED <<life, asked, pending, outcome, conn, dialogs, post, reply, allowed>>

(* The 15-second heartbeat, or any state_changed. *)
StateChanged ==
    /\ HasRoom
    /\ Broadcast(<<Snapshot(State)>>)
    /\ UNCHANGED <<life, asked, pending, outcome, conn, dialogs, post, reply, allowed>>

ResolveAgain(q, value) ==                                         \* fault
    /\ pending' = pending \ {q}
    /\ outcome' = [outcome EXCEPT ![q] = value]

(* resolveSelect and the others: nothing, if the prompt is not pending. *)
Answer(q, value) == Resolve({q} \intersect pending, value)

(* The answer of a browser is handled: refused, when another client has the *)
(* control lease or the session is gone, or applied.                        *)
Handle(b) ==
    /\ post[b].phase = "sent" /\ HasRoom
    /\ UNCHANGED <<life, asked, conn, dialogs, reply, allowed>>
    /\ \/ /\ post' = [post EXCEPT ![b].phase = "failed"]
          /\ UNCHANGED <<pending, outcome, stream>>
       \/ /\ life = "registered"
          /\ Answer(post[b].on, post[b].value)
          /\ post' = [post EXCEPT ![b].phase = "ok"]
          /\ Broadcast(StatusOf(Cardinality(pending')) \o <<Snapshot(State')>>)

-------------------------------------------------------------------------------
(* A browser *)

Connect(b) ==
    /\ conn[b] = "off"
    /\ conn' = [conn EXCEPT ![b] = "joining"]
    /\ UNCHANGED server /\ UNCHANGED <<stream, dialogs, post, reply, allowed>>

(* The list of sessions is refreshed: the hello carries a snapshot. *)
Greet(b) ==
    /\ conn[b] = "joining" /\ HasRoom
    /\ conn' = [conn EXCEPT ![b] = "on"]
    /\ stream' = [stream EXCEPT ![b] = Append(@, Snapshot(State))]
    /\ UNCHANGED server /\ UNCHANGED <<dialogs, post, reply, allowed>>

Disconnect(b) ==
    /\ conn[b] # "off"
    /\ conn' = [conn EXCEPT ![b] = "off"]
    /\ stream' = [stream EXCEPT ![b] = <<>>]
    /\ UNCHANGED server /\ UNCHANGED <<dialogs, post, reply, allowed>>

(* handleEvent.  A status empties the list or leaves it alone. *)
Shown(shown, event) ==
    CASE event.type = "status"   -> IF event.of = 0 THEN {} ELSE shown
      [] event.type = "request"  -> shown \union {event.of}
      [] event.type = "snapshot" -> event.of

Deliver(b) ==
    /\ stream[b] # <<>>
    /\ dialogs' = [dialogs EXCEPT ![b] = Shown(@, Head(stream[b]))]
    /\ stream' = [stream EXCEPT ![b] = Tail(@)]
    /\ UNCHANGED server /\ UNCHANGED <<conn, post, reply, allowed>>

(* respondToUiRequest: the user answers what is shown. *)
Respond(b, q, value) ==
    /\ q \in dialogs[b] /\ post[b].phase = "none"
    /\ post' = [post EXCEPT ![b] = [phase |-> "sent", on |-> q, value |-> value]]
    /\ allowed' = IF value = "allow" THEN allowed \union {q} ELSE allowed
    /\ UNCHANGED server /\ UNCHANGED <<conn, stream, dialogs, reply>>

(* The response of the answer arrives: an accepted one closes the dialog.   *)
Responded(b) ==
    /\ post[b].phase \in {"ok", "failed"}
    /\ post' = [post EXCEPT ![b] = NoPost]
    /\ dialogs' = IF post[b].phase = "ok"
                  THEN [dialogs EXCEPT ![b] = @ \ {post[b].on}] ELSE dialogs
    /\ UNCHANGED server /\ UNCHANGED <<conn, stream, reply, allowed>>

(* A session operation of the browser is answered with a state ... *)
Reply(b) ==
    /\ reply[b] = None
    /\ reply' = [reply EXCEPT ![b] = State]
    /\ UNCHANGED server /\ UNCHANGED <<conn, stream, dialogs, post, allowed>>

(* ... which the browser applies when it arrives. *)
ApplyState(b) ==
    /\ reply[b] # None
    /\ dialogs' = [dialogs EXCEPT ![b] = reply[b]]
    /\ reply' = [reply EXCEPT ![b] = None]
    /\ UNCHANGED server /\ UNCHANGED <<conn, stream, post, allowed>>

-------------------------------------------------------------------------------
Init ==
    /\ life = "registered"
    /\ asked = {} /\ pending = {} /\ allowed = {}
    /\ outcome = [q \in Prompts |-> None]
    /\ conn = [b \in Browsers |-> "off"]
    /\ stream = [b \in Browsers |-> <<>>]
    /\ dialogs = [b \in Browsers |-> {}]
    /\ post = [b \in Browsers |-> NoPost]
    /\ reply = [b \in Browsers |-> None]

Next ==
    \/ \E q \in Prompts : Raise(q) \/ Lapse(q)
    \/ Abort \/ Remove \/ Disposed \/ StateChanged
    \/ \E b \in Browsers :
         \/ Handle(b) \/ Connect(b) \/ Greet(b) \/ Disconnect(b) \/ Deliver(b)
         \/ \E q \in Prompts, value \in Answers : Respond(b, q, value)
         \/ Responded(b) \/ Reply(b) \/ ApplyState(b)

Spec == Init /\ [][Next]_vars

(* Streams and responses are delivered, and the heartbeat of a hub with a   *)
(* client beats.  Timers may be long; users and extensions owe nothing.     *)
FairSpec ==
    /\ Spec
    /\ \A b \in Browsers :
         WF_vars(Handle(b)) /\ WF_vars(Greet(b)) /\ WF_vars(Deliver(b))
         /\ WF_vars(Responded(b)) /\ WF_vars(ApplyState(b))
    /\ WF_vars(StateChanged)

-------------------------------------------------------------------------------
(* Properties *)

(* A promise an extension waits for is always in the Map, where an answer,  *)
(* its timer or cancelAll() finds it, also after the controller is gone.    *)
NoPromptForgotten == \A q \in asked : outcome[q] = None <=> q \in pending

(* A prompt nobody allowed is never taken for allowed, whatever lapses, is  *)
(* aborted, removed or answered late from another browser.                  *)
OnlyUsersAllow == \A q \in Prompts : outcome[q] = "allow" => q \in allowed

(* The first resolution stands: an answer that loses the race against the   *)
(* timer, an abort or another browser changes nothing.                      *)
FirstResolutionStands ==
    [][\A q \in Prompts : outcome[q] # None => outcome'[q] = outcome[q]]_vars

(* If its timer fires, a prompt resolves, also when its controller is       *)
(* disposed by then and cancelAll() no longer reaches it.                   *)
PromptsSettle ==
    \A q \in Prompts : WF_vars(Lapse(q)) => (q \in asked ~> outcome[q] # None)

(* A connected browser comes to show every pending prompt of a session,     *)
(* though it connected later, or a late reply hid the prompt again.         *)
PromptsAppear ==
    \A b \in Browsers, q \in Prompts :
        (q \in pending /\ life = "registered" /\ conn[b] # "off")
            ~> (q \in dialogs[b] \/ q \notin pending \/ life # "registered"
                  \/ conn[b] = "off")

(* A connected browser stops showing a prompt that has settled, though no   *)
(* event says which one did, and a late reply may bring it back.            *)
DialogsClose ==
    \A b \in Browsers, q \in Prompts :
        (q \in dialogs[b] /\ outcome[q] # None /\ conn[b] # "off")
            ~> (q \notin dialogs[b] \/ conn[b] = "off")

(* What an event does to prompt q in a browser's list. *)
Brings(event, q) ==
    \/ event.type = "request" /\ event.of = q
    \/ event.type = "snapshot" /\ q \in event.of

Hides(event, q) ==
    \/ event.type = "status" /\ event.of = 0
    \/ event.type = "snapshot" /\ q \notin event.of

(* No browser shows, or is about to show, what no extension asked, and an   *)
(* answer is accepted only when its prompt has settled.                     *)
ShownWereAsked ==
    \A b \in Browsers :
        /\ dialogs[b] \subseteq asked
        /\ reply[b] # None => reply[b] \subseteq asked
        /\ \A i \in DOMAIN stream[b], q \in Prompts : Brings(stream[b][i], q) => q \in asked
        /\ post[b].phase # "none" => post[b].on \in asked
        /\ post[b].phase = "ok" => post[b].on \notin pending

(* What is under way to browser b leaves prompt q shown. *)
WillShow(b, q) ==
    \/ /\ q \in dialogs[b]
       /\ \A i \in DOMAIN stream[b] : ~Hides(stream[b][i], q)
    \/ \E i \in DOMAIN stream[b] :
         /\ Brings(stream[b][i], q)
         /\ \A j \in DOMAIN stream[b] : j > i => ~Hides(stream[b][j], q)

(* A greeted browser is not going to show a pending prompt, not before the  *)
(* next snapshot.                                                           *)
Misses(b, q) ==
    life = "registered" /\ conn[b] = "on" /\ q \in pending /\ ~WillShow(b, q)

(* Events alone never make a greeted browser miss a pending prompt: not a   *)
(* status that empties its list, not the snapshot of an answer or an abort, *)
(* not a reconnect.  Only a reply that was written before the prompt and    *)
(* arrives after it does.                                                   *)
OnlyLateRepliesHide ==
    [][\A b \in Browsers, q \in Prompts :
         Misses(b, q)' => \/ Misses(b, q)
                          \/ reply[b] # None /\ reply'[b] = None /\ q \notin reply[b]]_vars

-------------------------------------------------------------------------------
(* Statements of the source that its code does not keep *)

(* "disconnect cancels pending approvals immediately" *)
DisconnectCancels ==
    [][(\E b \in Browsers : conn[b] = "on") /\ (\A b \in Browsers : conn'[b] = "off")
         => pending' = {}]_vars
===============================================================================
