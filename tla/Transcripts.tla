------------------------------ MODULE Transcripts ------------------------------
(***************************************************************************)
(* The transcript of one loaded session in one browser: prompt turns and   *)
(* the history cache of PiSessionController, turn and message events on    *)
(* the browser's stream, history fetched over HTTP, and the browser's      *)
(* merge of all that with the messages it shows before the server has      *)
(* confirmed them.                                                         *)
(*                                                                         *)
(* Browsers meet only at the server, so one is modelled: prompts of the    *)
(* others, which it watches, are those not in Own.  The stream is first    *)
(* in, first out, and loses what is in it when it closes; responses arrive *)
(* in any order.  The live answer of a turn is one message; its blocks are *)
(* left out.  What the SDK does with a prompt is external.                 *)
(***************************************************************************)
EXTENDS Integers, Sequences, FiniteSets, FiniteSetsExt

CONSTANTS
    Prompts,        \* prompts, numbered in the order they are submitted
    TextOf,         \* their texts
    Own,            \* the prompts of this browser
    Fetches,        \* bound: history requests of the browser under way
    Room,           \* bound: events under way
    None

ASSUME TranscriptsAssumption ==
    /\ Prompts \subseteq Nat /\ Fetches \subseteq Nat
    /\ IsFiniteSet(Prompts) /\ IsFiniteSet(Fetches)
    /\ None \notin Prompts
    /\ Room \in Nat \ {0}
    /\ DOMAIN TextOf = Prompts /\ Own \subseteq Prompts

VARIABLES
    task,           \* a prompt's way through submitMessage, prompt() and the SDK
    branch,         \* entries persisted on the session's branch
    rev,            \* transcriptRevision
    cache,          \* cachedHistory
    live,           \* the prompt liveTurnMessages holds an answer to
    conn,           \* whether the browser's stream is open
    stream,         \* events under way to it
    bucket,         \* messagesBySessionId of the session
    known,          \* transcriptRevisionBySessionId of the session
    working,        \* locallyPendingPromptBySessionId of the session
    fetch,          \* history requests
    missed,         \* history: whether an event was lost, and made up for since
    overtaken       \* history: the history shown was read after events still under way

server == <<task, branch, rev, cache, live>>
browser == <<bucket, known, working, overtaken>>
vars == <<server, conn, stream, browser, fetch, missed>>

-------------------------------------------------------------------------------
(* Types *)

Phases == {"none", "posted", "refused", "unstarted", "prompting",
           "asked", "answered", "ended", "settled"}

Message(kind, p) == [kind |-> kind, of |-> p]
Entries == {Message(kind, p) : kind \in {"user", "assistant"}, p \in Prompts}
Messages == Entries \union
    {Message(kind, p) : kind \in {"local", "canonical", "live"}, p \in Prompts}

Event(type, p) == [type |-> type, of |-> p, rev |-> rev]
Events == [type : {"started", "live", "completed", "failed"}, of : Prompts, rev : Nat]

Histories == [rev : Nat, messages : Seq(Entries)]

ASSUME NoneAssumption == None \notin Histories

Idle == [phase |-> "idle", response |-> None]
Sent == [phase |-> "sent", response |-> None]

TypeOK ==
    /\ task \in [Prompts -> Phases]
    /\ branch \in Seq(Entries)
    /\ rev \in Nat
    /\ cache \in Histories \union {None}
    /\ live \in Prompts \union {None}
    /\ conn \in {"off", "on"}
    /\ stream \in Seq(Events)
    /\ bucket \in Seq(Messages)
    /\ known \in Nat \union {-1}
    /\ working \in BOOLEAN
    /\ fetch \in [Fetches -> {Idle, Sent} \union [phase : {"read"}, response : Histories]]
    /\ missed \in {"no", "yes", "madeUp"}
    /\ overtaken \in BOOLEAN

-------------------------------------------------------------------------------
(* The server *)

Emit(events) ==
    \/ /\ events = <<>> \/ (conn = "on" /\ Len(stream \o events) <= Room)
       /\ stream' = stream \o events
       /\ UNCHANGED missed
    \/ /\ conn = "off" /\ events # <<>>
       /\ missed' = "yes"
       /\ UNCHANGED stream

ForgetOnly == cache' = None /\ UNCHANGED rev                       \* fault

(* invalidateHistoryCache *)
Invalidate == cache' = None /\ rev' = rev + 1

Enter(p, phase) == task' = [task EXCEPT ![p] = phase]

InFlight == {p \in Prompts : task[p] \notin {"none", "posted", "refused", "unstarted", "settled"}}

(* The SDK runs one agent loop at a time. *)
LoopFree == \A p \in Prompts : task[p] \notin {"asked", "answered"}

ServerStep(p, from, to) ==
    /\ task[p] = from /\ Enter(p, to)
    /\ UNCHANGED <<conn, browser, fetch>>

Quiet == UNCHANGED <<stream, missed>>

(* submitMessage, and prompt() up to startPromptTurn.  The client's lease    *)
(* shuts out the prompts of others.                                          *)
Start(p) ==
    /\ \A q \in InFlight : q \in Own <=> p \in Own
    /\ ServerStep(p, "posted", "prompting")
    /\ Invalidate
    /\ Emit(<<[Event("started", p) EXCEPT !.rev = rev']>>)
    /\ UNCHANGED <<branch, live>>

(* The initialisation prompt() awaits fails, which only an error event, with *)
(* no part in the transcript, reports.                                       *)
InitFails(p) ==
    /\ ServerStep(p, "posted", "unstarted")
    /\ UNCHANGED <<branch, rev, cache, live>> /\ Quiet

(* The SDK persists the user's message; no event of its own says so. *)
Ask(p) ==
    /\ LoopFree
    /\ ServerStep(p, "prompting", "asked")
    /\ branch' = Append(branch, Message("user", p))
    /\ UNCHANGED <<rev, cache, live>> /\ Quiet

(* message_update and tool events, the first of which creates the message. *)
Delta(p) ==
    /\ task[p] = "asked" /\ live = None
    /\ live' = p
    /\ Emit(<<Event("live", p)>>)
    /\ Invalidate
    /\ UNCHANGED <<task, branch, conn, browser, fetch>>

(* The SDK persists the answer. *)
Answer(p) ==
    /\ ServerStep(p, "asked", "answered")
    /\ branch' = Append(branch, Message("assistant", p))
    /\ UNCHANGED <<rev, cache, live>> /\ Quiet

(* agent_end: the live answer is sent whole and forgotten. *)
AgentEnd(p) ==
    /\ ServerStep(p, task[p], "ended") /\ task[p] \in {"asked", "answered"}
    /\ Emit(IF live = None THEN <<>> ELSE <<Event("live", live)>>)
    /\ live' = None
    /\ Invalidate
    /\ UNCHANGED branch

Complete(p) ==
    /\ ServerStep(p, "ended", "settled")
    /\ Emit(<<Event("completed", p)>>)
    /\ UNCHANGED <<branch, rev, cache, live>>

FailSilently(p) ==                                                \* fault
    /\ ServerStep(p, task[p], "settled") /\ task[p] \in {"prompting", "ended"}
    /\ UNCHANGED <<branch, rev, cache, live>> /\ Quiet

(* session.prompt rejects, before or after its agent loop. *)
Fail(p) ==
    /\ ServerStep(p, task[p], "settled") /\ task[p] \in {"prompting", "ended"}
    /\ Emit(<<Event("failed", p)>>)
    /\ UNCHANGED <<branch, rev, cache, live>>

(* getHistory *)
History == IF cache # None THEN cache ELSE [rev |-> rev, messages |-> branch]

ReadHistory(i) ==
    /\ fetch[i] = Sent
    /\ fetch' = [fetch EXCEPT ![i] = [phase |-> "read", response |-> History]]
    /\ cache' = History
    /\ UNCHANGED <<task, branch, rev, live, conn, stream, browser, missed>>

-------------------------------------------------------------------------------
(* The browser's transcript *)

SameText(p, q) == TextOf[p] = TextOf[q]

Has(messages, m) == \E k \in DOMAIN messages : messages[k] = m

(* filter of an array, by the places of what it keeps *)
UpTo(places, k) == {j \in places : j <= k}
Place(places, n) == CHOOSE k \in places : Cardinality(UpTo(places, k)) = n

Filtered(messages, places) ==
    [n \in 1..Cardinality(places) |-> messages[Place(places, n)]]

OfKind(messages, kinds) == {k \in DOMAIN messages : messages[k].kind \in kinds}

Confirmed(messages) == Filtered(messages, DOMAIN messages \ OfKind(messages, {"local"}))

(* confirmOptimisticUserMessage takes the first message of the prompt, or    *)
(* the first local one with its text.                                        *)
IsPlaceholder(m, p) ==
    \/ m.of = p /\ m.kind \in {"local", "canonical"}
    \/ m.kind = "local" /\ SameText(m.of, p)

Confirm(messages, p) ==
    LET places == {k \in DOMAIN messages : IsPlaceholder(messages[k], p)}
    IN  IF places = {} THEN Append(messages, Message("canonical", p))
        ELSE [messages EXCEPT ![Min(places)] = Message("canonical", p)]

(* removeUserMessageByClientMessageId *)
RemovePrompt(messages, p) ==
    LET removed == {k \in OfKind(messages, {"local", "canonical"}) : messages[k].of = p}
    IN  Filtered(messages, DOMAIN messages \ removed)

(* upsertMessage and appendMessageBlockDelta, for the answer of p *)
ShowAnswer(messages, p) ==
    IF Has(messages, Message("live", p)) THEN messages
    ELSE Append(messages, Message("live", p))

(* mergeHistoryWithOptimisticMessages: of the local messages with one text,  *)
(* as many are taken for confirmed as the history has prompts with it.       *)
LocalsLike(messages, p) ==
    {j \in OfKind(messages, {"local"}) : SameText(messages[j].of, p)}

PromptsLike(messages, p) ==
    {j \in OfKind(messages, {"user"}) : SameText(messages[j].of, p)}

Unconfirmed(messages, history) ==
    {k \in OfKind(messages, {"local"}) :
        Cardinality(UpTo(LocalsLike(messages, messages[k].of), k))
            > Cardinality(PromptsLike(history, messages[k].of))}

Merge(messages, history) ==
    Filtered(messages, Unconfirmed(messages, history)) \o history

-------------------------------------------------------------------------------
(* The browser's steps *)

BrowserUnchanged == UNCHANGED <<server, conn>>

(* refreshHistory asks; a step that asks waits for a free place in fetch. *)
Ask4History ==
    \E i \in Fetches :
        /\ fetch[i] = Idle /\ \A j \in Fetches : j < i => fetch[j] # Idle
        /\ fetch' = [fetch EXCEPT ![i] = Sent]

IsNext(p) == \A q \in Prompts : q < p <=> task[q] # "none"

(* sendPrompt, up to the response of its POST. *)
Submit(p) ==
    /\ p \in Own /\ IsNext(p) /\ ~working
    /\ Enter(p, "posted")
    /\ bucket' = Append(bucket, Message("local", p))
    /\ working' = TRUE
    /\ UNCHANGED <<branch, rev, cache, live, conn, stream, known, overtaken, fetch, missed>>

SubmitElsewhere(p) ==
    /\ p \notin Own /\ IsNext(p)
    /\ Enter(p, "posted")
    /\ UNCHANGED <<branch, rev, cache, live, conn, stream, browser, fetch, missed>>

(* The POST is answered with an error: another client has the lease, say. *)
Refuse(p) ==
    /\ task[p] = "posted"
    /\ Enter(p, "refused")
    /\ working' = (working /\ p \notin Own)
    /\ UNCHANGED <<branch, rev, cache, live, conn, stream, bucket, known,
                   overtaken, fetch, missed>>

(* refreshHistory without force, for a session that shows nothing yet. *)
Open ==
    /\ bucket = <<>> /\ conn = "on" /\ \A i \in Fetches : fetch[i] = Idle
    /\ Ask4History
    /\ BrowserUnchanged /\ UNCHANGED <<stream, browser, missed>>

Deliver ==
    /\ stream # <<>>
    /\ stream' = Tail(stream)
    /\ BrowserUnchanged /\ UNCHANGED <<overtaken, missed>>
    /\ LET event == Head(stream) IN
       \/ /\ event.type = "started"
          /\ bucket' = Confirm(bucket, event.of)
          /\ UNCHANGED <<known, working, fetch>>
       \/ /\ event.type = "live"
          /\ bucket' = ShowAnswer(bucket, event.of)
          /\ UNCHANGED <<known, working, fetch>>
       \/ /\ event.type = "completed"
          /\ working' = FALSE
          /\ IF event.rev > known THEN Ask4History ELSE UNCHANGED fetch
          /\ UNCHANGED <<bucket, known>>
       \/ /\ event.type = "failed"
          /\ working' = FALSE
          /\ bucket' = RemovePrompt(bucket, event.of)
          /\ known' = Max({known, event.rev})
          /\ Ask4History

Always(response) == TRUE                                          \* fault

Current(response) == response.rev >= known

(* refreshHistory resumes. *)
Arrive(i) ==
    /\ fetch[i].phase = "read"
    /\ fetch' = [fetch EXCEPT ![i] = Idle]
    /\ BrowserUnchanged /\ UNCHANGED <<stream, working>>
    /\ LET response == fetch[i].response IN
       \/ /\ ~Current(response)
          /\ UNCHANGED <<known, bucket, overtaken, missed>>
       \/ /\ Current(response)
          /\ known' = response.rev
          /\ bucket' = Merge(bucket, response.messages)
          /\ overtaken' = \E k \in DOMAIN stream :
                stream[k].type \in {"started", "live"} /\ stream[k].rev < response.rev
          /\ missed' = IF missed = "yes" /\ InFlight = {} /\ response.rev = rev
                       THEN "madeUp" ELSE missed

(* EventSource reconnects by itself; the hello leaves transcripts alone. *)
Connect ==
    /\ conn = "off" /\ conn' = "on"
    /\ UNCHANGED <<server, stream, browser, fetch, missed>>

Disconnect ==
    /\ conn = "on" /\ missed = "no" /\ conn' = "off"
    /\ stream' = <<>>
    /\ missed' = IF stream = <<>> THEN "no" ELSE "yes"
    /\ UNCHANGED <<server, browser, fetch>>

-------------------------------------------------------------------------------
Init ==
    /\ task = [p \in Prompts |-> "none"]
    /\ branch = <<>> /\ rev = 0 /\ cache = None /\ live = None
    /\ conn = "off" /\ stream = <<>>
    /\ bucket = <<>> /\ known = -1 /\ working = FALSE
    /\ fetch = [i \in Fetches |-> Idle]
    /\ missed = "no" /\ overtaken = FALSE

Handle(p) == Refuse(p) \/ InitFails(p) \/ Start(p)
Run(p) == Ask(p) \/ Answer(p) \/ AgentEnd(p) \/ Complete(p) \/ Fail(p)

Next ==
    \/ \E p \in Prompts :
         \/ Submit(p) \/ SubmitElsewhere(p) \/ Handle(p) \/ Run(p) \/ Delta(p)
    \/ \E i \in Fetches : ReadHistory(i) \/ Arrive(i)
    \/ Open \/ Deliver \/ Connect \/ Disconnect

Spec == Init /\ [][Next]_vars

(* Requests are handled, awaited calls settle, and what is sent arrives; in  *)
(* which order is left open.                                                 *)
FairSpec ==
    /\ Spec
    /\ WF_vars(\E p \in Prompts : Handle(p) \/ Run(p))
    /\ WF_vars(\E i \in Fetches : ReadHistory(i) \/ Arrive(i))
    /\ WF_vars(Deliver)

-------------------------------------------------------------------------------
(* Properties *)

(* Nothing is under way, and a browser that lost an event has since read a   *)
(* history between two turns.                                                *)
Settled ==
    /\ \A p \in Prompts : task[p] \in {"none", "refused", "unstarted", "settled"}
    /\ conn = "on" /\ stream = <<>>
    /\ \A i \in Fetches : fetch[i] = Idle
    /\ missed # "yes"

(* When all has settled the transcript is the session's branch, each prompt *)
(* and each answer once.  (A history that overtook events of the turn it    *)
(* was read after leaves that turn shown twice.)  Of the messages that were *)
(* shown before they were confirmed, there are left, of each text, no more  *)
(* than prompts that were refused or whose initialisation failed.  (Which   *)
(* of them is left the browser cannot know: it tells them by their texts.)  *)
Unanswered(p) == {q \in Own : SameText(q, p) /\ task[q] \in {"refused", "unstarted"}}

TranscriptMatchesBranch ==
    Settled =>
        /\ ~overtaken => Confirmed(bucket) = branch
        /\ missed = "no" => \A p \in Prompts :
                Cardinality(LocalsLike(bucket, p)) <= Cardinality(Unanswered(p))

EntriesShown == Cardinality(OfKind(bucket, {"user", "assistant"}))

(* However requests overtake each other, an older history never replaces a  *)
(* newer one.                                                                *)
HistoryNeverGoesBack == [][EntriesShown' >= EntriesShown]_vars

(* The composer is free again after every prompt of this browser, unless an *)
(* event was lost, or the prompt's initialisation failed.                    *)
ComposerFreed ==
    working ~> ~working \/ missed # "no" \/ \E p \in Own : task[p] = "unstarted"

(* What the composer waits for: while it is blocked and no event was lost, a *)
(* prompt of this browser has yet to be handled or is being answered, or the *)
(* event that frees the composer is under way, or the prompt's               *)
(* initialisation failed.  The turns of others, and responses that overtake  *)
(* each other, never block it.                                               *)
Frees(p) ==
    \/ task[p] \in {"posted", "unstarted"} \/ p \in InFlight
    \/ \E k \in DOMAIN stream : stream[k].of = p /\ stream[k].type \in {"completed", "failed"}

BlockedByOwnPrompt == working /\ missed = "no" => \E p \in Own : Frees(p)

-------------------------------------------------------------------------------
(* The inductive invariant *)

Before == {"none", "posted", "refused", "unstarted"}
Looping == {q \in Prompts : task[q] \in {"asked", "answered"}}

IsPartOf(messages, entries) ==
    /\ Len(messages) <= Len(entries)
    /\ \A k \in DOMAIN messages : messages[k] = entries[k]

(* The server: what was cached has the revision of now, and is the branch    *)
(* unless a prompt that is being answered has added to it.                   *)
ServerSound ==
    /\ \A p, q \in Looping : p = q
    /\ live # None => live \in Looping
    /\ branch # <<>> \/ InFlight # {} => rev > 0
    /\ cache # None =>
        /\ cache.rev = rev /\ IsPartOf(cache.messages, branch)
        /\ Looping = {} => cache.messages = branch

(* Histories under way: a later revision has no less of the branch.          *)
Responses == {fetch[i].response : i \in {j \in Fetches : fetch[j].phase = "read"}}

ResponsesSound ==
    \A r \in Responses :
        /\ r.rev <= rev /\ IsPartOf(r.messages, branch)
        /\ r.rev = rev => r = cache
        /\ cache # None => Len(r.messages) <= Len(cache.messages)
        /\ \A s \in Responses : r.rev <= s.rev => Len(r.messages) <= Len(s.messages)

(* The entries the browser shows are a part of the branch that no history it *)
(* may still take is short of.                                               *)
Shown(messages) == Filtered(messages, OfKind(messages, {"user", "assistant"}))

BrowserSound ==
    /\ known <= rev
    /\ IsPartOf(Shown(bucket), branch)
    /\ cache # None => Len(Shown(bucket)) <= Len(cache.messages)
    /\ \A r \in Responses : r.rev >= known => Len(Shown(bucket)) <= Len(r.messages)

(* The stream: a prompt's messages are followed by the end of its turn, with *)
(* a later revision if it completed.                                         *)
Showing == {"started", "live"}
Closing == {"completed", "failed"}

Followed(k) ==
    /\ \/ stream[k].of \in InFlight
       \/ \E l \in DOMAIN stream :
            l > k /\ stream[l].of = stream[k].of /\ stream[l].type \in Closing
    /\ task[stream[k].of] = "ended" => stream[k].rev < rev
    /\ \A l \in DOMAIN stream :
         l > k /\ stream[l].of = stream[k].of /\ stream[l].type = "completed"
            => stream[k].rev < stream[l].rev

StartedOnce(k) ==
    /\ \A l \in DOMAIN bucket : bucket[l] # Message("canonical", stream[k].of)
    /\ \A l \in DOMAIN stream :
         stream[l].type = "started" /\ stream[l].of = stream[k].of => l = k

EventSound(k) ==
    /\ stream[k].rev <= rev /\ task[stream[k].of] \notin Before
    /\ stream[k].type \in Showing => Followed(k)
    /\ stream[k].type = "started" => StartedOnce(k)

StreamSound ==
    /\ conn = "off" => stream = <<>>
    /\ \A k \in DOMAIN stream : EventSound(k)
    /\ \A k \in OfKind(bucket, {"canonical"}) : task[bucket[k].of] \notin Before

(* A history the browser has asked for is going to be taken that has at      *)
(* least revision r.                                                         *)
Coming(r) ==
    \E i \in Fetches : fetch[i] = Sent \/ (fetch[i].phase = "read" /\ fetch[i].response.rev >= r)

(* Of a browser that missed nothing, h is the revision of the history taken  *)
(* last: what it has shown of turns since is going to be replaced, and it is *)
(* going to learn of what came after.                                        *)
Replaced(p, h) ==
    \/ p \in InFlight /\ (task[p] = "ended" => rev > h)
    \/ Coming(known)
    \/ \E l \in DOMAIN stream :
         /\ stream[l].of = p
         /\ stream[l].type = "failed" \/ (stream[l].type = "completed" /\ stream[l].rev > h)

Learns(h) ==
    \/ rev \in {0, h} \/ Coming(rev)
    \/ \E k \in DOMAIN stream : stream[k].type \in Closing /\ stream[k].rev = rev

InStepSince(h) ==
    /\ known > h => Coming(known)
    /\ h = rev => cache # None /\ Shown(bucket) = cache.messages
    /\ InFlight = {} => Learns(h)
    /\ ~overtaken =>
        /\ \A k \in DOMAIN stream : stream[k].type \in Showing => stream[k].rev >= h
        /\ \A k \in OfKind(bucket, {"canonical", "live"}) : Replaced(bucket[k].of, h)

InStep == missed # "yes" => \E h \in {-1} \union 0..known : InStepSince(h)

(* Each message not confirmed yet, of a text, is one of a prompt that is not *)
(* known to have started.                                                    *)
Unconfirming(p) ==
    {q \in Own : SameText(q, p) /\
        \/ task[q] \in {"posted", "refused", "unstarted"}
        \/ \E k \in DOMAIN stream : stream[k].type = "started" /\ stream[k].of = q}

LocalsCounted ==
    missed = "no" => \A p \in Prompts :
        Cardinality(LocalsLike(bucket, p)) <= Cardinality(Unconfirming(p))

TranscriptInv ==
    /\ TypeOK /\ ServerSound /\ ResponsesSound /\ BrowserSound
    /\ StreamSound /\ InStep /\ LocalsCounted

-------------------------------------------------------------------------------
(* Statements of the source that its code does not keep *)

(* A turn's prompt is announced by an event of its own "so optimistic local *)
(* messages never depend on history refresh timing".                        *)
PromptStaysVisible ==
    \A p \in Own \intersect InFlight :
        \E k \in DOMAIN bucket :
            bucket[k].of = p /\ bucket[k].kind \in {"local", "canonical", "user"}

(* "preflight failures cannot leave orphaned messages" *)
FailuresReported ==
    Settled => \A k \in DOMAIN bucket :
                 bucket[k].kind = "local" => task[bucket[k].of] # "unstarted"

(* "The browser transcript should match the backend projection: one         *)
(* assistant UiMessage per agent turn".                                     *)
OneAnswerPerTurn ==
    Settled => \A j, k \in DOMAIN bucket :
                 (bucket[j].of = bucket[k].of /\ {bucket[j].kind, bucket[k].kind}
                    \subseteq {"live", "assistant"}) => j = k
===============================================================================
