-------------------------------- MODULE LiveTurn --------------------------------
(***************************************************************************)
(* The answer of an agent while it is made: events of the SDK, the live    *)
(* projection PiSessionController keeps of them, the events it emits and   *)
(* the message a browser builds from those; and what the same turn looks   *)
(* like once it is read back from the session's entries.                   *)
(*                                                                         *)
(* The SDK is external.  A turn is one or more messages of the assistant:  *)
(* text and thinking come in deltas, then the message asks for tools.      *)
(* They start in that order, run at the same time and end in any.  A       *)
(* provider may give a tool call no id.  A user's steering message may     *)
(* come before the next message, and a turn may follow a compaction        *)
(* instead of a prompt.                                                    *)
(*                                                                         *)
(* Events reach the browser in order, as values; without a stream it       *)
(* misses them, and what it shows then of the message is left out until it *)
(* gets the whole of it.                                                   *)
(***************************************************************************)
EXTENDS Normalization

CONSTANTS
    MaxTurns,       \* bound: turns
    MaxMessages,    \* bound: messages of the assistant in them all
    MaxDeltas,      \* bound: deltas in them all
    MaxTools,       \* bound: tool calls in them all
    MaxChunks,      \* bound: partial results of a tool
    Failing         \* the tool calls of a turn that end with an error

(* What tells a tool call from others: the id the provider gave it, or one  *)
(* the controller made.                                                     *)
ToolId(e) == <<"id", e>>
AnonymousId(n) == <<"anonymous", n>>
ToolIds == {"id", "anonymous"} \X Nat

ASSUME LiveTurnAssumption ==
    /\ Failing \union {MaxTurns, MaxMessages, MaxDeltas, MaxTools, MaxChunks} \subseteq Nat
    /\ None \notin ToolIds

VARIABLES
    phase,          \* what the SDK is doing: "idle", "saying" or "tools"
    turn,           \* turns begun
    said, deltas,   \* messages of the assistant begun, and deltas sent, so far
    before,         \* tool calls of the turns before
    parts,          \* parts of the message being said
    tools,          \* tool calls of the turn
    entries,        \* entries the turn added to the session
    live,           \* the controller's live projection
    linked,         \* whether the browser's stream is open
    seen,           \* the turn's live message in the browser
    missed,         \* history: an event about that message was missed
    cut,            \* history: the turn was aborted
    overlapped      \* history: two tools without an id ran at once in the turn

sdk == <<phase, turn, said, deltas, before, parts, tools, entries, cut, overlapped>>
browser == <<linked, seen, missed>>
vars == <<sdk, live, browser>>

-------------------------------------------------------------------------------
(* Types *)

Ran == {"asked", "running", "ended"}
Statuses == {"pending", "running", "completed", "error", "none"}


(* Content: a piece of a text is known by the number of tool calls before it  *)
(* in the turn and its own, a piece of a result by its execution and its own. *)
Pieces == Seq(Nat \X Nat)
BlockIds == (Nat \X TextLike \X Nat) \union (Nat \X {"call", "result"} \X ToolIds)
Blocks == [id : BlockIds, type : TextLike \union {"tool_call", "tool_result"},
           tool : ToolIds \union {None}, of : SUBSET Nat, content : Pieces, status : Statuses]

NoMessage == [id |-> 0, blocks |-> <<>>]
NoKeys == [type \in TextLike |-> None]
NewLive(id, made) ==
    [id |-> id, open |-> FALSE, blocks |-> <<>>, key |-> NoKeys, emitted |-> <<>>,
     anchor |-> None, anon |-> None, ambiguous |-> FALSE, made |-> made]

TypeOK ==
    /\ phase \in {"idle", "saying", "tools"}
    /\ turn \in 0..MaxTurns /\ said \in 0..MaxMessages /\ deltas \in 0..MaxDeltas
    /\ before \in Nat /\ before + Len(tools) <= MaxTools
    /\ tools \in Seq([tool : ToolIds \union {None}, state : Ran, chunks : 0..MaxChunks])
    /\ live \in [id : Nat, open : BOOLEAN, blocks : Seq(Blocks),
                 key : [TextLike -> BlockIds \union {None}],
                 emitted : UNION {[T -> 0..MaxChunks] : T \in SUBSET {b.tool : b \in ToSet(live.blocks)}},
                 anchor : ToolIds \union {None}, anon : ToolIds \union {None},
                 ambiguous : BOOLEAN, made : Nat]
    /\ seen \in [id : Nat, blocks : Seq(Blocks)]
    /\ {linked, missed, cut, overlapped} \subseteq BOOLEAN

-------------------------------------------------------------------------------
(* The browser *)

WithId(blocks, id) == {i \in DOMAIN blocks : blocks[i].id = id}

(* upsertMessage, upsertMessageBlock, appendMessageBlockDelta, of the newest *)
(* live message `m`                                                          *)
Folded(m, event) ==
    LET n == IF m.id = event.id THEN m ELSE [id |-> event.id, blocks |-> <<>>]
        at == WithId(n.blocks, event.block)
        made == Append(n.blocks, Block(event.block, event.blockType, None, {}, event.delta, "none"))
    IN  CASE event.type = "message_upsert" -> [n EXCEPT !.blocks = event.blocks]
          [] event.type = "message_block_upsert" ->
                [n EXCEPT !.blocks = Upserted(@, event.block)]
          [] event.type = "message_block_delta" ->
                [n EXCEPT !.blocks = IF at = {} THEN made
                                     ELSE [n.blocks EXCEPT ![Min(at)].content = @ \o event.delta]]

-------------------------------------------------------------------------------
(* The controller's handlers map the live projection, with the id that was  *)
(* got, what a browser makes of the events, and whether one of those was    *)
(* the whole message, to the next.                                          *)

Emit(t, event) ==
    [t EXCEPT !.shown = Folded(@, event),
              !.sent = IF event.type = "message_upsert" \/ @ = "whole" THEN "whole" ELSE "part"]

(* ensureAssistantMessage *)
EnsureAssistantMessage(t) ==
    IF t.open THEN t
    ELSE Emit([t EXCEPT !.open = TRUE],
              [type |-> "message_upsert", id |-> t.id, blocks |-> <<>>])

UpsertBlock(t, block) ==
    Emit([t EXCEPT !.blocks = Upserted(@, block)],
         [type |-> "message_block_upsert", id |-> t.id, block |-> block])

Delta(t, id, type, content) ==
    Emit(t, [type |-> "message_block_delta", id |-> t.id, block |-> id,
             blockType |-> type, delta |-> content])

FirstTextLikeBlockId(t, type) == <<t.id, type, 0>>                 \* fault

(* nextTextLikeBlockId *)
NextTextLikeBlockId(t, type) ==
    LET count == Cardinality({i \in DOMAIN t.blocks : t.blocks[i].type = type})
        used == {b.id : b \in ToSet(t.blocks)}
    IN  <<t.id, type, Min({n \in count..(count + Len(t.blocks)) : <<t.id, type, n>> \notin used})>>

(* ensureTextLikeBlock *)
EnsureTextLikeBlock(t, id, type) ==
    IF WithId(t.blocks, id) # {} THEN t
    ELSE UpsertBlock(t, Block(id, type, None, {}, <<>>, "none"))

(* appendAssistantBlockDelta *)
AppendAssistantBlockDelta(t, type, delta) ==
    LET m == EnsureAssistantMessage(t)
        id == IF m.key[type] # None THEN m.key[type] ELSE NextTextLikeBlockId(m, type)
        b == EnsureTextLikeBlock(m, id, type)
    IN  Delta([b EXCEPT !.key[type] = id,
                        !.blocks[Min(WithId(b.blocks, id))].content = Append(@, delta)],
              id, type, <<delta>>)

Put(f, k, v) == [x \in DOMAIN f \union {k} |-> IF x = k THEN v ELSE f[x]]

(* toolCallId without its test for overlaps *)
OneAnonymous(t, tool, step) ==                                     \* fault
    IF tool # None THEN [t EXCEPT !.got = tool]
    ELSE IF t.anon = None
    THEN LET id == AnonymousId(t.made + 1)
         IN  [t EXCEPT !.got = id, !.anon = id, !.made = @ + 1]
    ELSE [t EXCEPT !.got = t.anon]

(* toolCallId *)
ToolCallId(t, tool, step) ==
    LET id == AnonymousId(t.made + 1)
    IN  CASE tool # None -> [t EXCEPT !.got = tool]
          [] tool = None /\ t.ambiguous -> [t EXCEPT !.got = None]
          [] tool = None /\ ~t.ambiguous /\ step = "start" /\ t.anon # None ->
                [t EXCEPT !.got = None, !.ambiguous = TRUE, !.anon = None, !.anchor = None]
          [] tool = None /\ ~t.ambiguous /\ t.anon = None ->
                [t EXCEPT !.got = id, !.anon = id, !.made = @ + 1]
          [] OTHER -> [t EXCEPT !.got = t.anon]

(* ensureToolBlockLocation: the ids of a tool's blocks in the live message *)
ToolBlockId(t, part, tool) == <<t.id, part, tool>>

(* upsertToolCallBlock *)
UpsertToolCallBlock(t, tool, e, status) ==
    LET u == ToolCallId(t, tool, IF status = "pending" THEN "start" ELSE "update")
        m == EnsureAssistantMessage([u EXCEPT !.anchor = u.got])
        existing == CallBlocks(m.blocks, u.got)
        of == {e} \union (IF existing = {} THEN {} ELSE m.blocks[Min(existing)].of)
    IN  IF u.got = None THEN u
        ELSE UpsertBlock(m, Block(ToolBlockId(u, "call", u.got), "tool_call", u.got, of,
                                 <<>>, status))

(* streamToolResultDelta without the empty block *)
StreamUnanchored(t, tool, e, n) ==                                 \* fault
    LET u == ToolCallId(t, tool, "update")
    IN  IF u.got = None THEN u
        ELSE Delta([u EXCEPT !.emitted = Put(@, u.got, n)], ToolBlockId(u, "result", u.got),
                   "tool_result", <<<<e, n>>>>)

(* streamToolResultDelta, of a partial result of n chunks *)
StreamToolResultDelta(t, tool, e, n) ==
    LET u == ToolCallId(t, tool, "update")
        id == ToolBlockId(u, "result", u.got)
        first == u.got \notin DOMAIN u.emitted
        from == IF first THEN 0 ELSE u.emitted[u.got]
        b == IF ~first THEN u
             ELSE UpsertBlock(EnsureAssistantMessage(u),
                              Block(id, "tool_result", u.got, {e}, <<>>, "completed"))
        kept == [b EXCEPT !.emitted = Put(@, u.got, Max({from, n}))]
    IN  CASE u.got = None -> u
          [] u.got # None /\ n > from ->
                Delta(kept, id, "tool_result", [i \in 1..(n - from) |-> <<e, from + i>>])
          [] OTHER -> kept

(* completeToolCallBlock *)
CompleteToolCallBlock(t, tool, e, error) ==
    LET u == ToolCallId(UpsertToolCallBlock(t, tool, e, StatusOf(error)), tool, "end")
        b == UpsertBlock(EnsureAssistantMessage(u),
                         Block(ToolBlockId(u, "result", u.got), "tool_result", u.got, {e},
                               Final, StatusOf(error)))
    IN  IF u.got = None THEN u
        ELSE [b EXCEPT !.emitted = Restrict(@, DOMAIN @ \ {u.got}),
                       !.anon = IF tool = None THEN None ELSE @]

(* A handler begins with the live projection, and no events. *)
Begun ==
    [id |-> live.id, open |-> live.open, blocks |-> live.blocks, key |-> live.key,
     emitted |-> live.emitted, anchor |-> live.anchor, anon |-> live.anon,
     ambiguous |-> live.ambiguous, made |-> live.made,
     got |-> None, shown |-> seen, sent |-> "nothing"]

(* The browser after the events of a handler *)
Publish(t) ==
    /\ missed' = IF linked THEN missed /\ t.sent # "whole" ELSE missed \/ t.sent # "nothing"
    /\ seen' = IF missed' THEN NoMessage ELSE IF linked THEN t.shown ELSE seen
    /\ UNCHANGED linked

Handle(t) == live' = Restrict(t, DOMAIN live) /\ Publish(t)

-------------------------------------------------------------------------------
(* A turn *)

(* message_start, before it the turn's start or what came between *)
MessageStart ==
    /\ \/ /\ phase = "idle" /\ turn < MaxTurns
          /\ turn' = turn + 1
          /\ before' = before + Len(tools) /\ tools' = <<>> /\ overlapped' = FALSE /\ cut' = FALSE
          /\ \E first \in {UserEntry} \union (IF turn = 0 THEN {} ELSE {CompactionEntry}) :
                entries' = <<first>>
          /\ seen' = NoMessage /\ missed' = FALSE
       \/ /\ phase = "tools" /\ \A i \in DOMAIN tools : tools[i].state = "ended"
          /\ \E between \in {<<>>, <<UserEntry>>} : entries' = entries \o between
          /\ UNCHANGED <<turn, before, tools, overlapped, cut, seen, missed>>
    /\ said < MaxMessages /\ said' = said + 1
    /\ phase' = "saying" /\ parts' = <<>>
    /\ live' = [live EXCEPT !.key = NoKeys]
    /\ UNCHANGED <<deltas, linked>>

(* message_update *)
Say(type) ==
    /\ phase = "saying"
    /\ deltas < MaxDeltas /\ deltas' = deltas + 1
    /\ LET delta == <<Len(tools), deltas + 1>>
       IN  /\ parts' = IF parts # <<>> /\ Last(parts).type = type
                       THEN [parts EXCEPT ![Len(parts)].content = Append(@, delta)]
                       ELSE Append(parts, Part(type, <<delta>>))
           /\ Handle(AppendAssistantBlockDelta(Begun, type, delta))
    /\ UNCHANGED <<phase, turn, said, before, tools, entries, cut, overlapped>>

(* The message ends with calls of n tools and is persisted. *)
MessageEnd(n, ids) ==
    /\ phase = "saying" /\ before + Len(tools) + n <= MaxTools
    /\ LET asked == [i \in 1..n |-> IF ids[i] THEN ToolId(Len(tools) + i) ELSE None]
       IN  /\ tools' = tools \o [i \in 1..n |->
                                    [tool |-> asked[i], state |-> "asked", chunks |-> 0]]
           /\ entries' = Append(entries, AssistantEntry(
                            parts \o [i \in 1..n |-> CallPart(asked[i], Len(tools) + i)]))
    /\ phase' = "tools" /\ parts' = <<>>
    /\ UNCHANGED <<turn, said, deltas, before, cut, overlapped, live, browser>>

(* tool_execution_start *)
ToolStart(e) ==
    /\ phase = "tools"
    /\ tools[e].state = "asked" /\ \A i \in 1..(e - 1) : tools[i].state # "asked"
    /\ tools' = [tools EXCEPT ![e].state = "running"]
    /\ overlapped' = (overlapped \/ (tools[e].tool = None /\ \E i \in DOMAIN tools :
                        tools[i].tool = None /\ tools[i].state = "running"))
    /\ Handle(UpsertToolCallBlock(Begun, tools[e].tool, e, "pending"))
    /\ UNCHANGED <<phase, turn, said, deltas, before, parts, entries, cut>>

(* tool_execution_update *)
ToolUpdate(e) ==
    /\ phase = "tools" /\ tools[e].state = "running" /\ tools[e].chunks < MaxChunks
    /\ tools' = [tools EXCEPT ![e].chunks = @ + 1]
    /\ Handle(StreamToolResultDelta(
                UpsertToolCallBlock(Begun, tools[e].tool, e, "running"),
                tools[e].tool, e, tools[e].chunks + 1))
    /\ UNCHANGED <<phase, turn, said, deltas, before, parts, entries, cut, overlapped>>

(* tool_execution_end; the result is persisted. *)
ToolEnd(e) ==
    /\ phase = "tools" /\ tools[e].state = "running"
    /\ tools' = [tools EXCEPT ![e].state = "ended"]
    /\ entries' = Append(entries, ResultEntry(tools[e].tool, e, e \in Failing))
    /\ Handle(CompleteToolCallBlock(Begun, tools[e].tool, e, e \in Failing))
    /\ UNCHANGED <<phase, turn, said, deltas, before, parts, cut, overlapped>>

(* flushCurrentAssistantMessage, if there is one *)
Flushed(t) ==
    IF ~t.open THEN t
    ELSE Emit(t, [type |-> "message_upsert", id |-> t.id, blocks |-> t.blocks])

TurnOver ==
    /\ phase # "idle" /\ phase' = "idle"
    /\ cut' = ~(phase = "tools" /\ \A i \in DOMAIN tools : tools[i].state = "ended")
    /\ parts' = <<>>
    /\ UNCHANGED <<turn, said, deltas, before, tools, entries, overlapped>>

(* agent_end *)
AgentEnd ==
    /\ TurnOver
    /\ live' = NewLive(live.id + 1, live.made) /\ Publish(Flushed(Begun))

-------------------------------------------------------------------------------
(* The browser's stream *)

Disconnect ==
    /\ linked /\ linked' = FALSE
    /\ UNCHANGED <<sdk, live, seen, missed>>

Connect ==
    /\ ~linked /\ linked' = TRUE
    /\ UNCHANGED <<sdk, live, seen, missed>>

-------------------------------------------------------------------------------
(* Specification *)

Init ==
    /\ phase = "idle" /\ turn = 0 /\ said = 0 /\ deltas = 0 /\ before = 0
    /\ parts = <<>> /\ tools = <<>> /\ entries = <<>>
    /\ live = NewLive(1, 0)
    /\ linked \in BOOLEAN /\ seen = NoMessage
    /\ missed = FALSE /\ cut = FALSE /\ overlapped = FALSE

Next ==
    \/ MessageStart
    \/ \E type \in TextLike : Say(type)
    \/ \E n \in 0..MaxTools : \E ids \in [1..n -> BOOLEAN] : MessageEnd(n, ids)
    \/ \E e \in DOMAIN tools : ToolStart(e) \/ ToolUpdate(e) \/ ToolEnd(e)
    \/ AgentEnd
    \/ Disconnect
    \/ Connect

Spec == Init /\ [][Next]_vars

-------------------------------------------------------------------------------
(* Properties *)

(* A browser that missed nothing shows what the controller projects, and of  *)
(* a result that is being streamed exactly the part that was emitted.        *)
Streamed(emitted, b) ==
    IF b.type = "tool_result" /\ b.tool \in DOMAIN emitted
    THEN [b EXCEPT !.content = [i \in 1..emitted[b.tool] |-> <<CHOOSE e \in b.of : TRUE, i>>]]
    ELSE b

InTheBrowser(p) == [i \in DOMAIN p.blocks |-> Streamed(p.emitted, p.blocks[i])]

InStep ==
    live.open /\ ~missed =>
        seen = [id |-> live.id, blocks |-> InTheBrowser(live)]

(* No block of the live message tells of two executions; each tool with an   *)
(* id, and each without one in a turn where no two of those overlapped, is   *)
(* shown once with its own status, and its result once it ended.  A prompt   *)
(* of an extension is anchored at a call that is shown.                      *)
ShownAs(e) == {i \in DOMAIN live.blocks : e \in live.blocks[i].of}

ToolsShownOnce ==
    /\ \A b \in ToSet(live.blocks) : Cardinality(b.of) <= 1
    /\ live.open => \A e \in DOMAIN tools :
        (tools[e].tool # None \/ ~overlapped) /\ tools[e].state # "asked" =>
            LET calls == {i \in ShownAs(e) : live.blocks[i].type = "tool_call"}
                results == {i \in ShownAs(e) : live.blocks[i].type = "tool_result"}
            IN  /\ Cardinality(calls) = 1 /\ Cardinality(results) <= 1
                /\ tools[e].state = "ended" =>
                        \E c \in calls, r \in results :
                            /\ live.blocks[r].content = Final
                            /\ live.blocks[c].tool = live.blocks[r].tool
                            /\ live.blocks[c].status = live.blocks[r].status
    /\ live.anchor # None => CallBlocks(live.blocks, live.anchor) # {}

(* What there is to read: the rendered blocks of the assistant's messages, by *)
(* the number of the message and that of the block.                           *)
AnswersOf(messages) ==
    [m \in {m \in DOMAIN messages : messages[m].role = "assistant"} |-> messages[m].blocks]

Answers == AnswersOf(NormalizeMessages(entries))

InHistory == [m \in DOMAIN Answers |-> RenderedBlocks(Answers[m])]

InLiveMessage ==
    [m \in IF seen.id = live.id - 1 THEN {1} ELSE {} |-> RenderedBlocks(seen.blocks)]

(* What a rendered block tells of a type's text and of the tools with an id. *)
Told(b, type) ==
    CASE b.type = type -> [k \in DOMAIN b.content |-> <<type, b.content[k], "none", {}>>]
      [] b.type = "tool" /\ b.tool[1] = "id" -> << <<"tool", b.of, b.status, b.result>> >>
      [] OTHER -> <<>>

(* The places where something is told, in the order in which they are read. *)
Places(view, type) ==
    UNION {UNION {{<<m, i, k>> : k \in DOMAIN Told(view[m][i], type)} :
                  i \in DOMAIN view[m]} : m \in DOMAIN view}

ToldAt(view, type, p) == Told(view[p[1]][p[2]], type)[p[3]]

Earlier(p, q) ==
    \/ p[1] < q[1]
    \/ p[1] = q[1] /\ p[2] < q[2]
    \/ p[1] = q[1] /\ p[2] = q[2] /\ p[3] < q[3]

(* Both tell the same in the same order. *)
ReadAlike(view, other, type) ==
    \E f \in Bijection(Places(view, type), Places(other, type)) :
        /\ \A p \in Places(view, type) : ToldAt(view, type, p) = ToldAt(other, type, f[p])
        /\ \A p, q \in Places(view, type) : Earlier(p, q) => Earlier(f[p], f[q])

(* A turn that was not aborted reads in the history as it was shown while it *)
(* was made: the same text, and the same thinking, in the same places among  *)
(* the same tools with the same results (tools without an id apart).         *)
HistoryShowsTheTurn ==
    phase = "idle" /\ turn > 0 /\ ~cut /\ ~missed =>
        \A type \in TextLike : ReadAlike(InLiveMessage, InHistory, type)

-------------------------------------------------------------------------------
(* The inductive invariant *)

(* Between two turns nothing is projected. *)
ProjectionSound ==
    /\ phase = "idle" => live = NewLive(live.id, live.made)
    /\ ~live.open => live.blocks = <<>>

(* In a projection `p`: a block's id tells its type and its tool, and the    *)
(* tool the execution: the one that has the id, or one without an id the     *)
(* controller numbered.                                                      *)
Tells(p, calls, tool, e) ==
    /\ calls[e].state # "asked"
    /\ IF calls[e].tool # None THEN tool = calls[e].tool
       ELSE \E n \in 1..p.made : tool = AnonymousId(n)

WellFormed(p, calls, b) ==
    IF b.type \in TextLike
    THEN b.of = {} /\ b.id \in {p.id} \X {b.type} \X Nat
    ELSE /\ b.tool \in ToolIds
         /\ b.id = ToolBlockId(p, IF b.type = "tool_call" THEN "call" ELSE "result", b.tool)
         /\ \E e \in DOMAIN calls : b.of = {e} /\ Tells(p, calls, b.tool, e)

OfTools(b, c) == b.type \notin TextLike /\ c.type \notin TextLike

BlocksSound(p, calls) ==
    /\ \A i \in DOMAIN p.blocks : WellFormed(p, calls, p.blocks[i])
    /\ \A i, j \in DOMAIN p.blocks :
        /\ p.blocks[i].id = p.blocks[j].id => i = j
        /\ OfTools(p.blocks[i], p.blocks[j]) =>
             (p.blocks[i].of = p.blocks[j].of <=> p.blocks[i].tool = p.blocks[j].tool)
    /\ \A tool \in DOMAIN p.emitted : Results(p.blocks, tool) # {}

IdsSound ==
    /\ \A e \in DOMAIN tools : tools[e].tool \in {None, ToolId(e)}
    /\ \A type \in TextLike : live.key[type] \in ({live.id} \X {type} \X Nat) \union {None}
    /\ live.anchor # None => CallBlocks(live.blocks, live.anchor) # {}

(* Unless two overlapped, a number belongs to the one execution without an   *)
(* id that runs, and is forgotten with its end.                              *)
RunsUnnamed(e) == tools[e].tool = None /\ tools[e].state = "running"

AnonymousSound ==
    /\ live.ambiguous => overlapped /\ live.anon = None
    /\ phase # "idle" /\ ~live.ambiguous =>
        IF live.anon = None THEN \A e \in DOMAIN tools : ~RunsUnnamed(e)
        ELSE \E e \in DOMAIN tools :
                /\ \A i \in DOMAIN tools : RunsUnnamed(i) <=> i = e
                /\ \E c \in CallBlocks(live.blocks, live.anon) : live.blocks[c].of = {e}

(* Each execution that can be followed has a block of its own. *)
Closed(e) ==
    \E c, r \in ShownAs(e) :
        /\ live.blocks[c].type = "tool_call" /\ live.blocks[r].type = "tool_result"
        /\ live.blocks[c].status = live.blocks[r].status /\ live.blocks[r].content = Final

FollowedSound ==
    phase # "idle" => \A e \in DOMAIN tools :
        (tools[e].tool # None \/ ~overlapped) /\ tools[e].state # "asked" =>
            /\ \E c \in ShownAs(e) : live.blocks[c].type = "tool_call"
            /\ tools[e].state = "ended" => Closed(e)

LiveInv ==
    /\ TypeOK /\ ProjectionSound /\ IdsSound /\ BlocksSound(live, tools)
    /\ AnonymousSound /\ FollowedSound /\ InStep

-------------------------------------------------------------------------------
(* The inductive invariant of what is read *)

(* What a view, of blocks by message, gives to read: where, the pieces of a    *)
(* type's text, and of a tool call with an id its number, as if it was said    *)
(* after the pieces with fewer tool calls before them.                         *)
Marks(b, type) ==
    CASE b.type = type -> b.content
      [] b.type = "tool_call" /\ b.tool[1] = "id" -> << <<b.tool[2], 0>> >>
      [] OTHER -> <<>>

Reading(view, type) ==
    UNION {UNION {{<< <<m, i, k>>, Marks(view[m][i], type)[k] >> :
                      k \in DOMAIN Marks(view[m][i], type)} :
                  i \in DOMAIN view[m]} : m \in DOMAIN view}

Read(reading) == {s[2] : s \in reading}

Sooner(x, y) == x[1] < y[1] \/ (x[1] = y[1] /\ x[2] < y[2])

InOrder(reading) == \A s, t \in reading : Earlier(s[1], t[1]) => Sooner(s[2], t[2])

One(blocks) == [m \in {1} |-> blocks]

(* What is said is numbered from 1; a tool with an id is told of as what it    *)
(* is, and its result with it, with its status once it ended.                  *)
Spoken(view) ==
    \A m \in DOMAIN view : \A i \in DOMAIN view[m] :
        view[m][i].type \in TextLike => view[m][i].content \in Seq(Nat \X (Nat \ {0}))

Settled(blocks, b, calls) ==
    LET e == b.tool[2]
    IN  /\ e \in DOMAIN calls /\ b.of = {e} /\ b.tool = ToolId(e) /\ calls[e].tool = b.tool
        /\ CallBlocks(blocks, b.tool) # {}
        /\ calls[e].state = "ended" =>
                b.status = StatusOf(e \in Failing) /\ Results(blocks, b.tool) # {}

ToolsSettled(view, calls) ==
    \A m \in DOMAIN view : \A i \in DOMAIN view[m] :
        view[m][i].type \notin TextLike /\ view[m][i].tool[1] = "id" =>
            Settled(view[m], view[m][i], calls)

(* The messages of the history: a result has the id of one, and is there once  *)
(* its tool ended; the calls of the tools that did not are in the last message. *)
Numbers == {"id", "anonymous", "tool"} \X Nat
HistoryIds == (Nat \X TextLike \X Nat) \union (Nat \X {"call", "result"} \X Numbers)
HistoryBlocks ==
    [id : HistoryIds, type : TextLike \union {"tool_call", "tool_result"},
     tool : Numbers \union {None}, of : SUBSET Nat, content : Pieces, status : Statuses]
Messages == [role : {"user", "assistant", "system"}, id : Nat, blocks : Seq(HistoryBlocks)]
Parts == [type : TextLike, content : Pieces, tool : {None}, of : {{}}]
CallParts ==
    [type : {"tool_call"}, content : {<<>>}, tool : ToolIds \union {None}, of : SUBSET Nat]
Entries ==
    [role : {"compaction"}]
        \union [role : {"user", "assistant"}, parts : Seq(Parts \union CallParts)]
        \union [role : {"toolResult"}, tool : ToolIds \union {None}, of : SUBSET Nat,
                error : BOOLEAN]

ResultSound(b, calls) ==
    /\ b.id[2] = "result" => b.type = "tool_result" /\ b.tool = b.id[3]
    /\ b.type = "tool_result" /\ b.tool[1] = "id" => calls[b.tool[2]].state = "ended"

ResultsSound(view, calls) ==
    \A m \in DOMAIN view : \A i \in DOMAIN view[m] : ResultSound(view[m][i], calls)

CallsListed(messages, calls) ==
    /\ HasAssistant(messages)
    /\ \A e \in DOMAIN calls : calls[e].tool # None /\ calls[e].state # "ended" =>
            CallBlocks(Last(messages).blocks, calls[e].tool) # {}

(* What is read of the turn so far: each view in the order in which it was     *)
(* made; live, all that is in the history or in the message being said, but    *)
(* for the tools that did not start.                                           *)
Asked(calls) == {e \in DOMAIN calls : calls[e].state = "asked"}

OrderSound(shown, told, saying, calls, last) ==
    /\ InOrder(shown) /\ InOrder(told) /\ InOrder(saying)
    /\ Read(shown) = (Read(told) \union Read(saying)) \ {<<e, 0>> : e \in Asked(calls)}
    /\ \A x \in Read(told) \union Read(saying) : Sooner(x, <<Len(calls), last + 1>>)
    /\ \A x \in Read(told), y \in Read(saying) : Sooner(x, y)
    /\ \A x \in Read(shown), e \in Asked(calls) : Sooner(x, <<e, 0>>)

TurnSound(blocks, messages, saying, calls, last) ==
    /\ Spoken(One(blocks)) /\ Spoken(AnswersOf(messages)) /\ Spoken(One(saying))
    /\ ToolsSettled(One(blocks), calls) /\ ToolsSettled(AnswersOf(messages), calls)
    /\ messages \in Seq(Messages) /\ ResultsSound(AnswersOf(messages), calls)
    /\ \A type \in TextLike :
            OrderSound(Reading(One(blocks), type), Reading(AnswersOf(messages), type),
                       Reading(One(saying), type), calls, last)

(* A text that is said goes on in the last block that is read of its type.     *)
LastOf(blocks, id, type) ==
    \A i \in WithId(blocks, id) :
        \A j \in DOMAIN blocks : j > i => Marks(blocks[j], type) = <<>>

ReadInv ==
    /\ parts \in Seq(Parts) /\ (phase # "saying" => parts = <<>>)
    /\ entries \in Seq(Entries)
    /\ phase = "saying" =>
        /\ \A e \in DOMAIN tools : tools[e].state = "ended"
        /\ \A type \in TextLike :
                live.key[type] # None => LastOf(live.blocks, live.key[type], type)
    /\ phase = "tools" => CallsListed(NormalizeMessages(entries), tools)
    /\ live.id > 0 /\ (phase # "idle" /\ ~live.open => seen = NoMessage)
    /\ phase # "idle" =>
            TurnSound(live.blocks, NormalizeMessages(entries), parts, tools, deltas)
    /\ HistoryShowsTheTurn
===============================================================================
