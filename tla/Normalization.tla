------------------------------ MODULE Normalization ------------------------------
(***************************************************************************)
(* From a session's entries to the messages a browser shows.               *)
(*                                                                         *)
(* An entry of an assistant has parts: texts, thoughts and tool calls.  Of *)
(* a tool call, `of` names the execution it is about; `tool` is the id the *)
(* provider gave it, or None.  Formatting, names, inputs and times are     *)
(* left out, and so is the cut of a long result.                           *)
(***************************************************************************)
EXTENDS Integers, Sequences, FiniteSets, FiniteSetsExt, SequencesExt

CONSTANTS None

-------------------------------------------------------------------------------
(* Entries and parts *)

TextLike == {"text", "thinking"}

Part(type, content) == [type |-> type, content |-> content, tool |-> None, of |-> {}]
CallPart(tool, e) == [type |-> "tool_call", content |-> <<>>, tool |-> tool, of |-> {e}]

UserEntry == [role |-> "user", parts |-> <<Part("text", <<>>)>>]
AssistantEntry(parts) == [role |-> "assistant", parts |-> parts]
ResultEntry(tool, e, error) ==
    [role |-> "toolResult", tool |-> tool, of |-> {e}, error |-> error]
CompactionEntry == [role |-> "compaction"]

-------------------------------------------------------------------------------
(* Blocks *)

Block(id, type, tool, of, content, status) ==
    [id |-> id, type |-> type, tool |-> tool, of |-> of, content |-> content, status |-> status]

Final == <<<<0, 0>>>>               \* the content of a complete tool result

StatusOf(error) == IF error THEN "error" ELSE "completed"

(* findToolCallBlock *)
CallBlocks(blocks, tool) ==
    {i \in DOMAIN blocks : blocks[i].type = "tool_call" /\ blocks[i].tool = tool}

(* areSameToolBlock *)
SameToolBlock(b, c) ==
    b.type = c.type /\ b.type \notin TextLike /\ b.tool = c.tool

(* The block replaces the first one at one of the indices, or is the last. *)
Placed(blocks, indices, block) ==
    IF indices = {} THEN Append(blocks, block)
    ELSE [blocks EXCEPT ![Min(indices)] = block]

(* upsertBlock, upsertMessageBlock *)
Upserted(blocks, block) ==
    Placed(blocks, {i \in DOMAIN blocks : blocks[i].id = block.id
                                          \/ SameToolBlock(blocks[i], block)}, block)

-------------------------------------------------------------------------------
(* normalizeMessages *)

Numbered(tool, n) == IF tool = None THEN <<"tool", n>> ELSE tool

(* normalizeContentPart, of the parts whose shape it knows *)
NormalizeContentPart(part, host, i) ==
    IF part.type \in TextLike
    THEN Block(<<host, part.type, i>>, part.type, None, {}, part.content, "none")
    ELSE LET tool == Numbered(part.tool, i)
         IN  Block(<<host, "call", tool>>, "tool_call", tool, part.of, <<>>, "completed")

NormalizeContent(parts, host) ==
    IF parts = <<>> THEN <<Block(<<host, "text", 0>>, "text", None, {}, <<>>, "none")>>
    ELSE [i \in DOMAIN parts |-> NormalizeContentPart(parts[i], host, i - 1)]

Shown(role, host, blocks) == [role |-> role, id |-> host, blocks |-> blocks]

(* appendToolResultToMessage *)
AppendToolResult(message, entry, index) ==
    LET tool == Numbered(entry.tool, index)
        callId == <<message.id, "call", tool>>
        resultId == <<message.id, "result", tool>>
        at == CallBlocks(message.blocks, tool)
        call == IF at = {}
                THEN Block(callId, "tool_call", tool, entry.of, <<>>, StatusOf(entry.error))
                ELSE [message.blocks[Min(at)] EXCEPT !.id = callId,
                                                     !.status = StatusOf(entry.error)]
        called == Placed(message.blocks, at, call)
        result == Block(resultId, "tool_result", tool, entry.of, Final, StatusOf(entry.error))
    IN  [message EXCEPT !.blocks =
            Placed(called, {i \in DOMAIN called : called[i].id = resultId}, result)]

(* lastAssistant: the last message, unless a user or a compaction ended its turn *)
HasAssistant(messages) == messages # <<>> /\ Last(messages).role = "assistant"

WithLast(messages, message) == Append(Front(messages), message)

NormalizeMerging(messages, entry, index) ==
    CASE entry.role = "compaction" ->
            Append(messages, Shown("system", index, <<>>))
      [] entry.role = "toolResult" ->
            IF HasAssistant(messages)
            THEN WithLast(messages, AppendToolResult(Last(messages), entry, index))
            ELSE Append(messages,
                        AppendToolResult(Shown("assistant", index, <<>>), entry, index))
      [] entry.role = "assistant" /\ HasAssistant(messages) ->
            WithLast(messages, [Last(messages) EXCEPT !.blocks =
                                    @ \o NormalizeContent(entry.parts, index)])
      [] OTHER ->
            Append(messages, Shown(entry.role, index, NormalizeContent(entry.parts, index)))

NormalizeMessages(entries) ==
    LET upTo[n \in 0..Len(entries)] ==
            IF n = 0 THEN <<>> ELSE NormalizeMerging(upTo[n - 1], entries[n], n - 1)
    IN  upTo[Len(entries)]

-------------------------------------------------------------------------------
(* renderedBlocks of a message's component *)

Results(blocks, tool) ==
    {i \in DOMAIN blocks : blocks[i].type = "tool_result" /\ blocks[i].tool = tool}

Rendered(type, tool, of, content, status, result) ==
    [type |-> type, tool |-> tool, of |-> of, content |-> content,
     status |-> status, result |-> result]

RenderedBlock(blocks, b) ==
    LET results == Results(blocks, b.tool)
        result == blocks[Max(results)]
    IN  CASE b.type = "tool_call" /\ results # {} ->
                Rendered("tool", b.tool, b.of, <<>>,
                         IF result.status = "error" THEN "error" ELSE b.status, result.of)
          [] b.type = "tool_call" /\ results = {} ->
                Rendered("tool", b.tool, b.of, <<>>, b.status, {})
          [] b.type = "tool_result" ->
                Rendered("tool", b.tool, {}, <<>>, b.status, b.of)
          [] OTHER -> Rendered(b.type, None, {}, b.content, "none", {})

(* A result is shown with its call; every other block is rendered where it is. *)
ShownWithCall(blocks, b) == b.type = "tool_result" /\ CallBlocks(blocks, b.tool) # {}

RenderedBlocks(blocks) ==
    [i \in {i \in DOMAIN blocks : ~ShownWithCall(blocks, blocks[i])} |->
        RenderedBlock(blocks, blocks[i])]
===============================================================================
